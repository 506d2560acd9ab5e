------------------------------ MODULE DeskProofs ------------------------------
(***************************************************************************)
(* Proofs about what the user works with: the automation harness, for any  *)
(* number of clients, requests and dialogs (Automation), the visual        *)
(* selection, for any number of threads, rows of a page and revisions of   *)
(* the database (VisualSelection), and the key router, for any keys        *)
(* pressed and any bound of the counts (Keyboard).                         *)
(***************************************************************************)
EXTENDS Automation, VisualSelection, Keyboard, FiniteSetTheorems, TLAPS

(***************************************************************************)
(* The gates.  What every command promises by its class: the arms that     *)
(* start work are of the class that guards this work, those that end the   *)
(* program hold it, and what passes an open confirmation only reads.       *)
(***************************************************************************)
Effects == {"read", "edit", "close", "tag", "sync", "send", "replace", "save", "exit", "key",
            "respond"}

SoundProfile(p) ==
  /\ p.effect \in Effects
  /\ p.effect = "tag" => p.op = "Tag"
  /\ p.effect = "send" => p.op = "Send"
  /\ p.effect = "sync" => p.op = "ExternalSync"
  /\ p.effect = "respond" => p.op = "ConfirmationControl"
  /\ p.effect = "key" => p.op = "FixtureOnly"
  /\ p.effect \in {"exit", "key"} => p.held
  /\ p.readOnly => p.effect \in {"read", "respond"}

(* What has to be looked up for one arm. *)
SoundArm(name, effect) ==
  /\ effect \in Effects
  /\ effect = "tag" => Operation(<<name, "">>) = "Tag"
  /\ effect = "send" => Operation(<<name, "">>) = "Send"
  /\ effect = "sync" => Operation(<<name, "">>) = "ExternalSync"
  /\ effect = "respond" => Operation(<<name, "">>) = "ConfirmationControl"
  /\ effect = "exit" => name = "click_exit"
  /\ effect = "key" => name = "send_key"
  /\ effect \notin {"read", "respond"} => name \notin AllowedWhilePending

LEMMA ReadingArm ==
  ASSUME NEW name
  PROVE  SoundArm(name, "read")
  BY DEF SoundArm, Effects

LEMMA ChangingArm ==
  ASSUME NEW name, NEW effect \in {"edit", "close", "replace", "save"}, name \notin AllowedWhilePending
  PROVE  SoundArm(name, effect)
  BY DEF SoundArm, Effects

TagCommands ==
  {"archive_selected", "mark_read_selected", "mark_unread_selected", "flag_selected",
   "unflag_selected", "trash_selected", "spam_selected", "click_message_tag_action",
   "add_custom_tag_from_entry", "remove_custom_tag_from_entry", "tag_selected",
   "add_tag_selected", "remove_tag_selected", "undo_last_tag"}

LEMMA TagArm ==
  ASSUME NEW name \in TagCommands
  PROVE  SoundArm(name, "tag")
  <1>1. Operation(<<name, "">>) = "Tag"
    BY DEF Operation, TagCommands
  <1>2. name \notin AllowedWhilePending
    BY DEF AllowedWhilePending, TagCommands
  <1> QED
    BY <1>1, <1>2 DEF SoundArm, Effects

LEMMA OtherArms ==
  /\ SoundArm("run_manual_sync", "sync") /\ SoundArm("compose_send", "send")
  /\ SoundArm("respond_confirmation", "respond") /\ SoundArm("click_exit", "exit")
  /\ SoundArm("send_key", "key")
  <1>1. /\ Operation(<<"run_manual_sync", "">>) = "ExternalSync" /\ Operation(<<"compose_send", "">>) = "Send"
        /\ Operation(<<"respond_confirmation", "">>) = "ConfirmationControl"
    BY DEF Operation
  <1>2. {"run_manual_sync", "compose_send", "click_exit", "send_key"} \cap AllowedWhilePending = {}
    BY DEF AllowedWhilePending
  <1> QED
    BY <1>1, <1>2 DEF SoundArm, Effects

LEMMA StatusArmsSound == \A arm \in StatusArms : SoundArm(arm[1], arm[2])
  BY ReadingArm DEF StatusArms, All

LEMMA FixtureArmsSound == \A arm \in FixtureArms : SoundArm(arm[1], arm[2])
  <1>1. \A arm \in FixtureArms :
          \/ arm[2] \in {"edit"} /\ arm[1] \notin AllowedWhilePending
    BY DEF FixtureArms, All, AllowedWhilePending
  <1> QED
    BY <1>1, ReadingArm, ChangingArm, TagArm, OtherArms

LEMMA WindowArmsSound == \A arm \in WindowArms : SoundArm(arm[1], arm[2])
  <1>1. \A arm \in WindowArms :
          \/ arm[2] = "read"
          \/ arm[2] \in {"edit", "close"} /\ arm[1] \notin AllowedWhilePending
          \/ arm[2] = "exit" /\ arm[1] = "click_exit"
          \/ arm[2] = "key" /\ arm[1] = "send_key"
    BY DEF WindowArms, All, AllowedWhilePending
  <1> QED
    BY <1>1, ReadingArm, ChangingArm, TagArm, OtherArms

LEMMA SearchArmsSound == \A arm \in SearchArms : SoundArm(arm[1], arm[2])
  <1>1. \A arm \in SearchArms :
          \/ arm[2] = "read"
          \/ arm[2] \in {"edit"} /\ arm[1] \notin AllowedWhilePending
    BY DEF SearchArms, All, AllowedWhilePending
  <1> QED
    BY <1>1, ReadingArm, ChangingArm, TagArm, OtherArms

LEMMA SavedArmsSound == \A arm \in SavedArms : SoundArm(arm[1], arm[2])
  <1>1. \A arm \in SavedArms :
          \/ arm[2] = "read"
          \/ arm[2] \in {"edit"} /\ arm[1] \notin AllowedWhilePending
    BY DEF SavedArms, All, AllowedWhilePending
  <1> QED
    BY <1>1, ReadingArm, ChangingArm, TagArm, OtherArms

LEMMA SelectArmsSound == \A arm \in SelectArms : SoundArm(arm[1], arm[2])
  <1>1. \A arm \in SelectArms :
          \/ arm[2] \in {"edit"} /\ arm[1] \notin AllowedWhilePending
    BY DEF SelectArms, All, AllowedWhilePending
  <1> QED
    BY <1>1, ReadingArm, ChangingArm, TagArm, OtherArms

LEMMA StandaloneArmsSound == \A arm \in StandaloneArms : SoundArm(arm[1], arm[2])
  <1>1. \A arm \in StandaloneArms :
          \/ arm[2] = "read"
          \/ arm[2] \in {"edit", "replace"} /\ arm[1] \notin AllowedWhilePending
    BY DEF StandaloneArms, All, AllowedWhilePending
  <1> QED
    BY <1>1, ReadingArm, ChangingArm, TagArm, OtherArms

LEMMA MessageTagArmsSound == \A arm \in MessageTagArms : SoundArm(arm[1], arm[2])
  <1>1. \A arm \in MessageTagArms :
          \/ arm[2] = "read"
          \/ arm[2] \in {"edit"} /\ arm[1] \notin AllowedWhilePending
          \/ arm[2] = "tag" /\ arm[1] \in TagCommands
    BY DEF MessageTagArms, All, AllowedWhilePending, TagCommands
  <1> QED
    BY <1>1, ReadingArm, ChangingArm, TagArm, OtherArms

LEMMA TagArmsSound == \A arm \in TagArms : SoundArm(arm[1], arm[2])
  <1>1. \A arm \in TagArms :
          \/ arm[2] \in {"edit"} /\ arm[1] \notin AllowedWhilePending
          \/ arm[2] = "tag" /\ arm[1] \in TagCommands
    BY DEF TagArms, All, AllowedWhilePending, TagCommands
  <1> QED
    BY <1>1, ReadingArm, ChangingArm, TagArm, OtherArms

LEMMA CustomTagArmsSound == \A arm \in CustomTagArms : SoundArm(arm[1], arm[2])
  <1>1. \A arm \in CustomTagArms :
          \/ arm[2] = "read"
          \/ arm[2] \in {"replace"} /\ arm[1] \notin AllowedWhilePending
          \/ arm[2] = "tag" /\ arm[1] \in TagCommands
          \/ arm[2] = "sync" /\ arm[1] = "run_manual_sync"
    BY DEF CustomTagArms, All, AllowedWhilePending, TagCommands
  <1> QED
    BY <1>1, ReadingArm, ChangingArm, TagArm, OtherArms

LEMMA ComposeArmsSound == \A arm \in ComposeArms : SoundArm(arm[1], arm[2])
  <1>1. \A arm \in ComposeArms :
          \/ arm[2] = "read"
          \/ arm[2] \in {"edit"} /\ arm[1] \notin AllowedWhilePending
    BY DEF ComposeArms, All, AllowedWhilePending
  <1> QED
    BY <1>1, ReadingArm, ChangingArm, TagArm, OtherArms

LEMMA DraftArmsSound == \A arm \in DraftArms : SoundArm(arm[1], arm[2])
  <1>1. \A arm \in DraftArms :
          \/ arm[2] = "read"
          \/ arm[2] \in {"replace", "save", "edit"} /\ arm[1] \notin AllowedWhilePending
          \/ arm[2] = "respond" /\ arm[1] = "respond_confirmation"
    BY DEF DraftArms, All, AllowedWhilePending
  <1> QED
    BY <1>1, ReadingArm, ChangingArm, TagArm, OtherArms

LEMMA ResponseArmsSound == \A arm \in ResponseArms : SoundArm(arm[1], arm[2])
  <1>1. \A arm \in ResponseArms :
          \/ arm[2] \in {"replace", "edit"} /\ arm[1] \notin AllowedWhilePending
          \/ arm[2] = "send" /\ arm[1] = "compose_send"
    BY DEF ResponseArms, All, AllowedWhilePending
  <1> QED
    BY <1>1, ReadingArm, ChangingArm, TagArm, OtherArms

LEMMA ViewArmsSound == \A arm \in ViewArms : SoundArm(arm[1], arm[2])
  <1>1. \A arm \in ViewArms :
          \/ arm[2] = "read"
          \/ arm[2] \in {"edit"} /\ arm[1] \notin AllowedWhilePending
    BY DEF ViewArms, All, AllowedWhilePending
  <1> QED
    BY <1>1, ReadingArm, ChangingArm, TagArm, OtherArms

LEMMA ImageArmsSound == \A arm \in ImageArms : SoundArm(arm[1], arm[2])
  <1>1. \A arm \in ImageArms :
          \/ arm[2] = "read"
          \/ arm[2] \in {"edit"} /\ arm[1] \notin AllowedWhilePending
    BY DEF ImageArms, All, AllowedWhilePending
  <1> QED
    BY <1>1, ReadingArm, ChangingArm, TagArm, OtherArms

LEMMA ListArmsSound == \A arm \in ListArms : SoundArm(arm[1], arm[2])
  <1>1. \A arm \in ListArms :
          \/ arm[2] = "read"
          \/ arm[2] \in {"edit"} /\ arm[1] \notin AllowedWhilePending
    BY DEF ListArms, All, AllowedWhilePending
  <1> QED
    BY <1>1, ReadingArm, ChangingArm, TagArm, OtherArms

LEMMA AttachmentArmsSound == \A arm \in AttachmentArms : SoundArm(arm[1], arm[2])
  <1>1. \A arm \in AttachmentArms :
          \/ arm[2] = "read"
          \/ arm[2] \in {"edit"} /\ arm[1] \notin AllowedWhilePending
    BY DEF AttachmentArms, All, AllowedWhilePending
  <1> QED
    BY <1>1, ReadingArm, ChangingArm, TagArm, OtherArms

LEMMA ArmsSound == \A arm \in Arms : SoundArm(arm[1], arm[2])
  BY StatusArmsSound, FixtureArmsSound, WindowArmsSound, SearchArmsSound, SavedArmsSound,
     SelectArmsSound, StandaloneArmsSound, MessageTagArmsSound, TagArmsSound, CustomTagArmsSound,
     ComposeArmsSound, DraftArmsSound, ResponseArmsSound, ViewArmsSound, ImageArmsSound,
     ListArmsSound, AttachmentArmsSound
     DEF Arms

(* run_command: automation_named_command_operation guards what run_named_command does. *)
LEMMA NamedSound == \A arm \in NamedArms : SoundProfile(Profile(<<"run_command", arm[1]>>, arm[2]))
  <1> SUFFICES ASSUME NEW arm \in NamedArms
               PROVE  SoundProfile(Profile(<<"run_command", arm[1]>>, arm[2]))
    OBVIOUS
  <1>1. \/ arm[2] = "tag" /\ arm[1] \in NamedTags
        \/ arm[2] = "sync" /\ arm[1] \in {"sync", "manual_sync", "run_manual_sync"}
        \/ arm[2] \in {"replace", "edit", "exit"}
    BY DEF NamedArms, All, NamedTags
  <1>2. Operation(<<"run_command", arm[1]>>) = NamedOperation(arm[1])
    BY DEF Operation
  <1>3. arm[2] = "tag" => NamedOperation(arm[1]) = "Tag"
    BY <1>1 DEF NamedOperation, NamedTags, NamedImages
  <1>4. arm[2] = "sync" => NamedOperation(arm[1]) = "ExternalSync"
    BY <1>1 DEF NamedOperation, NamedTags, NamedImages
  <1>5. "run_command" \notin AllowedWhilePending
    BY DEF AllowedWhilePending
  <1> QED
    BY <1>1, <1>2, <1>3, <1>4, <1>5 DEF SoundProfile, Profile, Effects

LEMMA ProfilesSound == \A p \in Profiles : SoundProfile(p)
  <1>1. ASSUME NEW arm \in Arms PROVE SoundProfile(Profile(<<arm[1], "">>, arm[2]))
    <2>1. SoundArm(arm[1], arm[2])
      BY ArmsSound
    <2>2. Operation(<<"send_key", "">>) = "FixtureOnly"
      BY DEF Operation
    <2> QED
      BY <2>1, <2>2 DEF SoundArm, SoundProfile, Profile
  <1>2. \A command \in HarnessCommands : SoundProfile(Profile(command[1], command[2]))
    <2> SUFFICES ASSUME NEW command \in HarnessCommands PROVE SoundProfile(Profile(command[1], command[2]))
      OBVIOUS
    <2>1. CASE \E arm \in Arms : command = <<<<arm[1], "">>, arm[2]>>
      <3>1. PICK arm \in Arms : command = <<<<arm[1], "">>, arm[2]>>
        BY <2>1
      <3>2. command[1] = <<arm[1], "">> /\ command[2] = arm[2]
        BY <3>1
      <3> QED
        BY <1>1, <3>2
    <2>2. CASE \E arm \in NamedArms : command = <<<<"run_command", arm[1]>>, arm[2]>>
      <3>1. PICK arm \in NamedArms : command = <<<<"run_command", arm[1]>>, arm[2]>>
        BY <2>2
      <3>2. command[1] = <<"run_command", arm[1]>> /\ command[2] = arm[2]
        BY <3>1
      <3> QED
        BY NamedSound, <3>2
    <2> QED
      BY <2>1, <2>2 DEF HarnessCommands
  <1> QED
    BY <1>2 DEF Profiles

-----------------------------------------------------------------------------
(***************************************************************************)
(* The harness.  A request to exit is held by a timer from                 *)
(* the moment it is accepted until its client has the response or gives    *)
(* up; numbers of requests only grow, so none waits a second time.         *)
(***************************************************************************)
Reqs == Clients \X Nat
Windows == {"open", "hidden", "flushing", "gone", "ended"}
LiveWindows == Windows \ {"ended"}
Endings == [req : Reqs, by : Effects]

AutoTypes ==
  /\ launch \in [fixture : BOOLEAN, send : BOOLEAN, tag : BOOLEAN]
  /\ dialog \in [id : 0..MaxDialogs, kind : {"none", "send", "close", "draft"}]
  /\ dialogs \in 0..MaxDialogs /\ running \subseteq Work
  /\ window \in Windows
  /\ client \in [Clients -> [n : Nat, waiting : BOOLEAN]]
  /\ requestChannel \in Seq(Reqs)
  /\ answers \subseteq Reqs /\ deferred \subseteq Reqs 
  /\ ending \subseteq Endings
  /\ watchers \subseteq [req : Reqs, kind : {"hold", "close"}]

RequestsSent ==
  /\ \A i \in 1..Len(requestChannel) : requestChannel[i][2] <= client[requestChannel[i][1]].n
  /\ \A e \in ending : e.req[2] <= client[e.req[1]].n

AnswersAwaited == \A r \in answers : Waits(r)
EndingHeld ==
  \A e \in ending : e.by \in {"exit", "key"} /\ Waits(e.req) => [req |-> e.req, kind |-> "hold"] \in watchers

AutoInv ==
  /\ AutoTypes /\ RequestsSent /\ AnswersAwaited /\ EndingHeld
  /\ OnlyPermittedWork /\ ConfirmationUndisturbed /\ ExitAnsweredFirst

LEMMA AutoInitInv == AutoInit => AutoInv
  <1> SUFFICES ASSUME AutoInit PROVE AutoInv
    OBVIOUS
  <1>1. NoDialog \in [id : 0..MaxDialogs, kind : {"none", "send", "close", "draft"}]
    BY AutomationAssumption DEF NoDialog
  <1>2. requestChannel \in Seq(Reqs) /\ Len(requestChannel) = 0
    BY DEF AutoInit
  <1>3. client \in [Clients -> [n : Nat, waiting : BOOLEAN]]
    BY DEF AutoInit
  <1>4. AutoTypes
    BY <1>1, <1>2, <1>3, AutomationAssumption DEF AutoInit, AutoTypes, Windows
  <1> QED
    BY <1>2, <1>4 DEF AutoInit, AutoInv, RequestsSent, AnswersAwaited, EndingHeld, OnlyPermittedWork,
                      ConfirmationUndisturbed, ExitAnsweredFirst

(* What a step of the program itself does to dialog, work and window. *)
DialogTypes ==
  /\ dialog \in [id : 0..MaxDialogs, kind : {"none", "send", "close", "draft"}]
  /\ dialogs \in 0..MaxDialogs

LEMMA AskTypes ==
  ASSUME DialogTypes, NEW kind \in {"send", "close", "draft"}, Asks(kind)
  PROVE  DialogTypes'
  BY AutomationAssumption DEF DialogTypes, Asks

LEMMA NoAskTypes ==
  ASSUME DialogTypes, NoAsk
  PROVE  DialogTypes'
  BY DEF DialogTypes, NoAsk

LEMMA AcceptTypes ==
  ASSUME DialogTypes, Accept \/ Reject, window \in Windows
  PROVE  /\ DialogTypes' /\ window' \in LiveWindows \cup {window}
         /\ \/ running' = running
            \/ running' = running \cup {"send"}
            \/ running' = running \cup {"save"}
  <1>1. NoDialog \in [id : 0..MaxDialogs, kind : {"none", "send", "close", "draft"}]
    BY AutomationAssumption DEF NoDialog
  <1>2. DialogTypes'
    BY <1>1 DEF DialogTypes, Accept, Reject
  <1>f. FlushesAndCloses => window' \in LiveWindows \cup {window}
    BY DEF FlushesAndCloses, LiveWindows, Windows
  <1>3. CASE Reject
    BY <1>2, <1>3 DEF Reject
  <1>4. CASE Accept
    <2>1. CASE dialog.kind = "send"
      BY <1>2, <1>4, <2>1 DEF Accept
    <2>2. CASE dialog.kind = "close"
      BY <1>2, <1>4, <1>f, <2>2 DEF Accept
    <2>3. CASE dialog.kind \notin {"send", "close"}
      BY <1>2, <1>4, <2>3 DEF Accept
    <2> QED
      BY <2>1, <2>2, <2>3
  <1> QED
    BY <1>3, <1>4

LEMMA CloseTypes ==
  ASSUME DialogTypes, WindowCloses, window \in Windows
  PROVE  DialogTypes' /\ window' \in LiveWindows \cup {window} /\ running' = running
  <1>1. CASE Asks("close") /\ UNCHANGED <<running, window>>
    BY <1>1, AskTypes
  <1>2. CASE NoAsk /\ UNCHANGED running /\ window' \in LiveWindows \cup {window}
    BY <1>2, NoAskTypes
  <1>3. FlushesAndCloses => window' \in LiveWindows \cup {window}
    BY DEF FlushesAndCloses, LiveWindows, Windows
  <1> QED
    BY <1>1, <1>2, <1>3 DEF WindowCloses, LiveWindows, Windows

(* The work a command can start, and that its class guards it. *)
Starts(p) ==
  CASE p.effect \in {"tag", "sync", "send", "save"} -> {p.effect}
    [] p.effect = "respond" -> {"send", "save"}
    [] p.effect = "key" -> {"tag", "send", "save"}
    [] OTHER -> {}

LEMMA PerformTypes ==
  ASSUME AutoTypes, NEW p, SoundProfile(p), NEW r \in Reqs, Perform(r, p)
  PROVE  /\ DialogTypes' /\ window' \in LiveWindows \cup {window}
         /\ running' = running \/ \E op \in Starts(p) : running' = running \cup {op}
         /\ \/ answers' = (IF Waits(r) THEN answers \cup {r} ELSE answers) /\ deferred' = deferred
            \/ answers' = answers /\ deferred' = deferred \cup {r}
  <1>t. DialogTypes /\ window \in Windows
    BY DEF AutoTypes, DialogTypes
  <1>r. Refused => DialogTypes' /\ running' = running
    BY <1>t, NoAskTypes DEF Refused
  <1>b. ASSUME NEW op, DialogBegins(op) PROVE DialogTypes' /\ running' = running \cup {op}
    BY <1>t, <1>b, NoAskTypes DEF DialogBegins
  <1>a. ASSUME NEW kind \in {"send", "draft"}, Asks(kind) PROVE DialogTypes'
    BY <1>t, <1>a, AskTypes
  <1>1. CASE p.effect \in {"read", "edit", "close"}
    BY <1>1, <1>r DEF Perform, Answered
  <1>2. CASE p.effect \in {"tag", "sync"}
    <2>1. (DialogBegins(p.effect) \/ Refused) /\ UNCHANGED window /\ Answered(r)
      BY <1>2 DEF Perform
    <2>2. p.effect \in Starts(p)
      BY <1>2 DEF Starts
    <2> QED
      BY <1>r, <1>b, <2>1, <2>2 DEF Answered
  <1>3. CASE p.effect = "send"
    <2>1. SendStarts /\ UNCHANGED window /\ Answered(r)
      BY <1>3 DEF Perform
    <2>2. "send" \in Starts(p)
      BY <1>3 DEF Starts
    <2> QED
      BY <1>r, <1>b, <1>a, <2>1, <2>2 DEF Answered, SendStarts
  <1>4. CASE p.effect = "replace"
    BY <1>4, <1>r, <1>a DEF Perform, Replaces, Answered
  <1>5. CASE p.effect = "save"
    <2>1. \/ SaveStarts /\ Deferred(r) /\ UNCHANGED window
          \/ (SaveAsks \/ Refused) /\ Answered(r) /\ UNCHANGED window
      BY <1>5 DEF Perform
    <2>2. "save" \in Starts(p)
      BY <1>5 DEF Starts
    <2> QED
      BY <1>r, <1>b, <1>a, <2>1, <2>2 DEF Answered, Deferred, SaveStarts, SaveAsks
  <1>6. CASE p.effect = "exit"
    BY <1>6, <1>t, CloseTypes DEF Perform, Answered
  <1>7. CASE p.effect = "respond"
    <2>1. \/ Refused /\ UNCHANGED window /\ Answered(r)
          \/ (Accept \/ Reject) /\ (Deferred(r) \/ Answered(r))
      BY <1>7 DEF Perform
    <2>2. {"send", "save"} \subseteq Starts(p)
      BY <1>7 DEF Starts
    <2> QED
      BY <1>t, <1>r, <2>1, <2>2, AcceptTypes DEF Answered, Deferred
  <1>8. CASE p.effect = "key"
    <2>1. KeyActs /\ Answered(r)
      BY <1>8 DEF Perform
    <2>2. Starts(p) = {"tag", "send", "save"}
      BY <1>8 DEF Starts
    <2>3. CASE WindowCloses
      BY <1>t, <2>1, <2>3, CloseTypes DEF Answered
    <2>4. CASE (DialogBegins("tag") \/ SaveStarts \/ SendStarts \/ Replaces) /\ UNCHANGED window
      <3>1. DialogTypes'
        BY <1>r, <1>b, <1>a, <2>4 DEF SaveStarts, SendStarts, Replaces
      <3>2. running' = running \/ \E op \in {"tag", "send", "save"} : running' = running \cup {op}
        BY <1>r, <1>b, <2>4 DEF SaveStarts, SendStarts, Replaces
      <3> QED
        BY <2>1, <2>2, <2>4, <3>1, <3>2 DEF Answered
    <2> QED
      BY <2>1, <2>3, <2>4 DEF KeyActs
  <1> QED
    BY <1>1, <1>2, <1>3, <1>4, <1>5, <1>6, <1>7, <1>8 DEF SoundProfile, Effects

LEMMA StartsPermitted ==
  ASSUME AutoTypes, NEW p, SoundProfile(p), RequestAccepted(p), NEW op \in Starts(p)
  PROVE  /\ op \in Work
         /\ op = "tag" => launch.fixture \/ launch.tag
         /\ op = "send" => launch.fixture \/ launch.send
         /\ op = "sync" => ~launch.fixture
  <1>1. \/ op \in {"tag", "sync", "send", "save"} /\ op = p.effect
        \/ op \in {"send", "save"} /\ p.effect = "respond"
        \/ op \in {"tag", "send", "save"} /\ p.effect = "key"
    <2>1. CASE p.effect \in {"tag", "sync", "send", "save"}
      <3>1. p.effect # "respond"
        BY <2>1
      <3>2. Starts(p) = {p.effect}
        BY <2>1, <3>1 DEF Starts
      <3> QED
        BY <2>1, <3>2
    <2>2. CASE p.effect = "respond"
      BY <2>2 DEF Starts
    <2>3. CASE p.effect = "key"
      BY <2>3 DEF Starts
    <2>4. CASE p.effect \notin {"tag", "sync", "send", "save", "respond", "key"}
      BY <2>4 DEF Starts
    <2> QED
      BY <2>1, <2>2, <2>3, <2>4
  <1>2. /\ op = "tag" => p.op \in {"Tag", "FixtureOnly"}
        /\ op = "sync" => p.op = "ExternalSync"
        /\ op = "send" => p.op \in {"Send", "ConfirmationControl", "FixtureOnly"}
    BY <1>1 DEF SoundProfile
  <1>3. Allowed(p)
    BY DEF RequestAccepted
  <1>4. op = "tag" => launch.fixture \/ launch.tag
    BY <1>2, <1>3 DEF Allowed
  <1>5. op = "sync" => ~launch.fixture
    BY <1>2, <1>3 DEF Allowed
  <1>6. op = "send" => launch.fixture \/ launch.send
    BY <1>2, <1>3 DEF Allowed
  <1> QED
    BY <1>1, <1>4, <1>5, <1>6 DEF Work

LEMMA BeganOp ==
  ASSUME NEW op, running' = running \cup {op}
  PROVE  Began \in {op, "none"}
  <1>1. CASE running' = running
    BY <1>1 DEF Began
  <1>2. CASE running' # running
    <2>1. \A x \in running' : x \notin running => x = op
      OBVIOUS
    <2>2. \E x \in running' : x \notin running
      BY <1>2
    <2> QED
      BY <1>2, <2>1, <2>2 DEF Began
  <1> QED
    BY <1>1, <1>2

LEMMA HandleStep ==
  ASSUME AutoInv, NEW p \in Profiles, Handle(p)
  PROVE  AutoInv'
  <1> USE DEF AutoInv
  <1> DEFINE r == Head(requestChannel)
  <1>s. SoundProfile(p)
    BY ProfilesSound
  <1>1. /\ requestChannel # <<>> /\ requestChannel' = Tail(requestChannel) /\ UNCHANGED <<launch, client>>
        /\ window # "ended"
    BY DEF Handle, Serving
  <1>2. /\ r \in Reqs /\ r[2] <= client[r[1]].n
        /\ requestChannel' \in Seq(Reqs)
        /\ \A i \in 1..Len(requestChannel') : requestChannel'[i][2] <= client[requestChannel'[i][1]].n
    <2>1. requestChannel \in Seq(Reqs) /\ Len(requestChannel) \in Nat \ {0} /\ r = requestChannel[1]
      BY <1>1 DEF AutoTypes
    <2>2. /\ Len(requestChannel') = Len(requestChannel) - 1
          /\ \A i \in 1..Len(requestChannel') :
               i + 1 \in 1..Len(requestChannel) /\ requestChannel'[i] = requestChannel[i + 1]
      BY <1>1, <2>1
    <2>3. r[2] <= client[r[1]].n
      BY <2>1 DEF RequestsSent
    <2> QED
      BY <1>1, <2>1, <2>2, <2>3 DEF RequestsSent
  <1>w. \A q \in Reqs : Waits(q)' <=> Waits(q)
    BY <1>1 DEF Waits
  <1> HIDE DEF r
  <1>3. CASE ~RequestAccepted(p)
    <2>1. /\ Refused /\ Answered(r) /\ UNCHANGED <<window, watchers, ending>>
          /\ performed' = [effect |-> "refused", began |-> "none", asked |-> dialog # NoDialog]
      BY <1>3 DEF Handle, r
    <2>2. /\ UNCHANGED <<dialog, dialogs, running, deferred>>
          /\ answers' = IF Waits(r) THEN answers \cup {r} ELSE answers
      BY <2>1 DEF Refused, NoAsk, Answered
    <2>3. AutoTypes'
      BY <1>1, <1>2, <2>1, <2>2 DEF AutoTypes
    <2>4. RequestsSent' /\ EndingHeld'
      BY <1>1, <1>2, <1>w, <2>1 DEF RequestsSent, EndingHeld, AutoTypes, Endings
    <2>5. AnswersAwaited'
      BY <1>2, <1>w, <2>2 DEF AnswersAwaited, AutoTypes
    <2>6. OnlyPermittedWork' /\ ConfirmationUndisturbed' /\ ExitAnsweredFirst'
      BY <1>1, <2>1 DEF OnlyPermittedWork, ConfirmationUndisturbed, ExitAnsweredFirst
    <2> QED
      BY <2>3, <2>4, <2>5, <2>6
  <1>4. CASE RequestAccepted(p)
    <2>1. /\ Perform(r, p)
          /\ watchers' = watchers \cup HoldFor(r, p) \cup ClosesFor(r, p)
          /\ ending' = ending \cup EndsFor(r, p)
          /\ performed' = [effect |-> p.effect, began |-> Began, asked |-> dialog # NoDialog]
      BY <1>4 DEF Handle, r
    <2>2. /\ DialogTypes' /\ window' \in LiveWindows \cup {window}
          /\ running' = running \/ \E op \in Starts(p) : running' = running \cup {op}
          /\ \/ answers' = (IF Waits(r) THEN answers \cup {r} ELSE answers) /\ deferred' = deferred
             \/ answers' = answers /\ deferred' = deferred \cup {r}
      BY <1>s, <1>2, <2>1, PerformTypes
    <2>3. running' \subseteq Work
      BY <1>4, <1>s, <2>2, StartsPermitted DEF AutoTypes
    <2>4. watchers' \subseteq [req : Reqs, kind : {"hold", "close"}] /\ watchers \subseteq watchers'
          /\ (p.effect \in {"exit", "key"} => [req |-> r, kind |-> "hold"] \in watchers')
      <3>1. HoldFor(r, p) \subseteq [req : Reqs, kind : {"hold", "close"}]
            /\ (p.effect \in {"exit", "key"} => [req |-> r, kind |-> "hold"] \in HoldFor(r, p))
        BY <1>2, <1>s DEF HoldFor, SoundProfile
      <3>2. ClosesFor(r, p) \subseteq [req : Reqs, kind : {"hold", "close"}]
        BY <1>2 DEF ClosesFor
      <3> QED
        BY <2>1, <3>1, <3>2 DEF AutoTypes
    <2>12. EndsFor(r, p) \subseteq Endings /\ \A e \in EndsFor(r, p) : e.req = r /\ e.by = p.effect
      <3>1. p.effect \in Effects
        BY <1>s DEF SoundProfile
      <3> QED
        BY <1>2, <3>1 DEF EndsFor, Endings
    <2>13. ending' \subseteq Endings
      BY <2>1, <2>12 DEF AutoTypes
    <2>5. AutoTypes'
      BY <1>1, <1>2, <2>2, <2>3, <2>4, <2>13 DEF AutoTypes, DialogTypes, LiveWindows
    <2>6. RequestsSent'
      BY <1>1, <1>2, <2>1, <2>12 DEF RequestsSent
    <2>7. EndingHeld'
      <3>1. ASSUME NEW e \in ending', e.by \in {"exit", "key"}, Waits(e.req)'
            PROVE  [req |-> e.req, kind |-> "hold"] \in watchers'
        <4>1. CASE e \in ending
          BY <1>w, <2>4, <3>1, <4>1 DEF EndingHeld, AutoTypes, Endings
        <4>2. CASE e \in EndsFor(r, p)
          BY <2>4, <2>12, <3>1, <4>2
        <4> QED
          BY <2>1, <4>1, <4>2
      <3> QED
        BY <3>1 DEF EndingHeld
    <2>8. AnswersAwaited'
      BY <1>2, <1>w, <2>2 DEF AnswersAwaited, AutoTypes
    <2>9. OnlyPermittedWork'
      <3>1. performed'.began = Began
        BY <2>1
      <3>2. CASE running' = running
        BY <1>1, <3>1, <3>2 DEF Began, OnlyPermittedWork
      <3>3. ASSUME NEW op \in Starts(p), running' = running \cup {op} PROVE OnlyPermittedWork'
        BY <1>1, <1>4, <1>s, <3>1, <3>3, BeganOp, StartsPermitted DEF OnlyPermittedWork
      <3> QED
        BY <2>2, <3>2, <3>3
    <2>10. ConfirmationUndisturbed'
      BY <1>4, <1>s, <2>1 DEF ConfirmationUndisturbed, RequestAccepted, SoundProfile
    <2>11. ExitAnsweredFirst'
      BY <1>1, <2>2 DEF ExitAnsweredFirst, LiveWindows
    <2> QED
      BY <2>5, <2>6, <2>7, <2>8, <2>9, <2>10, <2>11
  <1> QED
    BY <1>3, <1>4

(* The client threads. *)
LEMMA ClientSteps ==
  ASSUME AutoInv, NEW c \in Clients, SendRequest(c) \/ WriteResponse(c) \/ TimeOut(c)
  PROVE  AutoInv'
  <1> USE DEF AutoInv
  <1>k. UNCHANGED <<launch, dialog, dialogs, running, window, deferred, watchers, ending, performed>>
        /\ window # "ended"
    BY DEF SendRequest, WriteResponse, TimeOut, program, Serving
  <1>c. client \in [Clients -> [n : Nat, waiting : BOOLEAN]] /\ client[c] \in [n : Nat, waiting : BOOLEAN]
    BY DEF AutoTypes
  <1>4. OnlyPermittedWork' /\ ConfirmationUndisturbed' /\ ExitAnsweredFirst'
    BY <1>k DEF OnlyPermittedWork, ConfirmationUndisturbed, ExitAnsweredFirst
  <1>1. CASE SendRequest(c)
    <2> DEFINE new == <<c, client[c].n + 1>>
    <2>1. /\ client' = [client EXCEPT ![c] = [n |-> client[c].n + 1, waiting |-> TRUE]]
          /\ requestChannel' = Append(requestChannel, new) /\ answers' = answers /\ ~client[c].waiting
      BY <1>1 DEF SendRequest
    <2>2. /\ client' \in [Clients -> [n : Nat, waiting : BOOLEAN]]
          /\ client'[c].n = client[c].n + 1
          /\ \A d \in Clients : d # c => client'[d] = client[d]
      BY <1>c, <2>1
    <2>3. new \in Reqs /\ requestChannel \in Seq(Reqs) /\ Len(requestChannel) \in Nat
          /\ \A i \in 1..Len(requestChannel) : requestChannel[i] \in Reqs
      BY <1>c DEF AutoTypes, Reqs
    <2> HIDE DEF new
    <2>4. /\ requestChannel' \in Seq(Reqs) /\ Len(requestChannel') = Len(requestChannel) + 1
          /\ \A i \in 1..Len(requestChannel') :
               requestChannel'[i] = IF i = Len(requestChannel) + 1 THEN new ELSE requestChannel[i]
      BY <2>1, <2>3
    <2>5. AutoTypes'
      BY <1>k, <2>1, <2>2, <2>4 DEF AutoTypes
    <2>6. \A r \in Reqs : r[2] <= client[r[1]].n => r[2] <= client'[r[1]].n
      BY <1>c, <2>2 DEF Reqs
    <2>7. RequestsSent'
      <3>1. new[2] <= client'[new[1]].n
        BY <1>c, <2>2 DEF new
      <3>2. ASSUME NEW i \in 1..Len(requestChannel') PROVE requestChannel'[i][2] <= client'[requestChannel'[i][1]].n
        <4>1. CASE i = Len(requestChannel) + 1
          BY <2>4, <3>1, <4>1
        <4>2. CASE i # Len(requestChannel) + 1
          <5>1. i \in 1..Len(requestChannel) /\ requestChannel'[i] = requestChannel[i]
            BY <2>3, <2>4, <4>2
          <5> QED
            BY <2>3, <2>6, <5>1 DEF RequestsSent
        <4> QED
          BY <4>1, <4>2
      <3>3. \A e \in ending : e.req[2] <= client'[e.req[1]].n
        BY <2>6 DEF RequestsSent, AutoTypes, Endings
      <3> QED
        BY <1>k, <3>2, <3>3 DEF RequestsSent
    <2>8. \A r \in Reqs : r[2] <= client[r[1]].n /\ Waits(r)' => Waits(r)
      BY <1>c, <2>1, <2>2 DEF Waits, Reqs
    <2>9. EndingHeld'
      BY <1>k, <2>8 DEF EndingHeld, RequestsSent, AutoTypes, Endings
    <2>10. AnswersAwaited'
      <3>1. ASSUME NEW r \in answers PROVE Waits(r)'
        <4>1. r \in Reqs /\ r[1] \in Clients /\ r[1] # c /\ Waits(r)
          BY <2>1 DEF AnswersAwaited, AutoTypes, Reqs, Waits
        <4> QED
          BY <2>2, <4>1 DEF Waits
      <3> QED
        BY <2>1, <3>1 DEF AnswersAwaited
    <2> QED
      BY <1>4, <2>5, <2>7, <2>9, <2>10
  <1>2. CASE WriteResponse(c) \/ TimeOut(c)
    <2>1. /\ client' = [client EXCEPT ![c].waiting = FALSE] /\ requestChannel' = requestChannel
          /\ answers' \subseteq answers /\ Req(c) \notin answers'
      BY <1>2 DEF WriteResponse, TimeOut
    <2>2. /\ client' \in [Clients -> [n : Nat, waiting : BOOLEAN]]
          /\ client'[c].n = client[c].n /\ client'[c].waiting = FALSE
          /\ \A d \in Clients : d # c => client'[d] = client[d]
      BY <1>c, <2>1
    <2>3. AutoTypes'
      BY <1>k, <2>1, <2>2 DEF AutoTypes
    <2>4. \A r \in Reqs : client'[r[1]].n = client[r[1]].n
      BY <2>2 DEF Reqs
    <2>5. RequestsSent'
      <3>1. \A i \in 1..Len(requestChannel) : requestChannel[i] \in Reqs
        BY DEF AutoTypes
      <3> QED
        BY <1>k, <2>1, <2>4, <3>1 DEF RequestsSent, AutoTypes, Endings
    <2>6. \A r \in Reqs : Waits(r)' => Waits(r)
      BY <2>2 DEF Waits, Reqs
    <2>7. EndingHeld'
      BY <1>k, <2>6 DEF EndingHeld, AutoTypes, Endings
    <2>8. AnswersAwaited'
      <3>1. ASSUME NEW r \in answers' PROVE Waits(r)'
        <4>1. r \in Reqs /\ Waits(r) /\ r # Req(c)
          BY <2>1 DEF AnswersAwaited, AutoTypes
        <4>2. r = <<r[1], r[2]>> /\ r[1] \in Clients
          BY <4>1 DEF Reqs
        <4>3. r[1] # c
          BY <4>1, <4>2 DEF Waits, Req
        <4> QED
          BY <2>2, <4>1, <4>2, <4>3 DEF Waits
      <3> QED
        BY <3>1 DEF AnswersAwaited
    <2> QED
      BY <1>4, <2>3, <2>5, <2>7, <2>8
  <1> QED
    BY <1>1, <1>2

(* The program by itself, and the user. *)
LEMMA ProgramSteps ==
  ASSUME AutoInv,
         \/ \E w \in watchers : WatcherFires(w)
         \/ \E op \in Work : WorkEnds(op)
         \/ \E op \in Work : UserStarts(op)
         \/ \E kind \in {"send", "close", "draft"} : UserAsks(kind)
         \/ UserAnswers \/ FlushEnds \/ ProcessEnds
  PROVE  AutoInv'
  <1> USE DEF AutoInv
  <1>k. UNCHANGED <<launch, client, requestChannel, ending, performed>>
    BY DEF WatcherFires, WorkEnds, UserStarts, UserAsks, UserAnswers, FlushEnds, ProcessEnds, harness
  <1>w. \A q : Waits(q)' <=> Waits(q)
    BY <1>k DEF Waits
  <1>t. DialogTypes /\ window \in Windows
    BY DEF AutoTypes, DialogTypes
  <1>p. OnlyPermittedWork' /\ ConfirmationUndisturbed' /\ RequestsSent'
    BY <1>k DEF OnlyPermittedWork, ConfirmationUndisturbed, RequestsSent
  <1>1. ASSUME NEW w \in watchers, WatcherFires(w) PROVE AutoInv'
    <2>1. watchers' = watchers \ {w} /\ ~Waits(w.req) /\ UNCHANGED <<answers, deferred>> /\ window # "ended"
      BY <1>1 DEF WatcherFires, Serving
    <2>2. DialogTypes' /\ window' \in LiveWindows \cup {window} /\ running' = running
      <3>1. WindowCloses \/ UNCHANGED <<dialog, dialogs, running, window>>
        BY <1>1 DEF WatcherFires
      <3>2. CASE WindowCloses
        BY <1>t, <3>2, CloseTypes
      <3>3. CASE UNCHANGED <<dialog, dialogs, running, window>>
        BY <1>t, <3>3 DEF DialogTypes
      <3> QED
        BY <3>1, <3>2, <3>3
    <2>3. AutoTypes'
      BY <1>k, <2>1, <2>2 DEF AutoTypes, DialogTypes, LiveWindows
    <2>4. EndingHeld'
      BY <1>k, <1>w, <2>1 DEF EndingHeld
    <2>5. AnswersAwaited' /\ ExitAnsweredFirst'
      BY <1>w, <2>1, <2>2 DEF AnswersAwaited, ExitAnsweredFirst, LiveWindows
    <2> QED
      BY <1>p, <2>3, <2>4, <2>5
  <1>2. ASSUME NEW op \in Work, WorkEnds(op) PROVE AutoInv'
    <2>1. /\ running' = running \ {op} /\ answers' = answers \cup AnsweredWhenSaved(op)
          /\ deferred' \in {{}, deferred} /\ window # "ended"
          /\ watchers' = watchers
          /\ HiddenCloses \/ (NoAsk /\ UNCHANGED window)
      BY <1>2 DEF WorkEnds, Serving
    <2>5. DialogTypes' /\ window' \in LiveWindows
      <3>1. CASE NoAsk /\ FlushesAndCloses
        BY <1>t, <2>1, <3>1, NoAskTypes DEF FlushesAndCloses, LiveWindows, Windows
      <3>2. CASE Asks("close") /\ window' = "open"
        BY <1>t, <3>2, AskTypes DEF LiveWindows, Windows
      <3>3. CASE NoAsk /\ window' \in {"open", "hidden", window}
        BY <1>t, <2>1, <3>3, NoAskTypes DEF LiveWindows, Windows
      <3> QED
        BY <2>1, <3>1, <3>2, <3>3 DEF HiddenCloses
    <2>2. AnsweredWhenSaved(op) \subseteq deferred /\ \A q \in AnsweredWhenSaved(op) : Waits(q)
      BY DEF AnsweredWhenSaved
    <2>3. AutoTypes'
      BY <1>k, <2>1, <2>2, <2>5 DEF AutoTypes, DialogTypes, LiveWindows
    <2>4. EndingHeld' /\ AnswersAwaited' /\ ExitAnsweredFirst'
      BY <1>k, <1>w, <2>1, <2>2, <2>5 DEF EndingHeld, AnswersAwaited, ExitAnsweredFirst, LiveWindows
    <2> QED
      BY <1>p, <2>3, <2>4
  <1>3. CASE \/ \E op \in Work : UserStarts(op)
             \/ \E kind \in {"send", "close", "draft"} : UserAsks(kind)
             \/ UserAnswers \/ FlushEnds
    <2>1. UNCHANGED <<answers, deferred, watchers>> /\ window # "ended"
      BY <1>3 DEF UserStarts, UserAsks, UserAnswers, FlushEnds, Visible, harness
    <2>2. DialogTypes' /\ running' \subseteq Work /\ window' \in LiveWindows \cup {window}
      <3>1. ASSUME NEW op \in Work, UserStarts(op) PROVE <2>2
        BY <1>t, <3>1, NoAskTypes DEF UserStarts, DialogBegins, AutoTypes
      <3>2. ASSUME NEW kind \in {"send", "close", "draft"}, UserAsks(kind) PROVE <2>2
        BY <1>t, <3>2, AskTypes DEF UserAsks, AutoTypes
      <3>3. CASE UserAnswers
        BY <1>t, <3>3, AcceptTypes DEF UserAnswers, AutoTypes, Work
      <3>4. CASE FlushEnds
        BY <1>t, <3>4 DEF FlushEnds, AutoTypes, DialogTypes, LiveWindows, Windows
      <3> QED
        BY <1>3, <3>1, <3>2, <3>3, <3>4
    <2>3. AutoTypes'
      BY <1>k, <2>1, <2>2 DEF AutoTypes, DialogTypes, LiveWindows
    <2>4. EndingHeld' /\ AnswersAwaited' /\ ExitAnsweredFirst'
      BY <1>k, <1>w, <2>1, <2>2 DEF EndingHeld, AnswersAwaited, ExitAnsweredFirst, LiveWindows
    <2> QED
      BY <1>p, <2>3, <2>4
  <1>4. CASE ProcessEnds
    <2>1. /\ UNCHANGED <<answers, deferred, watchers, dialog, dialogs, running>> /\ window' = "ended"
          /\ \A w \in watchers : w.kind # "hold"
      BY <1>4 DEF ProcessEnds, harness
    <2>2. AutoTypes'
      BY <1>k, <2>1 DEF AutoTypes, Windows
    <2>3. \A e \in ending : e.by \in {"exit", "key"} => ~Waits(e.req)
      <3>1. ASSUME NEW e \in ending, e.by \in {"exit", "key"}, Waits(e.req) PROVE FALSE
        <4>1. [req |-> e.req, kind |-> "hold"] \in watchers
          BY <3>1 DEF EndingHeld
        <4> QED
          BY <2>1, <4>1
      <3> QED
        BY <3>1
    <2>4. EndingHeld' /\ AnswersAwaited' /\ ExitAnsweredFirst'
      BY <1>k, <1>w, <2>1, <2>3 DEF EndingHeld, AnswersAwaited, ExitAnsweredFirst
    <2> QED
      BY <1>p, <2>2, <2>4
  <1> QED
    BY <1>1, <1>2, <1>3, <1>4

LEMMA AutoInvariance == AutoSpec => []AutoInv
  <1>1. ASSUME AutoInv, [AutoNext]_autoVars PROVE AutoInv'
    <2>1. CASE UNCHANGED autoVars
      BY <1>1, <2>1 DEF autoVars, AutoInv, AutoTypes, RequestsSent, AnswersAwaited, EndingHeld,
                        OnlyPermittedWork, ConfirmationUndisturbed, ExitAnsweredFirst, Waits
    <2>2. CASE AutoNext
      BY <1>1, <2>2, HandleStep, ClientSteps, ProgramSteps DEF AutoNext, PollRequests
    <2> QED
      BY <1>1, <2>1, <2>2
  <1> QED
    BY <1>1, AutoInitInv, PTL DEF AutoSpec

(* Type correctness; every response on its way is still waited for. *)
THEOREM AutoTypeCorrect == AutoSpec => []AutoTypeOK
  <1>1. AutoInv => AutoTypeOK
    BY DEF AutoInv, AutoTypes, Windows, AnswersAwaited, AutoTypeOK
  <1> QED
    BY <1>1, AutoInvariance, PTL

(***************************************************************************)
(* ensure_automation_request_allowed: of all commands and palette names,   *)
(* none starts tag changes, a send or a sync that the launch options do    *)
(* not permit, for any number of clients and whatever the user does.       *)
(***************************************************************************)
THEOREM HarnessStaysWithinPermission == AutoSpec => []OnlyPermittedWork
  <1>1. AutoInv => OnlyPermittedWork
    BY DEF AutoInv
  <1> QED
    BY <1>1, AutoInvariance, PTL

(***************************************************************************)
(* automation_command_allowed_while_confirmation_pending lets no command   *)
(* through that changes anything but the confirmation.                     *)
(***************************************************************************)
THEOREM HarnessLeavesConfirmation == AutoSpec => []ConfirmationUndisturbed
  <1>1. AutoInv => ConfirmationUndisturbed
    BY DEF AutoInv
  <1> QED
    BY <1>1, AutoInvariance, PTL

(***************************************************************************)
(* hold_application_for_harness_response: the process outlives the         *)
(* response to every request to exit, be it click_exit, a palette name or  *)
(* a key, whatever dialogs, work and failing flushes come between.  Of the *)
(* request that accepts the confirmation of a close this is not so, see    *)
(* AnsweredBeforeEnd.                                                      *)
(***************************************************************************)
THEOREM EndWaitsForAnswer == AutoSpec => []ExitAnsweredFirst
  <1>1. AutoInv => ExitAnsweredFirst
    BY DEF AutoInv
  <1> QED
    BY <1>1, AutoInvariance, PTL

(***************************************************************************)
(* Visual selection.  Beside the types, the invariant says what the worker *)
(* has read of a range so far, what a page load was asked for, and that    *)
(* when a located page is in place the message pane is empty, so that the  *)
(* remembered selection, whose range may never have been resolved, is not  *)
(* put back as it was.                                                     *)
(***************************************************************************)
VisualSelections ==
  [on : BOOLEAN, anchor : Rows \cup {None}, cursor : Rows \cup {None},
   chosen : SUBSET ListedThreads, pending : BOOLEAN]
PageLoads ==
  [kind : {"search", "locate", "more"}, target : Nat, off : Nat, read : BOOLEAN, rev : Nat,
   applied : BOOLEAN, visual : BOOLEAN, keep : VisualSelections, meant : SUBSET ListedThreads,
   asked : Nat, newest : BOOLEAN]
RangeRequests ==
  [state : {"none", "open", "page", "done", "failed", "dropped"}, anchor : Rows \cup {None},
   cursor : Rows \cup {None}, rev : Nat, opened : Nat, next : Nat, got : SUBSET ListedThreads]

WindowFits(v) ==
  /\ v \in [off : Rows, rows : Seq(ListedThreads), rev : Nat, cur : Rows \cup {None}]
  /\ Len(v.rows) >= 1 /\ v.off + Len(v.rows) <= Total
  /\ v.cur # None => v.cur < Len(v.rows)
SelectionFits(s) == s \in VisualSelections /\ (s.on <=> s.anchor # None)

VisualTypes ==
  /\ revision \in 0..MaxRevision
  /\ WindowFits(view) /\ view.rev <= revision
  /\ SelectionFits(vis)
  /\ range \in RangeRequests
  /\ page \in PageLoads \cup {NoPage} /\ (page # NoPage => SelectionFits(page.keep))
  /\ preview \in [shown : ListedThreads \cup {None}, wanted : ListedThreads \cup {None}]
  /\ meant \subseteq ListedThreads

ChosenIsMeant == vis.on /\ ~vis.pending => vis.chosen = meant

RangeThreads == {ThreadAt(range.rev, i) : i \in Span(range.anchor, range.cursor)}
ReadThreads ==
  {ThreadAt(range.rev, i) : i \in {j \in Span(range.anchor, range.cursor) : j < range.next}}
RangeFollows ==
  /\ range.state \in {"open", "page", "done"} => range.anchor \in Rows /\ range.cursor \in Rows
  /\ range.state = "open" => range.got = {}
  /\ range.state = "page" => range.opened = range.rev /\ range.got = ReadThreads
  /\ range.state = "done" => range.got = RangeThreads

PageFollows ==
  page # NoPage =>
    /\ page.rev <= revision
    /\ page.kind = "search" => page.off = 0
    /\ page.kind = "locate" => /\ page.target \in Rows /\ page.off <= page.target
                               /\ page.target < page.off + PageSize
    /\ page.kind = "more" /\ ~page.applied => /\ page.off = view.off + Len(view.rows)
                                              /\ page.off < Total
    /\ page.kind = "locate" /\ page.applied => /\ InWindow(view, page.target)
                                               /\ preview.shown = None

VisualInv == VisualTypes /\ ChosenIsMeant /\ RangeFollows /\ PageFollows

(* The multiple of p below i, for a quotient that has a name. *)
LEMMA Division ==
  ASSUME NEW i \in Nat, NEW p \in Nat, NEW q \in Nat, p > 0, q = i \div p
  PROVE  q * p \in Nat /\ q * p <= i /\ i < q * p + p
  <1>1. q * p <= i
    BY SMTT(20)
  <1>2. i < q * p + p
    BY SMTT(20)
  <1>3. q * p \in Nat
    OBVIOUS
  <1> QED
    BY <1>1, <1>2, <1>3

LEMMA PositionsFit ==
  /\ \A i \in Nat : PageOf(i) \in Nat /\ PageOf(i) <= i /\ i < PageOf(i) + PageSize
  /\ \A r, i \in Nat : ThreadAt(r, i) \in ListedThreads
  /\ None \notin ListedThreads /\ None \in Nat /\ Rows \subseteq Nat
  <1>1. PageSize \in Nat /\ PageSize > 0 /\ Total \in Nat \ {0}
    BY VisualAssumption
  <1>2. ASSUME NEW i \in Nat
        PROVE  PageOf(i) \in Nat /\ PageOf(i) <= i /\ i < PageOf(i) + PageSize
    <2>1. PICK q \in Nat : q = i \div PageSize
      BY <1>1
    <2>2. PageOf(i) = q * PageSize
      BY <2>1 DEF PageOf
    <2> QED
      BY <1>1, <2>1, <2>2, Division
  <1>3. ASSUME NEW r \in Nat, NEW i \in Nat PROVE ThreadAt(r, i) \in ListedThreads
    BY <1>1 DEF ThreadAt, ListedThreads
  <1> QED
    BY <1>1, <1>2, <1>3 DEF None, ListedThreads, Rows

(* A page of the results is not empty and ends with the results. *)
LEMMA PageFits ==
  ASSUME NEW r \in Nat, NEW off \in Rows
  PROVE  /\ PageAt(r, off) \in Seq(ListedThreads)
         /\ Len(PageAt(r, off)) = Lower(PageSize, Total - off)
         /\ Len(PageAt(r, off)) >= 1 /\ off + Len(PageAt(r, off)) <= Total
         /\ \A i \in Rows : off <= i /\ i < off + PageSize => i - off < Len(PageAt(r, off))
  <1> DEFINE n == Lower(PageSize, Total - off)
  <1>1. n \in Nat /\ n >= 1 /\ off + n <= Total
        /\ \A i \in Rows : off <= i /\ i < off + PageSize => i - off < n
    BY VisualAssumption DEF Lower, Rows
  <1>2. PageAt(r, off) = [k \in 1..n |-> ThreadAt(r, off + k - 1)]
    BY DEF PageAt
  <1> HIDE DEF n
  <1>3. \A k \in 1..n : ThreadAt(r, off + k - 1) \in ListedThreads
    <2> TAKE k \in 1..n
    <2>1. off + k - 1 \in Nat
      BY <1>1 DEF Rows
    <2> QED
      BY <2>1, PositionsFit
  <1>4. PageAt(r, off) \in Seq(ListedThreads) /\ Len(PageAt(r, off)) = n
    BY <1>1, <1>2, <1>3
  <1> QED
    BY <1>1, <1>4 DEF n

LEMMA SpanFits ==
  ASSUME NEW a \in Rows, NEW b \in Rows
  PROVE  /\ Span(a, b) \subseteq Rows /\ Lower(a, b) \in Rows
         /\ \A i \in Span(a, b) : Lower(a, b) <= i
  BY VisualAssumption DEF Span, Lower, Rows

LEMMA ShownFit ==
  ASSUME NEW v, v.rows \in Seq(ListedThreads), NEW a, NEW b
  PROVE  ShownRows(v, a, b) \subseteq ListedThreads
  BY DEF ShownRows

(* The selection after a move of its cursor, and what it means. *)
LEMMA ExtendedFits ==
  ASSUME NEW v, WindowFits(v), NEW s, SelectionFits(s), NEW k \in 0..(Len(v.rows) - 1)
  PROVE  /\ SelectionFits(Extended(v, s, k)) /\ Extended(v, s, k).on
         /\ Extended(v, s, k).anchor \in Rows /\ Extended(v, s, k).cursor \in Rows
         /\ Extended(v, s, k).cursor = v.off + k
  <1>1. v.off \in Rows /\ v.rows \in Seq(ListedThreads) /\ Len(v.rows) \in Nat
        /\ v.off + Len(v.rows) <= Total
    BY DEF WindowFits
  <1>2. v.off + k \in Rows /\ v.off + k # None
    BY <1>1, VisualAssumption DEF Rows, None
  <1> DEFINE c == v.off + k
             a == IF s.anchor = None THEN c ELSE s.anchor
             ch == ShownRows(v, a, c)
             p == ~(InWindow(v, a) /\ InWindow(v, c))
  <1>3. a \in Rows /\ a # None
    BY <1>2 DEF SelectionFits, VisualSelections
  <1>4. ch \subseteq ListedThreads
    BY <1>1, ShownFit
  <1>5. p \in BOOLEAN
    OBVIOUS
  <1>6. Extended(v, s, k) = [on |-> TRUE, anchor |-> a, cursor |-> c, chosen |-> ch, pending |-> p]
    BY DEF Extended
  <1> HIDE DEF a, ch, p
  <1>7. Extended(v, s, k) \in VisualSelections
    BY <1>2, <1>3, <1>4, <1>5, <1>6 DEF VisualSelections
  <1> QED
    BY <1>2, <1>3, <1>6, <1>7 DEF SelectionFits

LEMMA RequestedFits ==
  ASSUME NEW v, v.rev \in Nat, NEW s \in VisualSelections, s.anchor \in Rows, s.cursor \in Rows
  PROVE  /\ Requested(v, s) \in RangeRequests
         /\ Requested(v, s).state \in {"none", "open"} /\ Requested(v, s).got = {}
         /\ Requested(v, s).state = "open"
              => Requested(v, s).anchor \in Rows /\ Requested(v, s).cursor \in Rows
         /\ Meant(v, s) \subseteq ListedThreads
         /\ ~s.pending => Meant(v, s) = s.chosen
  <1>1. CASE s.pending
    <2>1. Requested(v, s) = [state |-> "open", anchor |-> s.anchor, cursor |-> s.cursor,
                             rev |-> v.rev, opened |-> 0, next |-> 0, got |-> {}]
      BY <1>1 DEF Requested, NoRange
    <2>2. \A i \in Span(s.anchor, s.cursor) : ThreadAt(v.rev, i) \in ListedThreads
      BY PositionsFit, SpanFits
    <2>3. Meant(v, s) \subseteq ListedThreads
      BY <1>1, <2>2 DEF Meant
    <2> QED
      BY <1>1, <2>1, <2>3 DEF RangeRequests
  <1>2. CASE ~s.pending
    <2>1. Requested(v, s) = NoRange /\ Meant(v, s) = s.chosen
      BY <1>2 DEF Requested, Meant
    <2> QED
      BY <2>1 DEF NoRange, RangeRequests, VisualSelections
  <1> QED
    BY <1>1, <1>2

(* What a row's selection leaves behind.  A selection whose rows may not be *)
(* what it means is only handed over while the message pane is empty.       *)
LEMMA SelectRowFits ==
  ASSUME range \in RangeRequests, RangeFollows,
         preview \in [shown : ListedThreads \cup {None}, wanted : ListedThreads \cup {None}],
         NEW v, WindowFits(v), NEW s, SelectionFits(s), NEW m, m \subseteq ListedThreads,
         NEW k \in 0..(Len(v.rows) - 1),
         preview.shown = None \/ (s.on /\ ~s.pending => s.chosen = m),
         SelectRow(v, s, m, k)
  PROVE  /\ WindowFits(view') /\ view'.off = v.off /\ view'.rows = v.rows /\ view'.rev = v.rev
         /\ SelectionFits(vis') /\ range' \in RangeRequests /\ meant' \subseteq ListedThreads
         /\ preview' \in [shown : ListedThreads \cup {None}, wanted : ListedThreads \cup {None}]
         /\ vis'.on /\ ~vis'.pending => vis'.chosen = meant'
         /\ RangeFollows'
  <1>1. v.rows \in Seq(ListedThreads) /\ Len(v.rows) \in Nat /\ v.rev \in Nat
        /\ v.off \in Rows /\ v.off + Len(v.rows) <= Total
    BY DEF WindowFits
  <1>2. v.rows[k + 1] \in ListedThreads /\ v.rows[k + 1] # None
    <2>1. k + 1 \in 1..Len(v.rows)
      BY <1>1
    <2>2. v.rows[k + 1] \in ListedThreads
      BY <1>1, <2>1
    <2> QED
      BY <2>2, PositionsFit
  <1>3. WindowFits(view') /\ view'.off = v.off /\ view'.rows = v.rows /\ view'.rev = v.rev
    <2>1. k \in Rows /\ k < Len(v.rows)
      BY <1>1, VisualAssumption DEF Rows
    <2>2. view' = [v EXCEPT !.cur = k]
      BY DEF SelectRow
    <2>3. view' \in [off : Rows, rows : Seq(ListedThreads), rev : Nat, cur : Rows \cup {None}]
      BY <2>1, <2>2 DEF WindowFits
    <2>4. view'.off = v.off /\ view'.rows = v.rows /\ view'.rev = v.rev /\ view'.cur = k
      BY <2>2 DEF WindowFits
    <2> QED
      BY <2>1, <2>3, <2>4 DEF WindowFits
  <1>4. preview' \in [shown : ListedThreads \cup {None}, wanted : ListedThreads \cup {None}]
    BY <1>2 DEF SelectRow
  <1>5. CASE preview.shown = v.rows[k + 1] \/ ~s.on
    <2>1. vis' = s /\ meant' = m /\ range' = range
      BY <1>5 DEF SelectRow
    <2>2. s.on /\ ~s.pending => s.chosen = m
      BY <1>2, <1>5
    <2>3. RangeFollows'
      BY <2>1 DEF RangeFollows, ReadThreads, RangeThreads
    <2> QED
      BY <1>3, <1>4, <2>1, <2>2, <2>3
  <1>6. CASE preview.shown # v.rows[k + 1] /\ s.on
    <2> DEFINE t == Extended(v, s, k)
    <2>1. vis' = t /\ range' = Requested(v, t) /\ meant' = Meant(v, t)
      BY <1>6 DEF SelectRow
    <2>2. SelectionFits(t) /\ t.anchor \in Rows /\ t.cursor \in Rows /\ t \in VisualSelections
      BY ExtendedFits DEF SelectionFits
    <2> HIDE DEF t
    <2>3. /\ range' \in RangeRequests
          /\ range'.state \in {"none", "open"} /\ range'.got = {}
          /\ range'.state = "open" => range'.anchor \in Rows /\ range'.cursor \in Rows
          /\ meant' \subseteq ListedThreads
          /\ ~t.pending => meant' = t.chosen
      BY <1>1, <2>1, <2>2, RequestedFits
    <2>4. RangeFollows'
      BY <2>3 DEF RangeFollows
    <2> QED
      BY <1>3, <1>4, <2>1, <2>2, <2>3, <2>4
  <1> QED
    BY <1>5, <1>6

(* A range that no search result outdates any more asks for nothing. *)
LEMMA DroppedFits ==
  /\ NoRange \in RangeRequests /\ DroppedRange \in RangeRequests
  /\ NoRange.state = "none" /\ DroppedRange.state = "dropped"
  /\ NoSelection \in VisualSelections /\ SelectionFits(NoSelection) /\ ~NoSelection.on
  BY DEF NoRange, DroppedRange, RangeRequests, NoSelection, VisualSelections, SelectionFits

LEMMA AfterSearchFits ==
  ASSUME range' = NoRange \/ range' = DroppedRange
  PROVE  range' \in RangeRequests /\ RangeFollows'
  BY DroppedFits DEF RangeFollows

(* Outdating a page load changes nothing else about it. *)
LEMMA OutdatedFits ==
  ASSUME page \in PageLoads \cup {NoPage}
  PROVE  /\ page = NoPage => Outdated = NoPage
         /\ page # NoPage => /\ Outdated \in PageLoads /\ Outdated # NoPage
                             /\ \A f \in {"kind", "target", "off", "read", "rev", "applied", "keep"} :
                                  Outdated[f] = page[f]
  <1>1. CASE page = NoPage
    BY <1>1 DEF Outdated
  <1>2. CASE page # NoPage
    <2>1. Outdated = [page EXCEPT !.newest = FALSE] /\ page \in PageLoads
      BY <1>2 DEF Outdated
    <2>2. Outdated \in PageLoads
      BY <2>1 DEF PageLoads
    <2>3. Outdated.kind # "none" /\ NoPage.kind = "none"
      BY <2>2 DEF PageLoads, NoPage
    <2>4. \A f \in {"kind", "target", "off", "read", "rev", "applied", "keep"} : Outdated[f] = page[f]
      BY <2>1 DEF PageLoads
    <2> QED
      BY <1>2, <2>2, <2>3, <2>4
  <1> QED
    BY <1>1, <1>2

(* The page load under way, through a step that is not about it. *)
LEMMA PageKept ==
  ASSUME VisualTypes, PageFollows, page' = page \/ page' = Outdated,
         view'.off = view.off, view'.rows = view.rows,
         revision' \in Nat, revision <= revision',
         Steady \/ preview'.shown = preview.shown
  PROVE  /\ page' \in PageLoads \cup {NoPage} /\ (page' # NoPage => SelectionFits(page'.keep))
         /\ PageFollows'
  <1>1. page \in PageLoads \cup {NoPage} /\ (page # NoPage => SelectionFits(page.keep))
        /\ revision \in Nat
    BY VisualAssumption DEF VisualTypes
  <1>2. CASE page = NoPage
    <2>1. page' = NoPage
      BY <1>1, <1>2, OutdatedFits
    <2> QED
      BY <2>1 DEF PageFollows, NoPage
  <1>3. CASE page # NoPage
    <2>1. /\ page' \in PageLoads /\ page' # NoPage
          /\ page'.kind = page.kind /\ page'.target = page.target /\ page'.off = page.off
          /\ page'.rev = page.rev /\ page'.applied = page.applied /\ page'.keep = page.keep
      BY <1>1, <1>3, OutdatedFits
    <2>2. page.rev \in Nat
      BY <1>1, <1>3 DEF PageLoads
    <2>3. page.applied => preview'.shown = preview.shown
      BY <1>3 DEF Steady
    <2>4. page'.rev <= revision'
      BY <1>1, <1>3, <2>1, <2>2 DEF PageFollows
    <2>5. InWindow(view, page.target) => InWindow(view', page'.target)
      BY <2>1 DEF InWindow
    <2>6. PageFollows'
      BY <1>3, <2>1, <2>3, <2>4, <2>5 DEF PageFollows
    <2> QED
      BY <1>1, <1>3, <2>1, <2>6
  <1> QED
    BY <1>2, <1>3

(* A page load starts with the page of its row, the first or the next one. *)
LEMMA PageStarts ==
  ASSUME VisualInv, NEW i \in Rows, LoadPageContaining(i), revision' = revision
  PROVE  VisualInv'
  <1>1. range' \in RangeRequests /\ RangeFollows'
    BY AfterSearchFits DEF LoadPageContaining, AfterSearch
  <1>2. SelectionFits([vis EXCEPT !.pending = FALSE]) /\ [vis EXCEPT !.pending = FALSE] \in VisualSelections
    BY DEF VisualInv, VisualTypes, SelectionFits, VisualSelections
  <1>3. i \in Nat /\ PageOf(i) \in Nat /\ PageOf(i) <= i /\ i < PageOf(i) + PageSize
    BY PositionsFit
  <1>4. view.rev \in Nat /\ vis.on \in BOOLEAN /\ meant \subseteq ListedThreads /\ revision \in Nat
    BY VisualAssumption DEF VisualInv, VisualTypes, WindowFits, SelectionFits, VisualSelections
  <1> DEFINE kp == [vis EXCEPT !.pending = FALSE]
  <1>5. page' = [kind |-> "locate", target |-> i, off |-> PageOf(i), read |-> FALSE, rev |-> 0,
              applied |-> FALSE, visual |-> vis.on, keep |-> kp, meant |-> meant,
              asked |-> view.rev, newest |-> TRUE]
    BY DEF LoadPageContaining
  <1> HIDE DEF kp
  <1>6. kp \in VisualSelections /\ SelectionFits(kp)
    BY <1>2 DEF kp
  <1>7. page' \in PageLoads
    BY <1>3, <1>4, <1>5, <1>6 DEF PageLoads
  <1>8. page'.kind = "locate" /\ page'.target = i /\ page'.off = PageOf(i) /\ page'.rev = 0
        /\ page'.applied = FALSE /\ page'.keep = kp
    BY <1>5
  <1>9. PageFollows'
    BY <1>3, <1>4, <1>8 DEF PageFollows
  <1>10. view' = view /\ vis' = vis /\ preview' = preview /\ meant' = meant
    BY DEF LoadPageContaining
  <1>11. VisualTypes'
    BY <1>1, <1>6, <1>7, <1>8, <1>10 DEF VisualInv, VisualTypes
  <1> QED
    BY <1>1, <1>9, <1>10, <1>11 DEF VisualInv, ChosenIsMeant

(* Keys: the cursor moves, the selection starts, ends or is tagged. *)
LEMMA MoveKeeps ==
  ASSUME VisualInv, NEW i \in Rows, MoveTo(i)
  PROVE  VisualInv'
  <1>1. CASE ~InWindow(view, i)
    BY <1>1, PageStarts DEF MoveTo
  <1>2. CASE InWindow(view, i)
    <2>1. SelectRow(view, vis, meant, i - view.off) /\ Steady /\ revision' = revision
          /\ (page' = page \/ page' = Outdated)
      BY <1>2 DEF MoveTo
    <2>2. i - view.off \in 0..(Len(view.rows) - 1)
      BY <1>2 DEF VisualInv, VisualTypes, WindowFits, InWindow, Rows
    <2> DEFINE k == i - view.off
    <2> HIDE DEF k
    <2>3. /\ WindowFits(view') /\ view'.off = view.off /\ view'.rows = view.rows /\ view'.rev = view.rev
          /\ SelectionFits(vis') /\ range' \in RangeRequests /\ meant' \subseteq ListedThreads
          /\ preview' \in [shown : ListedThreads \cup {None}, wanted : ListedThreads \cup {None}]
          /\ vis'.on /\ ~vis'.pending => vis'.chosen = meant'
          /\ RangeFollows'
      <3>1. SelectRow(view, vis, meant, k) /\ k \in 0..(Len(view.rows) - 1)
        BY <2>1, <2>2 DEF k
      <3>2. vis.on /\ ~vis.pending => vis.chosen = meant
        BY DEF VisualInv, ChosenIsMeant
      <3> QED
        BY <3>1, <3>2, SelectRowFits DEF VisualInv, VisualTypes
    <2>4. revision \in 0..MaxRevision /\ revision \in Nat /\ revision <= revision' /\ revision' \in Nat
      BY <2>1, VisualAssumption DEF VisualInv, VisualTypes
    <2>5. /\ page' \in PageLoads \cup {NoPage} /\ (page' # NoPage => SelectionFits(page'.keep))
          /\ PageFollows'
      BY <2>1, <2>3, <2>4, PageKept DEF VisualInv
    <2>6. VisualTypes'
      BY <2>1, <2>3, <2>4, <2>5 DEF VisualInv, VisualTypes
    <2> QED
      BY <2>3, <2>5, <2>6 DEF VisualInv, ChosenIsMeant
  <1> QED
    BY <1>1, <1>2

(* A step that leaves the window alone and either starts the selection anew *)
(* or puts an end to it.                                                    *)
LEMMA SelectionChanges ==
  ASSUME VisualInv, view' = view, preview' = preview, revision' = revision,
         page' = page \/ page' = Outdated, SelectionFits(vis'),
         range' = range \/ range' = NoRange, meant' = vis'.chosen
  PROVE  VisualInv'
  <1>1. revision \in 0..MaxRevision /\ revision \in Nat /\ revision <= revision' /\ revision' \in Nat
    BY VisualAssumption DEF VisualInv, VisualTypes
  <1>2. /\ page' \in PageLoads \cup {NoPage} /\ (page' # NoPage => SelectionFits(page'.keep))
        /\ PageFollows'
    BY <1>1, PageKept DEF VisualInv
  <1>3. range' \in RangeRequests /\ RangeFollows'
    <2>1. CASE range' = NoRange
      BY <2>1, AfterSearchFits
    <2>2. CASE range' = range
      BY <2>2 DEF VisualInv, VisualTypes, RangeFollows, ReadThreads, RangeThreads
    <2> QED
      BY <2>1, <2>2
  <1>4. meant' \subseteq ListedThreads
    BY DEF SelectionFits, VisualSelections
  <1>5. VisualTypes'
    BY <1>1, <1>2, <1>3, <1>4 DEF VisualInv, VisualTypes
  <1> QED
    BY <1>2, <1>3, <1>5 DEF VisualInv, ChosenIsMeant

LEMMA SelectionKeeps ==
  ASSUME VisualInv, EnterVisualMode \/ ClearVisualMode \/ ToggleMarked
  PROVE  VisualInv'
  <1>0. SelectionFits(NoSelection) /\ NoSelection.chosen = {}
    BY DroppedFits DEF NoSelection
  <1>1. CASE EnterVisualMode
    <2>1. view.cur \in 0..(Len(view.rows) - 1)
      BY <1>1 DEF EnterVisualMode, VisualInv, VisualTypes, WindowFits, Rows
    <2>2. SelectionFits(vis')
      BY <1>0, <1>1, <2>1, ExtendedFits DEF EnterVisualMode, VisualInv, VisualTypes
    <2> QED
      BY <1>1, <2>2, SelectionChanges DEF EnterVisualMode
  <1>2. CASE ClearVisualMode
    BY <1>0, <1>2, SelectionChanges DEF ClearVisualMode
  <1>3. CASE ToggleMarked
    BY <1>0, <1>3, SelectionChanges DEF ToggleMarked
  <1> QED
    BY <1>1, <1>2, <1>3

(* Writes to the database, and the message pane. *)
LEMMA OutsideKeeps ==
  ASSUME VisualInv, TagSelected \/ DatabaseChanges \/ PreviewLoads
  PROVE  VisualInv'
  <1>1. view' = view /\ vis' = vis /\ range' = range /\ page' = page /\ meant' = meant
    BY DEF TagSelected, DatabaseChanges, PreviewLoads
  <1>2. revision \in Nat /\ revision' \in 0..MaxRevision /\ revision' \in Nat /\ revision <= revision'
    BY VisualAssumption DEF VisualInv, VisualTypes, TagSelected, DatabaseChanges, PreviewLoads
  <1>3. Steady \/ preview'.shown = preview.shown
    BY DEF TagSelected, DatabaseChanges, PreviewLoads
  <1>4. preview' \in [shown : ListedThreads \cup {None}, wanted : ListedThreads \cup {None}]
    BY DEF VisualInv, VisualTypes, TagSelected, DatabaseChanges, PreviewLoads
  <1>5. /\ page' \in PageLoads \cup {NoPage} /\ (page' # NoPage => SelectionFits(page'.keep))
        /\ PageFollows'
    BY <1>1, <1>2, <1>3, PageKept DEF VisualInv
  <1>6. view'.rev <= revision'
    BY <1>1, <1>2 DEF VisualInv, VisualTypes, WindowFits
  <1>7. VisualTypes'
    BY <1>1, <1>2, <1>4, <1>5, <1>6 DEF VisualInv, VisualTypes
  <1>8. RangeFollows' /\ ChosenIsMeant'
    BY <1>1 DEF VisualInv, RangeFollows, ReadThreads, RangeThreads, ChosenIsMeant
  <1> QED
    BY <1>5, <1>7, <1>8 DEF VisualInv

(* The worker reads the pages of the range in turn, and has read the threads *)
(* of its positions below the next page.                                     *)
LEMMA WorkerKeeps ==
  ASSUME VisualInv, RangeOpens \/ RangeReads \/ RangeBreaks
  PROVE  VisualInv'
  <1>1. view' = view /\ vis' = vis /\ page' = page /\ meant' = meant /\ preview' = preview
        /\ revision' = revision
    BY DEF RangeOpens, RangeReads, RangeBreaks
  <1>2. range \in RangeRequests /\ revision \in Nat
    BY VisualAssumption DEF VisualInv, VisualTypes
  <1>3. PageFollows' /\ ChosenIsMeant'
    BY <1>1 DEF VisualInv, PageFollows, InWindow, ChosenIsMeant
  <1>4. CASE RangeFails
    <2>1. range' \in RangeRequests /\ range'.state = "failed"
      BY <1>2, <1>4 DEF RangeFails, RangeRequests
    <2>2. RangeFollows'
      BY <2>1 DEF RangeFollows
    <2> QED
      BY <1>1, <1>3, <2>1, <2>2 DEF VisualInv, VisualTypes
  <1>5. CASE RangeOpens /\ ~RangeFails
    <2>1. range' = [range EXCEPT !.state = "page", !.opened = revision,
                                 !.next = PageOf(Lower(range.anchor, range.cursor))]
          /\ range.state = "open" /\ range.rev = revision
      BY <1>5 DEF RangeOpens, SameFingerprint
    <2>2. range.anchor \in Rows /\ range.cursor \in Rows /\ range.got = {}
      BY <2>1 DEF VisualInv, RangeFollows
    <2> DEFINE low == Lower(range.anchor, range.cursor)
               span == Span(range.anchor, range.cursor)
    <2>3. low \in Rows /\ span \subseteq Rows /\ \A i \in span : low <= i
      BY <2>2, SpanFits
    <2>4. low \in Nat /\ PageOf(low) \in Nat /\ PageOf(low) <= low
      BY <2>3, PositionsFit
    <2>5. range' \in RangeRequests
      BY <1>2, <2>1, <2>4 DEF RangeRequests
    <2>6. /\ range'.state = "page" /\ range'.anchor = range.anchor /\ range'.cursor = range.cursor
          /\ range'.rev = range.rev /\ range'.opened = range.rev /\ range'.next = PageOf(low)
          /\ range'.got = {}
      BY <1>2, <2>1, <2>2 DEF RangeRequests
    <2>7. \A i \in span : ~(i < PageOf(low))
      BY <2>3, <2>4 DEF Rows
    <2> HIDE DEF low
    <2>8. ReadThreads' = {}
      BY <2>6, <2>7 DEF ReadThreads
    <2>9. RangeFollows'
      BY <2>2, <2>6, <2>8 DEF RangeFollows
    <2> QED
      BY <1>1, <1>3, <2>5, <2>9 DEF VisualInv, VisualTypes
  <1>6. CASE RangeReads /\ ~RangeFails
    <2> DEFINE span  == Span(range.anchor, range.cursor)
               next  == range.next + PageSize
               found == {ThreadAt(range.opened, i) : i \in span \cap (range.next..(next - 1))}
               got   == range.got \cup found
    <2>1. range.state = "page" /\ range.anchor \in Rows /\ range.cursor \in Rows
          /\ range.opened = range.rev /\ range.got = ReadThreads
      BY <1>6 DEF RangeReads, VisualInv, RangeFollows
    <2>2. range.next \in Nat /\ next \in Nat /\ range.rev \in Nat
      BY <1>2, VisualAssumption DEF RangeRequests
    <2>3. span \subseteq Rows /\ Rows \subseteq Nat
      BY <2>1, SpanFits, PositionsFit
    <2>4. found \subseteq ListedThreads
      BY <2>1, <2>2, <2>3, PositionsFit
    <2>5. got = {ThreadAt(range.rev, i) : i \in {j \in span : j < next}}
      <3>1. \A i \in span : i < next <=> i < range.next \/ i \in range.next..(next - 1)
        <4> TAKE i \in span
        <4>1. range.next \in Nat /\ next \in Nat /\ range.next <= next
          BY <2>2, VisualAssumption
        <4> HIDE DEF next, span
        <4>2. i \in Nat
          BY <2>3
        <4> QED
          BY <4>1, <4>2
      <3>2. found = {ThreadAt(range.rev, i) : i \in span \cap (range.next..(next - 1))}
        BY <2>1
      <3>3. range.got = {ThreadAt(range.rev, i) : i \in {j \in span : j < range.next}}
        BY <2>1 DEF ReadThreads
      <3> HIDE DEF next, found, span
      <3> QED
        BY <3>1, <3>2, <3>3
    <2>6. got \subseteq ListedThreads
      BY <1>2, <2>4 DEF RangeRequests
    <2>7. \/ range' = [range EXCEPT !.next = next, !.got = got]
          \/ /\ range' = [range EXCEPT !.state = "done", !.got = got]
             /\ ~\E i \in span : i >= next
      <3>1. range.next + PageSize - 1 = next - 1
        BY <2>2, VisualAssumption
      <3> QED
        BY <1>6, <3>1 DEF RangeReads
    <2> HIDE DEF next, got, span, found
    <2>8. CASE range' = [range EXCEPT !.next = next, !.got = got]
      <3>1. range' \in RangeRequests
        BY <1>2, <2>2, <2>6, <2>8 DEF RangeRequests
      <3>2. /\ range'.state = "page" /\ range'.anchor = range.anchor /\ range'.cursor = range.cursor
            /\ range'.rev = range.rev /\ range'.opened = range.rev /\ range'.next = next
            /\ range'.got = got
        BY <1>2, <2>1, <2>8 DEF RangeRequests
      <3>3. got = ReadThreads'
        BY <2>5, <3>2 DEF ReadThreads, span
      <3>4. RangeFollows'
        BY <2>1, <3>2, <3>3 DEF RangeFollows
      <3> QED
        BY <1>1, <1>3, <3>1, <3>4 DEF VisualInv, VisualTypes
    <2>9. CASE range' = [range EXCEPT !.state = "done", !.got = got] /\ ~\E i \in span : i >= next
      <3>1. range' \in RangeRequests
        BY <1>2, <2>6, <2>9 DEF RangeRequests
      <3>2. /\ range'.state = "done" /\ range'.anchor = range.anchor /\ range'.cursor = range.cursor
            /\ range'.rev = range.rev /\ range'.got = got
        BY <1>2, <2>9 DEF RangeRequests
      <3>3. {j \in span : j < next} = span
        BY <2>2, <2>3, <2>9
      <3>4. got = RangeThreads'
        BY <2>5, <3>2, <3>3 DEF RangeThreads, span
      <3>5. RangeFollows'
        BY <2>1, <3>2, <3>4 DEF RangeFollows
      <3> QED
        BY <1>1, <1>3, <3>1, <3>5 DEF VisualInv, VisualTypes
    <2> QED
      BY <2>7, <2>8, <2>9
  <1> QED
    BY <1>4, <1>5, <1>6 DEF RangeBreaks

(* The answer is what the accepted request meant. *)
LEMMA AnswerKeeps ==
  ASSUME VisualInv, RangeAnswers
  PROVE  VisualInv'
  <1>1. view' = view /\ preview' = preview /\ revision' = revision /\ (page' = page \/ page' = Outdated)
    BY DEF RangeAnswers
  <1>2. revision \in 0..MaxRevision /\ revision \in Nat /\ revision <= revision' /\ revision' \in Nat
    BY <1>1, VisualAssumption DEF VisualInv, VisualTypes
  <1>3. /\ page' \in PageLoads \cup {NoPage} /\ (page' # NoPage => SelectionFits(page'.keep))
        /\ PageFollows'
    BY <1>1, <1>2, PageKept DEF VisualInv
  <1>4. CASE ~RangeIsCurrent
    <2>1. range' = DroppedRange /\ vis' = vis /\ meant' = meant
      BY <1>4 DEF RangeAnswers
    <2>2. range' \in RangeRequests /\ RangeFollows'
      BY <2>1, AfterSearchFits
    <2> QED
      BY <1>1, <1>3, <2>1, <2>2 DEF VisualInv, VisualTypes, ChosenIsMeant
  <1>5. CASE Rejected
    <2>1. SelectionFits(vis') /\ meant' = vis'.chosen /\ range' = NoRange
      BY <1>5, DroppedFits DEF Rejected, NoSelection
    <2> QED
      BY <1>1, <2>1, SelectionChanges
  <1>6. CASE RangeIsCurrent /\ ~Rejected
    <2>1. /\ vis' = [vis EXCEPT !.chosen = range.got, !.pending = FALSE]
          /\ range' = NoRange
          /\ meant' = {ThreadAt(range.rev, i) : i \in Span(range.anchor, range.cursor)}
          /\ range.state = "done"
      BY <1>6 DEF RangeAnswers, RangeFailed
    <2>2. meant' = range.got /\ range.got \subseteq ListedThreads
      BY <2>1 DEF VisualInv, RangeFollows, RangeThreads, VisualTypes, RangeRequests
    <2>3. SelectionFits(vis') /\ vis'.chosen = range.got
      BY <2>1, <2>2 DEF VisualInv, VisualTypes, SelectionFits, VisualSelections
    <2> QED
      BY <1>1, <2>1, <2>2, <2>3, SelectionChanges
  <1> QED
    BY <1>4, <1>5, <1>6

(* Searches and further pages: what is asked for, read and put into the list. *)
LEMMA RequestKeeps ==
  ASSUME VisualInv, StartSearch \/ (\E last \in BOOLEAN : LoadMore(last)) \/ PageReads
  PROVE  VisualInv'
  <1>1. view' = view /\ vis' = vis /\ meant' = meant /\ revision' = revision
    BY DEF StartSearch, LoadMore, PageReads
  <1>2. revision \in 0..MaxRevision /\ revision \in Nat
    BY VisualAssumption DEF VisualInv, VisualTypes
  <1>3. preview' \in [shown : ListedThreads \cup {None}, wanted : ListedThreads \cup {None}]
    BY DEF VisualInv, VisualTypes, StartSearch, LoadMore, PageReads
  <1>4. range' \in RangeRequests /\ RangeFollows'
    <2>1. CASE range' = range
      BY <2>1 DEF VisualInv, VisualTypes, RangeFollows, ReadThreads, RangeThreads
    <2>2. CASE range' = AfterSearch
      BY <2>2, AfterSearchFits DEF AfterSearch
    <2> QED
      BY <2>1, <2>2 DEF StartSearch, LoadMore, PageReads
  <1>5. ASSUME page' \in PageLoads, SelectionFits(page'.keep), PageFollows'
        PROVE  VisualInv'
    BY <1>1, <1>2, <1>3, <1>4, <1>5 DEF VisualInv, VisualTypes, ChosenIsMeant
  <1>6. CASE StartSearch
    <2>1. page' = [kind |-> "search", target |-> 0, off |-> 0, read |-> FALSE, rev |-> 0,
                   applied |-> FALSE, visual |-> FALSE, keep |-> NoSelection,
                   meant |-> {}, asked |-> 0, newest |-> FALSE]
      BY <1>6 DEF StartSearch
    <2>2. page' \in PageLoads /\ SelectionFits(page'.keep)
      BY <2>1, DroppedFits DEF PageLoads
    <2>3. PageFollows'
      BY <1>1, <1>2, <2>1 DEF PageFollows
    <2> QED
      BY <1>5, <2>2, <2>3
  <1>7. ASSUME NEW last \in BOOLEAN, LoadMore(last) PROVE VisualInv'
    <2> DEFINE aim == IF last THEN 1 ELSE 0
               off == view.off + Len(view.rows)
    <2>1. page' = [kind |-> "more", target |-> aim, off |-> off, read |-> FALSE, rev |-> 0,
                   applied |-> FALSE, visual |-> FALSE, keep |-> NoSelection,
                   meant |-> {}, asked |-> 0, newest |-> FALSE]
      BY <1>7 DEF LoadMore
    <2>2. aim \in Nat /\ off \in Nat /\ off < Total
      BY <1>7 DEF LoadMore, VisualInv, VisualTypes, WindowFits, Rows
    <2>3. off = view'.off + Len(view'.rows)
      BY <1>1
    <2> HIDE DEF aim, off
    <2>4. page' \in PageLoads /\ SelectionFits(page'.keep)
      BY <2>1, <2>2, DroppedFits DEF PageLoads
    <2>5. page'.kind = "more" /\ page'.off = off /\ page'.rev = 0 /\ page'.applied = FALSE
      BY <2>1
    <2>6. PageFollows'
      BY <1>1, <1>2, <2>2, <2>3, <2>5 DEF PageFollows
    <2> QED
      BY <1>5, <2>4, <2>6
  <1>8. CASE PageReads
    <2>1. page \in PageLoads /\ page' = [page EXCEPT !.read = TRUE, !.rev = revision]
          /\ preview' = preview /\ page # NoPage
      BY <1>8 DEF PageReads, VisualInv, VisualTypes
    <2>2. page' \in PageLoads
      BY <1>2, <2>1 DEF PageLoads
    <2>3. /\ page'.kind = page.kind /\ page'.target = page.target /\ page'.off = page.off
          /\ page'.rev = revision /\ page'.applied = page.applied /\ page'.keep = page.keep
      BY <2>1 DEF PageLoads
    <2>4. SelectionFits(page'.keep)
      BY <2>1, <2>3 DEF VisualInv, VisualTypes
    <2>5. PageFollows'
      BY <1>1, <1>2, <2>1, <2>3 DEF VisualInv, PageFollows, InWindow
    <2> QED
      BY <1>5, <2>2, <2>4, <2>5
  <1> QED
    BY <1>6, <1>7, <1>8

(* A page load that ends without a page. *)
LEMMA PageEnds ==
  ASSUME VisualInv, PageDropped \/ PageFails
  PROVE  VisualInv'
  <1>1. view' = view /\ preview' = preview /\ revision' = revision /\ page' = NoPage
    BY DEF PageDropped, PageFails
  <1>2. PageFollows'
    BY <1>1 DEF PageFollows
  <1>3. CASE vis' = vis /\ range' = range /\ meant' = meant
    BY <1>1, <1>2, <1>3 DEF VisualInv, VisualTypes, ChosenIsMeant, RangeFollows, ReadThreads, RangeThreads
  <1>4. CASE Rejected
    <2>1. range' \in RangeRequests /\ RangeFollows'
      BY <1>4, AfterSearchFits DEF Rejected
    <2>2. SelectionFits(vis') /\ ~vis'.on /\ meant' = {}
      BY <1>4, DroppedFits DEF Rejected
    <2> QED
      BY <1>1, <1>2, <2>1, <2>2 DEF VisualInv, VisualTypes, ChosenIsMeant
  <1> QED
    BY <1>3, <1>4 DEF PageDropped, PageFails

LEMMA ArrivalKeeps ==
  ASSUME VisualInv, PageReplaces \/ PageAppends
  PROVE  VisualInv'
  <1>1. page \in PageLoads /\ page # NoPage /\ page' = [page EXCEPT !.applied = TRUE]
        /\ range' = range /\ revision' = revision
    BY DEF PageReplaces, PageAppends, Arrived, VisualInv, VisualTypes
  <1>2. page' \in PageLoads /\ page' # NoPage
    <2>1. page' \in PageLoads
      BY <1>1 DEF PageLoads
    <2> QED
      BY <2>1 DEF PageLoads, NoPage
  <1>3. /\ page'.kind = page.kind /\ page'.target = page.target /\ page'.off = page.off
        /\ page'.rev = page.rev /\ page'.applied = TRUE /\ page'.keep = page.keep
    BY <1>1 DEF PageLoads
  <1>4. SelectionFits(page'.keep) /\ page.rev \in Nat /\ page.rev <= revision /\ revision \in 0..MaxRevision
    BY <1>1, <1>3 DEF VisualInv, VisualTypes, PageFollows, PageLoads
  <1>5. range' \in RangeRequests /\ RangeFollows'
    BY <1>1 DEF VisualInv, VisualTypes, RangeFollows, ReadThreads, RangeThreads
  <1>6. CASE PageReplaces
    <2>1. page.kind \in {"search", "locate"} /\ view' = Replaced /\ vis' = NoSelection /\ meant' = {}
          /\ preview' = [preview EXCEPT !.shown = None]
      BY <1>1, <1>6 DEF PageReplaces, PageLoads
    <2>2. page.off \in Rows
      <3>1. CASE page.kind = "search"
        BY <1>1, <3>1, VisualAssumption DEF VisualInv, PageFollows, Rows
      <3>2. CASE page.kind = "locate"
        <4>1. page.target \in Rows /\ page.off <= page.target /\ page.off \in Nat
          BY <1>1, <3>2 DEF VisualInv, PageFollows, PageLoads
        <4> QED
          BY <4>1, VisualAssumption DEF Rows
      <3> QED
        BY <2>1, <3>1, <3>2
    <2> DEFINE rows == PageAt(page.rev, page.off)
    <2>3. /\ rows \in Seq(ListedThreads) /\ Len(rows) >= 1 /\ page.off + Len(rows) <= Total
          /\ \A i \in Rows : page.off <= i /\ i < page.off + PageSize => i - page.off < Len(rows)
      BY <1>4, <2>2, PageFits
    <2>4. view' = [off |-> page.off, rows |-> rows, rev |-> page.rev, cur |-> None]
      BY <2>1 DEF Replaced
    <2> HIDE DEF rows
    <2>5. WindowFits(view') /\ view'.rev <= revision /\ view'.off = page.off /\ view'.rows = rows
      BY <1>4, <2>2, <2>3, <2>4 DEF WindowFits
    <2>6. preview' \in [shown : ListedThreads \cup {None}, wanted : ListedThreads \cup {None}]
          /\ preview'.shown = None
      BY <2>1 DEF VisualInv, VisualTypes
    <2>7. page.kind = "locate" => InWindow(view', page.target)
      <3> SUFFICES ASSUME page.kind = "locate" PROVE InWindow(view', page.target)
        OBVIOUS
      <3>1. page.target \in Rows /\ page.off <= page.target /\ page.target < page.off + PageSize
        BY <1>1 DEF VisualInv, PageFollows
      <3>2. page.target - page.off < Len(rows) /\ Len(rows) \in Nat
        BY <2>3, <3>1
      <3> QED
        BY <2>2, <2>5, <3>1, <3>2 DEF InWindow, Rows
    <2>8. PageFollows'
      <3>1. page'.rev <= revision' /\ (page'.kind = "search" => page'.off = 0)
        BY <1>1, <1>3, <1>4 DEF VisualInv, PageFollows
      <3>2. page'.kind = "locate" => /\ page'.target \in Rows /\ page'.off <= page'.target
                                     /\ page'.target < page'.off + PageSize
        BY <1>1, <1>3 DEF VisualInv, PageFollows
      <3>3. page'.kind = "locate" => InWindow(view', page'.target) /\ preview'.shown = None
        BY <1>3, <2>6, <2>7
      <3> QED
        BY <1>3, <3>1, <3>2, <3>3 DEF PageFollows
    <2>9. SelectionFits(vis') /\ ~vis'.on
      BY <2>1, DroppedFits
    <2> QED
      BY <1>1, <1>2, <1>4, <1>5, <2>1, <2>5, <2>6, <2>8, <2>9 DEF VisualInv, VisualTypes, ChosenIsMeant
  <1>7. CASE PageAppends
    <2> DEFINE more == PageAt(page.rev, page.off)
    <2>1. page.kind = "more" /\ page.off = view.off + Len(view.rows) /\ page.off < Total
          /\ vis' = vis /\ preview' = preview /\ meant' = meant
          /\ view' = [view EXCEPT !.rows = @ \o more, !.rev = page.rev]
      BY <1>1, <1>7 DEF PageAppends, Arrived, VisualInv, PageFollows
    <2>2. page.off \in Rows
      BY <1>1, <2>1, VisualAssumption DEF PageLoads, Rows
    <2>3. more \in Seq(ListedThreads) /\ Len(more) >= 1 /\ page.off + Len(more) <= Total
      BY <1>4, <2>2, PageFits
    <2> HIDE DEF more
    <2>4. view \in [off : Rows, rows : Seq(ListedThreads), rev : Nat, cur : Rows \cup {None}]
          /\ (view.cur # None => view.cur < Len(view.rows)) /\ Len(view.rows) >= 1
      BY DEF VisualInv, VisualTypes, WindowFits
    <2>5. view.rows \o more \in Seq(ListedThreads) /\ Len(view.rows \o more) = Len(view.rows) + Len(more)
          /\ Len(view.rows) \in Nat /\ Len(more) \in Nat
      BY <2>3, <2>4
    <2>6. view' \in [off : Rows, rows : Seq(ListedThreads), rev : Nat, cur : Rows \cup {None}]
          /\ view'.off = view.off /\ view'.rows = view.rows \o more /\ view'.rev = page.rev
          /\ view'.cur = view.cur
      BY <1>4, <2>1, <2>4, <2>5
    <2>7. WindowFits(view')
      <3>1. view'.off + Len(view'.rows) <= Total
        BY <2>1, <2>3, <2>4, <2>5, <2>6 DEF Rows
      <3>2. view'.cur # None => view'.cur < Len(view'.rows)
        <4>1. view.cur \in Nat
          BY <2>4, PositionsFit
        <4> QED
          BY <2>3, <2>4, <2>5, <2>6, <4>1
      <3>3. Len(view'.rows) >= 1
        BY <2>3, <2>4, <2>5, <2>6
      <3> QED
        BY <2>6, <3>1, <3>2, <3>3 DEF WindowFits
    <2>8. PageFollows'
      BY <1>1, <1>3, <1>4, <2>1 DEF PageFollows
    <2> QED
      BY <1>1, <1>2, <1>4, <1>5, <2>1, <2>6, <2>7, <2>8 DEF VisualInv, VisualTypes, ChosenIsMeant
  <1> QED
    BY <1>6, <1>7

(* The rows are in the list: the row that is then selected lies in it. *)
LEMMA AppliedKeeps ==
  ASSUME VisualInv, RowsApplied
  PROVE  VisualInv'
  <1>1. page # NoPage /\ page.applied /\ page' = NoPage /\ revision' = revision /\ page \in PageLoads
    BY DEF RowsApplied, VisualInv, VisualTypes
  <1>2. revision \in 0..MaxRevision /\ WindowFits(view) /\ view.rev <= revision /\ SelectionFits(vis)
        /\ meant \subseteq ListedThreads /\ range \in RangeRequests /\ RangeFollows
        /\ preview \in [shown : ListedThreads \cup {None}, wanted : ListedThreads \cup {None}]
        /\ (vis.on /\ ~vis.pending => vis.chosen = meant)
    BY DEF VisualInv, VisualTypes, ChosenIsMeant
  <1>3. Len(view.rows) \in Nat /\ Len(view.rows) >= 1 /\ view.off \in Rows
    BY <1>2 DEF WindowFits
  <1>4. PageFollows'
    BY <1>1 DEF PageFollows
  <1>5. ASSUME NEW s, SelectionFits(s), NEW m, m \subseteq ListedThreads,
               NEW k \in 0..(Len(view.rows) - 1),
               preview.shown = None \/ (s.on /\ ~s.pending => s.chosen = m),
               SelectRow(view, s, m, k)
        PROVE  VisualInv'
    <2>1. /\ WindowFits(view') /\ view'.rev = view.rev
          /\ SelectionFits(vis') /\ range' \in RangeRequests /\ meant' \subseteq ListedThreads
          /\ preview' \in [shown : ListedThreads \cup {None}, wanted : ListedThreads \cup {None}]
          /\ vis'.on /\ ~vis'.pending => vis'.chosen = meant'
          /\ RangeFollows'
      BY <1>2, <1>5, SelectRowFits
    <2>2. VisualTypes'
      BY <1>1, <1>2, <2>1 DEF VisualTypes
    <2> QED
      BY <1>4, <2>1, <2>2 DEF VisualInv, ChosenIsMeant
  <1>6. CASE page.kind = "locate"
    <2> DEFINE k == page.target - view.off
    <2>1. page.target \in Rows /\ InWindow(view, page.target) /\ preview.shown = None
      BY <1>1, <1>6 DEF VisualInv, PageFollows
    <2>2. k \in 0..(Len(view.rows) - 1)
      BY <1>3, <2>1 DEF InWindow, Rows
    <2>3. SelectionFits(page.keep) /\ page.meant \subseteq ListedThreads
      BY <1>1 DEF VisualInv, VisualTypes, PageLoads
    <2>4. SelectRow(view, page.keep, page.meant, k) \/ SelectRow(view, vis, meant, k)
      BY <1>6 DEF RowsApplied
    <2> HIDE DEF k
    <2> QED
      BY <1>2, <1>5, <2>1, <2>2, <2>3, <2>4
  <1>7. CASE page.kind = "search"
    <2>1. SelectRow(view, vis, meant, 0) /\ 0 \in 0..(Len(view.rows) - 1)
      BY <1>3, <1>7 DEF RowsApplied
    <2>2. \E k \in 0..(Len(view.rows) - 1) : SelectRow(view, vis, meant, k)
      BY <2>1
    <2> QED
      BY <1>2, <1>5, <2>2
  <1>8. CASE page.kind = "more" /\ (page.target = 1 \/ view.cur # None)
    <2> DEFINE k == IF page.target = 1 THEN Len(view.rows) - 1 ELSE view.cur
    <2>1. SelectRow(view, vis, meant, k)
      BY <1>8 DEF RowsApplied
    <2>2. k \in 0..(Len(view.rows) - 1)
      BY <1>2, <1>3, <1>8 DEF WindowFits, Rows
    <2> HIDE DEF k
    <2> QED
      BY <1>2, <1>5, <2>1, <2>2
  <1>9. CASE page.kind = "more" /\ ~(page.target = 1 \/ view.cur # None)
    <2>1. view' = view /\ vis' = vis /\ range' = range /\ preview' = preview /\ meant' = meant
      BY <1>9 DEF RowsApplied
    <2>2. RangeFollows'
      BY <1>2, <2>1 DEF RangeFollows, ReadThreads, RangeThreads
    <2> QED
      BY <1>1, <1>2, <1>4, <2>1, <2>2 DEF VisualInv, VisualTypes, ChosenIsMeant
  <1>10. page.kind \in {"search", "locate", "more"}
    BY <1>1 DEF PageLoads
  <1> QED
    BY <1>6, <1>7, <1>8, <1>9, <1>10

(* The list starts with the first page and no selection. *)
LEMMA VisualStarts ==
  ASSUME VisualInit
  PROVE  VisualInv
  <1>1. 0 \in Rows /\ 0 \in Nat
    BY VisualAssumption DEF Rows
  <1> DEFINE rows == PageAt(0, 0)
  <1>2. rows \in Seq(ListedThreads) /\ Len(rows) >= 1 /\ 0 + Len(rows) <= Total
    BY <1>1, PageFits
  <1>3. ThreadAt(0, 0) \in ListedThreads
    BY <1>1, PositionsFit
  <1>4. view = [off |-> 0, rows |-> rows, rev |-> 0, cur |-> 0] /\ revision = 0 /\ vis = NoSelection
        /\ range = NoRange /\ page = NoPage /\ preview = [shown |-> ThreadAt(0, 0), wanted |-> None]
        /\ meant = {}
    BY DEF VisualInit
  <1> HIDE DEF rows
  <1>5. WindowFits(view) /\ view.rev <= revision
    BY <1>1, <1>2, <1>4 DEF WindowFits
  <1>6. VisualTypes
    BY <1>3, <1>4, <1>5, DroppedFits, VisualAssumption DEF VisualTypes
  <1>7. RangeFollows /\ PageFollows /\ ChosenIsMeant
    BY <1>4, DroppedFits DEF RangeFollows, PageFollows, ChosenIsMeant
  <1> QED
    BY <1>6, <1>7 DEF VisualInv

LEMMA VisualStutter ==
  ASSUME VisualInv, UNCHANGED visualVars
  PROVE  VisualInv'
  BY DEF VisualInv, VisualTypes, ChosenIsMeant, RangeFollows, RangeThreads, ReadThreads, PageFollows,
         InWindow, visualVars

(* The invariant of the visual selection: every move, every answer and every *)
(* page keeps the chosen threads what the list showed in the range.          *)
THEOREM VisualInvariant == VisualSpec => []VisualInv
  <1>1. ASSUME VisualInv, [VisualNext]_visualVars PROVE VisualInv'
    <2>1. CASE \E i \in Rows : MoveTo(i)
      BY <1>1, <2>1, MoveKeeps
    <2>2. CASE EnterVisualMode \/ ClearVisualMode \/ ToggleMarked
      BY <1>1, <2>2, SelectionKeeps
    <2>3. CASE TagSelected \/ DatabaseChanges \/ PreviewLoads
      BY <1>1, <2>3, OutsideKeeps
    <2>4. CASE RangeOpens \/ RangeReads \/ RangeBreaks
      BY <1>1, <2>4, WorkerKeeps
    <2>5. CASE RangeAnswers
      BY <1>1, <2>5, AnswerKeeps
    <2>6. CASE StartSearch \/ (\E last \in BOOLEAN : LoadMore(last)) \/ PageReads
      BY <1>1, <2>6, RequestKeeps
    <2>7. CASE PageDropped \/ PageFails
      BY <1>1, <2>7, PageEnds
    <2>8. CASE PageReplaces \/ PageAppends
      BY <1>1, <2>8, ArrivalKeeps
    <2>9. CASE RowsApplied
      BY <1>1, <2>9, AppliedKeeps
    <2>10. CASE UNCHANGED visualVars
      BY <1>1, <2>10, VisualStutter
    <2> QED
      BY <1>1, <2>1, <2>2, <2>3, <2>4, <2>5, <2>6, <2>7, <2>8, <2>9, <2>10 DEF VisualNext
  <1> QED
    BY <1>1, VisualStarts, PTL DEF VisualSpec

(* Every variable of the visual selection keeps its type. *)
THEOREM VisualTypeCorrect == VisualSpec => []VisualTypeOK
  <1>1. ASSUME VisualInv PROVE VisualTypeOK
    <2>1. /\ view.off \in Rows /\ view.rows \in Seq(ListedThreads) /\ view.rev \in Nat
          /\ view.rev <= revision /\ revision \in 0..MaxRevision /\ view.rev \in 0..revision
          /\ (view.cur # None => view.cur < Len(view.rows))
      BY <1>1, VisualAssumption DEF VisualInv, VisualTypes, WindowFits
    <2>2. page.kind \in {"none", "search", "locate", "more"}
      BY <1>1 DEF VisualInv, VisualTypes, PageLoads, NoPage
    <2>3. range.state \in {"none", "open", "page", "done", "failed", "dropped"}
      BY <1>1 DEF VisualInv, VisualTypes, RangeRequests
    <2> QED
      BY <1>1, <2>1, <2>2, <2>3 DEF VisualInv, VisualTypes, VisualTypeOK, SelectionFits, VisualSelections
  <1> QED
    BY <1>1, VisualInvariant, PTL

(* A tag command that is accepted in visual mode acts on exactly the threads *)
(* that the list showed in the range (tag_selected_with_delay), for any      *)
(* number of threads, pages and revisions.                                   *)
THEOREM RangeTaggedAsShown == VisualSpec => []TagsTheRange
  <1>1. ASSUME VisualInv PROVE TagsTheRange
    BY <1>1 DEF VisualInv, ChosenIsMeant, TagsTheRange, TagAllowed, TagTargets
  <1> QED
    BY <1>1, VisualInvariant, PTL
-----------------------------------------------------------------------------
(***************************************************************************)
(* Keyboard.  Passes(s, t): from s to t nothing was begun, the generation   *)
(* of the mode was not seen, and insert mode was entered, if it was, by     *)
(* moving the generation.  Only the handler that begins a sequence or a     *)
(* count does more, and it stays in normal mode.                            *)
(***************************************************************************)
InputModes == {"normal", "insert"}
Fresh(s) == s.moved \/ (s.pend = {} /\ s.count = 0)
Typing(s) == s.palette => s.mode = "insert"
Single(s) == \A p, q \in s.pend : p = q
Passes(s, t) ==
  /\ t \in Desk /\ (s.moved => t.moved)
  /\ t.pend \subseteq s.pend /\ (s.count = 0 => t.count = 0)
  /\ t.mode = s.mode \/ t.moved \/ t.mode = "normal"
  /\ Typing(s) => Typing(t)
  /\ t.hints => s.hints \/ t.moved \/ "exit" \notin t.pend
BothNormal(s, k, t) ==
  /\ t \in Desk /\ s.mode = "normal" /\ t.mode = "normal" /\ t.moved = s.moved
  /\ t.palette = s.palette /\ t.hints = s.hints
  /\ Single(s) => Single(t)
  /\ "exit" \in t.pend => "exit" \in s.pend \/ k = "Z"
Follows(s, k, t) == Passes(s, t) \/ BothNormal(s, k, t)
(* What a handler runs is a sequence that waits, or uses a count that was typed. *)
Honest(s, r) ==
  /\ r.run.via \in Sequences => r.run.via \in s.pend
  /\ r.run.times \in 0..MaxCount /\ (r.run.times > 0 => s.count > 0)
Handled(s, k, r) == (IF r.stop THEN Follows(s, k, r.to) ELSE Passes(s, r.to)) /\ Honest(s, r)
(* What runs without a sequence: the fallback handler, the boxes of the menus.  *)
Quiet(s, r) == Passes(s, r.to) /\ r.run.via \notin Sequences /\ r.run.times = 0
KeyInv ==
  /\ desk \in Desk /\ (desk.mode = "insert" => Fresh(desk))
  /\ crossed \subseteq Sequences \cup {"count"} /\ (crossed # {} => desk.moved)
  /\ did.times \in 0..MaxCount
  /\ Single(desk) /\ Typing(desk)
  /\ desk.hints /\ "exit" \in desk.pend => desk.moved
  /\ "exit" \in desk.pend /\ ~desk.moved => afterZ

LEMMA SequenceNames ==
  /\ "none" \notin Sequences /\ "key" \notin Sequences /\ "box" \notin Sequences
  /\ "exit" \in Sequences /\ "custom" \in Sequences /\ "go" \in Sequences
  /\ "count" \notin Sequences
  /\ KeyMenus = {"response", "view", "copy", "images", "messageTag", "tag", "undo"}
  <1>1. KeyMenus = {"response", "view", "copy", "images", "messageTag", "tag", "undo"}
    <2>1. /\ MenuOrder[1] = "response" /\ MenuOrder[2] = "view" /\ MenuOrder[3] = "copy"
          /\ MenuOrder[4] = "images" /\ MenuOrder[5] = "messageTag" /\ MenuOrder[6] = "tag"
          /\ MenuOrder[7] = "undo"
      BY DEF MenuOrder
    <2>2. 1..7 = {1, 2, 3, 4, 5, 6, 7}
      OBVIOUS
    <2> QED
      BY <2>1, <2>2 DEF KeyMenus
  <1> QED
    BY <1>1 DEF Sequences

LEMMA DeskFields ==
  ASSUME NEW s \in Desk
  PROVE  /\ s.mode \in {"normal", "insert"} /\ s.moved \in BOOLEAN /\ s.pend \subseteq Sequences
         /\ s.count \in 0..MaxCount /\ s.open \subseteq KeyMenus /\ s.pane \in Panes
         /\ s.shown \subseteq Panes /\ s.shown # {} /\ s.composing \in BOOLEAN
         /\ s.focus \in {"entry", "composer", "body", "none"} /\ s.visual \in BOOLEAN
         /\ s.palette \in BOOLEAN /\ s.editor \in BOOLEAN /\ s.hints \in BOOLEAN
  BY DEF Desk

LEMMA PassesOn ==
  ASSUME NEW s, NEW t, NEW u, Passes(s, t), Passes(t, u)
  PROVE  Passes(s, u)
  BY DEF Passes

LEMMA PassesSelf ==
  ASSUME NEW s \in Desk
  PROVE  Passes(s, s)
  BY DEF Passes

(* Focus and panes. *)
LEMMA PanesPass ==
  ASSUME NEW s \in Desk
  PROVE  /\ Passes(s, FocusPane(s)) /\ FocusPane(s).mode = s.mode /\ FirstVisible(s) \in Panes
         /\ \A p \in Panes : Passes(s, SetPane(s, p)) /\ SetPane(s, p).mode = s.mode
         /\ \A p \in Panes : Passes(s, TogglePane(s, p))
  <1>1. ASSUME NEW t \in Desk
        PROVE  Passes(t, FocusPane(t)) /\ FocusPane(t).mode = t.mode /\ FirstVisible(t) \in Panes
    <2>1. FirstVisible(t) \in Panes
      BY DEF FirstVisible, Panes
    <2>2. PICK p \in Panes : p = IF t.pane \in t.shown THEN t.pane ELSE FirstVisible(t)
      BY <2>1, DeskFields
    <2>3. PICK f \in {"entry", "composer", "body", "none"} :
            f = IF p = "message" /\ t.composing THEN "composer" ELSE "none"
      OBVIOUS
    <2>4. FocusPane(t) = [t EXCEPT !.pane = p, !.focus = f]
      BY <2>2, <2>3 DEF FocusPane
    <2> QED
      BY <2>1, <2>4 DEF Passes, Typing, Desk
  <1>2. ASSUME NEW p \in Panes PROVE Passes(s, SetPane(s, p)) /\ SetPane(s, p).mode = s.mode
    <2>1. PICK q \in Panes : q = IF p \in s.shown THEN p ELSE FirstVisible(s)
      BY <1>1
    <2>2. PICK t : t = [s EXCEPT !.pane = q]
      OBVIOUS
    <2>3. Passes(s, t) /\ t \in Desk /\ t.mode = s.mode
      BY <2>2 DEF Passes, Typing, Desk
    <2>4. SetPane(s, p) = IF t.mode = "normal" THEN FocusPane(t) ELSE t
      BY <2>1, <2>2 DEF SetPane
    <2> QED
      BY <1>1, <2>3, <2>4, PassesOn
  <1>3. ASSUME NEW p \in Panes PROVE Passes(s, TogglePane(s, p))
    <2>1. PICK t : t = IF p \in s.shown
            THEN IF s.shown = {p} THEN s
                 ELSE LET hid == [s EXCEPT !.shown = @ \ {p}]
                      IN  IF hid.pane = p THEN [hid EXCEPT !.pane = FirstVisible(hid)] ELSE hid
            ELSE [s EXCEPT !.shown = @ \cup {p}]
      OBVIOUS
    <2>2. TogglePane(s, p) = FocusPane(t)
      BY <2>1 DEF TogglePane
    <2>3. Passes(s, t) /\ t \in Desk
      <3>1. CASE p \in s.shown /\ s.shown = {p}
        BY <2>1, <3>1, PassesSelf
      <3>2. CASE p \in s.shown /\ s.shown # {p}
        <4>1. PICK u : u = [s EXCEPT !.shown = @ \ {p}]
          OBVIOUS
        <4>2. u \in Desk /\ Passes(s, u)
          BY <3>2, <4>1 DEF Passes, Typing, Desk
        <4>3. PICK q \in Panes : q = FirstVisible(u)
          BY <1>1, <4>2
        <4>4. t = IF u.pane = p THEN [u EXCEPT !.pane = q] ELSE u
          BY <2>1, <3>2, <4>1, <4>3
        <4>5. Passes(u, [u EXCEPT !.pane = q])
          BY <4>2 DEF Passes, Typing, Desk
        <4> QED
          BY <4>2, <4>4, <4>5, PassesOn DEF Passes
      <3>3. CASE p \notin s.shown
        <4>1. t = [s EXCEPT !.shown = @ \cup {p}]
          BY <2>1, <3>3
        <4> QED
          BY <4>1 DEF Passes, Typing, Desk
      <3> QED
        BY <3>1, <3>2, <3>3
    <2> QED
      BY <1>1, <2>2, <2>3, PassesOn
  <1> QED
    BY <1>1, <1>2, <1>3

(* Changes of the input mode. *)
LEMMA ModesPass ==
  ASSUME NEW s \in Desk
  PROVE  /\ \A m \in InputModes :
              /\ m = "insert" \/ ~s.palette => Passes(s, SetMode(s, m))
              /\ SetMode(s, m) \in Desk /\ SetMode(s, m).mode = m
              /\ s.mode # m => SetMode(s, m).moved
         /\ Passes(s, EnterInsert(s)) /\ Passes(s, TagEditor(s))
         /\ ~s.palette => Passes(s, EnterNormal(s)) /\ Passes(s, ClearVisual(s))
         /\ EnterNormal(s).palette = s.palette /\ (s.mode = "insert" => EnterNormal(s).moved)
         /\ \A ok : Passes(s, EnterVisual(s, ok))
  <1>1. ASSUME NEW m \in InputModes
        PROVE  /\ m = "insert" \/ ~s.palette => Passes(s, SetMode(s, m))
               /\ SetMode(s, m) \in Desk /\ SetMode(s, m).mode = m
               /\ s.mode # m => SetMode(s, m).moved
               /\ SetMode(s, m).palette = s.palette
    <2>1. PICK b \in BOOLEAN : b = (s.moved \/ s.mode # m)
      OBVIOUS
    <2>2. SetMode(s, m) = [s EXCEPT !.mode = m, !.moved = b]
      BY <2>1 DEF SetMode
    <2>3. SetMode(s, m) \in Desk /\ SetMode(s, m).mode = m /\ SetMode(s, m).moved = b
          /\ SetMode(s, m).pend = s.pend /\ SetMode(s, m).count = s.count
          /\ SetMode(s, m).palette = s.palette /\ SetMode(s, m).hints = s.hints
      BY <2>2 DEF Desk, InputModes
    <2>4. (s.moved => b) /\ (s.mode # m => b)
      BY <2>1
    <2>5. m = "insert" \/ ~s.palette => Typing(SetMode(s, m))
      BY <2>3 DEF Typing
    <2>6. m = s.mode \/ b \/ m = "normal"
      BY <2>1
    <2>7. m = "insert" \/ ~s.palette => Passes(s, SetMode(s, m))
      BY <2>3, <2>4, <2>5, <2>6 DEF Passes
    <2> QED
      BY <2>3, <2>4, <2>7
  <1>2. "normal" \in InputModes /\ "insert" \in InputModes
    BY DEF InputModes
  <1>3. /\ ~s.palette => Passes(s, EnterNormal(s))
        /\ EnterNormal(s).palette = s.palette /\ (s.mode = "insert" => EnterNormal(s).moved)
    <2>1. PICK t : t = SetMode(s, "normal")
      OBVIOUS
    <2>2. /\ ~s.palette => Passes(s, t)
          /\ t \in Desk /\ t.palette = s.palette /\ (s.mode = "insert" => t.moved)
      BY <1>1, <1>2, <2>1
    <2>3. EnterNormal(s) = t \/ EnterNormal(s) = FocusPane(t)
      BY <2>1 DEF EnterNormal
    <2>4. FocusPane(t).palette = t.palette /\ FocusPane(t).moved = t.moved
      BY <2>2 DEF FocusPane, Desk
    <2> QED
      BY <2>2, <2>3, <2>4, PanesPass, PassesOn
  <1>4. PICK t : t = SetMode(s, "insert")
    OBVIOUS
  <1>5. Passes(s, t) /\ t \in Desk
    BY <1>1, <1>2, <1>4
  <1>6. Passes(s, EnterInsert(s))
    <2>1. PICK f \in {"entry", "composer", "body", "none"} :
            f = IF s.pane # "message" THEN "entry"
                ELSE IF ~s.composing THEN "none"
                ELSE IF s.focus \in {"composer", "body"} THEN s.focus ELSE "composer"
      BY DeskFields
    <2>2. EnterInsert(s) = [t EXCEPT !.focus = f]
      BY <1>4, <2>1 DEF EnterInsert
    <2>3. Passes(t, [t EXCEPT !.focus = f])
      BY <1>5 DEF Passes, Typing, Desk
    <2> QED
      BY <1>5, <2>2, <2>3, PassesOn
  <1>7. Passes(s, TagEditor(s))
    <2>1. TagEditor(s) = [t EXCEPT !.editor = TRUE, !.focus = "entry", !.open = @ \ {"tag"}]
      BY <1>4 DEF TagEditor
    <2>2. Passes(t, [t EXCEPT !.editor = TRUE, !.focus = "entry", !.open = @ \ {"tag"}])
      BY <1>5 DEF Passes, Typing, Desk
    <2> QED
      BY <1>5, <2>1, <2>2, PassesOn
  <1>8. ASSUME ~s.palette PROVE Passes(s, ClearVisual(s))
    <2>1. PICK v : v = [s EXCEPT !.visual = FALSE, !.mode = "normal", !.pane = "threads"]
      OBVIOUS
    <2>2. v \in Desk
      BY <2>1 DEF Desk, Panes
    <2>3. /\ v.mode = "normal" /\ v.moved = s.moved /\ v.pend = s.pend /\ v.count = s.count
          /\ v.palette = s.palette /\ v.hints = s.hints
      BY <2>1 DEF Desk
    <2>4. Passes(s, v)
      BY <1>8, <2>2, <2>3 DEF Passes, Typing
    <2> QED
      BY <2>1, <2>4 DEF ClearVisual
  <1>9. ASSUME NEW ok PROVE Passes(s, EnterVisual(s, ok))
    <2>1. Passes(s, [s EXCEPT !.visual = TRUE, !.pane = "threads"])
      BY DEF Passes, Typing, Desk, Panes
    <2> QED
      BY <2>1, PassesSelf DEF EnterVisual
  <1> QED
    BY <1>1, <1>3, <1>6, <1>7, <1>8, <1>9

(* The first menu in the order of the handler. *)
LEMMA FirstOf7 ==
  ASSUME NEW P, \E i \in 1..7 : MenuOrder[i] \in P
  PROVE  \E i \in 1..7 : MenuOrder[i] \in P /\ \A j \in 1..(i-1) : MenuOrder[j] \notin P
  <1> DEFINE In(i) == MenuOrder[i] \in P
  <1>1. \E i \in 1..7 : In(i)
    OBVIOUS
  <1> HIDE DEF In
  <1>2. \E i \in 1..7 : In(i) /\ \A j \in 1..(i-1) : ~In(j)
    <2>1. \A i \in 1..7 : i \in {1, 2, 3, 4, 5, 6, 7}
      OBVIOUS
    <2>2. In(1) \/ In(2) \/ In(3) \/ In(4) \/ In(5) \/ In(6) \/ In(7)
      BY <1>1, <2>1
    <2>3. CASE In(1)
      BY <2>3
    <2>4. CASE ~In(1) /\ In(2)
      BY <2>4, \A j \in 1..(2-1) : j = 1
    <2>5. CASE ~In(1) /\ ~In(2) /\ In(3)
      BY <2>5, \A j \in 1..(3-1) : j = 1 \/ j = 2
    <2>6. CASE ~In(1) /\ ~In(2) /\ ~In(3) /\ In(4)
      BY <2>6, \A j \in 1..(4-1) : j = 1 \/ j = 2 \/ j = 3
    <2>7. CASE ~In(1) /\ ~In(2) /\ ~In(3) /\ ~In(4) /\ In(5)
      BY <2>7, \A j \in 1..(5-1) : j = 1 \/ j = 2 \/ j = 3 \/ j = 4
    <2>8. CASE ~In(1) /\ ~In(2) /\ ~In(3) /\ ~In(4) /\ ~In(5) /\ In(6)
      BY <2>8, \A j \in 1..(6-1) : j = 1 \/ j = 2 \/ j = 3 \/ j = 4 \/ j = 5
    <2>9. CASE ~In(1) /\ ~In(2) /\ ~In(3) /\ ~In(4) /\ ~In(5) /\ ~In(6) /\ In(7)
      BY <2>9, \A j \in 1..(7-1) : j = 1 \/ j = 2 \/ j = 3 \/ j = 4 \/ j = 5 \/ j = 6
    <2> QED
      BY <2>2, <2>3, <2>4, <2>5, <2>6, <2>7, <2>8, <2>9
  <1> QED
    BY <1>2 DEF In

LEMMA BesideFits ==
  ASSUME NEW s \in Desk, NEW k
  PROVE  Beside(s, k) \in Panes
  <1> DEFINE order == <<"sidebar", "threads", "message">>
             at    == IF s.pane \in s.shown
                      THEN CHOOSE i \in 1..3 : order[i] = s.pane
                      ELSE CHOOSE i \in 1..3 : /\ order[i] \in s.shown
                                               /\ \A j \in 1..(i-1) : order[j] \notin s.shown
             side  == {i \in 1..3 : order[i] \in s.shown /\ (IF k \in {"l", "C-l"} THEN i > at ELSE i < at)}
             near  == IF side = {} THEN at
                      ELSE CHOOSE i \in side : \A j \in side :
                             IF k \in {"l", "C-l"} THEN i <= j ELSE i >= j
  <1>1. Beside(s, k) = order[near]
    BY DEF Beside
  <1>2. \A i \in 1..3 : order[i] \in Panes
    BY DEF Panes
  <1>3. \A p \in Panes : \E i \in 1..3 : order[i] = p
    <2>1. order[1] = "sidebar" /\ order[2] = "threads" /\ order[3] = "message"
      OBVIOUS
    <2> QED
      BY <2>1 DEF Panes
  <1> HIDE DEF order
  <1>4. at \in 1..3
    <2>1. CASE s.pane \in s.shown
      BY <1>3, <2>1, DeskFields
    <2>2. CASE s.pane \notin s.shown
      <3>1. \E i \in 1..3 : order[i] \in s.shown
        BY <1>3, DeskFields
      <3>2. \E i \in 1..3 : order[i] \in s.shown /\ \A j \in 1..(i-1) : order[j] \notin s.shown
        <4>1. CASE order[1] \in s.shown
          BY <4>1
        <4>2. CASE order[1] \notin s.shown /\ order[2] \in s.shown
          <5>1. \A j \in 1..(2-1) : j = 1
            OBVIOUS
          <5> QED
            BY <4>2, <5>1
        <4>3. CASE order[1] \notin s.shown /\ order[2] \notin s.shown
          <5>1. \A j \in 1..(3-1) : j = 1 \/ j = 2
            OBVIOUS
          <5>2. order[3] \in s.shown
            BY <3>1, <4>3
          <5> QED
            BY <4>3, <5>1, <5>2
        <4> QED
          BY <4>1, <4>2, <4>3
      <3> QED
        BY <2>2, <3>2
    <2> QED
      BY <2>1, <2>2
  <1> HIDE DEF at
  <1>5. near \in 1..3
    <2>1. side \subseteq 1..3
      OBVIOUS
    <2>2. CASE side = {}
      BY <1>4, <2>2
    <2>3. CASE side # {}
      <3>1. \E i \in side : \A j \in side : IF k \in {"l", "C-l"} THEN i <= j ELSE i >= j
        <4>1. PICK a \in side : TRUE
          BY <2>3
        <4>2. \A i \in side : i = 1 \/ i = 2 \/ i = 3
          BY <2>1
        <4> HIDE DEF side
        <4>3. CASE k \in {"l", "C-l"}
          <5>1. \E i \in side : \A j \in side : i <= j
            <6>1. CASE 1 \in side
              BY <4>2, <6>1
            <6>2. CASE 1 \notin side /\ 2 \in side
              BY <4>2, <6>2
            <6>3. CASE 1 \notin side /\ 2 \notin side
              BY <4>1, <4>2, <6>3
            <6> QED
              BY <6>1, <6>2, <6>3
          <5> QED
            BY <4>3, <5>1
        <4>4. CASE k \notin {"l", "C-l"}
          <5>1. \E i \in side : \A j \in side : i >= j
            <6>1. CASE 3 \in side
              BY <4>2, <6>1
            <6>2. CASE 3 \notin side /\ 2 \in side
              BY <4>2, <6>2
            <6>3. CASE 3 \notin side /\ 2 \notin side
              BY <4>1, <4>2, <6>3
            <6> QED
              BY <6>1, <6>2, <6>3
          <5> QED
            BY <4>4, <5>1
        <4> QED
          BY <4>3, <4>4
      <3> HIDE DEF side
      <3>2. near \in side
        BY <2>3, <3>1
      <3> QED
        BY <2>1, <3>2
    <2> QED
      BY <2>2, <2>3
  <1> QED
    BY <1>1, <1>2, <1>5

LEMMA CancelPasses ==
  ASSUME NEW s \in Desk
  PROVE  /\ Passes(s, Cancelled(s))
         /\ Observed(s) \in Desk /\ ~Observed(s).moved /\ Observed(s).mode = s.mode
         /\ Observed(s).hints = s.hints /\ Observed(s).palette = s.palette
         /\ s.moved => Observed(s).pend = {} /\ Observed(s).count = 0
         /\ ~s.moved => Observed(s) = s
  <1>1. PICK u : u = Cancelled(s)
    OBVIOUS
  <1>2. 0 \in 0..MaxCount
    BY KeyboardAssumption
  <1>3. u = [s EXCEPT !.pend = {}, !.open = {}, !.count = 0]
    BY <1>1 DEF Cancelled
  <1>4. u \in Desk
    BY <1>2, <1>3 DEF Desk
  <1>5. /\ u.mode = s.mode /\ u.hints = s.hints /\ u.moved = s.moved
        /\ u.pend = {} /\ u.count = 0 /\ u.palette = s.palette
    BY <1>3 DEF Desk
  <1>6. Passes(s, u)
    BY <1>4, <1>5 DEF Passes, Typing
  <1>7. PICK t : t = [u EXCEPT !.moved = FALSE]
    OBVIOUS
  <1>8. /\ t \in Desk /\ t.mode = s.mode /\ t.hints = s.hints /\ t.pend = {} /\ t.count = 0 /\ ~t.moved
        /\ t.palette = s.palette
    BY <1>4, <1>5, <1>7 DEF Desk
  <1>9. Observed(s) = IF s.moved THEN t ELSE s
    BY <1>1, <1>7 DEF Observed
  <1> QED
    BY <1>1, <1>6, <1>8, <1>9, DeskFields

(* What a handler returns: a key that stops may have begun something, one    *)
(* that goes on has not.                                                     *)
LEMMA Returns ==
  ASSUME NEW s \in Desk, NEW k, NEW t
  PROVE  /\ Follows(s, k, t) => Handled(s, k, Stops(t)) /\ \A c : Handled(s, k, Ran(t, c, "key", 0))
         /\ Passes(s, t) => Handled(s, k, Proceeds(t))
         /\ \A c : \A v \in s.pend \cup {"key"}, n \in 0..MaxCount :
              Follows(s, k, t) /\ (n > 0 => s.count > 0) => Handled(s, k, Ran(t, c, v, n))
  <1>1. /\ Stops(t).to = t /\ Stops(t).stop /\ Stops(t).run.via = "none" /\ Stops(t).run.times = 0
        /\ Proceeds(t).to = t /\ ~Proceeds(t).stop
        /\ Proceeds(t).run.via = "none" /\ Proceeds(t).run.times = 0
    BY DEF Stops, Proceeds, NoCommand
  <1>2. \A c, v, n : /\ Ran(t, c, v, n).to = t /\ Ran(t, c, v, n).stop
                     /\ Ran(t, c, v, n).run.via = v /\ Ran(t, c, v, n).run.times = n
    BY DEF Ran
  <1>3. "none" \notin Sequences /\ "key" \notin Sequences
    BY SequenceNames
  <1>4. 0 \in 0..MaxCount /\ ~(0 > 0)
    BY KeyboardAssumption
  <1>5. Follows(s, k, t) => Handled(s, k, Stops(t))
    BY <1>1, <1>3, <1>4 DEF Handled, Honest
  <1>6. Passes(s, t) => Handled(s, k, Proceeds(t))
    BY <1>1, <1>3, <1>4 DEF Handled, Honest
  <1>7. ASSUME NEW c, NEW v \in s.pend \cup {"key"}, NEW n \in 0..MaxCount,
               Follows(s, k, t), n > 0 => s.count > 0
        PROVE  Handled(s, k, Ran(t, c, v, n))
    BY <1>2, <1>3, <1>7 DEF Handled, Honest
  <1>8. ASSUME NEW c, Follows(s, k, t) PROVE Handled(s, k, Ran(t, c, "key", 0))
    BY <1>4, <1>7, <1>8
  <1> QED
    BY <1>5, <1>6, <1>7, <1>8

(* A sequence that ends, with its menu and with the count. *)
LEMMA EndsPass ==
  ASSUME NEW s \in Desk, NEW q
  PROVE  /\ Passes(s, [s EXCEPT !.pend = @ \ {q}])
         /\ Passes(s, [s EXCEPT !.count = 0])
         /\ Passes(s, [s EXCEPT !.pend = @ \ {q}, !.count = 0])
         /\ Passes(s, [s EXCEPT !.pend = @ \ {q}, !.open = @ \ {q}])
         /\ Passes(s, [s EXCEPT !.pend = @ \ {q}, !.open = @ \ {q}, !.count = 0])
  <1>1. 0 \in 0..MaxCount
    BY KeyboardAssumption
  <1>2. Passes(s, [s EXCEPT !.pend = @ \ {q}])
    BY DEF Passes, Typing, Desk
  <1>3. Passes(s, [s EXCEPT !.count = 0])
    BY <1>1 DEF Passes, Typing, Desk
  <1>4. Passes(s, [s EXCEPT !.pend = @ \ {q}, !.count = 0])
    BY <1>1 DEF Passes, Typing, Desk
  <1>5. Passes(s, [s EXCEPT !.pend = @ \ {q}, !.open = @ \ {q}])
    BY DEF Passes, Typing, Desk
  <1>6. Passes(s, [s EXCEPT !.pend = @ \ {q}, !.open = @ \ {q}, !.count = 0])
    BY <1>1 DEF Passes, Typing, Desk
  <1> QED
    BY <1>2, <1>3, <1>4, <1>5, <1>6

(* The handlers of the sequences that wait. *)
LEMMA ExitFits ==
  ASSUME NEW s \in Desk, NEW k, "exit" \in s.pend
  PROVE  Handled(s, k, ExitKey(s, k))
  <1>1. PICK t : t = [s EXCEPT !.pend = @ \ {"exit"}]
    OBVIOUS
  <1>2. Passes(s, t) /\ Follows(s, k, t)
    BY <1>1, EndsPass DEF Follows
  <1>3. Handled(s, k, Stops(t))
    BY <1>2, Returns
  <1>4. Handled(s, k, Ran(t, "exit", "exit", 0))
    <2>1. 0 \in 0..MaxCount /\ ~(0 > 0)
      BY KeyboardAssumption
    <2> QED
      BY <1>2, <2>1, Returns
  <1> QED
    BY <1>1, <1>3, <1>4 DEF ExitKey

LEMMA CustomFits ==
  ASSUME NEW s \in Desk, NEW k, NEW ok, "custom" \in s.pend
  PROVE  Handled(s, k, CustomKey(s, k, ok))
  <1>1. PICK t : t = [s EXCEPT !.pend = @ \ {"custom"}, !.count = 0]
    OBVIOUS
  <1>2. Passes(s, t) /\ Follows(s, k, t) /\ t \in Desk
    BY <1>1, EndsPass DEF Follows, Passes
  <1>3. Handled(s, k, Stops(t)) /\ Handled(s, k, Proceeds(t))
    BY <1>2, Returns
  <1>4. Handled(s, k, Ran(SetPane(t, "threads"), "customSearch", "custom", 0))
    <2>1. 0 \in 0..MaxCount /\ ~(0 > 0)
      BY KeyboardAssumption
    <2>2. PICK u : u = SetPane(t, "threads")
      OBVIOUS
    <2>3. Passes(t, u)
      BY <1>2, <2>2, PanesPass DEF Panes
    <2>4. Follows(s, k, u)
      BY <1>2, <2>3, PassesOn DEF Follows
    <2>5. Handled(s, k, Ran(u, "customSearch", "custom", 0))
      BY <2>1, <2>4, Returns
    <2> QED
      BY <2>2, <2>5
  <1> QED
    BY <1>1, <1>3, <1>4 DEF CustomKey

LEMMA GoFits ==
  ASSUME NEW s \in Desk, NEW k, NEW ok, "go" \in s.pend, s.mode = "normal"
  PROVE  Handled(s, k, GoKey(s, k, ok))
  <1>1. PICK t : t = [s EXCEPT !.pend = @ \ {"go"}, !.count = 0]
    OBVIOUS
  <1>2. Passes(s, t) /\ Follows(s, k, t) /\ t \in Desk
    BY <1>1, EndsPass DEF Follows, Passes
  <1>3. Handled(s, k, Stops(t)) /\ Handled(s, k, Proceeds(t))
    BY <1>2, Returns
  <1>4. 0 \in 0..MaxCount /\ ~(0 > 0)
    BY KeyboardAssumption
  <1>5. PICK u : u = SetPane(t, "threads")
    OBVIOUS
  <1>6. Passes(t, u)
    BY <1>2, <1>5, PanesPass DEF Panes
  <1>7. Follows(s, k, u)
    BY <1>2, <1>6, PassesOn DEF Follows
  <1>8. \A c : Handled(s, k, Ran(u, c, "go", 0))
    BY <1>4, <1>7, Returns
  <1>9. Handled(s, k, Ran(t, "top", "go", s.count))
    BY <1>2, DeskFields, Returns
  <1>10. Handled(s, k, Ran([t EXCEPT !.pend = @ \cup {"custom"}], "customPrompt", "go", 0))
    <2>1. PICK w : w = [t EXCEPT !.pend = @ \cup {"custom"}]
      OBVIOUS
    <2>2. w \in Desk
      BY <1>2, <2>1, SequenceNames DEF Desk
    <2>3. /\ w.mode = s.mode /\ w.moved = s.moved /\ w.palette = s.palette /\ w.hints = s.hints
          /\ w.pend = (s.pend \ {"go"}) \cup {"custom"}
      BY <1>1, <2>1 DEF Desk
    <2>4. Single(s) => Single(w)
      BY <2>3 DEF Single
    <2>5. Follows(s, k, w)
      BY <2>2, <2>3, <2>4 DEF Follows, BothNormal
    <2>6. Handled(s, k, Ran(w, "customPrompt", "go", 0))
      BY <1>4, <2>5, Returns
    <2> QED
      BY <2>1, <2>6
  <1>11. GoKey(s, k, ok) =
           CASE k = "g" -> Ran(t, "top", "go", s.count)
             [] k = "c" -> Ran([t EXCEPT !.pend = @ \cup {"custom"}], "customPrompt", "go", 0)
             [] k \in DOMAIN Bindings.go \ {"g", "c"} -> Ran(u, Bindings.go[k], "go", 0)
             [] k = "1" /\ s.count = 0 /\ ok -> Ran(u, "tagSearch", "go", 0)
             [] OTHER -> IF EntryFocus(t) /\ Blocks(k) THEN Stops(t) ELSE Proceeds(t)
    BY <1>1, <1>5 DEF GoKey
  <1>12. CASE k = "g"
    <2>1. GoKey(s, k, ok) = Ran(t, "top", "go", s.count)
      BY <1>11, <1>12
    <2> QED
      BY <1>9, <2>1
  <1>13. CASE k = "c"
    <2>1. GoKey(s, k, ok) = Ran([t EXCEPT !.pend = @ \cup {"custom"}], "customPrompt", "go", 0)
      BY <1>11, <1>13
    <2> QED
      BY <1>10, <2>1
  <1>14. CASE k \notin {"g", "c"}
    <2>1. \/ GoKey(s, k, ok) = Ran(u, Bindings.go[k], "go", 0)
          \/ GoKey(s, k, ok) = Ran(u, "tagSearch", "go", 0)
          \/ GoKey(s, k, ok) = Stops(t)
          \/ GoKey(s, k, ok) = Proceeds(t)
      <3> HIDE DEF Bindings
      <3> QED
        BY <1>11, <1>14
    <2> QED
      BY <1>3, <1>8, <2>1
  <1> QED
    BY <1>12, <1>13, <1>14

LEMMA MenuFits ==
  ASSUME NEW s \in Desk, NEW k, NEW ok, MenuWaits(s, k)
  PROVE  Handled(s, k, MenuKey(s, k, ok))
  <1>1. PICK q : q = MenuOrder[CHOOSE i \in 1..7 : /\ MenuOrder[i] \in s.pend
                                         /\ \A j \in 1..(i-1) : MenuOrder[j] \notin s.pend]
    OBVIOUS
  <1>2. q \in s.pend
    <2>1. \E i \in 1..7 : MenuOrder[i] \in s.pend
      BY DEF MenuWaits, KeyMenus
    <2>2. \E i \in 1..7 : MenuOrder[i] \in s.pend /\ \A j \in 1..(i-1) : MenuOrder[j] \notin s.pend
      BY <2>1, FirstOf7
    <2> QED
      BY <1>1, <2>2
  <1>3. PICK t : t = [s EXCEPT !.pend = @ \ {q}, !.open = @ \ {q}, !.count = 0]
    OBVIOUS
  <1>4. Passes(s, t) /\ Follows(s, k, t) /\ t \in Desk
    BY <1>3, EndsPass DEF Follows, Passes
  <1>5. Handled(s, k, Proceeds(t))
    BY <1>4, Returns
  <1>6. Handled(s, k, Proceeds([t EXCEPT !.count = s.count]))
    <2>1. PICK w : w = [t EXCEPT !.count = s.count]
      OBVIOUS
    <2>2. w \in Desk
      BY <1>4, <2>1, DeskFields DEF Desk
    <2>3. /\ w.mode = s.mode /\ w.moved = s.moved /\ w.pend = s.pend \ {q} /\ w.count = s.count
          /\ w.palette = s.palette /\ w.hints = s.hints
      BY <1>3, <2>1 DEF Desk
    <2>4. Passes(s, w)
      BY <2>2, <2>3 DEF Passes, Typing
    <2> QED
      BY <2>1, <2>4, Returns
  <1>7. 0 \in 0..MaxCount /\ ~(0 > 0)
    BY KeyboardAssumption
  <1>8. ASSUME NEW u, Passes(t, u) PROVE \A c : Handled(s, k, Ran(u, c, q, 0))
    <2>1. Follows(s, k, u)
      BY <1>4, <1>8, PassesOn DEF Follows
    <2> QED
      BY <1>2, <1>7, <2>1, Returns
  <1>9. Passes(t, TagEditor(t)) /\ Passes(t, t)
    BY <1>4, ModesPass, PassesSelf
  <1>10. Passes(t, [SetMode(t, "insert") EXCEPT !.open = s.open, !.focus = "entry"])
    <2>1. PICK v : v = SetMode(t, "insert")
      OBVIOUS
    <2>2. Passes(t, v) /\ v \in Desk
      BY <1>4, <2>1, ModesPass DEF InputModes, Passes
    <2>3. Passes(v, [v EXCEPT !.open = s.open, !.focus = "entry"])
      BY <2>2, DeskFields DEF Passes, Typing, Desk
    <2> QED
      BY <2>1, <2>2, <2>3, PassesOn
  <1>11. PICK u : u = CASE q = "tag" -> TagEditor(t)
                   [] q = "messageTag" /\ k = "T" /\ ok ->
                        [SetMode(t, "insert") EXCEPT !.open = s.open, !.focus = "entry"]
                   [] OTHER -> t
    OBVIOUS
  <1>12. Passes(t, u)
    <2>1. CASE q = "tag"
      BY <1>9, <1>11, <2>1
    <2>2. CASE q # "tag" /\ q = "messageTag" /\ k = "T" /\ ok
      BY <1>10, <1>11, <2>2
    <2>3. CASE q # "tag" /\ ~(q = "messageTag" /\ k = "T" /\ ok)
      BY <1>9, <1>11, <2>3
    <2> QED
      BY <2>1, <2>2, <2>3
  <1>13. MenuKey(s, k, ok) =
           CASE ~Available(s, q) -> Proceeds([t EXCEPT !.count = s.count])
             [] Available(s, q) /\ k \notin DOMAIN Bindings[q] -> Proceeds(t)
             [] OTHER -> Ran(u, Bindings[q][k], q, 0)
    BY <1>1, <1>3, <1>11 DEF MenuKey
  <1>14. \/ MenuKey(s, k, ok) = Proceeds([t EXCEPT !.count = s.count])
         \/ MenuKey(s, k, ok) = Proceeds(t)
         \/ MenuKey(s, k, ok) = Ran(u, Bindings[q][k], q, 0)
    <2> HIDE DEF Bindings
    <2> QED
      BY <1>13
  <1> QED
    BY <1>5, <1>6, <1>8, <1>12, <1>14

(* The handlers of keys that no sequence awaits. *)
LEMMA BeginFits ==
  ASSUME NEW s \in Desk, NEW k \in DOMAIN Begins, NEW ok, s.mode = "normal", s.pend = {}
  PROVE  Handled(s, k, BeginKey(s, k, ok))
  <1>1. PICK q : q = Begins[k]
    OBVIOUS
  <1>2. q \in Sequences
    <2>1. q \in {"images", "messageTag", "tag", "response", "view", "copy", "undo", "exit", "go"}
      BY <1>1 DEF Begins
    <2> QED
      BY <2>1, SequenceNames DEF Sequences
  <1>3. PICK n \in 0..MaxCount : n = IF q = "go" THEN s.count ELSE 0
    BY KeyboardAssumption, DeskFields
  <1>4. PICK e \in BOOLEAN : e = IF q = "tag" THEN FALSE ELSE s.editor
    BY DeskFields
  <1>5. PICK t : t = [s EXCEPT !.count = n, !.editor = e]
    OBVIOUS
  <1>6. /\ t \in Desk /\ t.mode = s.mode /\ t.moved = s.moved /\ t.pend = s.pend /\ t.open = s.open
        /\ t.palette = s.palette /\ t.hints = s.hints
    BY <1>5 DEF Desk
  <1>7. PICK o : o = IF q \in KeyMenus THEN t.open \cup {q} ELSE t.open
    OBVIOUS
  <1>8. o \subseteq KeyMenus
    BY <1>6, <1>7, DeskFields
  <1>9. PICK w : w = [t EXCEPT !.pend = @ \cup {q}, !.open = o]
    OBVIOUS
  <1>10. /\ w \in Desk /\ w.mode = s.mode /\ w.moved = s.moved
         /\ w.palette = s.palette /\ w.hints = s.hints /\ w.pend = {q}
    BY <1>2, <1>6, <1>8, <1>9 DEF Desk
  <1>11. Follows(s, k, t) /\ Follows(s, k, w)
    <2>1. q = "exit" => k = "Z"
      <3>1. DOMAIN Begins = {"I", "M", "T", "r", "V", "y", "z", "Z", "g"}
        BY DEF Begins
      <3>2. /\ Begins["I"] = "images" /\ Begins["M"] = "messageTag" /\ Begins["T"] = "tag"
            /\ Begins["r"] = "response" /\ Begins["V"] = "view" /\ Begins["y"] = "copy"
            /\ Begins["z"] = "undo" /\ Begins["g"] = "go"
        BY DEF Begins
      <3> QED
        BY <1>1, <3>1, <3>2
    <2> QED
      BY <1>6, <1>10, <2>1 DEF Follows, BothNormal, Single
  <1>12. BeginKey(s, k, ok) = IF q = "images" /\ ~ok THEN Stops(t) ELSE Stops(w)
    BY <1>1, <1>3, <1>4, <1>5, <1>7, <1>9 DEF BeginKey
  <1>13. Handled(s, k, Stops(t)) /\ Handled(s, k, Stops(w))
    BY <1>11, Returns
  <1> QED
    BY <1>12, <1>13

LEMMA CommandFits ==
  ASSUME NEW s \in Desk, NEW k \in DOMAIN Commands, NEW ok, ~s.palette, "exit" \notin s.pend
  PROVE  Handled(s, k, CommandKey(s, k, ok))
  <1>1. PICK t : t = [s EXCEPT !.count = 0]
    OBVIOUS
  <1>2. Passes(s, t) /\ t \in Desk /\ ~t.palette /\ "exit" \notin t.pend
    <2>1. t.palette = s.palette /\ t.pend = s.pend
      BY <1>1 DEF Desk
    <2> QED
      BY <1>1, <2>1, EndsPass DEF Passes
  <1>3. PICK c : c = Commands[k]
    OBVIOUS
  <1>4. ASSUME NEW u, Passes(t, u)
        PROVE  /\ Handled(s, k, Ran(u, c, "key", 0)) /\ Handled(s, k, Ran(u, c, "key", s.count))
               /\ Handled(s, k, Stops(u)) /\ Handled(s, k, Proceeds(u))
    <2>1. Passes(s, u) /\ Follows(s, k, u)
      BY <1>2, <1>4, PassesOn DEF Follows
    <2> QED
      BY <2>1, Returns, DeskFields
  <1>5. Passes(t, t) /\ Passes(s, s)
    BY <1>2, PassesSelf
  <1>6. Handled(s, k, Proceeds(s))
    BY <1>5, Returns
  <1>7. PICK i : i = SetMode(t, "insert")
    OBVIOUS
  <1>8. Passes(t, i) /\ i \in Desk /\ i.mode = "insert"
    BY <1>2, <1>7, ModesPass DEF InputModes
  <1>9. /\ Passes(i, [i EXCEPT !.pane = "threads", !.focus = "entry"])
        /\ Passes(i, [i EXCEPT !.palette = TRUE, !.focus = "none"])
        /\ Passes(i, [i EXCEPT !.focus = "body"])
        /\ Passes(t, [t EXCEPT !.focus = "composer"])
        /\ Passes(t, [t EXCEPT !.hints = TRUE])
    <2>1. Passes(i, [i EXCEPT !.pane = "threads", !.focus = "entry"])
      BY <1>8 DEF Passes, Typing, Desk, Panes
    <2>2. Passes(i, [i EXCEPT !.palette = TRUE, !.focus = "none"])
      BY <1>8 DEF Passes, Typing, Desk
    <2>3. Passes(i, [i EXCEPT !.focus = "body"])
      BY <1>8 DEF Passes, Typing, Desk
    <2>4. Passes(t, [t EXCEPT !.focus = "composer"])
      BY <1>2 DEF Passes, Typing, Desk
    <2>5. Passes(t, [t EXCEPT !.hints = TRUE])
      BY <1>2 DEF Passes, Typing, Desk
    <2> QED
      BY <2>1, <2>2, <2>3, <2>4, <2>5
  <1>10. PICK ii : ii = EnterInsert(t)
    OBVIOUS
  <1>11. PICK jj : jj = IF s.pane = "message" /\ s.composing
                          THEN IF ok THEN [i EXCEPT !.focus = "body"]
                               ELSE [t EXCEPT !.focus = "composer"]
                          ELSE t
    OBVIOUS
  <1>12. PICK vv : vv = IF s.visual THEN ClearVisual(t) ELSE EnterVisual(t, ok)
    OBVIOUS
  <1>13. /\ Passes(t, [i EXCEPT !.pane = "threads", !.focus = "entry"])
         /\ Passes(t, [i EXCEPT !.palette = TRUE, !.focus = "none"])
         /\ Passes(t, [i EXCEPT !.focus = "body"])
    BY <1>8, <1>9, PassesOn
  <1>14. Passes(t, ii) /\ Passes(t, jj) /\ Passes(t, vv)
    <2>1. Passes(t, ii)
      BY <1>2, <1>10, ModesPass
    <2>2. Passes(t, jj)
      BY <1>5, <1>9, <1>11, <1>13
    <2>3. Passes(t, ClearVisual(t)) /\ \A a : Passes(t, EnterVisual(t, a))
      BY <1>2, ModesPass
    <2>4. Passes(t, vv)
      BY <1>12, <2>3
    <2> QED
      BY <2>1, <2>2, <2>4
  <1>15. CommandKey(s, k, ok) =
    CASE k = "slash" -> Ran([i EXCEPT !.pane = "threads", !.focus = "entry"], c, "key", 0)
        [] k = "colon" -> Ran([i EXCEPT !.palette = TRUE, !.focus = "none"], c, "key", 0)
        [] k = "i" -> Ran(ii, c, "key", 0)
        [] k = "j" -> Ran(jj, c, "key", s.count)
        [] k = "G" -> Ran(t, c, "key", s.count)
        [] k = "J" -> IF "message" \in s.shown /\ ~s.composing /\ ok THEN Ran(t, c, "key", s.count) ELSE Proceeds(t)
        [] k = "F" -> IF ok THEN Ran([t EXCEPT !.hints = TRUE], c, "key", 0) ELSE Stops(t)
        [] k = "v" -> IF s.pane = "threads" THEN Ran(vv, c, "key", 0) ELSE Proceeds(t)
        [] k = "q" -> IF "message" \in s.shown THEN Ran(t, c, "key", 0) ELSE Proceeds(s)
        [] k = "return" -> IF s.pane = "threads" THEN Ran(t, c, "key", 0) ELSE Stops(t)
        [] OTHER -> Ran(t, c, "key", 0)
    BY <1>1, <1>3, <1>7, <1>10, <1>11, <1>12 DEF CommandKey
  <1> DEFINE Fits(r) ==
               \/ r = Proceeds(s)
               \/ \E u : /\ Passes(t, u)
                         /\ \/ r = Ran(u, c, "key", 0)
                            \/ r = Ran(u, c, "key", s.count)
                            \/ r = Stops(u)
                            \/ r = Proceeds(u)
  <1>16. \A u : Passes(t, u) => /\ Fits(Ran(u, c, "key", 0)) /\ Fits(Ran(u, c, "key", s.count))
                                /\ Fits(Stops(u)) /\ Fits(Proceeds(u))
    OBVIOUS
  <1>17. Fits(Proceeds(s))
    OBVIOUS
  <1>18. ASSUME NEW r, Fits(r) PROVE Handled(s, k, r)
    <2>1. CASE r = Proceeds(s)
      BY <1>6, <2>1
    <2>2. CASE r # Proceeds(s)
      <3>1. PICK u : Passes(t, u) /\ \/ r = Ran(u, c, "key", 0)
                                     \/ r = Ran(u, c, "key", s.count)
                                     \/ r = Stops(u)
                                     \/ r = Proceeds(u)
        BY <1>18, <2>2
      <3>2. /\ Handled(s, k, Ran(u, c, "key", 0)) /\ Handled(s, k, Ran(u, c, "key", s.count))
            /\ Handled(s, k, Stops(u)) /\ Handled(s, k, Proceeds(u))
        BY <1>4, <3>1
      <3> QED
        BY <3>1, <3>2
    <2> QED
      BY <2>1, <2>2
  <1> HIDE DEF Fits
  <1>19. Fits(CommandKey(s, k, ok))
    <2>3. CASE k \in {"slash", "colon", "i", "j"}
      BY <1>13, <1>14, <1>15, <1>16, <2>3
    <2>4. CASE k \in {"G", "J"}
      BY <1>5, <1>15, <1>16, <2>4
    <2>5. CASE k \in {"F", "v"}
      BY <1>5, <1>9, <1>14, <1>15, <1>16, <2>5
    <2>6. CASE k \in {"q", "return"}
      BY <1>5, <1>15, <1>16, <1>17, <2>6
    <2>7. CASE k \notin {"slash", "colon", "i", "j", "G", "J", "F", "v", "q", "return"}
      BY <1>5, <1>15, <1>16, <2>7
    <2> QED
      BY <2>3, <2>4, <2>5, <2>6, <2>7
  <1> QED
    BY <1>18, <1>19

(* A Z that waits is forgotten by every key but Shift. *)
LEMMA ExitEnds ==
  ASSUME NEW s \in Desk, NEW k, NEW ok, s.mode = "normal", "exit" \in s.pend, k # "shift"
  PROVE  "exit" \notin NormalKey(s, k, ok).to.pend
  <1>1. PICK e : e = [s EXCEPT !.pend = @ \ {"exit"}]
    OBVIOUS
  <1>2. "exit" \notin e.pend
    BY <1>1 DEF Desk
  <1>3. CASE k \in ControlKeys
    <2>1. Stage(s, k) = "fallback"
      BY <1>3 DEF Stage
    <2>2. NormalKey(s, k, ok) = Proceeds(e)
      BY <1>1, <1>3, <2>1 DEF NormalKey
    <2> QED
      BY <1>2, <2>2 DEF Proceeds
  <1>4. CASE k \notin ControlKeys
    <2>1. Stage(s, k) = "exit"
      BY <1>4 DEF Stage
    <2>2. NormalKey(s, k, ok) = ExitKey(s, k)
      BY <2>1 DEF NormalKey
    <2>3. ExitKey(s, k) = Ran(e, "exit", "exit", 0) \/ ExitKey(s, k) = Stops(e)
      BY <1>1 DEF ExitKey
    <2> QED
      BY <1>2, <2>2, <2>3 DEF Ran, Stops
  <1> QED
    BY <1>3, <1>4

(* The normal-mode handler, for a mode whose generation it has seen. *)
LEMMA NormalFits ==
  ASSUME NEW s \in Desk, NEW k, NEW ok, ~s.moved, Typing(s)
  PROVE  Handled(s, k, NormalKey(s, k, ok))
  <1>1. Passes(s, s) /\ Follows(s, k, s)
    BY PassesSelf DEF Follows
  <1>2. PICK e : e = [s EXCEPT !.pend = @ \ {"exit"}]
    OBVIOUS
  <1>3. Passes(s, e)
    BY <1>2, EndsPass
  <1>4. PICK d : d = Cancelled(s)
    OBVIOUS
  <1>5. Passes(s, d) /\ Follows(s, k, d) /\ d \in Desk
    BY <1>4, CancelPasses DEF Follows, Passes
  <1>6. PICK i : i = SetMode(d, "insert")
    OBVIOUS
  <1>7. Follows(s, k, i)
    <2>1. Passes(d, i)
      BY <1>5, <1>6, ModesPass DEF InputModes
    <2> QED
      BY <1>5, <2>1, PassesOn DEF Follows
  <1>8. PICK m : m = [s EXCEPT !.count = 0, !.visual = FALSE]
    OBVIOUS
  <1>9. Follows(s, k, m)
    <2>1. /\ m \in Desk /\ m.mode = s.mode /\ m.moved = s.moved /\ m.pend = s.pend /\ m.count = 0
          /\ m.palette = s.palette /\ m.hints = s.hints
      <3>1. 0 \in 0..MaxCount
        BY KeyboardAssumption
      <3>2. m \in Desk
        BY <1>8, <3>1 DEF Desk
      <3>3. /\ m.mode = s.mode /\ m.moved = s.moved /\ m.pend = s.pend /\ m.count = 0
            /\ m.palette = s.palette /\ m.hints = s.hints
        BY <1>8 DEF Desk
      <3> QED
        BY <3>2, <3>3
    <2> QED
      BY <2>1 DEF Follows, Passes, Typing
  <1>10. PICK z : z = [s EXCEPT !.count = 0]
    OBVIOUS
  <1>11. PICK pn : pn = SetPane(z, Beside(s, k))
    OBVIOUS
  <1>12. Follows(s, k, pn)
    <2>1. Passes(s, z) /\ z \in Desk
      BY <1>10, EndsPass DEF Passes
    <2>2. Passes(z, pn)
      BY <1>11, <2>1, PanesPass, BesideFits
    <2> QED
      BY <2>1, <2>2, PassesOn DEF Follows
  <1>13. PICK v : v = IF s.visual THEN ClearVisual(d) ELSE d
    OBVIOUS
  <1>14. s.mode = "normal" => Follows(s, k, v)
    <2>1. s.mode = "normal" => ~s.palette
      BY DEF Typing
    <2>2. d.palette = s.palette
      BY <1>4 DEF Cancelled, Desk
    <2>3. s.mode = "normal" => Passes(d, v)
      BY <1>5, <1>13, <2>1, <2>2, ModesPass, PassesSelf
    <2> QED
      BY <1>5, <2>3, PassesOn DEF Follows
  <1>15. PICK b : b = Proceeds(IF k \in ControlKeys THEN e ELSE s)
    OBVIOUS
  <1>16. Handled(s, k, b)
    BY <1>1, <1>3, <1>15, Returns
  <1>17. PICK stage : stage = Stage(s, k)
    OBVIOUS
  <1>18. PICK n : n = 10 * s.count + (IF k = "1" THEN 1 ELSE 0)
    OBVIOUS
  <1>19. PICK g : g = [s EXCEPT !.count = IF n > MaxCount THEN MaxCount ELSE n]
    OBVIOUS
  <1>20. NormalKey(s, k, ok) =
    CASE stage = "fallback" -> b
        [] stage = "exit" -> ExitKey(s, k)
        [] stage = "composer" -> Ran(d, ComposerKeys[k], "key", 0)
        [] stage = "custom" -> CustomKey(s, k, ok)
        [] stage = "go" -> GoKey(s, k, ok)
        [] stage = "edit" -> Stops(i)
        [] stage = "blocked" -> Stops(d)
        [] stage = "mark" -> Ran(m, "mark", "key", 0)
        [] stage = "pane" -> Ran(pn, "pane", "key", 0)
        [] stage = "escape" -> Stops(v)
        [] stage = "menu" -> MenuKey(s, k, ok)
        [] stage = "digit" -> Stops(g)
        [] stage = "begin" -> BeginKey(s, k, ok)
        [] stage = "command" -> CommandKey(s, k, ok)
    BY <1>2, <1>4, <1>6, <1>8, <1>10, <1>11, <1>13, <1>15, <1>17, <1>18, <1>19 DEF NormalKey
  <1>21. /\ stage \in {"fallback", "exit", "composer", "custom", "go", "edit", "blocked", "mark",
                       "pane", "escape", "menu", "digit", "begin", "command"}
         /\ stage = "exit" => "exit" \in s.pend
         /\ stage = "custom" => "custom" \in s.pend
         /\ stage = "go" => "go" \in s.pend
         /\ stage = "menu" => MenuWaits(s, k)
         /\ stage = "begin" => k \in DOMAIN Begins
         /\ stage = "command" => k \in DOMAIN Commands
         /\ stage # "fallback" => s.mode = "normal"
         /\ stage \in {"begin", "command"} => s.pend = {}
    <2>1. PICK waits \in BOOLEAN : waits = (s.pend \cap KeyMenus # {})
      OBVIOUS
    <2>2. "exit" \notin s.pend /\ "custom" \notin s.pend /\ "go" \notin s.pend /\ ~waits => s.pend = {}
      BY <2>1, DeskFields DEF Sequences
    <2> HIDE DEF Begins, Commands
    <2> QED
      BY <1>17, <2>1, <2>2, DeskFields DEF Stage, MenuWaits
  <1>22. CASE stage \in {"fallback", "edit", "blocked", "escape"}
    <2>1. /\ Handled(s, k, Stops(i)) /\ Handled(s, k, Stops(d))
          /\ s.mode = "normal" => Handled(s, k, Stops(v))
      BY <1>5, <1>7, <1>14, Returns
    <2> QED
      BY <1>16, <1>20, <1>21, <1>22, <2>1
  <1>23. CASE stage \in {"composer", "mark", "pane"}
    <2>1. \A c : Handled(s, k, Ran(d, c, "key", 0)) /\ Handled(s, k, Ran(m, c, "key", 0))
                 /\ Handled(s, k, Ran(pn, c, "key", 0))
      BY <1>5, <1>9, <1>12, Returns
    <2> QED
      BY <1>20, <1>23, <2>1
  <1>24. CASE stage = "exit"
    BY <1>20, <1>21, <1>24, ExitFits
  <1>25. CASE stage = "custom"
    BY <1>20, <1>21, <1>25, CustomFits
  <1>26. CASE stage = "go"
    BY <1>20, <1>21, <1>26, GoFits, DeskFields
  <1>27. CASE stage = "menu"
    BY <1>20, <1>21, <1>27, MenuFits
  <1>28. CASE stage = "begin"
    BY <1>20, <1>21, <1>28, BeginFits, DeskFields
  <1>29. CASE stage = "command"
    BY <1>20, <1>21, <1>29, CommandFits DEF Typing
  <1>30. CASE stage = "digit"
    <2>1. PICK c \in 0..MaxCount : c = IF n > MaxCount THEN MaxCount ELSE n
      <3>1. n \in Nat
        BY <1>18, DeskFields, KeyboardAssumption
      <3> QED
        BY <3>1, KeyboardAssumption
    <2>2. g = [s EXCEPT !.count = c]
      BY <1>19, <2>1
    <2>3. /\ g \in Desk /\ g.mode = s.mode /\ g.moved = s.moved
          /\ g.palette = s.palette /\ g.hints = s.hints /\ g.pend = s.pend
      BY <2>2 DEF Desk
    <2>4. s.mode = "normal"
      BY <1>21, <1>30, DeskFields
    <2>5. Follows(s, k, g)
      BY <2>3, <2>4 DEF Follows, BothNormal, Single
    <2>6. Handled(s, k, Stops(g))
      BY <2>5, Returns
    <2> QED
      BY <1>20, <1>30, <2>6
  <1> QED
    BY <1>21, <1>22, <1>23, <1>24, <1>25, <1>26, <1>27, <1>28, <1>29, <1>30

(* The handlers behind it run no sequence and begin none. *)
LEMMA QuietReturns ==
  ASSUME NEW s, NEW t, Passes(s, t)
  PROVE  /\ Quiet(s, Stops(t)) /\ Quiet(s, Proceeds(t))
         /\ \A c : Quiet(s, Ran(t, c, "key", 0)) /\ Quiet(s, Ran(t, c, "box", 0))
  BY SequenceNames DEF Quiet, Stops, Proceeds, Ran, NoCommand

LEMMA FallbackFits ==
  ASSUME NEW s \in Desk, NEW k, NEW ok
  PROVE  Quiet(s, FallbackKey(s, k, ok))
  <1>1. Passes(s, s)
    BY PassesSelf
  <1>2. PICK i : i = SetMode(s, "insert")
    OBVIOUS
  <1>3. Passes(s, i) /\ i \in Desk /\ i.mode = "insert"
    BY <1>2, ModesPass DEF InputModes
  <1>4. PICK pal : pal = [i EXCEPT !.palette = TRUE, !.focus = "none"]
    OBVIOUS
  <1>5. Passes(s, pal)
    <2>1. Passes(i, pal)
      BY <1>3, <1>4 DEF Passes, Typing, Desk
    <2> QED
      BY <1>3, <2>1, PassesOn
  <1>6. PICK sav : sav = [i EXCEPT !.focus = "entry"]
    OBVIOUS
  <1>7. Passes(s, sav)
    <2>1. Passes(i, sav)
      BY <1>3, <1>6 DEF Passes, Typing, Desk
    <2> QED
      BY <1>3, <2>1, PassesOn
  <1>8. \A p \in Panes : Passes(s, TogglePane(s, p))
    BY PanesPass
  <1>9. "sidebar" \in Panes /\ "threads" \in Panes /\ "message" \in Panes
    BY DEF Panes
  <1>10. PICK closed : closed = [s EXCEPT !.palette = FALSE]
    OBVIOUS
  <1>11. PICK n1 : n1 = EnterNormal(closed)
    OBVIOUS
  <1>12. Passes(s, n1)
    <2>1. Passes(s, closed) /\ closed \in Desk /\ ~closed.palette
      BY <1>10 DEF Passes, Typing, Desk
    <2>2. Passes(closed, n1)
      BY <1>11, <2>1, ModesPass
    <2> QED
      BY <2>1, <2>2, PassesOn
  <1>13. PICK shut : shut = [s EXCEPT !.editor = FALSE, !.open = @ \ {"tag"}]
    OBVIOUS
  <1>14. PICK n2 : n2 = EnterNormal(shut)
    OBVIOUS
  <1>15. ~s.palette => Passes(s, n2)
    <2>1. Passes(s, shut) /\ shut \in Desk /\ shut.palette = s.palette
      BY <1>13 DEF Passes, Typing, Desk
    <2>2. ~s.palette => Passes(shut, n2)
      BY <1>14, <2>1, ModesPass
    <2> QED
      BY <2>1, <2>2, PassesOn
  <1>16. PICK n3 : n3 = EnterNormal(s)
    OBVIOUS
  <1>17. PICK cv : cv = ClearVisual(s)
    OBVIOUS
  <1>18. PICK bs : bs = SetPane(s, Beside(s, k))
    OBVIOUS
  <1>19. PICK en : en = IF s.composing THEN EnterInsert(s) ELSE s
    OBVIOUS
  <1>20. PICK fp : fp = FocusPane(s)
    OBVIOUS
  <1>21. PICK t1 : t1 = TogglePane(s, "sidebar")
    OBVIOUS
  <1>22. PICK t2 : t2 = TogglePane(s, "threads")
    OBVIOUS
  <1>23. PICK t3 : t3 = TogglePane(s, "message")
    OBVIOUS
  <1>24. /\ ~s.palette => Passes(s, n3) /\ Passes(s, cv)
         /\ Passes(s, bs) /\ Passes(s, en) /\ Passes(s, fp)
         /\ Passes(s, t1) /\ Passes(s, t2) /\ Passes(s, t3)
    <2>1. Passes(s, en) /\ (~s.palette => Passes(s, n3) /\ Passes(s, cv))
      BY <1>1, <1>16, <1>17, <1>19, ModesPass
    <2>2. Passes(s, bs) /\ Passes(s, fp)
      BY <1>18, <1>20, BesideFits, PanesPass
    <2>3. Passes(s, t1) /\ Passes(s, t2) /\ Passes(s, t3)
      BY <1>8, <1>9, <1>21, <1>22, <1>23
    <2> QED
      BY <2>1, <2>2, <2>3
  <1> DEFINE Fits(r) == \E u : /\ Passes(s, u)
                               /\ r = Stops(u) \/ r = Proceeds(u) \/ \E c : r = Ran(u, c, "key", 0)
  <1>25. \A u : Passes(s, u) => /\ Fits(Stops(u)) /\ Fits(Proceeds(u))
                                /\ \A c : Fits(Ran(u, c, "key", 0))
    OBVIOUS
  <1>26. ASSUME NEW r, Fits(r) PROVE Quiet(s, r)
    BY <1>26, QuietReturns
  <1> HIDE DEF Fits
  <1>27. FallbackKey(s, k, ok) =
      CASE s.mode = "normal" /\ EntryFocus(s) /\ k \in {"left", "C-c"} -> Proceeds(i)
        [] k = "C-k" -> Ran(pal, "palette", "key", 0)
        [] k = "C-s" -> IF s.composing THEN Proceeds(s)
                        ELSE IF ok THEN Ran(sav, "saveSearch", "key", 0) ELSE Stops(s)
        [] k = "C-1" -> Ran(t1, "togglePane", "key", 0)
        [] k = "C-2" -> Ran(t2, "togglePane", "key", 0)
        [] k = "C-3" -> Ran(t3, "togglePane", "key", 0)
        [] k = "C-4" -> Ran(fp, "layout", "key", 0)
        [] k = "esc" /\ s.palette -> Stops(n1)
        [] k = "C-return" /\ s.composing -> Ran(s, "send", "key", 0)
        [] k = "esc" /\ ~s.palette /\ s.visual -> Stops(cv)
        [] k = "esc" /\ ~s.palette /\ ~s.visual /\ s.mode = "insert" ->
             IF s.editor THEN Stops(n2)
             ELSE IF s.focus = "body" /\ ~ok THEN Proceeds(s) ELSE Stops(n3)
        [] s.mode = "normal" /\ k \in {"C-h", "C-l"} -> Ran(bs, "pane", "key", 0)
        [] s.mode = "normal" /\ k \in {"C-d", "C-f"} ->
             IF k = "C-d" \/ s.pane = "threads" THEN Ran(s, "page", "key", 0) ELSE Proceeds(s)
        [] s.mode = "normal" /\ k = "C-e" ->
             IF "threads" \in s.shown /\ ~s.composing /\ ~EntryFocus(s) THEN Ran(s, "scroll", "key", 0) ELSE Proceeds(s)
        [] s.mode = "normal" /\ k \in {"return", "C-return"} /\ ~(k = "C-return" /\ s.composing) ->
             IF EntryFocus(s) THEN Proceeds(s)
             ELSE IF s.pane = "message" THEN Stops(en)
             ELSE Ran(s, "open", "key", 0)
        [] OTHER -> Proceeds(s)
    BY <1>2, <1>4, <1>6, <1>10, <1>11, <1>13, <1>14, <1>16, <1>17, <1>18, <1>19, <1>20,
       <1>21, <1>22, <1>23 DEF FallbackKey
  <1>28. Fits(FallbackKey(s, k, ok))
    BY <1>1, <1>3, <1>5, <1>7, <1>12, <1>15, <1>24, <1>25, <1>27
  <1> QED
    BY <1>26, <1>28

LEMMA BoxesFit ==
  ASSUME NEW s \in Desk, NEW k, NEW m, NEW ok
  PROVE  Quiet(s, BoxKey(s, k, m, ok)) /\ Quiet(s, TagBoxKey(s, k, m, ok))
  <1>1. PICK t : t = [s EXCEPT !.pend = @ \ {m}, !.open = @ \ {m}]
    OBVIOUS
  <1>2. Passes(s, t) /\ t \in Desk /\ Passes(s, s)
    BY <1>1, EndsPass, PassesSelf DEF Passes
  <1>3. /\ Quiet(s, Proceeds(s)) /\ Quiet(s, Proceeds(t)) /\ Quiet(s, Stops(t))
        /\ \A c : Quiet(s, Ran(t, c, "box", 0))
    BY <1>2, QuietReturns
  <1>4. Quiet(s, BoxKey(s, k, m, ok))
    <2>1. \/ BoxKey(s, k, m, ok) = Proceeds(t)
          \/ BoxKey(s, k, m, ok) = Ran(t, Bindings[m][k], "box", 0)
          \/ BoxKey(s, k, m, ok) = Proceeds(s)
      <3> HIDE DEF Bindings
      <3> QED
        BY <1>1 DEF BoxKey
    <2> QED
      BY <1>3, <2>1
  <1>5. PICK i : i = SetMode(t, "insert")
    OBVIOUS
  <1>6. PICK e : e = [i EXCEPT !.open = s.open, !.focus = "entry"]
    OBVIOUS
  <1>7. Passes(s, e)
    <2>1. Passes(t, i) /\ i \in Desk
      BY <1>2, <1>5, ModesPass DEF InputModes, Passes
    <2>2. Passes(i, e)
      BY <1>6, <2>1, DeskFields DEF Passes, Typing, Desk
    <2> QED
      BY <1>2, <2>1, <2>2, PassesOn
  <1>8. PICK g : g = TagEditor(t)
    OBVIOUS
  <1>9. Passes(s, g)
    BY <1>2, <1>8, ModesPass, PassesOn
  <1>10. PICK u : u = CASE m = "tag" -> g
                   [] m = "messageTag" /\ k = "T" /\ ok -> e
                   [] OTHER -> t
    OBVIOUS
  <1>11. Passes(s, u)
    BY <1>2, <1>7, <1>9, <1>10
  <1>12. \A c : Quiet(s, Ran(u, c, "box", 0))
    BY <1>11, QuietReturns
  <1>13. \/ TagBoxKey(s, k, m, ok) = Proceeds(s)
         \/ TagBoxKey(s, k, m, ok) = Proceeds(t)
         \/ TagBoxKey(s, k, m, ok) = Stops(t)
         \/ TagBoxKey(s, k, m, ok) = Ran(u, Bindings[m][k], "box", 0)
    <2> HIDE DEF Bindings
    <2> QED
      BY <1>1, <1>5, <1>6, <1>8, <1>10 DEF TagBoxKey
  <1> QED
    BY <1>3, <1>4, <1>12, <1>13

(* A key, from the hints to the boxes. *)
LEMMA RoutedFits ==
  ASSUME NEW s \in Desk, NEW k, NEW ok, NEW r \in Routed(s, k, ok), Typing(s)
  PROVE  /\ s.hints => /\ r.to \in Desk /\ r.to.mode = s.mode /\ r.to.moved = s.moved
                       /\ r.to.pend = s.pend /\ r.to.count = s.count /\ r.to.palette = s.palette
                       /\ r.run.via \notin Sequences /\ r.run.times = 0
         /\ ~s.hints => /\ Follows(Observed(s), k, r.to) /\ Honest(Observed(s), r)
                        /\ r.to.pend \subseteq NormalKey(Observed(s), k, ok).to.pend
  <1>1. CASE s.hints
    <2>1. r = HintsKey(s, k, ok)
      BY <1>1 DEF Routed
    <2>2. PICK t : t = [s EXCEPT !.hints = FALSE]
      OBVIOUS
    <2>3. /\ t \in Desk /\ t.mode = s.mode /\ t.moved = s.moved /\ t.pend = s.pend
          /\ t.count = s.count /\ t.palette = s.palette
      BY <2>2 DEF Desk
    <2>4. r = Stops(t) \/ r = Stops(s)
      BY <2>1, <2>2 DEF HintsKey
    <2>5. \A u : Stops(u).to = u /\ Stops(u).run.via = "none" /\ Stops(u).run.times = 0
      BY DEF Stops, NoCommand
    <2> QED
      BY <1>1, <2>3, <2>4, <2>5, SequenceNames
  <1>2. CASE ~s.hints
    <2>1. PICK o : o = Observed(s)
      OBVIOUS
    <2>2. o \in Desk /\ ~o.moved /\ Typing(o)
      BY <2>1, CancelPasses DEF Typing
    <2>3. PICK n : n = NormalKey(o, k, ok)
      OBVIOUS
    <2>4. Handled(o, k, n)
      BY <2>2, <2>3, NormalFits
    <2>5. PICK f : f = IF n.stop THEN n ELSE FallbackKey(n.to, k, ok)
      OBVIOUS
    <2>6. Routed(s, k, ok) = IF f.stop \/ f.to.open = {} THEN {f} ELSE
            {IF m \in {"tag", "messageTag"} THEN TagBoxKey(f.to, k, m, ok) ELSE BoxKey(f.to, k, m, ok) :
               m \in f.to.open}
      BY <1>2, <2>1, <2>3, <2>5 DEF Routed
    <2>7. ASSUME NEW u, NEW x, Passes(o, u), Quiet(u, x)
          PROVE  Follows(o, k, x.to) /\ Passes(o, x.to) /\ Honest(o, x) /\ x.to.pend \subseteq u.pend
      <3>1. Passes(o, x.to) /\ x.to.pend \subseteq u.pend
        BY <2>7, PassesOn DEF Quiet, Passes
      <3>2. 0 \in 0..MaxCount /\ ~(0 > 0)
        BY KeyboardAssumption
      <3> QED
        BY <2>7, <3>1, <3>2 DEF Follows, Quiet, Honest
    <2>8. CASE n.stop
      <3>1. f = n /\ Follows(o, k, n.to) /\ Honest(o, n)
        BY <2>4, <2>5, <2>8 DEF Handled
      <3>2. r = f
        BY <2>6, <2>8, <3>1
      <3> QED
        BY <1>2, <2>1, <2>3, <3>1, <3>2
    <2>9. CASE ~n.stop
      <3>1. Passes(o, n.to) /\ n.to \in Desk
        BY <2>4, <2>9 DEF Handled, Passes
      <3>2. Quiet(n.to, f)
        BY <2>5, <2>9, <3>1, FallbackFits
      <3>3. /\ Follows(o, k, f.to) /\ Passes(o, f.to) /\ Honest(o, f) /\ f.to \in Desk
            /\ f.to.pend \subseteq n.to.pend
        BY <2>7, <3>1, <3>2 DEF Passes
      <3>4. CASE f.stop \/ f.to.open = {}
        <4>1. r = f
          BY <2>6, <3>4
        <4> QED
          BY <1>2, <2>1, <2>3, <3>3, <4>1
      <3>5. CASE ~(f.stop \/ f.to.open = {})
        <4>1. PICK m \in f.to.open : r = IF m \in {"tag", "messageTag"} THEN TagBoxKey(f.to, k, m, ok)
                                         ELSE BoxKey(f.to, k, m, ok)
          BY <2>6, <3>5
        <4>2. PICK w : w = f.to
          OBVIOUS
        <4>3. Quiet(w, BoxKey(w, k, m, ok)) /\ Quiet(w, TagBoxKey(w, k, m, ok))
          BY <3>3, <4>2, BoxesFit
        <4>4. Quiet(w, r)
          BY <4>1, <4>2, <4>3
        <4> QED
          BY <1>2, <2>1, <2>3, <2>7, <3>3, <4>2, <4>4
      <3> QED
        BY <3>4, <3>5
    <2> QED
      BY <2>8, <2>9
  <1> QED
    BY <1>1, <1>2

-----------------------------------------------------------------------------
(* What waits after a change of the mode has the generation moved. *)
LEMMA CrossedMoved ==
  ASSUME KeyInv, NEW t, Passes(desk, t), Notes(desk, t)
  PROVE  /\ t.mode = "insert" => Fresh(t)
         /\ crossed' \subseteq Sequences \cup {"count"} /\ (crossed' # {} => t.moved)
  <1>1. /\ t \in Desk /\ desk \in Desk /\ (desk.moved => t.moved)
        /\ t.pend \subseteq desk.pend /\ (desk.count = 0 => t.count = 0)
        /\ t.mode = desk.mode \/ t.moved \/ t.mode = "normal"
    BY DEF KeyInv, Passes
  <1>2. desk.mode = "insert" => desk.moved \/ (desk.pend = {} /\ desk.count = 0)
    BY DEF KeyInv, Fresh
  <1>3. t.mode = "insert" => t.moved \/ (t.pend = {} /\ t.count = 0)
    BY <1>1, <1>2, DeskFields
  <1>4. Waiting(t) \subseteq Sequences \cup {"count"}
    BY <1>1, DeskFields DEF Waiting
  <1>5. t.pend = {} /\ t.count = 0 => Waiting(t) = {}
    BY DEF Waiting
  <1>6. t.moved \/ t.mode = desk.mode \/ (t.pend = {} /\ t.count = 0)
    BY <1>1, <1>2, DeskFields
  <1>7. CASE t.mode # desk.mode
    <2>1. crossed' = Waiting(t)
      BY <1>7 DEF Notes
    <2> QED
      BY <1>3, <1>4, <1>5, <1>6, <1>7, <2>1 DEF Fresh
  <1>8. CASE t.mode = desk.mode
    <2>1. crossed' \subseteq crossed /\ crossed' \subseteq Waiting(t)
      BY <1>8 DEF Notes
    <2>2. crossed # {} => desk.moved
      BY DEF KeyInv
    <2> QED
      BY <1>1, <1>3, <1>4, <2>1, <2>2 DEF Fresh
  <1> QED
    BY <1>7, <1>8

LEMMA ElsewhereKeeps ==
  ASSUME KeyInv, NEW t, Passes(desk, t), desk' = t, did' = Nothing, Notes(desk, t), afterZ' = afterZ
  PROVE  KeyInv' /\ did'.via \notin Sequences /\ did'.times = 0
  <1>1. 0 \in 0..MaxCount
    BY KeyboardAssumption
  <1>2. /\ t.mode = "insert" => Fresh(t)
        /\ crossed' \subseteq Sequences \cup {"count"} /\ (crossed' # {} => t.moved)
    BY CrossedMoved
  <1>3. /\ t \in Desk /\ t.pend \subseteq desk.pend /\ (desk.moved => t.moved)
        /\ Typing(desk) => Typing(t)
        /\ t.hints => desk.hints \/ t.moved \/ "exit" \notin t.pend
    BY DEF Passes
  <1>4. /\ Single(desk) /\ Typing(desk)
        /\ desk.hints /\ "exit" \in desk.pend => desk.moved
        /\ "exit" \in desk.pend /\ ~desk.moved => afterZ
    BY DEF KeyInv
  <1>5. Single(t) /\ Typing(t)
    BY <1>3, <1>4 DEF Single
  <1>6. /\ t.hints /\ "exit" \in t.pend => t.moved
        /\ "exit" \in t.pend /\ ~t.moved => afterZ
    BY <1>3, <1>4
  <1>7. KeyInv'
    BY <1>1, <1>2, <1>3, <1>5, <1>6 DEF KeyInv, Nothing, Fresh, Single, Typing
  <1> QED
    BY <1>7, SequenceNames DEF Nothing

LEMMA PressKeeps ==
  ASSUME KeyInv, NEW k, Press(k)
  PROVE  /\ KeyInv'
         /\ did'.via \in Sequences \/ did'.times > 0 => crossed = {}
         /\ did'.via \in Sequences \cup {"none"}
         /\ did'.via = "exit" => afterZ
  <1>1. PICK ok \in BOOLEAN : \E r \in Routed(desk, k, ok) :
       /\ desk' = r.to /\ did' = [via |-> IF r.run.via \in Sequences THEN r.run.via ELSE "none", times |-> r.run.times]
       /\ Notes(IF desk.hints THEN desk ELSE Observed(desk), r.to)
    BY DEF Press
  <1>2. PICK r \in Routed(desk, k, ok) :
       /\ desk' = r.to /\ did' = [via |-> IF r.run.via \in Sequences THEN r.run.via ELSE "none", times |-> r.run.times]
       /\ Notes(IF desk.hints THEN desk ELSE Observed(desk), r.to)
    BY <1>1
  <1>3. did'.times = r.run.times /\ did'.via = IF r.run.via \in Sequences THEN r.run.via ELSE "none"
    BY <1>2
  <1>4. did'.via \in Sequences \cup {"none"}
    BY <1>3
  <1>5. desk \in Desk /\ Typing(desk)
    BY DEF KeyInv
  <1>6. PICK t : t = r.to
    OBVIOUS
  <1>9. afterZ' = IF k = "shift" THEN afterZ ELSE k = "Z"
    BY DEF Press
  <1>7. CASE desk.hints
    <2>1. /\ t \in Desk /\ t.mode = desk.mode /\ t.moved = desk.moved
          /\ t.pend = desk.pend /\ t.count = desk.count /\ t.palette = desk.palette
          /\ r.run.via \notin Sequences /\ r.run.times = 0
      BY <1>5, <1>6, <1>7, RoutedFits
    <2>2. Passes(desk, t)
      BY <1>7, <2>1, DeskFields DEF Passes, Typing
    <2>3. Notes(desk, t) /\ desk' = t
      BY <1>2, <1>6, <1>7
    <2>4. /\ t.mode = "insert" => Fresh(t)
          /\ crossed' \subseteq Sequences \cup {"count"} /\ (crossed' # {} => t.moved)
      BY <2>2, <2>3, CrossedMoved
    <2>5. did'.times = 0 /\ 0 \in 0..MaxCount /\ did'.via = "none"
      BY <1>3, <2>1, KeyboardAssumption
    <2>6. Single(t) /\ Typing(t)
      BY <2>1 DEF KeyInv, Single, Typing
    <2>7. "exit" \in t.pend => t.moved
      BY <1>7, <2>1 DEF KeyInv
    <2>8. KeyInv'
      BY <2>1, <2>3, <2>4, <2>5, <2>6, <2>7 DEF KeyInv, Fresh, Single, Typing
    <2> QED
      BY <2>5, <2>8, SequenceNames
  <1>8. CASE ~desk.hints
    <2>1. PICK o : o = Observed(desk)
      OBVIOUS
    <2>2. /\ o \in Desk /\ ~o.moved /\ o.mode = desk.mode /\ ~o.hints /\ o.palette = desk.palette
          /\ desk.moved => o.pend = {} /\ o.count = 0
          /\ ~desk.moved => o = desk
      BY <1>5, <1>8, <2>1, CancelPasses
    <2>3. /\ Follows(o, k, t) /\ Honest(o, r)
          /\ t.pend \subseteq NormalKey(o, k, ok).to.pend
      BY <1>5, <1>6, <1>8, <2>1, RoutedFits
    <2>4. Notes(o, t) /\ desk' = t
      BY <1>2, <1>6, <1>8, <2>1
    <2>5. o.mode = "insert" => o.pend = {} /\ o.count = 0
      BY <2>2 DEF KeyInv, Fresh
    <2>6. t \in Desk
      BY <2>3 DEF Follows, Passes, BothNormal
    <2>7. t.mode = "insert" => Fresh(t)
      BY <2>2, <2>3, <2>5, <2>6, DeskFields DEF Follows, Passes, BothNormal, Fresh
    <2>8. Waiting(t) \subseteq Sequences \cup {"count"}
      BY <2>6, DeskFields DEF Waiting
    <2>9. crossed' \subseteq Sequences \cup {"count"} /\ (crossed' # {} => t.moved)
      <3>1. CASE t.mode # desk.mode
        <4>1. crossed' = Waiting(t)
          BY <2>4, <3>1 DEF Notes
        <4>2. t.moved \/ (t.pend = {} /\ t.count = 0)
          BY <2>2, <2>3, <2>5, <2>6, <3>1, DeskFields DEF Follows, Passes, BothNormal
        <4> QED
          BY <2>8, <4>1, <4>2 DEF Waiting
      <3>2. CASE t.mode = desk.mode
        <4>1. crossed' = crossed \cap Waiting(o) \cap Waiting(t)
          BY <2>4, <3>2 DEF Notes
        <4>2. crossed # {} => Waiting(o) = {}
          <5>1. crossed # {} => desk.moved
            BY DEF KeyInv
          <5> QED
            BY <2>2, <5>1 DEF Waiting
        <4> QED
          BY <2>8, <4>1, <4>2
      <3> QED
        BY <3>1, <3>2
    <2>10. r.run.times \in 0..MaxCount
      BY <2>3 DEF Honest
    <2>11. did'.via \in Sequences \/ did'.times > 0 => crossed = {}
      <3>1. did'.via \in Sequences => o.pend # {}
        BY <1>3, <2>3, SequenceNames DEF Honest
      <3>2. did'.times > 0 => o.count > 0
        BY <1>3, <2>3 DEF Honest
      <3>3. o.pend # {} \/ o.count > 0 => ~desk.moved
        BY <2>2
      <3>4. ~desk.moved => crossed = {}
        BY DEF KeyInv
      <3> QED
        BY <3>1, <3>2, <3>3, <3>4
    <2>12. Single(t) /\ Typing(t)
      <3>1. Single(o) /\ Typing(o)
        BY <2>2 DEF KeyInv, Single, Typing
      <3>2. CASE Passes(o, t)
        BY <3>1, <3>2 DEF Passes, Single
      <3>3. CASE BothNormal(o, k, t)
        BY <3>1, <3>3 DEF BothNormal, Typing
      <3> QED
        BY <2>3, <3>2, <3>3 DEF Follows
    <2>13. t.hints => t.moved \/ "exit" \notin t.pend
      BY <2>2, <2>3 DEF Follows, Passes, BothNormal
    <2>14. "exit" \in o.pend => afterZ /\ o.mode = "normal"
      <3>1. "exit" \in o.pend => ~desk.moved /\ o = desk
        BY <2>2
      <3>2. "exit" \in desk.pend /\ ~desk.moved => afterZ /\ desk.mode # "insert"
        BY DEF KeyInv, Fresh
      <3> QED
        BY <2>2, <3>1, <3>2, DeskFields
    <2>15. "exit" \in t.pend => afterZ'
      <3>1. CASE "exit" \in o.pend
        <4>1. k # "shift" => "exit" \notin t.pend
          BY <2>2, <2>3, <2>14, <3>1, ExitEnds
        <4> QED
          BY <1>9, <2>14, <3>1, <4>1
      <3>2. CASE "exit" \notin o.pend
        <4>1. "exit" \in t.pend => k = "Z"
          BY <2>3, <3>2 DEF Follows, Passes, BothNormal
        <4> QED
          BY <1>9, <4>1
      <3> QED
        BY <3>1, <3>2
    <2>16. did'.via = "exit" => afterZ
      BY <1>3, <2>3, <2>14, SequenceNames DEF Honest
    <2>17. KeyInv'
      BY <1>3, <2>4, <2>6, <2>7, <2>9, <2>10, <2>12, <2>13, <2>15 DEF KeyInv, Fresh, Single, Typing
    <2> QED
      BY <1>4, <2>11, <2>16, <2>17
  <1> QED
    BY <1>7, <1>8

LEMMA KeyInitFits == ASSUME KeyboardInit PROVE KeyInv
  <1>1. PICK panes \in (SUBSET Panes) \ {{}} :
     desk = [mode |-> "normal", moved |-> FALSE, pend |-> {}, count |-> 0, open |-> {},
             pane |-> IF "threads" \in panes THEN "threads"
                      ELSE IF "message" \in panes THEN "message" ELSE "sidebar",
             shown |-> panes, composing |-> FALSE, focus |-> "none",
             visual |-> FALSE, palette |-> FALSE, editor |-> FALSE,
             hints |-> FALSE]
    BY DEF KeyboardInit
  <1>2. PICK p \in Panes : p = IF "threads" \in panes THEN "threads"
                      ELSE IF "message" \in panes THEN "message" ELSE "sidebar"
    BY DEF Panes
  <1>3. 0 \in 0..MaxCount
    BY KeyboardAssumption
  <1>4. desk \in Desk /\ desk.mode = "normal" /\ desk.pend = {} /\ ~desk.palette /\ ~desk.hints
    BY <1>1, <1>2, <1>3 DEF Desk
  <1>5. crossed = {} /\ did.times = 0
    BY DEF KeyboardInit, Nothing
  <1> QED
    BY <1>3, <1>4, <1>5 DEF KeyInv, Single, Typing

(* Every step that is not a key is one of the moves below. *)
LEMMA MovesFit ==
  ASSUME KeyInv,
         FocusEntry \/ ShowComposer \/ LeaveComposer \/ ClickMenu \/ DismissMenu \/ RunPalette
  PROVE  /\ \E t : Passes(desk, t) /\ desk' = t /\ did' = Nothing /\ Notes(desk, t)
         /\ afterZ' = afterZ
  <1>1. desk \in Desk /\ desk.shown \subseteq Panes
    BY DeskFields DEF KeyInv
  <1>2. CASE FocusEntry
    <2>1. ASSUME NEW p \in desk.shown PROVE Passes(desk, [desk EXCEPT !.pane = p, !.focus = "entry"])
      BY <1>1 DEF Passes, Typing, Desk
    <2>2. Passes(desk, [desk EXCEPT !.pane = "message", !.focus = "composer"])
      BY <1>1 DEF Passes, Typing, Desk, Panes
    <2>3. PICK i : i = SetMode(desk, "insert")
      OBVIOUS
    <2>4. Passes(desk, [i EXCEPT !.pane = "message", !.focus = "body"])
      <3>1. Passes(desk, i) /\ i \in Desk
        BY <1>1, <2>3, ModesPass DEF InputModes, Passes
      <3>2. Passes(i, [i EXCEPT !.pane = "message", !.focus = "body"])
        BY <3>1 DEF Passes, Typing, Desk, Panes
      <3> QED
        BY <3>1, <3>2, PassesOn
    <2> QED
      BY <1>2, <2>1, <2>2, <2>3, <2>4 DEF FocusEntry, Elsewhere
  <1>3. CASE ShowComposer
    <2>1. Passes(desk, [desk EXCEPT !.composing = TRUE, !.pane = "message"])
      BY <1>1 DEF Passes, Typing, Desk, Panes
    <2> QED
      BY <1>3, <2>1 DEF ShowComposer, Elsewhere
  <1>4. CASE LeaveComposer
    <2>1. PICK f \in {"entry", "composer", "body", "none"} :
            f = IF desk.focus \in {"composer", "body"} THEN "none" ELSE desk.focus
      BY <1>1, DeskFields
    <2>2. Passes(desk, [desk EXCEPT !.composing = FALSE, !.focus = f])
      BY <1>1 DEF Passes, Typing, Desk
    <2>3. Elsewhere([desk EXCEPT !.composing = FALSE, !.focus = f])
      BY <1>4, <2>1 DEF LeaveComposer
    <2> QED
      BY <2>2, <2>3 DEF Elsewhere
  <1>5. CASE ClickMenu
    <2>1. PICK m \in KeyMenus : Elsewhere([desk EXCEPT !.open = {m}])
      BY <1>5 DEF ClickMenu
    <2>2. Passes(desk, [desk EXCEPT !.open = {m}])
      BY <1>1 DEF Passes, Typing, Desk
    <2> QED
      BY <2>1, <2>2 DEF Elsewhere
  <1>6. CASE DismissMenu
    <2>1. PICK m \in desk.open : Elsewhere([desk EXCEPT !.open = @ \ {m}])
      BY <1>6 DEF DismissMenu
    <2>2. Passes(desk, [desk EXCEPT !.open = @ \ {m}])
      BY <1>1 DEF Passes, Typing, Desk
    <2> QED
      BY <2>1, <2>2 DEF Elsewhere
  <1>7. CASE RunPalette
    <2>1. PICK c \in ThreadCommands \cup ViewCommands \cup OtherCommands :
            \E ok \in BOOLEAN :
              /\ desk' = RunNamed(EnterNormal([desk EXCEPT !.palette = FALSE]), c, ok)
              /\ Notes(desk, RunNamed(EnterNormal([desk EXCEPT !.palette = FALSE]), c, ok))
              /\ did' = Nothing /\ afterZ' = afterZ
      BY <1>7 DEF RunPalette
    <2>2. PICK ok \in BOOLEAN :
              /\ desk' = RunNamed(EnterNormal([desk EXCEPT !.palette = FALSE]), c, ok)
              /\ Notes(desk, RunNamed(EnterNormal([desk EXCEPT !.palette = FALSE]), c, ok))
              /\ did' = Nothing /\ afterZ' = afterZ
      BY <2>1
    <2>3. PICK u : u = [desk EXCEPT !.palette = FALSE]
      OBVIOUS
    <2>4. PICK n : n = EnterNormal(u)
      OBVIOUS
    <2>5. Passes(desk, n) /\ n \in Desk /\ ~n.palette /\ n.moved
      <3>1. Passes(desk, u) /\ u \in Desk /\ ~u.palette /\ u.mode = desk.mode
        BY <1>1, <2>3 DEF Passes, Typing, Desk
      <3>2. Passes(u, n) /\ n.palette = u.palette /\ (u.mode = "insert" => n.moved)
        BY <2>4, <3>1, ModesPass
      <3>3. desk.mode = "insert"
        BY <1>7 DEF RunPalette, KeyInv, Typing
      <3> QED
        BY <3>1, <3>2, <3>3, PassesOn DEF Passes
    <2>6. Passes(n, RunNamed(n, c, ok))
      <3>1. /\ Passes(n, EnterVisual(n, ok)) /\ Passes(n, ClearVisual(n))
            /\ Passes(n, FocusPane(n)) /\ Passes(n, n)
        BY <2>5, ModesPass, PanesPass, PassesSelf
      <3>2. Passes(n, [n EXCEPT !.hints = ok])
        <4>1. PICK v : v = [n EXCEPT !.hints = ok]
          OBVIOUS
        <4>2. v \in Desk
          BY <2>5, <4>1 DEF Desk
        <4>3. /\ v.moved = n.moved /\ v.pend = n.pend /\ v.count = n.count /\ v.mode = n.mode
              /\ v.palette = n.palette
          BY <2>5, <4>1 DEF Desk
        <4> QED
          BY <2>5, <4>1, <4>2, <4>3 DEF Passes, Typing
      <3> QED
        BY <3>1, <3>2 DEF RunNamed
    <2> QED
      BY <2>2, <2>3, <2>4, <2>5, <2>6, PassesOn
  <1> QED
    BY <1>2, <1>3, <1>4, <1>5, <1>6, <1>7

LEMMA KeyStepKeeps ==
  ASSUME KeyInv, [KeyboardNext]_keyboardVars
  PROVE  /\ KeyInv'
         /\ [did'.via \notin crossed /\ (did'.times > 0 => "count" \notin crossed)]_keyboardVars
         /\ [did'.via = "exit" => afterZ]_keyboardVars
  <1>1. CASE UNCHANGED keyboardVars
    BY <1>1 DEF keyboardVars, KeyInv, Fresh, Single, Typing
  <1>2. CASE \E k \in Pressed : Press(k)
    <2>1. /\ KeyInv'
          /\ did'.via \in Sequences \/ did'.times > 0 => crossed = {}
          /\ did'.via \in Sequences \cup {"none"}
          /\ did'.via = "exit" => afterZ
      BY <1>2, PressKeeps
    <2>2. "none" \notin crossed
      BY SequenceNames DEF KeyInv
    <2> QED
      BY <2>1, <2>2
  <1>3. CASE FocusEntry \/ ShowComposer \/ LeaveComposer \/ ClickMenu \/ DismissMenu \/ RunPalette
    <2>1. /\ \E t : Passes(desk, t) /\ desk' = t /\ did' = Nothing /\ Notes(desk, t)
          /\ afterZ' = afterZ
      BY <1>3, MovesFit
    <2>2. PICK t : Passes(desk, t) /\ desk' = t /\ did' = Nothing /\ Notes(desk, t)
      BY <2>1
    <2>3. KeyInv' /\ did'.times = 0
      BY <2>1, <2>2, ElsewhereKeeps
    <2>4. did'.via = "none" /\ "none" \notin crossed
      BY <2>2, SequenceNames DEF KeyInv, Nothing
    <2> QED
      BY <2>3, <2>4
  <1> QED
    BY <1>1, <1>2, <1>3 DEF KeyboardNext

(* What the handler relies on: at most one sequence waits; in insert mode      *)
(* nothing waits that the next key will not cancel; what was begun before a    *)
(* change of the mode is under a moved generation; a Z that waits, and that    *)
(* the next key will not cancel, was the last key.                             *)
THEOREM KeyboardInvariant == KeyboardSpec => []KeyInv
  <1>1. KeyboardInit => KeyInv
    BY KeyInitFits
  <1>2. KeyInv /\ [KeyboardNext]_keyboardVars => KeyInv'
    BY KeyStepKeeps
  <1> QED
    BY <1>1, <1>2, PTL DEF KeyboardSpec

(* The desk keeps its shape under every key and every click: a pane stays     *)
(* visible whatever panes are toggled (set_pane_visibility_from_control).     *)
THEOREM KeyboardTypeCorrect == KeyboardSpec => []KeyboardTypeOK
  <1>1. KeyInv => KeyboardTypeOK
    BY DEF KeyInv, KeyboardTypeOK
  <1> QED
    BY <1>1, KeyboardInvariant, PTL

(* The flags of the sequences are separate cells, yet never two of them are   *)
(* set, so no key completes two sequences (install_shortcuts).                *)
THEOREM OneSequenceAtATime == KeyboardSpec => []OneSequence
  <1>1. ASSUME KeyInv PROVE OneSequence
    <2>1. CASE desk.pend = {}
      BY <2>1, FS_EmptySet DEF OneSequence
    <2>2. CASE desk.pend # {}
      <3>1. PICK q : desk.pend = {q}
        BY <1>1, <2>2 DEF KeyInv, Single
      <3> QED
        BY <3>1, FS_Singleton DEF OneSequence
    <2> QED
      BY <2>1, <2>2
  <1> QED
    BY <1>1, KeyboardInvariant, PTL

(* What was typed before a change of the input mode runs no command after it, *)
(* whoever changed the mode (observed_input_mode_generation).                 *)
THEOREM SequencesStayWithinMode == KeyboardSpec => SequenceWithinMode
  <1>1. KeyInv /\ [KeyboardNext]_keyboardVars
          => [did'.via \notin crossed /\ (did'.times > 0 => "count" \notin crossed)]_keyboardVars
    BY KeyStepKeeps
  <1> QED
    BY <1>1, KeyboardInvariant, PTL DEF KeyboardSpec, SequenceWithinMode

(* The exit by keyboard takes two Zs in a row, whatever hints, menus, panes   *)
(* and modes come between (pending_exit).                                     *)
THEOREM ExitNeedsTwoZ == KeyboardSpec => ExitTakesTwoZ
  <1>1. KeyInv /\ [KeyboardNext]_keyboardVars => [did'.via = "exit" => afterZ]_keyboardVars
    BY KeyStepKeeps
  <1> QED
    BY <1>1, KeyboardInvariant, PTL DEF KeyboardSpec, ExitTakesTwoZ
=============================================================================
