------------------------------- MODULE MCDesk -------------------------------
(***************************************************************************)
(* What the user works with, checked in one run: the keyboard, the         *)
(* selection of threads, the thread reader, the list of attachments, the   *)
(* automation harness, and the views with the images they may load.  As    *)
(* far as these modules go they share no state, so interleaving them would *)
(* show nothing: `part` is the one that runs in a behavior, and the others *)
(* stay in one of their initial states.  A fixture may do all that the     *)
(* other two options of a launch permit, so they are set with it.          *)
(***************************************************************************)
EXTENDS Keyboard, VisualSelection, ThreadReader, Attachments, Automation, MCMessageView

VARIABLE part

deskVars == <<keyboardVars, visualVars, readerVars, attachVars, autoVars, viewVars, part>>

DeskInit ==
  /\ part \in {"keyboard", "visual", "reader", "attachments", "automation", "views"}
  /\ VisualInit /\ AttachInit /\ ViewInit
  /\ KeyboardInit /\ (part # "keyboard" => desk.shown = Panes)
  /\ ReaderInit /\ (part # "reader" => workerUp)
  /\ AutoInit /\ (launch.fixture => launch.send /\ launch.tag)
  /\ (part # "automation" => launch.fixture)

Resting ==
  /\ part # "keyboard" => UNCHANGED keyboardVars
  /\ part # "visual" => UNCHANGED visualVars
  /\ part # "reader" => UNCHANGED readerVars
  /\ part # "attachments" => UNCHANGED attachVars
  /\ part # "automation" => UNCHANGED autoVars
  /\ part # "views" => UNCHANGED viewVars
  /\ UNCHANGED part

DeskNext ==
  \/ part = "keyboard" /\ KeyboardNext /\ Resting
  \/ part = "visual" /\ VisualNext /\ Resting
  \/ part = "reader" /\ ReaderNext /\ Resting
  \/ part = "attachments" /\ AttachNext /\ Resting
  \/ part = "automation" /\ AutoNext /\ Resting
  \/ part = "views" /\ ViewNext /\ Resting

DeskSpec == DeskInit /\ [][DeskNext]_deskVars
=============================================================================
