------------------------------ MODULE Settings ------------------------------
(***************************************************************************)
(* The configuration file and everything that writes it: the launch that   *)
(* loads and validates it (app.rs, config.rs), the Settings dialog         *)
(* (widgets/settings.rs), the lists the window keeps by itself (trusted    *)
(* senders, view preferences, saved and hidden searches: main_window.rs)   *)
(* and the save_settings command of the automation harness.                *)
(*                                                                         *)
(* One key stands for each kind of key:                                    *)
(*   page    applied while running, a number with a range (0: out of it);  *)
(*   name    read at launch only, optional (0: absent; the launch then     *)
(*           takes the value of the environment or of Notmuch, FromNotmuch)*)
(*   args, mode  the send arguments and the send mode, launch only; the    *)
(*           dialog shows a list joined by commas and parses it again;     *)
(*   hidden  the hidden tag searches, in the dialog and in a menu;         *)
(*   kept    lists the dialog does not show, each a key of its own.        *)
(***************************************************************************)
EXTENDS Naturals, FiniteSets

CONSTANTS
  MaxConfigFaults \* failed writes, and times another program breaks the file

ASSUME SettingsAssumption == MaxConfigFaults \in Nat

VARIABLES
  file,       \* [ok, c]: does it parse as TOML, and its keys
  app,        \* the running program: launch options, live settings, lists
  form,       \* the open dialog, or NoForm
  tagging,    \* a tag operation is running, or its result is not reconciled
  chosen,     \* history: the name the user last chose in the dialog and saved
  left        \* faults still to come

settingsVars == <<file, app, form, tagging, chosen, left>>

FromNotmuch == 2
Lists == {"trusted", "searches"}
ArgLists == {"none", "one", "comma", "split"}
Config == [page : {0, 1}, name : {0, 1, FromNotmuch}, args : ArgLists, mode : {"stdin", "template"},
           hidden : BOOLEAN, kept : SUBSET Lists]
NoForm == [page |-> 0, name |-> 0, args |-> "none", mode |-> "stdin",
           hidden |-> FALSE, open |-> FALSE]
NoApp == [up |-> FALSE, page |-> 0, name |-> 0, args |-> "none", mode |-> "stdin",
          hidden |-> FALSE, kept |-> {}]

-----------------------------------------------------------------------------
(***************************************************************************)
(* Loading and validation.                                                 *)
(***************************************************************************)
\* An argument that contains "{file}": every list but the empty one has one.
HasFile(args) == args # "none"

\* parse_string_list of join_string_list: an argument that holds a comma comes
\* back as two.
Reparsed(args) == IF args = "comma" THEN "split" ELSE args

SendValid(mode, args) == mode = "template" => HasFile(args)

Validates(c) == c.page # 0 /\ SendValid(c.mode, c.args)

\* What toml::from_str and AppConfig::validate accept.
Loads(f) == f.ok /\ Validates(f.c)

SettingsInit ==
  /\ \E n \in {0, 1}, a \in {"none", "comma"} :
       file = [ok |-> TRUE, c |-> [page |-> 1, name |-> n, args |-> a,
                mode |-> IF HasFile(a) THEN "template" ELSE "stdin",
                hidden |-> FALSE, kept |-> {}]]
  /\ app = NoApp
  /\ form = NoForm
  /\ tagging = FALSE
  /\ chosen = 0
  /\ left = MaxConfigFaults

\* launch: load_app_config, load_notmuch_context and launch_options.
LaunchOptions(c) ==
  [up |-> TRUE, page |-> c.page, args |-> c.args, mode |-> c.mode,
   name |-> IF c.name = 0 THEN FromNotmuch ELSE c.name,
   hidden |-> c.hidden, kept |-> c.kept]

Launch ==
  /\ ~app.up /\ Loads(file)
  /\ app' = LaunchOptions(file.c)
  /\ UNCHANGED <<file, form, tagging, chosen, left>>

Quit ==
  /\ app.up
  /\ app' = NoApp /\ form' = NoForm /\ tagging' = FALSE
  /\ UNCHANGED <<file, chosen, left>>

-----------------------------------------------------------------------------
(***************************************************************************)
(* Writing: the existing file is parsed, the keys are set in the table and *)
(* the whole is written to a temporary file that is renamed over it.  A    *)
(* file that does not parse is never replaced.                             *)
(***************************************************************************)
\* persist_private_settings_toml, atomic_write_private: the outcome is a
\* choice; a failure leaves the file as it was.
WriteFails == left > 0 /\ left' = left - 1
Unwritten == IF file.ok THEN WriteFails ELSE UNCHANGED left
Writes(c) == file.ok /\ file' = [file EXCEPT !.c = c] /\ UNCHANGED left

\* persist_settings_values: the keys of the form are set; the others keep the
\* value of the file.
SettingsWith(c, f) ==
  [c EXCEPT !.page = f.page, !.name = f.name, !.args = Reparsed(f.args),
            !.mode = f.mode, !.hidden = f.hidden]

\* persist_ui_value, persist_trusted_image_senders: one list of the window
\* replaces its key.
ListWith(c, l, has) == [c EXCEPT !.kept = IF has THEN @ \cup {l} ELSE @ \ {l}]

-----------------------------------------------------------------------------
(***************************************************************************)
(* The dialog.                                                             *)
(***************************************************************************)
\* settings_dialog_seed: live keys as they are now, the others as they were at
\* launch.
Seed == [page |-> app.page, name |-> app.name, args |-> app.args, mode |-> app.mode,
         hidden |-> app.hidden]

\* SettingsController::show: every row of the form starts with the seed's value.
OpenSettings ==
  /\ app.up /\ ~tagging /\ ~form.open
  /\ form' = [page |-> Seed.page, name |-> Seed.name, args |-> Seed.args,
              mode |-> Seed.mode, hidden |-> Seed.hidden, open |-> TRUE]
  /\ UNCHANGED <<file, app, tagging, chosen, left>>

EditForm ==
  /\ form.open
  /\ \/ \E n \in {0, 1} : form' = [form EXCEPT !.page = n]
     \/ \E n \in {0, 1} : form' = [form EXCEPT !.name = n]
     \/ \E a \in {"none", "one"}, m \in {"stdin", "template"} :
          form' = [form EXCEPT !.args = a, !.mode = m]
     \/ form' = [form EXCEPT !.hidden = ~@]
  /\ UNCHANGED <<file, app, tagging, chosen, left>>

\* apply_settings_application, refused while tags change.
Applied == [app EXCEPT !.page = form.page, !.hidden = form.hidden]

Apply ==
  /\ form.open /\ form.page # 0 /\ ~tagging
  /\ app' = Applied
  /\ UNCHANGED <<file, form, tagging, chosen, left>>


AcceptsForm == form.page # 0 /\ SendValid(form.mode, Reparsed(form.args))

\* Save: persists, then applies; the dialog stays when either is refused.
Save ==
  /\ form.open /\ AcceptsForm
  /\ \/ /\ Writes(SettingsWith(file.c, form))
        /\ chosen' = IF form.name # app.name THEN form.name ELSE chosen
        /\ IF tagging THEN UNCHANGED <<app, form>>
           ELSE app' = Applied /\ form' = NoForm
     \/ Unwritten /\ UNCHANGED <<file, app, form, chosen>>
  /\ UNCHANGED tagging

CloseSettings ==
  /\ form.open
  /\ form' = NoForm
  /\ UNCHANGED <<file, app, tagging, chosen, left>>

-----------------------------------------------------------------------------
(***************************************************************************)
(* The other writers.                                                      *)
(***************************************************************************)
\* apply_sender_image_trust writes first; a view preference is changed first and
\* taken back when the write fails, with the same effect.
RememberFirst(l) ==
  LET has == l \notin app.kept
      kept == IF has THEN app.kept \cup {l} ELSE app.kept \ {l}
  IN /\ app.up
     /\ app' = [app EXCEPT !.kept = kept]
     /\ \/ Writes(ListWith(file.c, l, has))
        \/ Unwritten /\ UNCHANGED file
     /\ UNCHANGED <<form, tagging, chosen>>
Remember(l) ==
  LET has == l \notin app.kept
      kept == IF has THEN app.kept \cup {l} ELSE app.kept \ {l}
  IN /\ app.up
     /\ \/ Writes(ListWith(file.c, l, has)) /\ app' = [app EXCEPT !.kept = kept]
        \/ Unwritten /\ UNCHANGED <<file, app>>
     /\ UNCHANGED <<form, tagging, chosen>>

\* save_custom_search_from_entries, delete_custom_search_...: the list of the
\* window is changed first and stays changed when the write fails.
ChangeSearches ==
  LET has == "searches" \notin app.kept
  IN /\ app.up
     /\ app' = [app EXCEPT !.kept = IF has THEN @ \cup {"searches"} ELSE @ \ {"searches"}]
     /\ \/ Writes(ListWith(file.c, "searches", has))
        \/ Unwritten /\ UNCHANGED file
     /\ UNCHANGED <<form, tagging, chosen>>

\* The context menu takes the tag back when the write fails; the entries of the
\* editor do not.
HideTag ==
  /\ app.up /\ ~app.hidden
  /\ \/ Writes([file.c EXCEPT !.hidden = TRUE]) /\ app' = [app EXCEPT !.hidden = TRUE]
     \/ /\ Unwritten /\ UNCHANGED file
        /\ \E h \in BOOLEAN : app' = [app EXCEPT !.hidden = h]
  /\ UNCHANGED <<form, tagging, chosen>>

\* save_settings of the harness: persist_basic_settings; nothing is applied.  The
\* default query, which it writes too, is not among the keys of this model.
SaveBasic ==
  /\ app.up
  /\ \/ Writes([file.c EXCEPT !.page = app.page])
     \/ Unwritten /\ UNCHANGED file
  /\ UNCHANGED <<app, form, tagging, chosen>>

\* A tag operation of the window starts, ends, or leaves its paths uncertain.
TagActivity ==
  /\ app.up
  /\ tagging' = ~tagging
  /\ UNCHANGED <<file, app, form, chosen, left>>

\* Another program leaves the file unreadable for a while, and restores it.
EditorWrites ==
  /\ \/ file.ok /\ left > 0 /\ left' = left - 1
     \/ ~file.ok /\ UNCHANGED left
  /\ file' = [file EXCEPT !.ok = ~@]
  /\ UNCHANGED <<app, form, tagging, chosen>>

SettingsNext ==
  \/ Launch \/ Quit \/ OpenSettings \/ EditForm \/ Apply \/ Save \/ CloseSettings
  \/ Remember("trusted")
  \/ ChangeSearches \/ HideTag \/ SaveBasic \/ TagActivity \/ EditorWrites

SettingsSpec == SettingsInit /\ [][SettingsNext]_settingsVars

-----------------------------------------------------------------------------
(***************************************************************************)
(* Properties.                                                             *)
(***************************************************************************)
SettingsTypeOK ==
  /\ file \in [ok : BOOLEAN, c : Config]
  /\ app.page \in {0, 1} /\ app.name \in 0..2 /\ app.kept \in SUBSET Lists
  /\ form.open => app.up
  /\ tagging \in BOOLEAN
  /\ chosen \in {0, 1}
  /\ left \in 0..MaxConfigFaults

\* No write of the program turns its configuration into one that its next launch
\* refuses (AppConfig::validate), whatever was typed in the dialog.
ConfigLoads == file.ok => Validates(file.c)

\* A sender is trusted in the running program exactly while the file says so: the
\* permission is on disk before it has an effect, a failed write changes nothing, and
\* no other writer drops it
\* (apply_sender_image_trust, remember_message_view_preference).
TrustIsOnDisk ==
  app.up => ("trusted" \in app.kept <=> "trusted" \in file.c.kept)

\* What the user chose for a launch-only key, and saved, is what the next launch
\* loads, until the user chooses again.  Does not hold: a second Save in the same
\* session writes the value of the launch over it (settings_dialog_seed).
SavedChoiceKept == chosen # 0 => file.c.name = chosen
=============================================================================
