------------------------------- MODULE MCFiles -------------------------------
(***************************************************************************)
(* What the program keeps on disk and in memory, checked in one run: the   *)
(* draft files, the files a reply takes along, the indexing of MIME parts, *)
(* the bounded caches and the configuration file.  As far as these modules *)
(* go they share no state, so interleaving them would show nothing: `part` *)
(* is the one that runs in a behavior, and the others stay in one of their *)
(* initial states.  The configuration starts without a name and without    *)
(* send arguments.                                                         *)
(***************************************************************************)
EXTENDS DraftFiles, ComposerReplacement, MCMime, MCLruCache, Settings

VARIABLE part

filesVars == <<draftVars, replacementVars, mimeVars, vars, settingsVars, part>>

FilesInit ==
  /\ part \in {"drafts", "replacement", "mime", "cache", "settings"}
  /\ MimeInit /\ (part # "mime" => thread = <<<<At(Part("plain"), 0)>>>>)
  /\ DraftInit /\ (part # "drafts" => mode = "local" /\ disk[<<"drafts", 1>>] = 2)
  /\ ReplacementInit /\ Init
  /\ SettingsInit /\ file.c.name = 0 /\ file.c.args = "none"

Resting ==
  /\ part # "drafts" => UNCHANGED draftVars
  /\ part # "replacement" => UNCHANGED replacementVars
  /\ part # "mime" => UNCHANGED mimeVars
  /\ part # "cache" => UNCHANGED vars
  /\ part # "settings" => UNCHANGED settingsVars
  /\ UNCHANGED part

FilesNext ==
  \/ part = "drafts" /\ DraftNext /\ Resting
  \/ part = "replacement" /\ ReplacementNext /\ Resting
  \/ part = "mime" /\ MimeNext /\ Resting
  \/ part = "cache" /\ Next /\ Resting
  \/ part = "settings" /\ SettingsNext /\ Resting

FilesSpec == FilesInit /\ [][FilesNext]_filesVars
=============================================================================
