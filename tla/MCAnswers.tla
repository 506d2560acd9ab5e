------------------------------ MODULE MCAnswers ------------------------------
(***************************************************************************)
(* The components on whose answer somebody waits, checked in one run with  *)
(* their fairness.  They share no state, so interleaving them would show   *)
(* nothing: `part` is the one that runs in a behavior, and the others stay *)
(* in one of their initial states.                                         *)
(***************************************************************************)
EXTENDS DraftAutosave, ExternalCommand, MessageSource, HtmlView

VARIABLE part

answersVars == <<vars, cmdVars, sourceVars, htmlVars, part>>

AnswersInit ==
  /\ part \in {"autosave", "command", "source", "html"}
  /\ Init /\ SourceInit /\ HtmlInit
  /\ CmdInit /\ (part # "command" => jobs = StdinJob)

Resting ==
  /\ part # "autosave" => UNCHANGED vars
  /\ part # "command" => UNCHANGED cmdVars
  /\ part # "source" => UNCHANGED sourceVars
  /\ part # "html" => UNCHANGED htmlVars
  /\ UNCHANGED part

AnswersNext ==
  \/ part = "autosave" /\ Next /\ Resting
  \/ part = "command" /\ CmdNext /\ Resting
  \/ part = "source" /\ SourceNext /\ Resting
  \/ part = "html" /\ HtmlNext /\ Resting

\* No fair action is enabled in the initial states, so what a resting component
\* owes asks nothing of the one that runs.
AnswersSpec ==
  /\ AnswersInit /\ [][AnswersNext]_answersVars
  /\ Fairness /\ CmdFairness /\ SourceFairness
=============================================================================
