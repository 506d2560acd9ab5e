------------------------------ MODULE FilesProofs ------------------------------
(***************************************************************************)
(* Proofs about the files of the composer and of the attachment list: the  *)
(* copies a reply or a draft brings along (ComposerReplacement), the list  *)
(* whose items are saved and opened (Attachments) and the files that hold  *)
(* drafts (DraftFiles), for any number of requests, edits, selections,     *)
(* failures and deaths of the process.                                     *)
(***************************************************************************)
EXTENDS ComposerReplacement, Attachments, DraftFiles, TLAPS

(***************************************************************************)
(* The attachment cache.  Generations grow, so a directory, which is named *)
(* after its generation, has one owner: the job that waits, the job that   *)
(* runs, the answer in the channel or a text; and what the window no       *)
(* longer waits for has its flag set.                                      *)
(***************************************************************************)
Requests == [kind : {"none", "new", "reply", "forward", "draft"}, asked : Nat, selection : Nat,
             snapshotError : BOOLEAN]
JobStates == {"idle", "check", "written", "done", "failed"}

CacheTypes ==
  /\ cacheUi \in [generation : Nat, active : Nat, captured : Nat, replacement : Requests]
  /\ service \in [active : Nat, pending : Nat, wake : BOOLEAN, stopped : SUBSET Nat]
  /\ cacheJob \in [generation : Nat, at : JobStates]
  /\ answers \in [generation : Nat, ok : BOOLEAN]
  /\ halfway \in BOOLEAN

Generations ==
  /\ cacheUi.active \in {0, cacheUi.generation}
  /\ answers.generation \in {0, cacheUi.active}
  /\ service.pending \in {0, service.active}
  /\ cacheJob.generation <= cacheUi.generation
  /\ cacheJob.at = "idle" <=> cacheJob.generation = 0
  /\ cacheJob.generation # 0 => cacheJob.generation # answers.generation
  /\ service.pending # 0 => /\ cacheJob.generation < service.pending
                            /\ answers.generation < service.pending
                            /\ service.pending <= cacheUi.generation

OwnedDirectories ==
  /\ directories \subseteq 1..cacheUi.generation
  /\ committed \subseteq directories
  /\ service.pending \notin directories
  /\ cacheJob.generation \notin committed
  /\ answers.generation \notin committed
  /\ cacheJob.at \in {"written", "done"} => cacheJob.generation \in directories
  /\ cacheJob.at \in {"check", "failed"} => cacheJob.generation \notin directories
  /\ answers.generation # 0 => (answers.ok <=> answers.generation \in directories)

(* What can still be told to stop is what the service knows as active. *)
UnderWay == {service.pending} \cup (IF cacheJob.at \in {"check", "written"} THEN {cacheJob.generation} ELSE {})
Told ==
  \A g \in UnderWay \ {0} :
    (g = cacheUi.active /\ g = service.active) \/ g \in service.stopped

CacheInv == CacheTypes /\ Generations /\ OwnedDirectories /\ NoOrphanDirectory /\ Told

LEMMA CacheInitInv == ReplacementInit => CacheInv
  <1> SUFFICES ASSUME ReplacementInit PROVE CacheInv
    OBVIOUS
  <1>1. CacheTypes
    BY DEF ReplacementInit, CacheTypes, NoReplacement, Requests, IdleJob, NoAnswer, JobStates
  <1>2. Generations /\ OwnedDirectories /\ NoOrphanDirectory
    BY DEF ReplacementInit, Generations, OwnedDirectories, NoOrphanDirectory, IdleJob, NoAnswer
  <1>3. Told
    BY DEF ReplacementInit, Told, UnderWay, IdleJob
  <1> QED
    BY <1>1, <1>2, <1>3 DEF CacheInv

LEMMA StillNumbered ==
  ASSUME NEW m \in Nat, NEW n \in Nat, m <= n, NEW S, S \subseteq 1..m
  PROVE  S \subseteq 1..n
  OBVIOUS

LEMMA CancelKeeps ==
  ASSUME CacheInv, CancelCache
  PROVE  CacheInv' /\ cacheUi'.active = 0
  <1> USE DEF CacheInv
  <1>1. /\ cacheUi' \in [generation : Nat, active : Nat, captured : Nat, replacement : Requests]
        /\ cacheUi'.active = 0 /\ cacheUi'.generation \in Nat
        /\ cacheUi'.generation >= cacheUi.generation
    <2>1. NoReplacement \in Requests
      BY DEF NoReplacement, Requests
    <2> DEFINE n == IF cacheUi.active # 0 THEN cacheUi.generation + 1 ELSE cacheUi.generation
    <2>2. n \in Nat /\ n >= cacheUi.generation
      BY DEF CacheTypes
    <2> HIDE DEF n
    <2>3. cacheUi' = [cacheUi EXCEPT !.active = 0, !.replacement = NoReplacement, !.generation = n]
      BY DEF CancelCache, CacheForgotten, n
    <2> QED
      BY <2>1, <2>2, <2>3 DEF CacheTypes
  <1>2. service' = [service EXCEPT !.active = 0, !.pending = 0, !.stopped = @ \cup ({service.active} \ {0})]
    BY DEF CancelCache, ServiceCancelled
  <1>3. /\ service' \in [active : Nat, pending : Nat, wake : BOOLEAN, stopped : SUBSET Nat]
        /\ service'.active = 0 /\ service'.pending = 0
        /\ service'.stopped = service.stopped \cup ({service.active} \ {0})
    BY <1>2 DEF CacheTypes
  <1>4. answers' = NoAnswer /\ answers' \in [generation : Nat, ok : BOOLEAN] /\ answers'.generation = 0
        /\ directories' = directories \ {answers.generation}
        /\ cacheJob' = cacheJob /\ committed' = committed /\ halfway' = halfway
    BY DEF CancelCache, NoAnswer, DropReceiver
  <1>5. CacheTypes'
    BY <1>1, <1>3, <1>4 DEF CacheTypes
  <1>6. Generations'
    BY <1>1, <1>3, <1>4 DEF Generations, CacheTypes
  <1>7. OwnedDirectories'
    <2>1. (directories \subseteq 1..cacheUi.generation)'
      <3>1. directories' \subseteq 1..cacheUi.generation /\ cacheUi.generation \in Nat
        BY <1>4 DEF OwnedDirectories, CacheTypes
      <3> QED
        BY <1>1, <3>1, StillNumbered
    <2>2. (committed \subseteq directories)'
      BY <1>4 DEF OwnedDirectories
    <2>3. 0 \notin directories' /\ 0 \notin committed'
      BY <2>1, <2>2, <1>1
    <2>4. cacheJob.at \in {"written", "done"} => cacheJob.generation \in directories'
      BY <1>4 DEF OwnedDirectories, Generations
    <2>5. cacheJob.at \in {"check", "failed"} => cacheJob.generation \notin directories'
      BY <1>4 DEF OwnedDirectories
    <2> QED
      BY <1>3, <1>4, <2>1, <2>2, <2>3, <2>4, <2>5 DEF OwnedDirectories
  <1>8. NoOrphanDirectory'
    BY <1>4 DEF NoOrphanDirectory
  <1>9. Told'
    BY <1>1, <1>3, <1>4 DEF Told, UnderWay
  <1> QED
    BY <1>1, <1>5, <1>6, <1>7, <1>8, <1>9

LEMMA ScheduleKeeps ==
  ASSUME CacheInv, NEW r \in Requests, ScheduleCache(r), selection \in Nat, composer.generation \in Nat
  PROVE  CacheInv' /\ cacheUi'.replacement = [r EXCEPT !.selection = selection]
         /\ cacheUi'.captured = composer.generation
  <1> USE DEF CacheInv
  <1> DEFINE g == cacheUi.generation + (IF cacheUi.active # 0 THEN 2 ELSE 1)
  <1>1. /\ cacheUi' \in [generation : Nat, active : Nat, captured : Nat, replacement : Requests]
        /\ cacheUi'.active = g /\ cacheUi'.generation = g /\ g \in Nat
        /\ g > cacheUi.generation
        /\ cacheUi'.replacement = [r EXCEPT !.selection = selection]
        /\ cacheUi'.captured = composer.generation
    <2>1. [r EXCEPT !.selection = selection] \in Requests
      BY DEF Requests
    <2>2. g \in Nat /\ g > cacheUi.generation
      BY DEF CacheTypes
    <2> QED
      BY <2>1, <2>2 DEF ScheduleCache
  <1> HIDE DEF g
  <1>2. service' = [[service EXCEPT !.active = 0, !.pending = 0, !.stopped = @ \cup ({service.active} \ {0})]
                      EXCEPT !.active = g, !.pending = g]
    BY DEF ScheduleCache, Submitted, ServiceCancelled, g
  <1>3. /\ service' \in [active : Nat, pending : Nat, wake : BOOLEAN, stopped : SUBSET Nat]
        /\ service'.active = g /\ service'.pending = g
        /\ service'.stopped = service.stopped \cup ({service.active} \ {0})
    BY <1>1, <1>2 DEF CacheTypes
  <1>4. answers' = NoAnswer /\ answers' \in [generation : Nat, ok : BOOLEAN] /\ answers'.generation = 0
        /\ directories' = directories \ {answers.generation}
        /\ cacheJob' = cacheJob /\ committed' = committed /\ halfway' = TRUE
    BY DEF ScheduleCache, NoAnswer, DropReceiver
  <1>5. CacheTypes'
    BY <1>1, <1>3, <1>4 DEF CacheTypes
  <1>6. Generations'
    BY <1>1, <1>3, <1>4 DEF Generations, CacheTypes
  <1>7. OwnedDirectories'
    BY <1>1, <1>3, <1>4 DEF OwnedDirectories, Generations, CacheTypes
  <1>8. NoOrphanDirectory'
    BY <1>4 DEF NoOrphanDirectory
  <1>9. Told'
    BY <1>1, <1>3, <1>4 DEF Told, UnderWay
  <1> QED
    BY <1>1, <1>5, <1>6, <1>7, <1>8, <1>9

LEMMA CacheWorkerKeeps ==
  ASSUME CacheInv, CacheStep
  PROVE  CacheInv'
  <1> USE DEF CacheInv
  <1>1. CASE CacheWakes
    <2>1. /\ service' \in [active : Nat, pending : Nat, wake : BOOLEAN, stopped : SUBSET Nat]
          /\ service'.active = service.active /\ service'.pending = 0 /\ service'.stopped = service.stopped
      BY <1>1 DEF CacheWakes, CacheTypes
    <2>2. /\ cacheJob' \in [generation : Nat, at : JobStates] /\ cacheJob'.generation = service.pending
          /\ cacheJob'.at = IF service.pending = 0 THEN "idle" ELSE "check"
      BY <1>1 DEF CacheWakes, CacheTypes, IdleJob, JobStates
    <2>3. CacheTypes'
      BY <1>1, <2>1, <2>2 DEF CacheWakes, CacheTypes
    <2>4. Generations'
      BY <1>1, <2>1, <2>2 DEF CacheWakes, CacheTypes, Generations
    <2>5. OwnedDirectories'
      BY <1>1, <2>1, <2>2 DEF CacheWakes, CacheTypes, Generations, OwnedDirectories
    <2>6. NoOrphanDirectory'
      BY <1>1, <2>1, <2>2 DEF CacheWakes, Generations, NoOrphanDirectory
    <2>7. Told'
      BY <1>1, <2>1, <2>2 DEF CacheWakes, Generations, Told, UnderWay
    <2> QED
      BY <2>3, <2>4, <2>5, <2>6, <2>7
  <1>2. CASE CacheWrites
    <2>1. /\ cacheJob' \in [generation : Nat, at : JobStates] /\ cacheJob'.generation = cacheJob.generation
          /\ cacheJob'.at = IF Stopped THEN "failed" ELSE "written"
          /\ directories' = IF Stopped THEN directories ELSE directories \cup {cacheJob.generation}
      BY <1>2 DEF CacheWrites, CacheTypes, JobStates
    <2>2. CacheTypes' /\ Generations'
      BY <1>2, <2>1 DEF CacheWrites, CacheTypes, Generations
    <2>3. OwnedDirectories'
      BY <1>2, <2>1 DEF CacheWrites, CacheTypes, Generations, OwnedDirectories
    <2>4. NoOrphanDirectory'
      BY <1>2, <2>1 DEF CacheWrites, NoOrphanDirectory
    <2>5. Told'
      BY <1>2, <2>1 DEF CacheWrites, Told, UnderWay
    <2> QED
      BY <2>2, <2>3, <2>4, <2>5
  <1>3. ASSUME NEW ok \in BOOLEAN, CacheFinishes(ok) PROVE CacheInv'
    <2> DEFINE done == ok /\ ~Stopped
    <2>1. /\ cacheJob' \in [generation : Nat, at : JobStates] /\ cacheJob'.generation = cacheJob.generation
          /\ cacheJob'.at = IF done THEN "done" ELSE "failed"
          /\ directories' = IF done THEN directories ELSE directories \ {cacheJob.generation}
      BY <1>3 DEF CacheFinishes, CacheTypes, JobStates, DirectoryCleaned
    <2>2. CacheTypes' /\ Generations'
      BY <1>3, <2>1 DEF CacheFinishes, CacheTypes, Generations
    <2>3. OwnedDirectories'
      BY <1>3, <2>1 DEF CacheFinishes, CacheTypes, Generations, OwnedDirectories
    <2>4. NoOrphanDirectory'
      BY <1>3, <2>1 DEF CacheFinishes, NoOrphanDirectory
    <2>5. Told'
      BY <1>3, <2>1 DEF CacheFinishes, Told, UnderWay
    <2> QED
      BY <2>2, <2>3, <2>4, <2>5
  <1>4. CASE CacheAnswers
    <2> DEFINE g == cacheJob.generation
               live == cacheUi.active = g
    <2>1. /\ service' \in [active : Nat, pending : Nat, wake : BOOLEAN, stopped : SUBSET Nat]
          /\ service'.active = Cleared(g) /\ service'.pending = 0 /\ service'.stopped = service.stopped
      BY <1>4 DEF CacheAnswers, CacheTypes, Cleared
    <2>2. /\ cacheJob' \in [generation : Nat, at : JobStates] /\ cacheJob'.generation = service.pending
          /\ cacheJob'.at = IF service.pending = 0 THEN "idle" ELSE "check"
      BY <1>4 DEF CacheAnswers, CacheTypes, IdleJob, JobStates
    <2>3. /\ answers' = IF live THEN [generation |-> g, ok |-> cacheJob.at = "done"] ELSE answers
          /\ directories' = IF live \/ cacheJob.at = "failed" THEN directories ELSE directories \ {g}
          /\ cacheJob.at \in {"done", "failed"}
          /\ UNCHANGED <<cacheUi, committed, halfway>>
      BY <1>4 DEF CacheAnswers
    <2>4. answers' \in [generation : Nat, ok : BOOLEAN] /\ (live => answers'.generation = g)
      BY <2>3 DEF CacheTypes
    <2>5. CacheTypes'
      BY <2>1, <2>2, <2>3, <2>4 DEF CacheTypes
    <2>6. Generations'
      BY <2>1, <2>2, <2>3, <2>4 DEF CacheTypes, Generations
    <2>7. OwnedDirectories'
      <3>0. 0 \notin directories /\ 0 \notin committed /\ g # 0 /\ g \notin committed
            /\ service.pending \notin committed
        BY <2>3 DEF CacheTypes, OwnedDirectories, Generations
      <3>1. (directories \subseteq 1..cacheUi.generation)' /\ (committed \subseteq directories)'
        BY <2>3, <3>0 DEF OwnedDirectories
      <3>2. (answers.generation \notin committed)'
        BY <2>3, <2>4, <3>0 DEF OwnedDirectories
      <3>3. service'.pending \notin directories' /\ cacheJob'.generation \notin committed'
            /\ (cacheJob'.at \in {"check", "failed"} => cacheJob'.generation \notin directories')
            /\ cacheJob'.at \notin {"written", "done"}
        BY <2>1, <2>2, <2>3, <3>0 DEF OwnedDirectories
      <3>4. (answers.generation # 0 => (answers.ok <=> answers.generation \in directories))'
        BY <2>3, <2>4 DEF OwnedDirectories, Generations
      <3> QED
        BY <3>1, <3>2, <3>3, <3>4 DEF OwnedDirectories
    <2>8. NoOrphanDirectory'
      BY <2>1, <2>2, <2>3, <2>4 DEF CacheTypes, Generations, OwnedDirectories, NoOrphanDirectory
    <2>9. Told'
      BY <2>1, <2>2, <2>3, <2>4 DEF CacheTypes, Generations, Told, UnderWay, Cleared
    <2> QED
      BY <2>5, <2>6, <2>7, <2>8, <2>9
  <1> QED
    BY <1>1, <1>2, <1>3, <1>4 DEF CacheStep

(* The poll reads the answer: its directory becomes the text's, or goes. *)
LEMMA PollKeeps ==
  ASSUME CacheInv, PollCache
  PROVE  CacheInv'
  <1> USE DEF CacheInv
  <1>1. /\ cacheUi' \in [generation : Nat, active : Nat, captured : Nat, replacement : Requests]
        /\ cacheUi'.active = 0 /\ cacheUi'.generation = cacheUi.generation
    <2>1. NoReplacement \in Requests
      BY DEF NoReplacement, Requests
    <2> QED
      BY <2>1 DEF PollCache, CacheTypes
  <1>2. answers' = NoAnswer /\ answers' \in [generation : Nat, ok : BOOLEAN] /\ answers'.generation = 0
        /\ UNCHANGED <<service, cacheJob, halfway>>
    BY DEF PollCache, NoAnswer
  <1>3. CacheTypes'
    BY <1>1, <1>2 DEF CacheTypes
  <1>4. Generations'
    BY <1>1, <1>2 DEF Generations, CacheTypes
  <1>5. Told'
    <2>1. cacheUi.active # 0 /\ answers.generation = cacheUi.active
      BY DEF PollCache
    <2>2. \A g \in UnderWay \ {0} : g # cacheUi.active
      BY <2>1 DEF UnderWay, Generations, CacheTypes
    <2>3. UnderWay' = UnderWay
      BY <1>2 DEF UnderWay
    <2> QED
      BY <1>2, <2>2, <2>3 DEF Told
  <1>6. answers.generation # 0 /\ answers.generation \in Nat
    BY DEF PollCache, CacheTypes
  <1>7. \/ /\ directories' = directories \ {answers.generation} /\ committed' = committed
        \/ /\ directories' = directories /\ committed' = committed /\ ~answers.ok
        \/ /\ directories' = directories /\ answers.ok
           /\ committed' = committed \cup {answers.generation}
    BY <1>6 DEF PollCache, DropReceiver, Leased, OwnedDirectories
  <1>8. 0 \notin directories /\ service.pending # answers.generation
    BY <1>6 DEF OwnedDirectories, Generations, CacheTypes
  <1>9. OwnedDirectories' /\ NoOrphanDirectory'
    <2>1. CASE directories' = directories \ {answers.generation} /\ committed' = committed
      <3>1. cacheJob.generation # answers.generation
        BY <1>6 DEF Generations
      <3> QED
        BY <2>1, <3>1, <1>1, <1>2, <1>6, <1>8 DEF OwnedDirectories, NoOrphanDirectory
    <2>2. CASE directories' = directories /\ committed' = committed /\ ~answers.ok
      BY <2>2, <1>1, <1>2, <1>6, <1>8 DEF OwnedDirectories, NoOrphanDirectory
    <2>3. CASE directories' = directories /\ answers.ok /\ committed' = committed \cup {answers.generation}
      <3>1. cacheJob.generation # answers.generation
        BY <1>6 DEF Generations
      <3> QED
        BY <2>3, <3>1, <1>1, <1>2, <1>6, <1>8 DEF OwnedDirectories, NoOrphanDirectory
    <2> QED
      BY <1>7, <2>1, <2>2, <2>3
  <1> QED
    BY <1>3, <1>4, <1>5, <1>9

-----------------------------------------------------------------------------
(***************************************************************************)
(* Requests and texts.  What a request was asked for stays the text of the *)
(* composer while a question about it is open, and is the text that was    *)
(* captured when its files were to be copied.                              *)
(***************************************************************************)
Workers == [request : Requests, at : {"start", "ok", "error"}]

FlowTypes ==
  /\ composer \in [generation : Nat, typed : BOOLEAN, files : 0..MaxCached]
  /\ selection \in Nat /\ lastError \in BOOLEAN
  /\ prep \in [next : Nat, active : Nat] /\ prep.active \in {0, prep.next}
  /\ DOMAIN prepWorkers \subseteq 1..prep.next
  /\ \A g \in DOMAIN prepWorkers : prepWorkers[g] \in Workers
  /\ prepWorkers = [g \in DOMAIN prepWorkers |-> prepWorkers[g]]
  /\ question \in Requests
  /\ cacheUi.active <= MaxCached

Honest(r) == EarlierErrors \/ r.snapshotError = FALSE
HonestRequests ==
  /\ \A g \in DOMAIN prepWorkers : Honest(prepWorkers[g].request)
  /\ Honest(question)
  /\ Honest(cacheUi.replacement)

AskedForThisText ==
  /\ question # NoReplacement =>
       prep.active = 0 /\ cacheUi.active = 0 /\ question.asked = composer.generation
  /\ cacheUi.active # 0 => cacheUi.replacement.asked = cacheUi.captured

FilesKept == EarlierErrors \/ composer.files \in committed \cup {0}

FlowInv == FlowTypes /\ HonestRequests /\ AskedForThisText /\ FilesKept
ReplacementInv == CacheInv /\ FlowInv

LEMMA FlowInitInv == ReplacementInit => FlowInv
  <1> SUFFICES ASSUME ReplacementInit PROVE FlowInv
    OBVIOUS
  <1>1. NoReplacement \in Requests /\ NoReplacement.snapshotError = FALSE
    BY DEF NoReplacement, Requests
  <1>2. composer \in [generation : Nat, typed : BOOLEAN, files : 0..MaxCached] /\ composer.files = 0
        /\ cacheUi.active <= MaxCached
    BY ReplacementAssumption DEF ReplacementInit
  <1>3. DOMAIN prepWorkers = {}
    BY DEF ReplacementInit
  <1>4. FlowTypes
    BY <1>1, <1>2, <1>3 DEF ReplacementInit, FlowTypes
  <1>5. HonestRequests
    BY <1>1, <1>3 DEF ReplacementInit, HonestRequests, Honest
  <1>6. AskedForThisText /\ FilesKept
    BY <1>2 DEF ReplacementInit, AskedForThisText, FilesKept
  <1> QED
    BY <1>4, <1>5, <1>6 DEF FlowInv

(* A request that is made now. *)
LEMMA RequestedNow ==
  ASSUME FlowInv, NEW kind \in {"new", "reply", "forward", "draft"}, NEW sel \in Nat,
         kind = "draft" => EarlierErrors \/ ~lastError
  PROVE  /\ Requested(kind, sel) \in Requests /\ Honest(Requested(kind, sel))
         /\ Requested(kind, sel).asked = composer.generation
         /\ Requested(kind, sel).kind = kind
  <1>1. composer.generation \in Nat /\ lastError \in BOOLEAN
    BY DEF FlowInv, FlowTypes
  <1>2. (kind = "draft" /\ lastError) \in BOOLEAN
    BY <1>1
  <1> QED
    BY <1>1, <1>2 DEF Requested, Requests, Honest

(* One more worker. *)
LEMMA WorkerAdded ==
  ASSUME FlowInv, NEW n \in Nat, n > prep.next, NEW r \in Requests, Honest(r),
         prepWorkers' = Spawned(n, r)
  PROVE  /\ DOMAIN prepWorkers' \subseteq 1..n
         /\ \A g \in DOMAIN prepWorkers' : prepWorkers'[g] \in Workers /\ Honest(prepWorkers'[g].request)
         /\ prepWorkers' = [g \in DOMAIN prepWorkers' |-> prepWorkers'[g]]
  <1> DEFINE w == [request |-> r, at |-> "start"]
  <1>1. w \in Workers /\ w.request = r
    BY DEF Workers
  <1>2. n \notin DOMAIN prepWorkers /\ DOMAIN prepWorkers \subseteq 1..n
    BY DEF FlowInv, FlowTypes
  <1> HIDE DEF w
  <1>3. prepWorkers' = [g \in DOMAIN prepWorkers \cup {n} |-> IF g = n THEN w ELSE prepWorkers[g]]
    BY DEF Spawned, w
  <1> QED
    BY <1>1, <1>2, <1>3 DEF FlowInv, FlowTypes, HonestRequests

(* Without its poll, the cache keeps its promise to the text. *)
LEMMA CancelFlow ==
  ASSUME ReplacementInv, CancelCache
  PROVE  /\ CacheInv' /\ cacheUi'.active = 0 /\ cacheUi'.active <= MaxCached
         /\ Honest(cacheUi'.replacement) /\ committed' = committed
  <1>1. CacheInv' /\ cacheUi'.active = 0
    BY CancelKeeps DEF ReplacementInv
  <1>2. cacheUi'.replacement = NoReplacement /\ NoReplacement.snapshotError = FALSE
    BY DEF CancelCache, CacheForgotten, ReplacementInv, CacheInv, CacheTypes, NoReplacement
  <1> QED
    BY <1>1, <1>2, ReplacementAssumption DEF CancelCache, Honest

LEMMA ApplyFlow ==
  ASSUME ReplacementInv, NEW r \in Requests, Honest(r), r.asked = composer.generation, ApplyReplacement(r)
  PROVE  /\ CacheInv' /\ cacheUi'.active <= MaxCached /\ Honest(cacheUi'.replacement)
         /\ (cacheUi'.active # 0 => cacheUi'.replacement.asked = cacheUi'.captured)
         /\ composer' \in [generation : Nat, typed : BOOLEAN, files : 0..MaxCached]
         /\ lastError' \in BOOLEAN /\ FilesKept'
  <1>1. CASE HasSources(r.kind)
    <2>1. ScheduleCache(r) /\ UNCHANGED <<composer, lastError>>
      BY <1>1 DEF ApplyReplacement
    <2>2. /\ CacheInv' /\ cacheUi'.replacement = [r EXCEPT !.selection = selection]
          /\ cacheUi'.captured = composer.generation
      BY <2>1, ScheduleKeeps DEF ReplacementInv, FlowInv, FlowTypes
    <2>3. cacheUi'.replacement.asked = r.asked /\ cacheUi'.replacement.snapshotError = r.snapshotError
      BY <2>2 DEF Requests
    <2>4. cacheUi'.active <= MaxCached /\ committed' = committed
      BY <2>1 DEF ScheduleCache
    <2> QED
      BY <2>1, <2>2, <2>3, <2>4 DEF Honest, ReplacementInv, FlowInv, FlowTypes, FilesKept
  <1>2. CASE ~HasSources(r.kind)
    <2>1. FillPlain(r) /\ CancelCache
      BY <1>2 DEF ApplyReplacement
    <2>2. composer' = [generation |-> composer.generation + 1, typed |-> r.kind # "new", files |-> 0]
          /\ lastError' = ~Accepted(r) /\ composer.generation \in Nat
      BY <2>1 DEF FillPlain, Filled, ReplacementInv, FlowInv, FlowTypes
    <2>3. composer' \in [generation : Nat, typed : BOOLEAN, files : 0..MaxCached] /\ composer'.files = 0
          /\ lastError' \in BOOLEAN
      BY <2>2, ReplacementAssumption DEF Accepted
    <2> QED
      BY <2>1, <2>3, CancelFlow DEF FilesKept
  <1> QED
    BY <1>1, <1>2

LEMMA PollCacheFlow ==
  ASSUME ReplacementInv, PollCache
  PROVE  ReplacementInv'
  <1> USE DEF ReplacementInv, FlowInv
  <1>1. CacheInv' /\ UNCHANGED <<selection, prep, prepWorkers, question>>
    BY PollKeeps DEF PollCache
  <1>2. cacheUi'.active = 0 /\ cacheUi'.replacement = NoReplacement /\ NoReplacement.snapshotError = FALSE
    BY DEF PollCache, CacheInv, CacheTypes, NoReplacement
  <1>3. /\ cacheUi.active # 0 /\ answers.generation = cacheUi.active /\ answers.generation \in Nat
        /\ answers.generation \in 0..MaxCached
    BY ReplacementAssumption DEF PollCache, CacheInv, CacheTypes, FlowTypes
  <1>4. question = NoReplacement
    BY <1>3 DEF AskedForThisText
  <1>5. /\ composer' \in [generation : Nat, typed : BOOLEAN, files : 0..MaxCached]
        /\ lastError' \in BOOLEAN /\ FilesKept'
    <2>1. CASE ~CacheFresh
      BY <2>1 DEF PollCache, FlowTypes, FilesKept
    <2>2. CASE CacheFresh /\ ~answers.ok
      BY <2>2 DEF PollCache, FlowTypes, FilesKept
    <2>3. CASE CacheFresh /\ answers.ok
      <3>1. /\ composer' = Filled(cacheUi.replacement.kind, answers.generation)
            /\ lastError' = ~Accepted(cacheUi.replacement)
            /\ directories' = Leased(answers.generation, Accepted(cacheUi.replacement))
            /\ committed' = committed \cup (directories' \cap {answers.generation})
        BY <2>3 DEF PollCache
      <3>2. /\ composer' \in [generation : Nat, typed : BOOLEAN, files : 0..MaxCached]
            /\ composer'.files = answers.generation /\ lastError' \in BOOLEAN
        BY <1>3, <3>1 DEF Filled, FlowTypes, Accepted
      <3>3. answers.generation \in directories
        BY <1>3, <2>3 DEF CacheInv, OwnedDirectories
      <3>4. EarlierErrors \/ Accepted(cacheUi.replacement)
        BY DEF HonestRequests, Honest, Accepted
      <3> QED
        BY <3>1, <3>2, <3>3, <3>4 DEF Leased, FilesKept
    <2> QED
      BY <2>1, <2>2, <2>3
  <1>6. FlowTypes'
    BY <1>1, <1>2, <1>5, ReplacementAssumption DEF FlowTypes
  <1>7. HonestRequests' /\ AskedForThisText'
    BY <1>1, <1>2, <1>4 DEF HonestRequests, Honest, AskedForThisText
  <1> QED
    BY <1>1, <1>5, <1>6, <1>7

(* Steps that only the cache worker or the clock of submit takes. *)
LEMMA CacheFlow ==
  ASSUME ReplacementInv, CacheStep \/ WakeWorker
  PROVE  ReplacementInv'
  <1> USE DEF ReplacementInv
  <1>1. CacheInv'
    <2>1. CASE CacheStep
      BY <2>1, CacheWorkerKeeps
    <2>2. CASE WakeWorker
      <3>1. /\ service' \in [active : Nat, pending : Nat, wake : BOOLEAN, stopped : SUBSET Nat]
            /\ service'.active = service.active /\ service'.pending = service.pending
            /\ service'.stopped = service.stopped /\ halfway' = FALSE
            /\ UNCHANGED <<cacheUi, cacheJob, answers, directories, committed>>
        BY <2>2 DEF WakeWorker, CacheInv, CacheTypes
      <3>2. CacheTypes' /\ Generations'
        BY <3>1 DEF CacheInv, CacheTypes, Generations
      <3>3. OwnedDirectories' /\ NoOrphanDirectory'
        BY <3>1 DEF CacheInv, OwnedDirectories, NoOrphanDirectory
      <3>4. Told'
        BY <3>1 DEF CacheInv, Told, UnderWay
      <3> QED
        BY <3>2, <3>3, <3>4 DEF CacheInv
    <2> QED
      BY <2>1, <2>2
  <1>2. UNCHANGED <<composer, selection, lastError, prep, prepWorkers, question, cacheUi, committed>>
    BY DEF CacheStep, WakeWorker, CacheWakes, CacheWrites, CacheAnswers, CacheFinishes
  <1>3. FlowInv'
    BY <1>2 DEF FlowInv, FlowTypes, HonestRequests, Honest, AskedForThisText, FilesKept
  <1> QED
    BY <1>1, <1>3

(* What a step of the window has to establish. *)
LEMMA FlowFrom ==
  ASSUME ReplacementInv, CacheInv', FilesKept',
         composer' \in [generation : Nat, typed : BOOLEAN, files : 0..MaxCached],
         selection' \in Nat, lastError' \in BOOLEAN,
         prep' \in [next : Nat, active : Nat], prep'.active \in {0, prep'.next},
         DOMAIN prepWorkers' \subseteq 1..prep'.next,
         \A g \in DOMAIN prepWorkers' : prepWorkers'[g] \in Workers /\ Honest(prepWorkers'[g].request),
         prepWorkers' = [g \in DOMAIN prepWorkers' |-> prepWorkers'[g]],
         question' \in Requests, Honest(question'),
         cacheUi'.active <= MaxCached, Honest(cacheUi'.replacement),
         question' # NoReplacement =>
           prep'.active = 0 /\ cacheUi'.active = 0 /\ question'.asked = composer'.generation,
         cacheUi'.active # 0 => cacheUi'.replacement.asked = cacheUi'.captured
  PROVE  ReplacementInv'
  <1>1. FlowTypes'
    BY DEF FlowTypes
  <1>2. HonestRequests' /\ AskedForThisText'
    BY DEF HonestRequests, AskedForThisText, Honest
  <1> QED
    BY <1>1, <1>2 DEF ReplacementInv, FlowInv

LEMMA BeginFlow ==
  ASSUME ReplacementInv, NEW kind \in {"reply", "forward", "draft"}, NEW n \in Nat, NEW sel \in Nat,
         kind = "draft" => EarlierErrors \/ ~lastError,
         n > prep.next, prep' = [next |-> n, active |-> n],
         prepWorkers' = Spawned(n, Requested(kind, sel)),
         CancelCache, selection' \in Nat, question' = NoReplacement, UNCHANGED <<composer, lastError>>
  PROVE  ReplacementInv'
  <1>2. Requested(kind, sel) \in Requests /\ Honest(Requested(kind, sel))
    BY RequestedNow DEF ReplacementInv
  <1>3. /\ DOMAIN prepWorkers' \subseteq 1..n
        /\ \A g \in DOMAIN prepWorkers' : prepWorkers'[g] \in Workers /\ Honest(prepWorkers'[g].request)
        /\ prepWorkers' = [g \in DOMAIN prepWorkers' |-> prepWorkers'[g]]
    BY <1>2, WorkerAdded DEF ReplacementInv
  <1>4. prep' \in [next : Nat, active : Nat] /\ prep'.active = n /\ prep'.next = n
    OBVIOUS
  <1>5. /\ CacheInv' /\ cacheUi'.active = 0 /\ cacheUi'.active <= MaxCached
        /\ Honest(cacheUi'.replacement) /\ committed' = committed
    BY CancelFlow
  <1>6. NoReplacement \in Requests /\ Honest(NoReplacement)
    BY DEF NoReplacement, Requests, Honest
  <1>7. FilesKept' /\ composer' \in [generation : Nat, typed : BOOLEAN, files : 0..MaxCached]
        /\ lastError' \in BOOLEAN
    BY <1>5 DEF FilesKept, ReplacementInv, FlowInv, FlowTypes
  <1> QED
    BY <1>3, <1>4, <1>5, <1>6, <1>7, FlowFrom

LEMMA RespondFlow ==
  ASSUME ReplacementInv,
         (\E kind \in Kinds : Respond(kind)) \/ SelectDraft
  PROVE  ReplacementInv'
  <1>t. prep.next \in Nat /\ selection \in Nat
    BY DEF ReplacementInv, FlowInv, FlowTypes
  <1>1. ASSUME NEW kind \in Kinds, Respond(kind) PROVE ReplacementInv'
    <2>1. prep.next + 1 \in Nat /\ prep.next + 1 > prep.next /\ kind \in {"reply", "forward", "draft"}
          /\ kind # "draft"
      BY <1>t DEF Kinds
    <2>2. /\ prep' = [next |-> prep.next + 1, active |-> prep.next + 1]
          /\ prepWorkers' = Spawned(prep.next + 1, Requested(kind, selection))
          /\ CancelCache /\ selection' \in Nat /\ question' = NoReplacement
          /\ UNCHANGED <<composer, lastError>>
      BY <1>1, <1>t DEF Respond, BeginReplacement
    <2> QED
      BY <1>t, <2>1, <2>2, BeginFlow
  <1>2. CASE SelectDraft
    <2>1. prep.next + 2 \in Nat /\ prep.next + 2 > prep.next /\ selection + 1 \in Nat
      BY <1>t
    <2>2. /\ prep' = [next |-> prep.next + 2, active |-> prep.next + 2]
          /\ prepWorkers' = Spawned(prep.next + 2, Requested("draft", selection + 1))
          /\ CancelCache /\ selection' \in Nat /\ question' = NoReplacement
          /\ UNCHANGED <<composer, lastError>> /\ (EarlierErrors \/ ~lastError)
      BY <1>2, <2>1 DEF SelectDraft
    <2> QED
      BY <1>t, <2>1, <2>2, BeginFlow
  <1> QED
    BY <1>1, <1>2

(* The preparation workers are only read. *)
LEMMA SameWorkers ==
  ASSUME FlowInv, NEW n \in Nat, n >= prep.next, NEW S \in SUBSET DOMAIN prepWorkers,
         prepWorkers' = [h \in S |-> prepWorkers[h]]
  PROVE  /\ DOMAIN prepWorkers' \subseteq 1..n
         /\ \A g \in DOMAIN prepWorkers' : prepWorkers'[g] \in Workers /\ Honest(prepWorkers'[g].request)
         /\ prepWorkers' = [g \in DOMAIN prepWorkers' |-> prepWorkers'[g]]
  <1>1. prep.next \in Nat /\ DOMAIN prepWorkers \subseteq 1..prep.next
    BY DEF FlowInv, FlowTypes
  <1>2. DOMAIN prepWorkers \subseteq 1..n
    BY <1>1, StillNumbered
  <1> QED
    BY <1>2 DEF FlowInv, FlowTypes, HonestRequests

LEMMA OpenFlow ==
  ASSUME ReplacementInv, OpenCompose
  PROVE  ReplacementInv'
  <1> DEFINE r == Requested("new", selection)
  <1>t. prep.next \in Nat /\ selection \in Nat
    BY DEF ReplacementInv, FlowInv, FlowTypes
  <1>1. r \in Requests /\ Honest(r) /\ r.asked = composer.generation
    BY <1>t, RequestedNow DEF ReplacementInv
  <1>2. prep' = [next |-> prep.next + 1, active |-> 0]
        /\ prep' \in [next : Nat, active : Nat] /\ prep'.active = 0 /\ prep'.next = prep.next + 1
    BY <1>t DEF OpenCompose
  <1>w. /\ DOMAIN prepWorkers' \subseteq 1..(prep.next + 1)
        /\ \A g \in DOMAIN prepWorkers' : prepWorkers'[g] \in Workers /\ Honest(prepWorkers'[g].request)
        /\ prepWorkers' = [g \in DOMAIN prepWorkers' |-> prepWorkers'[g]]
    <2>1. prepWorkers' = [h \in DOMAIN prepWorkers |-> prepWorkers[h]]
      BY DEF OpenCompose, ReplacementInv, FlowInv, FlowTypes
    <2>2. prep.next + 1 \in Nat /\ prep.next + 1 >= prep.next
      BY <1>t
    <2> QED
      BY <2>1, <2>2, SameWorkers DEF ReplacementInv
  <1> HIDE DEF r
  <1>3. CASE composer.typed
    <2>1. question' = r /\ CancelCache /\ UNCHANGED <<composer, selection, lastError>>
      BY <1>3 DEF OpenCompose, r
    <2>2. /\ CacheInv' /\ cacheUi'.active = 0 /\ cacheUi'.active <= MaxCached
          /\ Honest(cacheUi'.replacement) /\ committed' = committed
      BY <2>1, CancelFlow
    <2>3. FilesKept' /\ composer' \in [generation : Nat, typed : BOOLEAN, files : 0..MaxCached]
          /\ lastError' \in BOOLEAN
      BY <2>1, <2>2 DEF FilesKept, ReplacementInv, FlowInv, FlowTypes
    <2> QED
      BY <1>t, <1>1, <1>2, <1>w, <2>1, <2>2, <2>3, FlowFrom
  <1>4. CASE ~composer.typed
    <2>1. question' = question /\ question = NoReplacement /\ ApplyReplacement(r) /\ UNCHANGED selection
      BY <1>4 DEF OpenCompose, r
    <2>2. question \in Requests /\ Honest(question)
      BY DEF ReplacementInv, FlowInv, FlowTypes, HonestRequests
    <2> QED
      BY <1>t, <1>1, <1>2, <1>w, <2>1, <2>2, ApplyFlow, FlowFrom
  <1> QED
    BY <1>3, <1>4 DEF ReplacementInv, FlowInv, FlowTypes

(* The answer to the question. *)
LEMMA AnswerFlow ==
  ASSUME ReplacementInv, Confirm \/ Reject
  PROVE  ReplacementInv'
  <1>t. /\ prep.next \in Nat /\ selection \in Nat /\ prep \in [next : Nat, active : Nat]
        /\ prep.active \in {0, prep.next} /\ question \in Requests /\ Honest(question)
        /\ question # NoReplacement /\ question.asked = composer.generation
        /\ cacheUi.active = 0
    BY DEF ReplacementInv, FlowInv, FlowTypes, HonestRequests, AskedForThisText, Confirm, Reject
  <1>n. NoReplacement \in Requests /\ Honest(NoReplacement)
    BY DEF NoReplacement, Requests, Honest
  <1>w. /\ DOMAIN prepWorkers' \subseteq 1..prep.next
        /\ \A g \in DOMAIN prepWorkers' : prepWorkers'[g] \in Workers /\ Honest(prepWorkers'[g].request)
        /\ prepWorkers' = [g \in DOMAIN prepWorkers' |-> prepWorkers'[g]]
    <2>1. prepWorkers' = [h \in DOMAIN prepWorkers |-> prepWorkers[h]]
      BY DEF Confirm, Reject, ReplacementInv, FlowInv, FlowTypes
    <2> QED
      BY <2>1, <1>t, SameWorkers DEF ReplacementInv
  <1>1. CASE Confirm
    <2>1. question' = NoReplacement /\ ApplyReplacement(question) /\ UNCHANGED <<selection, prep>>
      BY <1>1 DEF Confirm
    <2> QED
      BY <1>t, <1>n, <1>w, <2>1, ApplyFlow, FlowFrom
  <1>2. CASE Reject
    <2>1. question' = NoReplacement /\ UNCHANGED <<composer, prep, cacheUi, committed>> /\ UNCHANGED cacheVars
          /\ selection' \in Nat /\ lastError' \in BOOLEAN
      BY <1>2, <1>t DEF Reject, cacheVars, Requests, ReplacementInv, FlowInv, FlowTypes
    <2>2. CacheInv'
      BY <2>1 DEF ReplacementInv, cacheVars, CacheInv, CacheTypes, Generations, OwnedDirectories,
                  NoOrphanDirectory, Told, UnderWay
    <2>3. FilesKept' /\ composer' \in [generation : Nat, typed : BOOLEAN, files : 0..MaxCached]
          /\ cacheUi'.active <= MaxCached /\ Honest(cacheUi'.replacement)
      BY <2>1 DEF FilesKept, ReplacementInv, FlowInv, FlowTypes, HonestRequests, Honest
    <2> QED
      BY <1>t, <1>n, <1>w, <2>1, <2>2, <2>3, FlowFrom
  <1> QED
    BY <1>1, <1>2

LEMMA CacheRests ==
  ASSUME CacheInv, UNCHANGED cacheVars
  PROVE  CacheInv'
  BY DEF cacheVars, CacheInv, CacheTypes, Generations, OwnedDirectories, NoOrphanDirectory, Told, UnderWay

(* The user edits, searches, or other work of the program ends. *)
LEMMA UserFlow ==
  ASSUME ReplacementInv, TypeText \/ Search \/ \E failed \in BOOLEAN : OtherOutcome(failed)
  PROVE  ReplacementInv'
  <1>t. /\ prep.next \in Nat /\ selection \in Nat /\ prep \in [next : Nat, active : Nat]
        /\ prep.active \in {0, prep.next} /\ question \in Requests /\ Honest(question)
        /\ composer \in [generation : Nat, typed : BOOLEAN, files : 0..MaxCached]
        /\ lastError \in BOOLEAN
        /\ cacheUi.active <= MaxCached /\ Honest(cacheUi.replacement)
    BY DEF ReplacementInv, FlowInv, FlowTypes, HonestRequests
  <1>a. /\ question # NoReplacement =>
             prep.active = 0 /\ cacheUi.active = 0 /\ question.asked = composer.generation
        /\ cacheUi.active # 0 => cacheUi.replacement.asked = cacheUi.captured
    BY DEF ReplacementInv, FlowInv, AskedForThisText
  <1>w. /\ DOMAIN prepWorkers' \subseteq 1..prep.next
        /\ \A g \in DOMAIN prepWorkers' : prepWorkers'[g] \in Workers /\ Honest(prepWorkers'[g].request)
        /\ prepWorkers' = [g \in DOMAIN prepWorkers' |-> prepWorkers'[g]]
    <2>1. prepWorkers' = [h \in DOMAIN prepWorkers |-> prepWorkers[h]]
      BY DEF TypeText, Search, OtherOutcome, ReplacementInv, FlowInv, FlowTypes
    <2> QED
      BY <2>1, <1>t, SameWorkers DEF ReplacementInv
  <1>1. CASE TypeText
    <2>1. /\ composer' \in [generation : Nat, typed : BOOLEAN, files : 0..MaxCached]
          /\ composer'.files = composer.files
      <3>1. composer' = [composer EXCEPT !.generation = composer.generation + 1, !.typed = TRUE]
        BY <1>1 DEF TypeText
      <3>2. composer.generation + 1 \in Nat
        BY <1>t
      <3> QED
        BY <1>t, <3>1, <3>2
    <2>2. question' = NoReplacement /\ CancelCache /\ UNCHANGED <<selection, lastError, prep, question>>
      BY <1>1 DEF TypeText
    <2>3. /\ CacheInv' /\ cacheUi'.active = 0 /\ cacheUi'.active <= MaxCached
          /\ Honest(cacheUi'.replacement) /\ committed' = committed
      BY <2>2, CancelFlow
    <2>4. FilesKept'
      BY <2>1, <2>3 DEF FilesKept, ReplacementInv, FlowInv
    <2> QED
      BY <1>t, <1>w, <2>1, <2>2, <2>3, <2>4, FlowFrom
  <1>2. CASE Search \/ \E failed \in BOOLEAN : OtherOutcome(failed)
    <2>1. UNCHANGED <<composer, prep, question>> /\ UNCHANGED cacheVars
          /\ selection' \in Nat /\ lastError' \in BOOLEAN
      BY <1>2, <1>t DEF Search, OtherOutcome
    <2>2. CacheInv'
      BY <2>1, CacheRests DEF ReplacementInv
    <2>3. cacheUi' = cacheUi /\ FilesKept'
      BY <2>1 DEF cacheVars, FilesKept, ReplacementInv, FlowInv
    <2> QED
      BY <1>t, <1>a, <1>w, <2>1, <2>2, <2>3, FlowFrom
  <1> QED
    BY <1>1, <1>2

LEMMA PrepareFlow ==
  ASSUME ReplacementInv, NEW g \in DOMAIN prepWorkers, NEW ok \in BOOLEAN, Prepare(g, ok)
  PROVE  ReplacementInv'
  <1>1. UNCHANGED <<composer, selection, lastError, prep, question>> /\ UNCHANGED cacheVars
    BY DEF Prepare
  <1>2. CacheInv' /\ cacheUi' = cacheUi /\ committed' = committed
    BY <1>1, CacheRests DEF ReplacementInv, cacheVars
  <1>3. PICK at \in {"ok", "error"} : prepWorkers' = [prepWorkers EXCEPT ![g].at = at]
    BY DEF Prepare
  <1>4. /\ DOMAIN prepWorkers' = DOMAIN prepWorkers
        /\ prepWorkers' = [h \in DOMAIN prepWorkers |-> prepWorkers'[h]]
        /\ \A h \in DOMAIN prepWorkers : prepWorkers'[h] = IF h = g THEN [prepWorkers[g] EXCEPT !.at = at]
                                                                    ELSE prepWorkers[h]
    BY <1>3 DEF ReplacementInv, FlowInv, FlowTypes
  <1>5. [prepWorkers[g] EXCEPT !.at = at] \in Workers
        /\ [prepWorkers[g] EXCEPT !.at = at].request = prepWorkers[g].request
    BY DEF ReplacementInv, FlowInv, FlowTypes, Workers
  <1>6. \A h \in DOMAIN prepWorkers : prepWorkers'[h] \in Workers /\ Honest(prepWorkers'[h].request)
    BY <1>4, <1>5 DEF ReplacementInv, FlowInv, FlowTypes, HonestRequests
  <1>7. FlowTypes'
    BY <1>1, <1>2, <1>4, <1>6 DEF ReplacementInv, FlowInv, FlowTypes
  <1>8. HonestRequests' /\ AskedForThisText' /\ FilesKept'
    BY <1>1, <1>2, <1>4, <1>6
       DEF ReplacementInv, FlowInv, HonestRequests, Honest, AskedForThisText, FilesKept
  <1> QED
    BY <1>2, <1>7, <1>8 DEF ReplacementInv, FlowInv

LEMMA PollPreparationFlow ==
  ASSUME ReplacementInv, NEW g \in DOMAIN prepWorkers, PollPreparation(g)
  PROVE  ReplacementInv'
  <1> DEFINE r == prepWorkers[g].request
  <1>t. /\ prep.next \in Nat /\ selection \in Nat /\ prep \in [next : Nat, active : Nat]
        /\ prep.active \in {0, prep.next} /\ question \in Requests /\ Honest(question)
        /\ composer \in [generation : Nat, typed : BOOLEAN, files : 0..MaxCached]
        /\ lastError \in BOOLEAN
        /\ cacheUi.active <= MaxCached /\ Honest(cacheUi.replacement)
    BY DEF ReplacementInv, FlowInv, FlowTypes, HonestRequests
  <1>a. /\ question # NoReplacement =>
             prep.active = 0 /\ cacheUi.active = 0 /\ question.asked = composer.generation
        /\ cacheUi.active # 0 => cacheUi.replacement.asked = cacheUi.captured
    BY DEF ReplacementInv, FlowInv, AskedForThisText
  <1>r. r \in Requests /\ Honest(r) /\ r.snapshotError \in BOOLEAN /\ g # 0
    BY DEF ReplacementInv, FlowInv, FlowTypes, HonestRequests, Workers, Requests
  <1>p. prepWorkers' = [h \in DOMAIN prepWorkers \ {g} |-> prepWorkers[h]]
    BY DEF PollPreparation, Polled
  <1>w. ASSUME NEW n \in Nat, n >= prep.next
        PROVE  /\ DOMAIN prepWorkers' \subseteq 1..n
               /\ \A h \in DOMAIN prepWorkers' :
                    prepWorkers'[h] \in Workers /\ Honest(prepWorkers'[h].request)
               /\ prepWorkers' = [h \in DOMAIN prepWorkers' |-> prepWorkers'[h]]
    <2>1. (DOMAIN prepWorkers \ {g}) \in SUBSET DOMAIN prepWorkers
      OBVIOUS
    <2> QED
      BY <1>w, <1>p, <2>1, SameWorkers DEF ReplacementInv
  <1> HIDE DEF r
  <1>1. CASE PollStale(g)
    <2>1. UNCHANGED <<composer, selection, lastError, prep, question>> /\ UNCHANGED cacheVars
      BY <1>1 DEF PollStale
    <2>2. CacheInv' /\ cacheUi' = cacheUi /\ FilesKept'
      BY <2>1, CacheRests DEF ReplacementInv, cacheVars, FilesKept, FlowInv
    <2>3. prep.next >= prep.next
      BY <1>t
    <2> QED
      BY <1>t, <1>a, <1>w, <2>1, <2>2, <2>3, FlowFrom
  <1>2. CASE PollGivesUp(g)
    <2>1. UNCHANGED <<composer, question>> /\ UNCHANGED cacheVars
          /\ selection' \in Nat /\ lastError' \in BOOLEAN
      <3>1. \/ lastError' = TRUE \/ lastError' = r.snapshotError \/ lastError' = lastError
        BY <1>2 DEF PollGivesUp, r
      <3>2. selection' = selection + 1 \/ selection' = selection
        BY <1>2 DEF PollGivesUp
      <3>3. UNCHANGED <<composer, question>> /\ UNCHANGED cacheVars
        BY <1>2 DEF PollGivesUp
      <3>4. lastError' \in BOOLEAN
        BY <1>t, <1>r, <3>1
      <3>5. selection' \in Nat
        BY <1>t, <3>2
      <3> QED
        BY <3>3, <3>4, <3>5
    <2>2. CacheInv' /\ cacheUi' = cacheUi /\ FilesKept'
      BY <2>1, CacheRests DEF ReplacementInv, cacheVars, FilesKept, FlowInv
    <2>3. prep' \in [next : Nat, active : Nat] /\ prep'.active = 0 /\ prep'.next = prep.next
          /\ prep.next >= prep.next
      BY <1>2, <1>t DEF PollGivesUp
    <2> QED
      BY <1>t, <1>a, <1>w, <2>1, <2>2, <2>3, FlowFrom
  <1>3. ASSUME NEW allowed \in BOOLEAN, PollRequests(g, allowed) PROVE ReplacementInv'
    <2>1. prep' = [next |-> prep.next + 1, active |-> 0]
          /\ prep' \in [next : Nat, active : Nat] /\ prep'.active = 0 /\ prep'.next = prep.next + 1
          /\ prep.next + 1 \in Nat /\ prep.next + 1 >= prep.next
      BY <1>3, <1>t DEF PollRequests
    <2>2. r.asked = composer.generation
      BY <1>3 DEF PollRequests, Fresh, r
    <2>3. question = NoReplacement
      BY <1>3, <1>a, <1>r DEF PollRequests, Finishes
    <2>4. CASE /\ CancelCache /\ UNCHANGED composer /\ question' \in {question, r}
               /\ selection' \in Nat /\ lastError' \in BOOLEAN
      <3>1. /\ CacheInv' /\ cacheUi'.active = 0 /\ cacheUi'.active <= MaxCached
            /\ Honest(cacheUi'.replacement) /\ committed' = committed
        BY <2>4, CancelFlow
      <3>2. FilesKept'
        BY <2>4, <3>1 DEF FilesKept, ReplacementInv, FlowInv
      <3>3. question' \in Requests /\ Honest(question')
            /\ (question' # NoReplacement => question'.asked = composer'.generation)
        BY <1>t, <1>r, <2>2, <2>3, <2>4
      <3> QED
        BY <1>t, <1>w, <2>1, <2>4, <3>1, <3>2, <3>3, FlowFrom
    <2>5. CASE ApplyReplacement(r) /\ UNCHANGED <<selection, question>>
      BY <1>t, <1>r, <1>w, <2>1, <2>2, <2>3, <2>5, ApplyFlow, FlowFrom
    <2>6. \/ /\ selection' = IF r.kind = "draft" THEN selection + 1 ELSE selection
             /\ lastError' = IF r.kind = "draft" THEN r.snapshotError ELSE lastError
             /\ CancelCache /\ UNCHANGED <<composer, question>>
          \/ question' = r /\ CancelCache /\ UNCHANGED <<composer, selection, lastError>>
          \/ ApplyReplacement(r) /\ UNCHANGED <<selection, question>>
      BY <1>3 DEF PollRequests, r
    <2> QED
      BY <1>t, <1>r, <2>4, <2>5, <2>6
  <1> QED
    BY <1>1, <1>2, <1>3 DEF PollPreparation

LEMMA ReplacementInvariance == ReplacementSpec => []ReplacementInv
  <1>1. ReplacementInit => ReplacementInv
    BY CacheInitInv, FlowInitInv DEF ReplacementInv
  <1>2. ASSUME ReplacementInv, [ReplacementNext]_replacementVars PROVE ReplacementInv'
    <2>1. CASE UNCHANGED replacementVars
      <3>1. CacheInv'
        BY <1>2, <2>1, CacheRests DEF replacementVars, cacheVars, ReplacementInv
      <3> QED
        BY <1>2, <2>1, <3>1 DEF replacementVars, ReplacementInv, FlowInv, FlowTypes, HonestRequests, Honest,
                       AskedForThisText, FilesKept
    <2>2. CASE ReplacementNext
      BY <1>2, <2>2, RespondFlow, OpenFlow, AnswerFlow, UserFlow, CacheFlow, PollCacheFlow,
         PrepareFlow, PollPreparationFlow DEF ReplacementNext
    <2> QED
      BY <1>2, <2>1, <2>2
  <1> QED
    BY <1>1, <1>2, PTL DEF ReplacementSpec

(***************************************************************************)
(* Type correctness of the composer's requests; the name of every          *)
(* directory stays within its bound.                                       *)
(***************************************************************************)
THEOREM ReplacementTypeCorrect == ReplacementSpec => []ReplacementTypeOK
  <1>1. ASSUME ReplacementInv PROVE ReplacementTypeOK
    BY <1>1 DEF ReplacementInv, CacheInv, CacheTypes, JobStates, Generations, FlowInv, FlowTypes, ReplacementTypeOK
  <1> QED
    BY <1>1, ReplacementInvariance, PTL

(***************************************************************************)
(* attachment_io.rs: no directory of copies is left behind, whichever of   *)
(* cancellation, failure and supersession meets the worker where.          *)
(***************************************************************************)
THEOREM NoDirectoryOrphaned == ReplacementSpec => []NoOrphanDirectory
  <1>1. ReplacementInv => NoOrphanDirectory
    BY DEF ReplacementInv, CacheInv
  <1> QED
    BY <1>1, ReplacementInvariance, PTL

(***************************************************************************)
(* cancel_active_composer_cache: the flag of every copy the window does    *)
(* not wait for is set before the worker can look at it again.             *)
(***************************************************************************)
THEOREM CancelledCopyIsTold == ReplacementSpec => []CancelReachesCache
  <1>1. ASSUME ReplacementInv PROVE CancelReachesCache
    BY <1>1 DEF ReplacementInv, CacheInv, CacheTypes, JobStates, Generations, Told, UnderWay, CancelReachesCache
  <1> QED
    BY <1>1, ReplacementInvariance, PTL

(***************************************************************************)
(* apply_prepared_composer_replacement: while no draft is selected with an *)
(* earlier error showing, the files that the fields name are on disk.  The *)
(* condition is needed: with such an error the copies are given up after   *)
(* the fields were filled.                                                 *)
(***************************************************************************)
THEOREM AttachedFilesStay == EarlierErrors = FALSE => (ReplacementSpec => []AttachedFilesExist)
  <1> SUFFICES ASSUME EarlierErrors = FALSE PROVE ReplacementSpec => []AttachedFilesExist
    OBVIOUS
  <1>1. ReplacementInv => AttachedFilesExist
    BY DEF ReplacementInv, CacheInv, OwnedDirectories, FlowInv, FilesKept, AttachedFilesExist
  <1> QED
    BY <1>1, ReplacementInvariance, PTL

(***************************************************************************)
(* composer_preparation_is_current and the confirmation: a text is filled  *)
(* in only over the text that was there when it was asked for.             *)
(***************************************************************************)
THEOREM NothingTypedIsOverwritten == ReplacementSpec => FillsOverAskedText
  <1> DEFINE Fills ==
        /\ (composer'.files # composer.files /\ composer'.files # 0)
             => cacheUi.replacement.asked = composer.generation
        /\ (question # NoReplacement /\ composer' # composer)
             => question.asked = composer.generation
  <1>1. ASSUME ReplacementInv, [ReplacementNext]_replacementVars PROVE [Fills]_replacementVars
    <2>1. (question # NoReplacement /\ composer' # composer) => question.asked = composer.generation
      BY <1>1 DEF ReplacementInv, FlowInv, AskedForThisText
    <2>2. ASSUME composer'.files # composer.files, composer'.files # 0
          PROVE  PollCache /\ composer' # composer
      <3>1. ASSUME NEW r, ApplyReplacement(r) PROVE composer'.files = composer.files \/ composer'.files = 0
        BY <3>1 DEF ApplyReplacement, FillPlain, Filled
      <3>2. composer' # composer /\ ~UNCHANGED replacementVars
        BY <2>2 DEF replacementVars
      <3>3. ~TypeText
        BY <2>2, <1>1 DEF TypeText, ReplacementInv, FlowInv, FlowTypes
      <3>4. ~(\E kind \in Kinds : Respond(kind)) /\ ~SelectDraft /\ ~Reject /\ ~Search /\ ~WakeWorker
            /\ ~(\E failed \in BOOLEAN : OtherOutcome(failed)) /\ ~CacheStep
            /\ \A g \in DOMAIN prepWorkers, ok \in BOOLEAN : ~Prepare(g, ok)
        BY <3>2 DEF Respond, SelectDraft, Reject, Search, WakeWorker, OtherOutcome, CacheStep, Prepare,
                    CacheWakes, CacheWrites, CacheAnswers, CacheFinishes
      <3>5. ~OpenCompose /\ ~Confirm
        BY <2>2, <3>1, <3>2 DEF OpenCompose, Confirm
      <3>6. \A g \in DOMAIN prepWorkers : ~PollPreparation(g)
        BY <2>2, <3>1, <3>2 DEF PollPreparation, PollStale, PollGivesUp, PollRequests
      <3> QED
        BY <1>1, <3>2, <3>3, <3>4, <3>5, <3>6 DEF ReplacementNext
    <2>3. ASSUME PollCache, composer' # composer PROVE cacheUi.replacement.asked = composer.generation
      BY <1>1, <2>3 DEF PollCache, CacheFresh, ReplacementInv, FlowInv, AskedForThisText
    <2> QED
      BY <2>1, <2>2, <2>3
  <1> QED
    BY <1>1, ReplacementInvariance, PTL DEF ReplacementSpec, FillsOverAskedText

-----------------------------------------------------------------------------
(***************************************************************************)
(* Attachments.  Only the token given out last can be current, and while   *)
(* it is, its attachment is on screen: every change of the list forgets    *)
(* it.  A writer that has an answer has a file.                            *)
(***************************************************************************)
MailItems == MailThreads \X (1..ListLength)
AttachWriters == [token : Nat \ {0}, act : {"save", "open"}, item : MailItems,
                  step : {"load", "publish", "answer"}, number : Nat, ok : BOOLEAN]
Choosers == [token : Nat \ {0}, item : MailItems]
OnScreen == {items[i] : i \in DOMAIN items}

AttachTypes ==
  /\ OnScreen \subseteq MailItems
  /\ latestAct \in 0..MaxAttachActs /\ currentAct \in {0, latestAct}
  /\ chooser = NoChooser \/ chooser \in Choosers
  /\ writers \subseteq AttachWriters
  /\ attachWindow \in {"open", "closed", "exited"}

CurrentIsShown ==
  /\ \A w \in writers : w.token = currentAct => w.item \in OnScreen
  /\ chooser # NoChooser /\ chooser.token = currentAct => chooser.item \in OnScreen

AnswerHasFile ==
  \A w \in writers : w.step = "answer" /\ w.ok
                       => FileName(w) \in DOMAIN attachFiles /\ attachFiles[FileName(w)] = w.item

TokensGivenOut ==
  /\ \A w \in writers : w.token <= latestAct
  /\ chooser # NoChooser => chooser.token <= latestAct

AttachInv == AttachTypes /\ TokensGivenOut /\ CurrentIsShown /\ AnswerHasFile /\ OpensWhatIsShown

(* No step takes a file away or changes it: persist_noclobber. *)
FilesKeptAsTheyAre ==
  \A n \in DOMAIN attachFiles : n \in DOMAIN attachFiles' /\ attachFiles'[n] = attachFiles[n]

LEMMA NoClobber ==
  ASSUME [AttachNext]_attachVars
  PROVE  FilesKeptAsTheyAre
  <1>1. CASE attachFiles' = attachFiles
    BY <1>1 DEF FilesKeptAsTheyAre
  <1>2. CASE \E w \in writers : WriterPublishes(w)
    BY <1>2 DEF WriterPublishes, NameFree, FilesKeptAsTheyAre
  <1>3. CASE \E number \in 0..1 : ForeignFile(number)
    BY <1>3 DEF ForeignFile, FilesKeptAsTheyAre
  <1> QED
    BY <1>1, <1>2, <1>3
       DEF AttachNext, attachVars, ShowAttachments, HideAttachments, AddRows, AllowActions, RequestSave,
           StartWriter, ChooserAccepted, ChooserDismissed, WriterLoads, AttachWriterFails, WriterAnswers,
           CloseAttachments, ExitAttachments

LEMMA AttachInitInv == AttachInit => AttachInv
  <1> SUFFICES ASSUME AttachInit PROVE AttachInv
    OBVIOUS
  <1>1. OnScreen = {} /\ latestAct \in 0..MaxAttachActs
    BY AttachmentsAssumption DEF AttachInit, OnScreen
  <1> QED
    BY <1>1 DEF AttachInit, AttachInv, AttachTypes, TokensGivenOut, CurrentIsShown, AnswerHasFile, OpensWhatIsShown

(* The list changes, and the current action is forgotten. *)
LEMMA ListSteps ==
  ASSUME AttachInv,
         \/ \E t \in MailThreads : ShowAttachments(t)
         \/ HideAttachments
         \/ \E c \in chunks : AddRows(c)
         \/ \E b \in BOOLEAN : AllowActions(b)
         \/ CloseAttachments \/ ExitAttachments
  PROVE  AttachInv'
  <1> USE DEF AttachInv
  <1>k. UNCHANGED <<chooser, writers, attachFiles, launched, latestAct>> /\ currentAct' \in {0, currentAct}
        /\ attachWindow' \in {"open", "closed", "exited"}
    BY DEF AttachTypes, ShowAttachments, HideAttachments, AddRows, AllowActions, CloseAttachments,
           ExitAttachments, listVars
  <1>was. \A w \in writers : w.token # 0
    BY DEF AttachTypes, AttachWriters
  <1>c. chooser # NoChooser => chooser.token # 0
    BY DEF AttachTypes, Choosers
  <1>s. OnScreen' \subseteq MailItems /\ (currentAct' # 0 => OnScreen' = OnScreen)
    <2>1. ASSUME NEW t \in MailThreads, ShowAttachments(t) PROVE OnScreen' \subseteq MailItems /\ currentAct' = 0
      BY <2>1 DEF ShowAttachments, OnScreen, Attached, MailItems
    <2>2. CASE HideAttachments
      BY <2>2 DEF HideAttachments, OnScreen
    <2>3. CASE UNCHANGED items
      BY <2>3 DEF AttachTypes, OnScreen
    <2> QED
      BY <2>1, <2>2, <2>3 DEF AddRows, AllowActions, CloseAttachments, ExitAttachments, listVars
  <1>1. AttachTypes'
    BY <1>k, <1>s DEF AttachTypes
  <1>2. CurrentIsShown'
    BY <1>k, <1>was, <1>c, <1>s DEF CurrentIsShown, AttachTypes
  <1>3. AnswerHasFile' /\ OpensWhatIsShown' /\ TokensGivenOut'
    BY <1>k DEF AnswerHasFile, OpensWhatIsShown, FileName, SaveDirectory, TokensGivenOut
  <1> QED
    BY <1>1, <1>2, <1>3

LEMMA ActSteps ==
  ASSUME AttachInv,
         \/ \E i \in DOMAIN rows : \/ RequestSave(rows[i])
                                   \/ \E act \in {"save", "open"} : StartWriter(rows[i], act)
         \/ ChooserAccepted \/ ChooserDismissed
  PROVE  AttachInv'
  <1> USE DEF AttachInv
  <1>k. UNCHANGED <<items, attachFiles, launched, attachWindow>> /\ OnScreen' = OnScreen
    BY DEF RequestSave, StartWriter, ChooserAccepted, ChooserDismissed, listVars, OnScreen
  <1>n. latestAct \in Nat /\ (BeginAct => /\ latestAct' \in 0..MaxAttachActs /\ latestAct' \in Nat \ {0}
                                          /\ latestAct' > latestAct /\ currentAct' = latestAct')
    BY AttachmentsAssumption DEF BeginAct, AttachTypes
  <1>3. ASSUME UNCHANGED writers \/ \E w \in AttachWriters : w.step = "load" /\ writers' = writers \cup {w}
        PROVE  AnswerHasFile' /\ OpensWhatIsShown'
    BY <1>3, <1>k DEF AnswerHasFile, OpensWhatIsShown, FileName, SaveDirectory, AttachWriters
  <1>w. ASSUME NEW token \in Nat \ {0}, NEW act \in {"save", "open"}, NEW item \in MailItems
        PROVE  Writer(token, act, item) \in AttachWriters /\ Writer(token, act, item).step = "load"
               /\ Writer(token, act, item).token = token /\ Writer(token, act, item).item = item
    BY DEF Writer, AttachWriters
  <1>4. ASSUME NEW i \in DOMAIN rows, RequestSave(rows[i]) PROVE AttachInv'
    <2>1. rows[i] \in OnScreen /\ rows[i] \in MailItems /\ BeginAct /\ UNCHANGED writers
          /\ chooser' = [token |-> latestAct', item |-> rows[i]]
      BY <1>4 DEF RequestSave, HasPayload, OnScreen, AttachTypes
    <2>2. AttachTypes'
      BY <1>k, <1>n, <2>1 DEF AttachTypes, Choosers
    <2>3. (\A w \in writers : w.token \in Nat /\ w.token < latestAct') /\ TokensGivenOut'
      BY <1>n, <2>1 DEF TokensGivenOut, AttachTypes, AttachWriters
    <2>4. CurrentIsShown'
      BY <1>k, <1>n, <2>1, <2>3 DEF CurrentIsShown
    <2> QED
      BY <1>3, <2>1, <2>2, <2>3, <2>4
  <1>5. ASSUME NEW i \in DOMAIN rows, NEW act \in {"save", "open"}, StartWriter(rows[i], act) PROVE AttachInv'
    <2> DEFINE new == Writer(latestAct', act, rows[i])
    <2>1. rows[i] \in OnScreen /\ rows[i] \in MailItems /\ BeginAct /\ UNCHANGED chooser
          /\ writers' = writers \cup {new}
      BY <1>5 DEF StartWriter, HasPayload, OnScreen, AttachTypes
    <2>2. new \in AttachWriters /\ new.step = "load" /\ new.token = latestAct' /\ new.item = rows[i]
      BY <1>n, <1>w, <2>1
    <2> HIDE DEF new
    <2>3. AttachTypes'
      BY <1>k, <1>n, <2>1, <2>2 DEF AttachTypes
    <2>4. /\ \A w \in writers : w.token \in Nat /\ w.token < latestAct'
          /\ chooser # NoChooser => chooser.token \in Nat /\ chooser.token < latestAct'
      BY <1>n, <2>1 DEF TokensGivenOut, AttachTypes, AttachWriters, Choosers
    <2>5. TokensGivenOut'
      BY <1>n, <2>1, <2>2, <2>4 DEF TokensGivenOut
    <2>6. CurrentIsShown'
      BY <1>k, <1>n, <2>1, <2>2, <2>4 DEF CurrentIsShown
    <2> QED
      BY <1>3, <2>1, <2>2, <2>3, <2>5, <2>6
  <1>6. CASE ChooserAccepted
    <2> DEFINE new == Writer(chooser.token, "save", chooser.item)
    <2>1. chooser # NoChooser /\ chooser' = NoChooser /\ writers' = writers \cup {new}
          /\ UNCHANGED <<latestAct, currentAct>>
      BY <1>6 DEF ChooserAccepted
    <2>2. new \in AttachWriters /\ new.step = "load" /\ new.token = chooser.token /\ new.item = chooser.item
      BY <1>w, <2>1 DEF AttachTypes, Choosers
    <2> HIDE DEF new
    <2>3. AttachTypes' /\ TokensGivenOut' /\ CurrentIsShown'
      BY <1>k, <2>1, <2>2 DEF AttachTypes, TokensGivenOut, CurrentIsShown
    <2> QED
      BY <1>3, <2>1, <2>2, <2>3
  <1>7. CASE ChooserDismissed
    <2>1. chooser' = NoChooser /\ UNCHANGED <<latestAct, writers>> /\ currentAct' \in {0, currentAct}
      BY <1>7 DEF ChooserDismissed
    <2>2. \A w \in writers : w.token # 0
      BY DEF AttachTypes, AttachWriters
    <2>3. AttachTypes' /\ TokensGivenOut' /\ CurrentIsShown'
      BY <1>k, <2>1, <2>2 DEF AttachTypes, TokensGivenOut, CurrentIsShown
    <2> QED
      BY <1>3, <2>1, <2>3
  <1> QED
    BY <1>4, <1>5, <1>6, <1>7

(* A writer goes on, and keeps its token and its attachment. *)
LEMMA WriterSteps ==
  ASSUME AttachInv, NEW w \in writers, WriterLoads(w) \/ WriterPublishes(w) \/ AttachWriterFails(w)
  PROVE  AttachInv'
  <1> USE DEF AttachInv
  <1>k. UNCHANGED <<items, chooser, launched, attachWindow, latestAct, currentAct>> /\ OnScreen' = OnScreen
    BY DEF WriterLoads, WriterPublishes, AttachWriterFails, listVars, OnScreen
  <1>t. w \in AttachWriters
    BY DEF AttachTypes
  <1>f. FilesKeptAsTheyAre
    BY NoClobber DEF AttachNext
  <1>1. PICK v \in AttachWriters : /\ writers' = (writers \ {w}) \cup {v}
                                   /\ v.token = w.token /\ v.item = w.item
                                   /\ v.step = "answer" /\ v.ok =>
                                        FileName(v) \in DOMAIN attachFiles' /\ attachFiles'[FileName(v)] = v.item
    <2>1. CASE WriterLoads(w)
      <3>1. [w EXCEPT !.step = "publish"] \in AttachWriters /\ [w EXCEPT !.step = "publish"].step = "publish"
            /\ [w EXCEPT !.step = "publish"].token = w.token /\ [w EXCEPT !.step = "publish"].item = w.item
        BY <1>t DEF AttachWriters
      <3>2. [w EXCEPT !.step = "answer", !.ok = FALSE] \in AttachWriters
            /\ ~[w EXCEPT !.step = "answer", !.ok = FALSE].ok
            /\ [w EXCEPT !.step = "answer", !.ok = FALSE].token = w.token
            /\ [w EXCEPT !.step = "answer", !.ok = FALSE].item = w.item
        BY <1>t DEF AttachWriters
      <3> QED
        BY <2>1, <3>1, <3>2 DEF WriterLoads, Became
    <2>2. CASE WriterPublishes(w) /\ NameFree(FileName(w))
      <3> DEFINE v == [w EXCEPT !.step = "answer"]
      <3>1. v \in AttachWriters /\ v.token = w.token /\ v.item = w.item /\ v.act = w.act /\ v.number = w.number
        BY <1>t DEF AttachWriters
      <3>2. FileName(v) = FileName(w)
        BY <3>1 DEF FileName, SaveDirectory
      <3>3. writers' = (writers \ {w}) \cup {v} /\ FileName(w) \in DOMAIN attachFiles'
            /\ attachFiles'[FileName(w)] = w.item
        BY <2>2 DEF WriterPublishes, Became
      <3> QED
        BY <3>1, <3>2, <3>3
    <2>3. CASE WriterPublishes(w) /\ ~NameFree(FileName(w))
      <3> DEFINE v == [w EXCEPT !.number = w.number + 1]
      <3>1. v \in AttachWriters /\ v.token = w.token /\ v.item = w.item /\ v.step = "publish"
        BY <2>3, <1>t DEF AttachWriters, WriterPublishes
      <3>2. writers' = (writers \ {w}) \cup {v}
        BY <2>3 DEF WriterPublishes, Became
      <3> QED
        BY <3>1, <3>2
    <2>4. CASE AttachWriterFails(w)
      <3> DEFINE v == [w EXCEPT !.step = "answer", !.ok = FALSE]
      <3>1. v \in AttachWriters /\ v.token = w.token /\ v.item = w.item /\ ~v.ok
        BY <1>t DEF AttachWriters
      <3> QED
        BY <2>4, <3>1 DEF AttachWriterFails, Became
    <2> QED
      BY <2>1, <2>2, <2>3, <2>4
  <1>2. AttachTypes' /\ TokensGivenOut' /\ CurrentIsShown'
    BY <1>k, <1>1 DEF AttachTypes, TokensGivenOut, CurrentIsShown
  <1>3. AnswerHasFile' /\ OpensWhatIsShown'
    BY <1>k, <1>1, <1>f DEF AnswerHasFile, OpensWhatIsShown, FilesKeptAsTheyAre, FileName, SaveDirectory
  <1> QED
    BY <1>2, <1>3

LEMMA AnswerStep ==
  ASSUME AttachInv, NEW w \in writers, WriterAnswers(w)
  PROVE  AttachInv'
  <1> USE DEF AttachInv
  <1>k. UNCHANGED <<items, chooser, attachFiles, attachWindow, latestAct>> /\ OnScreen' = OnScreen
        /\ writers' = writers \ {w} /\ currentAct' \in {0, currentAct}
    BY DEF WriterAnswers, listVars, OnScreen
  <1>was. (\A u \in writers : u.token # 0) /\ (chooser # NoChooser => chooser.token # 0)
    BY DEF AttachTypes, AttachWriters, Choosers
  <1>1. AttachTypes' /\ TokensGivenOut' /\ CurrentIsShown'
    BY <1>k, <1>was DEF AttachTypes, TokensGivenOut, CurrentIsShown
  <1>2. AnswerHasFile'
    BY <1>k DEF AnswerHasFile, FileName, SaveDirectory
  <1>3. OpensWhatIsShown'
    <2>1. CASE launched' = launched
      BY <2>1, <1>k DEF OpensWhatIsShown
    <2>2. CASE launched' # launched
      <3> DEFINE l == [name |-> FileName(w), item |-> w.item, token |-> w.token, newest |-> latestAct,
                       listed |-> w.item \in {items[i] : i \in DOMAIN items}]
      <3>1. launched' = launched \cup {l} /\ w.token = currentAct /\ w.ok /\ w.step = "answer"
        BY <2>2 DEF WriterAnswers, Applies
      <3>2. w.token = latestAct /\ w.item \in OnScreen
        BY <1>was, <3>1 DEF AttachTypes, CurrentIsShown
      <3>3. l.token = l.newest /\ l.listed /\ l.name \in DOMAIN attachFiles /\ attachFiles[l.name] = l.item
        BY <3>1, <3>2 DEF AnswerHasFile, OnScreen
      <3> QED
        BY <1>k, <3>1, <3>3 DEF OpensWhatIsShown
    <2> QED
      BY <2>1, <2>2
  <1> QED
    BY <1>1, <1>2, <1>3

LEMMA AttachInvariance == AttachSpec => []AttachInv
  <1>1. ASSUME AttachInv, [AttachNext]_attachVars PROVE AttachInv'
    <2> USE <1>1
    <2>1. CASE UNCHANGED attachVars
      BY <2>1 DEF attachVars, AttachInv, AttachTypes, TokensGivenOut, CurrentIsShown, AnswerHasFile,
                  OpensWhatIsShown, OnScreen, FileName, SaveDirectory
    <2>2. ASSUME NEW number \in 0..1, ForeignFile(number) PROVE AttachInv'
      <3>1. FilesKeptAsTheyAre
        BY NoClobber
      <3> QED
        BY <2>2, <3>1 DEF ForeignFile, listVars, FilesKeptAsTheyAre, AttachInv, AttachTypes, TokensGivenOut,
                          CurrentIsShown, AnswerHasFile, OpensWhatIsShown, OnScreen, FileName, SaveDirectory
    <2> QED
      BY <2>1, <2>2, ListSteps, ActSteps, WriterSteps, AnswerStep DEF AttachNext
  <1> QED
    BY <1>1, AttachInitInv, PTL DEF AttachSpec

(* Type correctness of the attachment list and its writers. *)
THEOREM AttachTypeCorrect == AttachSpec => []AttachTypeOK
  <1>1. AttachInv => AttachTypeOK
    BY AttachmentsAssumption DEF AttachInv, AttachTypes, AttachWriters, AttachTypeOK
  <1> QED
    BY <1>1, AttachInvariance, PTL

(***************************************************************************)
(* complete_attachment_worker: whatever is shown or begun while a writer   *)
(* is at work, only the attachment on screen of the latest action is       *)
(* opened, and the file opened holds its bytes.                            *)
(***************************************************************************)
THEOREM OpensOnlyWhatIsShown == AttachSpec => []OpensWhatIsShown
  <1>1. AttachInv => OpensWhatIsShown
    BY DEF AttachInv
  <1> QED
    BY <1>1, AttachInvariance, PTL

(***************************************************************************)
(* persist_noclobber: no number of writers, and no other program, makes a  *)
(* step that changes or removes a file that is there.                      *)
(***************************************************************************)
THEOREM NoFileOverwritten == AttachSpec => NothingOverwritten
  <1> DEFINE Keeps == \A n \in DOMAIN attachFiles : n \in DOMAIN attachFiles' /\ attachFiles'[n] = attachFiles[n]
  <1>1. ASSUME [AttachNext]_attachVars PROVE [Keeps]_attachVars
    BY <1>1, NoClobber DEF FilesKeptAsTheyAre
  <1> QED
    BY <1>1, PTL DEF AttachSpec, NothingOverwritten

--------------------------------------------------------------------------------
(***************************************************************************)
(* Draft files.  The invariant follows the three writers.  A migration runs *)
(* alone: no operation is under way, at most one draft is to be moved, and  *)
(* the copy is settled before the original goes.  A save writes where a     *)
(* reader sees nothing, or over the draft it may replace, and until the old *)
(* draft goes every other draft can do without the new file.  The recovery  *)
(* writer has the last unsaved text in hand or in the file.                 *)
(***************************************************************************)
Actions == Texts \cup {Empty, NoAction}
SavedDrafts == [path : Stores, text : Texts]
DraftMoves == [from : Legacy, path : Named \cup {NoPath}, text : Texts]
WriteStages == {"idle", "rename", "sync", "legacy", "legacyOnly", "ok", "failed"}
LoadStages == {"plan", "next", "rename", "sync", "unlink", "scan", "reply"}
OpStages == {"idle", "flush", "place", "rename", "sync", "index", "old", "rollback", "remove",
             "ok", "err", "cleanup"}
OpKinds == {"none", "save", "finalize", "deleteActive", "deleteKept", "deleteNamed"}

FilesFit ==
  /\ mode \in Modes /\ mode \in {"local", "maildir"}
  /\ disk \in [Paths -> DraftTexts] /\ after \in [Paths -> SUBSET DraftTexts]
  /\ \A p \in Paths : disk[p] \in after[p] /\ (Torn \in after[p] => p \in Mail)
UiFits ==
  ui \in [text : Texts \cup {Empty}, active : SavedDrafts \cup {NoDraft}, list : SUBSET SavedDrafts,
          ioGen : Nat, ioActive : Nat, ioMigrating : BOOLEAN]
OpFits ==
  op \in [kind : OpKinds, stage : OpStages, text : Texts \cup {Empty}, path : Stores \cup {NoPath},
          prev : SavedDrafts \cup {NoDraft}]
AutoFits ==
  auto \in [pending : Actions, urgent : Actions,
            write : [act : Actions, boundary : BOOLEAN, stage : WriteStages], kept : BOOLEAN]
LoadsFit ==
  loads \subseteq [gen : Nat, migrate : BOOLEAN, stage : LoadStages, plan : SUBSET DraftMoves,
                   move : DraftMoves \cup {NoDraft}, found : SUBSET SavedDrafts, ok : BOOLEAN]
RestFits ==
  /\ rec \in [phase : {"reading", "read", "idle"}, text : DraftTexts, superseded : BOOLEAN]
  /\ count \in [typed : Nat, saves : Nat, faults : Nat, crashes : Nat]
  /\ owed \subseteq SUBSET Texts
DraftTypes == FilesFit /\ UiFits /\ OpFits /\ AutoFits /\ LoadsFit /\ RestFits

(* The migration.  Resolved(m): where the text of the move is, or shall be. *)
Local == Named \cup Legacy
SettledFile(p) == after[p] = {disk[p]}
Resolved(m) == IF m.path = NoPath THEN Twin(m.from) ELSE m.path
ToMove(m) ==
  /\ m \in DraftMoves /\ disk[m.from] = m.text
  /\ IF m.path = NoPath THEN disk[Twin(m.from)] = m.text ELSE disk[m.path] = Absent
MoveFollows(l) ==
  /\ l.stage \in {"plan", "rename"} \/ (l.stage = "next" /\ l.plan # {}) => \A p \in Local : SettledFile(p)
  /\ l.stage = "next" => \A m, n \in l.plan : m = n
  /\ l.stage = "next" => \A m \in l.plan : ToMove(m)
  /\ l.stage \in {"rename", "sync", "unlink"} => l.plan = {} /\ l.move \in DraftMoves
  /\ l.stage = "rename" => ToMove(l.move) /\ l.move.path # NoPath
  /\ l.stage \in {"sync", "unlink"} =>
        /\ disk[l.move.from] = l.move.text /\ disk[Resolved(l.move)] = l.move.text
        /\ \A p \in Local : l.stage = "unlink" \/ p # l.move.path => SettledFile(p)
  /\ l.stage = "sync" => l.move.path # NoPath
MigrationFollows ==
  /\ ui.ioMigrating => op = NoOp /\ \A k, l \in loads : k = l
  /\ ~ui.ioMigrating => \A l \in loads : l.stage \in {"scan", "reply"}
  /\ after[<<"legacy", 2>>] \subseteq {Malformed, Absent}
  /\ \A l \in loads : MoveFollows(l)

(* The operation. *)
Keeps(p, s) == IF mode = "local" THEN after[p] \subseteq s ELSE disk[p] \in s
KeptWithout(p) == \A s \in owed : \E q \in Stores \ {p} : Keeps(q, s)
OpFollows ==
  /\ op.kind = "save" => op.text \in Texts
  /\ op.kind = "save" /\ op.stage \in {"flush", "place", "rename", "sync", "index", "old"}
       => \A s \in owed : Held(op.prev) \in s => op.text \in s
  /\ op.kind = "save" /\ op.stage = "rename"
       => /\ op.path \in IF mode = "local" THEN Named ELSE Mail
          /\ op.path = op.prev.path \/ after[op.path] = {Absent}
  /\ op.kind = "save" /\ op.stage \in {"sync", "index", "old", "ok"}
       => op.path \in Stores /\ disk[op.path] = op.text
  /\ op.kind = "save" /\ op.stage = "sync" => mode = "local" /\ op.path \in Named
  /\ op.kind = "save" /\ op.stage = "index" => mode = "maildir"
  /\ op.kind = "save" /\ op.stage \in {"old", "ok"} /\ mode = "local" => after[op.path] = {op.text}
  /\ op.kind = "save" /\ op.stage \in {"old", "rollback"}
       => op.path \in Stores /\ op.prev.path \in Stores /\ op.path # op.prev.path
  /\ op.kind = "save" /\ op.path # op.prev.path
     /\ op.stage \in {"rename", "sync", "index", "old", "rollback"} => KeptWithout(op.path)
  /\ op.stage = "remove"
       => op.kind # "save" /\ op.path \in Stores /\ \A s \in owed : disk[op.path] \notin s

(* The recovery writer. *)
Outcome(a) == IF a = ClearRecoveryFile THEN Absent ELSE a
WriterFollows ==
  /\ auto.write.stage = "idle" => auto.write = NoWrite
  /\ auto.write.stage # "idle" => auto.write.act # NoAction
  /\ auto.urgent # NoAction \/ auto.write.boundary <=> op.stage \in {"flush", "cleanup"}
  /\ auto.urgent = NoAction \/ ~auto.write.boundary
  /\ auto.write.stage = "sync" => disk[Recovery] = Outcome(auto.write.act)
  /\ auto.write.stage \in {"legacy", "ok"} => after[Recovery] = {Outcome(auto.write.act)}
InHand ==
  \/ auto.pending = ui.text
  \/ auto.pending = NoAction /\ auto.urgent = ui.text
  \/ /\ auto.pending = NoAction /\ auto.urgent = NoAction
     /\ auto.write.stage # "idle" /\ auto.write.act = ui.text
  \/ /\ auto.pending = NoAction /\ auto.urgent = NoAction /\ auto.write.stage = "idle"
     /\ auto.kept => after[Recovery] = {ui.text}
  \/ /\ auto.pending = NoAction
     /\ op.kind = "deleteActive" /\ op.stage = "cleanup" /\ op.text = ui.text
UnsavedFollows == ui.text \notin {Empty, ui.active.text} => InHand

DraftInv ==
  DraftTypes /\ MigrationFollows /\ OpFollows /\ SavedDraftSurvives /\ WriterFollows /\ UnsavedFollows

(* What dead processes did not sync.  A recovery file that counts, and the   *)
(* file of a save that has been synced, have nothing of it left.             *)
EarlierFits ==
  /\ earlier \in [Paths -> SUBSET DraftTexts]
  /\ \A p \in Paths : Torn \in earlier[p] => p \in Mail
  /\ earlier[<<"legacy", 2>>] \subseteq {Malformed, Absent}
RecoverySynced ==
  /\ auto.write.stage \in {"legacy", "ok"} => earlier[Recovery] = {}
  /\ auto.pending = NoAction /\ auto.urgent = NoAction /\ auto.write.stage = "idle" /\ auto.kept
       => ui.text = Empty \/ earlier[Recovery] = {}
SaveSynced ==
  op.kind = "save" =>
    /\ op.stage \notin {"flush", "cleanup"} => earlier[Recovery] = {}
    /\ op.stage \in {"old", "ok", "cleanup"} /\ mode = "local"
         => op.path \in Stores /\ earlier[op.path] = {}
EarlierInv == EarlierFits /\ RecoverySynced /\ SaveSynced

LEMMA ContentsDiffer ==
  /\ Texts \subseteq Nat /\ Texts \subseteq DraftTexts /\ {Absent, Torn, Malformed} \subseteq DraftTexts
  /\ Empty \notin Texts /\ Absent \notin Texts /\ Torn \notin Texts /\ Malformed \notin Texts
  /\ NoAction \notin Texts /\ NoAction # Empty
  /\ Absent # Empty /\ Absent # Torn /\ Absent # Malformed /\ Torn # Malformed
  /\ Torn # Empty /\ Malformed # Empty
  BY DraftFilesAssumption DEF Texts, DraftTexts, Empty, Absent, Torn, Malformed, NoAction

LEMMA PathsDiffer ==
  /\ Stores \subseteq Paths /\ Named \subseteq Stores /\ Legacy \subseteq Stores /\ Mail \subseteq Stores
  /\ Recovery \in Paths /\ OldRecovery \in Paths
  /\ Recovery \notin Stores /\ OldRecovery \notin Stores /\ Recovery # OldRecovery
  /\ NoPath \notin Paths /\ NoPath \notin Stores
  /\ \A p \in Named : p \notin Legacy /\ p \notin Mail
  /\ \A p \in Legacy : p \notin Mail /\ Twin(p) \in Named
  /\ \A p \in Paths : Directory(p) = "drafts" <=> p \in Named
  /\ \A p \in Paths : Directory(p) = "recovery" <=> p = Recovery
  /\ <<"legacy", 2>> \in Legacy
  <1>1. \A p \in Named : p = <<"drafts", p[2]>> /\ p[1] = "drafts" /\ p[2] \in FileNames
    BY DEF Named
  <1>2. \A p \in Legacy : p = <<"legacy", p[2]>> /\ p[1] = "legacy" /\ p[2] \in {1, 2}
    BY DEF Legacy
  <1>3. \A p \in Mail : p = <<"mail", p[2]>> /\ p[1] = "mail" /\ p[2] \in FileNames
    BY DEF Mail
  <1>4. Recovery[1] = "recovery" /\ OldRecovery[1] = "oldRecovery" /\ NoPath[1] = "none"
    BY DEF Recovery, OldRecovery, NoPath
  <1>5. \A n \in {1, 2} : n \in FileNames
    BY DraftFilesAssumption DEF FileNames
  <1>6. \A p \in Legacy : Twin(p) \in Named
    BY <1>2, <1>5 DEF Twin, Named
  <1>7. \A p \in Paths : p \in Named \/ p \in Legacy \/ p \in Mail \/ p = Recovery \/ p = OldRecovery
    BY DEF Paths, Stores
  <1>8. \A p \in Paths : Directory(p) = "drafts" <=> p \in Named
    BY <1>1, <1>2, <1>3, <1>4, <1>7 DEF Directory
  <1>9. \A p \in Paths : Directory(p) = "recovery" <=> p = Recovery
    BY <1>1, <1>2, <1>3, <1>4, <1>7 DEF Directory
  <1>10. Recovery \notin Stores /\ OldRecovery \notin Stores /\ NoPath \notin Stores /\ NoPath \notin Paths
         /\ Recovery # OldRecovery
    BY <1>1, <1>2, <1>3, <1>4, <1>7 DEF Stores
  <1>11. \A p \in Named : p \notin Legacy /\ p \notin Mail
    BY <1>1, <1>2, <1>3
  <1>12. \A p \in Legacy : p \notin Mail
    BY <1>2, <1>3
  <1>13. <<"legacy", 2>> \in Legacy
    BY DEF Legacy
  <1> QED
    BY <1>6, <1>8, <1>9, <1>10, <1>11, <1>12, <1>13 DEF Stores, Paths

(* The file helpers: what each leaves behind at its path and elsewhere. *)
LEMMA RenameFits ==
  ASSUME FilesFit, mode' = mode, NEW p \in Paths, NEW t \in Texts, Renamed(p, t)
  PROVE  /\ FilesFit' /\ disk'[p] = t /\ after'[p] = after[p] \cup {t}
         /\ \A q \in Paths \ {p} : disk'[q] = disk[q] /\ after'[q] = after[q]
  BY ContentsDiffer DEF FilesFit, Renamed

LEMMA MaildirRenameFits ==
  ASSUME FilesFit, mode' = mode, NEW p \in Mail, NEW t \in Texts, RenamedIntoMaildir(p, t)
  PROVE  /\ FilesFit' /\ disk'[p] = t
         /\ \A q \in Paths \ {p} : disk'[q] = disk[q] /\ after'[q] = after[q]
  BY ContentsDiffer, PathsDiffer DEF FilesFit, RenamedIntoMaildir

LEMMA RemoveFits ==
  ASSUME FilesFit, mode' = mode, NEW p \in Paths, RemoveFile(p)
  PROVE  /\ FilesFit' /\ disk'[p] = Absent /\ after'[p] = after[p] \cup {Absent}
         /\ \A q \in Paths \ {p} : disk'[q] = disk[q] /\ after'[q] = after[q]
  BY ContentsDiffer DEF FilesFit, RemoveFile

LEMMA SyncFits ==
  ASSUME FilesFit, mode' = mode, NEW d, SyncDirectory(d)
  PROVE  /\ FilesFit' /\ disk' = disk
         /\ \A q \in Paths : after'[q] \subseteq after[q]
         /\ \A q \in Paths : Directory(q) # d => after'[q] = after[q]
         /\ \A q \in Paths : Directory(q) = d /\ q \notin Mail => after'[q] = {disk[q]}
  <1>1. \A q \in Paths : disk[q] \in DraftTexts /\ after[q] \subseteq DraftTexts /\ disk[q] \in after[q]
                        /\ (Torn \in after[q] => q \in Mail)
    BY DEF FilesFit
  <1>2. disk' = disk
        /\ after' = [p \in Paths |-> IF Directory(p) = d THEN {disk[p]} \cup (after[p] \cap {Torn}) ELSE after[p]]
    BY DEF SyncDirectory
  <1>3. \A q \in Paths : /\ after'[q] \subseteq after[q] /\ disk[q] \in after'[q]
                         /\ (Directory(q) # d => after'[q] = after[q])
                         /\ (Directory(q) = d /\ q \notin Mail => after'[q] = {disk[q]})
    BY <1>1, <1>2
  <1>4. after' \in [Paths -> SUBSET DraftTexts]
    BY <1>1, <1>2
  <1>5. \A q \in Paths : disk'[q] \in after'[q] /\ (Torn \in after'[q] => q \in Mail)
    BY <1>1, <1>2, <1>3
  <1> QED
    BY <1>2, <1>3, <1>4, <1>5 DEF FilesFit

LEMMA FilesUnchanged ==
  ASSUME FilesFit, mode' = mode, disk' = disk, after' = after
  PROVE  FilesFit'
  BY DEF FilesFit

(* Who keeps a draft shows one of its texts. *)
LEMMA KeeperShows ==
  ASSUME FilesFit, NEW p \in Paths, NEW s, Keeps(p, s)
  PROVE  disk[p] \in s
  BY DEF Keeps, FilesFit

LEMMA KeeperKept ==
  ASSUME mode' = mode, NEW p, disk'[p] = disk[p], after'[p] \subseteq after[p], NEW s, Keeps(p, s)
  PROVE  Keeps(p, s)'
  BY DEF Keeps

(* What each part of the invariant needs of a step that is not about it. *)
LEMMA OpKept ==
  ASSUME FilesFit, OpFits, OpFollows, SavedDraftSurvives,
         mode' = mode, owed' = owed, op' = op,
         \A q \in Stores : disk'[q] = disk[q] /\ after'[q] = after[q]
  PROVE  OpFollows' /\ SavedDraftSurvives'
  <1>1. \A q \in Stores : \A s : Keeps(q, s)' <=> Keeps(q, s)
    BY DEF Keeps
  <1>2. SavedDraftSurvives'
    BY <1>1 DEF SavedDraftSurvives, Keeps
  <1>3. \A p : KeptWithout(p) => KeptWithout(p)'
    BY <1>1 DEF KeptWithout
  <1>4. Held(op.prev)' = Held(op.prev)
    BY DEF Held, OpFits, SavedDrafts
  <1>5. Named \subseteq Stores /\ Mail \subseteq Stores
    BY PathsDiffer
  <1>6. /\ op.kind = "save" => op.text \in Texts
        /\ op.kind = "save" /\ op.stage \in {"flush", "place", "rename", "sync", "index", "old"}
             => \A s \in owed : Held(op.prev)' \in s => op.text \in s
        /\ op.kind = "save" /\ op.stage = "rename"
             => /\ op.path \in IF mode = "local" THEN Named ELSE Mail
                /\ op.path = op.prev.path \/ after'[op.path] = {Absent}
    BY <1>4, <1>5 DEF OpFollows
  <1>7. /\ op.kind = "save" /\ op.stage \in {"sync", "index", "old", "ok"}
             => op.path \in Stores /\ disk'[op.path] = op.text
        /\ op.kind = "save" /\ op.stage = "sync" => mode = "local" /\ op.path \in Named
        /\ op.kind = "save" /\ op.stage = "index" => mode = "maildir"
        /\ op.kind = "save" /\ op.stage \in {"old", "ok"} /\ mode = "local" => after'[op.path] = {op.text}
        /\ op.kind = "save" /\ op.stage \in {"old", "rollback"}
             => op.path \in Stores /\ op.prev.path \in Stores /\ op.path # op.prev.path
    BY DEF OpFollows
  <1>8. /\ op.kind = "save" /\ op.path # op.prev.path
           /\ op.stage \in {"rename", "sync", "index", "old", "rollback"} => KeptWithout(op.path)'
        /\ op.stage = "remove"
             => op.kind # "save" /\ op.path \in Stores /\ \A s \in owed : disk'[op.path] \notin s
    BY <1>3 DEF OpFollows
  <1> QED
    BY <1>2, <1>6, <1>7, <1>8 DEF OpFollows

LEMMA MigrationKept ==
  ASSUME LoadsFit, MigrationFollows, ui'.ioMigrating = ui.ioMigrating, loads' = loads,
         ui.ioMigrating => op' = NoOp,
         \A q \in Local : disk'[q] = disk[q] /\ after'[q] = after[q]
  PROVE  MigrationFollows'
  <1>1. <<"legacy", 2>> \in Local /\ Named \subseteq Local /\ Legacy \subseteq Local
        /\ \A p \in Legacy : Twin(p) \in Local
    BY PathsDiffer DEF Local
  <1>2. \A p \in Local : SettledFile(p)' <=> SettledFile(p)
    BY DEF SettledFile
  <1>3. \A m \in DraftMoves : /\ m.from \in Local /\ (m.path # NoPath => m.path \in Local)
                              /\ Resolved(m) \in Local /\ Twin(m.from) \in Local
    BY <1>1 DEF DraftMoves, Resolved
  <1>4. \A m : ToMove(m) => ToMove(m)'
    BY <1>3 DEF ToMove
  <1>5. ASSUME NEW l \in loads PROVE MoveFollows(l)'
    <2>1. MoveFollows(l)
      BY DEF MigrationFollows
    <2>2. l.stage \in {"plan", "rename"} \/ (l.stage = "next" /\ l.plan # {}) => \A p \in Local : SettledFile(p)'
      BY <1>2, <2>1 DEF MoveFollows
    <2>3. /\ l.stage = "next" => \A m \in l.plan : ToMove(m)'
          /\ l.stage = "rename" => ToMove(l.move)' /\ l.move.path # NoPath
      BY <1>4, <2>1 DEF MoveFollows
    <2>4. l.stage \in {"sync", "unlink"} =>
            /\ disk'[l.move.from] = l.move.text /\ disk'[Resolved(l.move)] = l.move.text
            /\ \A p \in Local : l.stage = "unlink" \/ p # l.move.path => SettledFile(p)'
      BY <1>2, <1>3, <2>1 DEF MoveFollows
    <2>5. Resolved(l.move)' = Resolved(l.move)
      BY DEF Resolved, Twin
    <2> QED
      BY <2>1, <2>2, <2>3, <2>4 DEF MoveFollows
  <1> QED
    BY <1>1, <1>5 DEF MigrationFollows

LEMMA MigrationOver ==
  ASSUME ~ui'.ioMigrating, \A l \in loads' : l.stage \in {"scan", "reply"},
         after'[<<"legacy", 2>>] \subseteq {Malformed, Absent}
  PROVE  MigrationFollows'
  <1>1. \A l \in loads' : MoveFollows(l)'
    BY DEF MoveFollows
  <1> QED
    BY <1>1 DEF MigrationFollows

LEMMA WriterKept ==
  ASSUME WriterFollows, UnsavedFollows, auto' = auto,
         disk'[Recovery] = disk[Recovery], after'[Recovery] = after[Recovery],
         ui'.text = ui.text, ui'.active = ui.active,
         op' = op \/ (op.stage \notin {"flush", "cleanup"} /\ op'.stage \notin {"flush", "cleanup"})
  PROVE  WriterFollows' /\ UnsavedFollows'
  <1>1. WriterFollows'
    BY DEF WriterFollows
  <1>2. InHand => InHand'
    BY DEF InHand
  <1> QED
    BY <1>1, <1>2 DEF UnsavedFollows

LEMMA OpIdle ==
  ASSUME op'.kind # "save", op'.stage # "remove"
  PROVE  OpFollows'
  BY DEF OpFollows

(* A migrating load is the only one, and no operation runs beside it. *)
LEMMA MigrationAlone ==
  ASSUME MigrationFollows, NEW l \in loads, l.stage \notin {"scan", "reply"}
  PROVE  /\ ui.ioMigrating /\ op = NoOp /\ \A k \in loads : k = l
         /\ MoveFollows(l) /\ after[<<"legacy", 2>>] \subseteq {Malformed, Absent}
         /\ \A new : (loads \ {l}) \cup {new} = {new}
  BY DEF MigrationFollows

(* The parts of the invariant that a step of the migration leaves to show. *)
LEMMA MigrationKeeps ==
  ASSUME DraftInv, NEW l \in loads, l.stage \notin {"scan", "reply"}, NEW new, loads' = {new},
         new \in [gen : Nat, migrate : BOOLEAN, stage : LoadStages, plan : SUBSET DraftMoves,
                   move : DraftMoves \cup {NoDraft}, found : SUBSET SavedDrafts, ok : BOOLEAN],
         ui' = ui, op' = op, auto' = auto, rec' = rec, owed' = owed, mode' = mode,
         count' \in [typed : Nat, saves : Nat, faults : Nat, crashes : Nat],
         FilesFit', disk'[Recovery] = disk[Recovery], after'[Recovery] = after[Recovery],
         after'[<<"legacy", 2>>] \subseteq {Malformed, Absent},
         MoveFollows(new)', SavedDraftSurvives'
  PROVE  DraftInv'
  <1>1. ui.ioMigrating /\ op = NoOp
    BY MigrationAlone DEF DraftInv
  <1>2. OpFollows'
    BY <1>1, OpIdle DEF NoOp
  <1>3. WriterFollows' /\ UnsavedFollows'
    BY WriterKept DEF DraftInv
  <1>4. MigrationFollows'
    <2>1. ui'.ioMigrating /\ op' = NoOp
      BY <1>1
    <2>2. \A k \in loads' : k = new
      OBVIOUS
    <2> QED
      BY <2>1, <2>2 DEF MigrationFollows
  <1>5. UiFits' /\ OpFits' /\ AutoFits'
    BY DEF DraftInv, DraftTypes, UiFits, OpFits, AutoFits
  <1>6. LoadsFit'
    BY DEF LoadsFit
  <1>7. RestFits'
    BY DEF DraftInv, DraftTypes, RestFits
  <1> QED
    BY <1>2, <1>3, <1>4, <1>5, <1>6, <1>7 DEF DraftInv, DraftTypes

LEMMA PlanFits ==
  ASSUME FilesFit, after[<<"legacy", 2>>] \subseteq {Malformed, Absent}, FreshNames # {}
  PROVE  /\ Moves \subseteq DraftMoves /\ \A m \in Moves : ToMove(m)
         /\ \A m, n \in Moves : m = n
  <1>1. ASSUME NEW p \in Movable PROVE p = <<"legacy", 1>> /\ p \in Legacy /\ disk[p] \in Texts
    <2>1. p \in Legacy /\ disk[p] \in Texts
      BY DEF Movable
    <2>2. disk[<<"legacy", 2>>] \in {Malformed, Absent}
      BY PathsDiffer DEF FilesFit
    <2>3. p # <<"legacy", 2>>
      BY <2>1, <2>2, ContentsDiffer
    <2> QED
      BY <2>1, <2>3 DEF Legacy
  <1>2. FreshName \in FreshNames
    BY DEF FreshName
  <1>3. FreshName \in Named /\ disk[FreshName] = Absent
    <2>1. FreshName \in Named /\ after[FreshName] = {Absent}
      BY <1>2 DEF FreshNames
    <2> QED
      BY <2>1, PathsDiffer DEF FilesFit
  <1>4. ASSUME NEW p \in Movable
        PROVE  ToMove([from |-> p, path |-> Destination(p), text |-> disk[p]])
    <2>1. Twin(p) \in Named /\ NoPath \notin Named
      BY <1>1, PathsDiffer
    <2>2. PICK dest : dest = Destination(p)
      OBVIOUS
    <2>3. \/ dest = NoPath /\ disk[Twin(p)] = disk[p]
          \/ dest \in Named /\ dest # NoPath /\ disk[dest] = Absent
      BY <1>3, <2>1, <2>2 DEF Destination
    <2>4. PICK m : m = [from |-> p, path |-> dest, text |-> disk[p]]
      OBVIOUS
    <2>5. m \in DraftMoves /\ m.from = p /\ m.path = dest /\ m.text = disk[p]
      BY <1>1, <2>3, <2>4 DEF DraftMoves
    <2>6. ToMove(m)
      BY <2>3, <2>5 DEF ToMove
    <2> QED
      BY <2>2, <2>4, <2>6
  <1>5. \A m \in Moves : ToMove(m)
    BY <1>4 DEF Moves
  <1>6. \A m \in Moves : m \in DraftMoves
    BY <1>5 DEF ToMove
  <1>7. \A m, n \in Moves : m = n
    BY <1>1 DEF Moves
  <1> QED
    BY <1>5, <1>6, <1>7

LEMMA PlanKeeps ==
  ASSUME DraftInv, NEW l \in loads, MigrationPlans(l) \/ MigrationPicks(l) \/ MigrationFails(l)
  PROVE  DraftInv'
  <1>1. l.stage \notin {"scan", "reply"}
        /\ l \in [gen : Nat, migrate : BOOLEAN, stage : LoadStages, plan : SUBSET DraftMoves,
                   move : DraftMoves \cup {NoDraft}, found : SUBSET SavedDrafts, ok : BOOLEAN]
    BY DEF MigrationPlans, MigrationPicks, MigrationFails, DraftInv, DraftTypes, LoadsFit
  <1>2. /\ ui.ioMigrating /\ op = NoOp /\ MoveFollows(l)
        /\ after[<<"legacy", 2>>] \subseteq {Malformed, Absent}
        /\ \A new : (loads \ {l}) \cup {new} = {new}
    BY <1>1, MigrationAlone DEF DraftInv
  <1>3. /\ ui' = ui /\ op' = op /\ auto' = auto /\ rec' = rec /\ owed' = owed /\ mode' = mode
        /\ disk' = disk /\ after' = after
    BY DEF MigrationPlans, MigrationPicks, MigrationFails
  <1>4. count' \in [typed : Nat, saves : Nat, faults : Nat, crashes : Nat]
    <2>1. count \in [typed : Nat, saves : Nat, faults : Nat, crashes : Nat]
      BY DEF DraftInv, DraftTypes, RestFits
    <2>2. count' = count \/ count' = [count EXCEPT !.faults = @ + 1]
      BY DEF MigrationPlans, MigrationPicks, MigrationFails
    <2> QED
      BY <2>1, <2>2
  <1>5. FilesFit' /\ SavedDraftSurvives'
    BY <1>3, FilesUnchanged DEF DraftInv, DraftTypes, SavedDraftSurvives
  <1>6. \A m : ToMove(m) => ToMove(m)'
    BY <1>3 DEF ToMove, Twin
  <1>7. ASSUME NEW new, loads' = {new}, MoveFollows(new)',
               new \in [gen : Nat, migrate : BOOLEAN, stage : LoadStages, plan : SUBSET DraftMoves,
                   move : DraftMoves \cup {NoDraft}, found : SUBSET SavedDrafts, ok : BOOLEAN]
        PROVE  DraftInv'
    BY <1>1, <1>2, <1>3, <1>4, <1>5, <1>7, MigrationKeeps
  <1>8. ASSUME NEW new, loads' = {new}, new = [l EXCEPT !.ok = FALSE, !.stage = "reply"]
        PROVE  DraftInv'
    <2>1. new \in [gen : Nat, migrate : BOOLEAN, stage : LoadStages, plan : SUBSET DraftMoves,
                   move : DraftMoves \cup {NoDraft}, found : SUBSET SavedDrafts, ok : BOOLEAN]
          /\ new.stage = "reply"
      BY <1>1, <1>8 DEF LoadStages
    <2>2. MoveFollows(new)'
      BY <2>1 DEF MoveFollows
    <2> QED
      BY <1>7, <1>8, <2>1, <2>2
  <1>9. CASE MigrationPlans(l)
    <2>1. l.stage = "plan" /\ FreshNames # {}
      BY <1>9 DEF MigrationPlans
    <2>2. /\ Moves \subseteq DraftMoves /\ \A m \in Moves : ToMove(m)
          /\ \A m, n \in Moves : m = n
      BY <1>2, <2>1, PlanFits DEF DraftInv, DraftTypes
    <2>7. PICK new : new = [l EXCEPT !.plan = Moves, !.stage = "next"]
      OBVIOUS
    <2>3. loads' = {new} \/ loads' = {[l EXCEPT !.ok = FALSE, !.stage = "reply"]}
      BY <1>2, <1>9, <2>7 DEF MigrationPlans, Updated
    <2>4. new \in [gen : Nat, migrate : BOOLEAN, stage : LoadStages, plan : SUBSET DraftMoves,
                   move : DraftMoves \cup {NoDraft}, found : SUBSET SavedDrafts, ok : BOOLEAN]
          /\ new.stage = "next" /\ new.plan = Moves
      BY <1>1, <2>2, <2>7 DEF LoadStages
    <2>5. \A p \in Local : SettledFile(p)'
      BY <1>2, <1>3, <2>1 DEF MoveFollows, SettledFile
    <2>6. MoveFollows(new)'
      BY <1>6, <2>2, <2>4, <2>5 DEF MoveFollows
    <2> QED
      BY <1>7, <1>8, <2>3, <2>4, <2>6
  <1>10. CASE MigrationPicks(l)
    <2>1. l.stage = "next"
      BY <1>10 DEF MigrationPicks
    <2>2. CASE l.plan = {}
      <3> DEFINE new == [l EXCEPT !.stage = "scan"]
      <3>1. loads' = {new}
        BY <1>2, <1>10, <2>2 DEF MigrationPicks, Updated
      <3>2. new \in [gen : Nat, migrate : BOOLEAN, stage : LoadStages, plan : SUBSET DraftMoves,
                   move : DraftMoves \cup {NoDraft}, found : SUBSET SavedDrafts, ok : BOOLEAN]
            /\ new.stage = "scan"
        BY <1>1 DEF LoadStages
      <3> HIDE DEF new
      <3>3. MoveFollows(new)'
        BY <3>2 DEF MoveFollows
      <3> QED
        BY <1>7, <3>1, <3>2, <3>3
    <2>3. CASE l.plan # {}
      <3>1. PICK m \in l.plan :
              Updated(l, [l EXCEPT !.plan = @ \ {m}, !.move = m,
                                   !.stage = IF m.path = NoPath THEN "unlink" ELSE "rename"])
        BY <1>10, <2>3 DEF MigrationPicks
      <3> DEFINE st == IF m.path = NoPath THEN "unlink" ELSE "rename"
                 new == [l EXCEPT !.plan = @ \ {m}, !.move = m, !.stage = st]
      <3>2. loads' = {new}
        BY <1>2, <3>1 DEF Updated
      <3>3. m \in DraftMoves /\ ToMove(m) /\ l.plan \ {m} = {} /\ \A p \in Local : SettledFile(p)
        BY <1>1, <1>2, <2>1, <2>3 DEF MoveFollows
      <3>4. st \in {"unlink", "rename"} /\ (st = "rename" => m.path # NoPath) /\ (st = "unlink" => m.path = NoPath)
        OBVIOUS
      <3> HIDE DEF st
      <3>5. new \in [gen : Nat, migrate : BOOLEAN, stage : LoadStages, plan : SUBSET DraftMoves,
                   move : DraftMoves \cup {NoDraft}, found : SUBSET SavedDrafts, ok : BOOLEAN]
        BY <1>1, <3>3, <3>4 DEF LoadStages
      <3>6. new.stage = st /\ new.plan = {} /\ new.move = m
        BY <1>1, <3>3
      <3> HIDE DEF new
      <3>7. \A p \in Local : SettledFile(p)'
        BY <1>3, <3>3 DEF SettledFile
      <3>8. m.path = NoPath => disk'[m.from] = m.text /\ disk'[Resolved(m)] = m.text
        BY <1>3, <3>3 DEF ToMove, Resolved
      <3>9. MoveFollows(new)'
        BY <1>6, <3>3, <3>4, <3>6, <3>7, <3>8 DEF MoveFollows
      <3> QED
        BY <1>7, <3>2, <3>5, <3>9
    <2> QED
      BY <2>2, <2>3
  <1>11. CASE MigrationFails(l)
    BY <1>2, <1>8, <1>11 DEF MigrationFails, Updated
  <1> QED
    BY <1>9, <1>10, <1>11

(* The copy is where no draft was, and settled before the original goes. *)
LEMMA MoveKeeps ==
  ASSUME DraftInv, NEW l \in loads, MigrationMoves(l)
  PROVE  DraftInv'
  <1>1. l.stage \notin {"scan", "reply"}
        /\ l \in [gen : Nat, migrate : BOOLEAN, stage : LoadStages, plan : SUBSET DraftMoves,
                   move : DraftMoves \cup {NoDraft}, found : SUBSET SavedDrafts, ok : BOOLEAN]
    BY DEF MigrationMoves, MoveSteps, DraftInv, DraftTypes, LoadsFit
  <1>2. /\ ui.ioMigrating /\ op = NoOp /\ MoveFollows(l)
        /\ after[<<"legacy", 2>>] \subseteq {Malformed, Absent}
        /\ \A new : (loads \ {l}) \cup {new} = {new}
    BY <1>1, MigrationAlone DEF DraftInv
  <1>3. ui' = ui /\ op' = op /\ auto' = auto /\ rec' = rec /\ owed' = owed /\ mode' = mode /\ count' = count
    BY DEF MigrationMoves
  <1>4. count' \in [typed : Nat, saves : Nat, faults : Nat, crashes : Nat] /\ FilesFit
        /\ owed \subseteq SUBSET Texts /\ SavedDraftSurvives
    BY <1>3 DEF DraftInv, DraftTypes, RestFits
  <1>5. PICK m : m = l.move
    OBVIOUS
  <1>6. l.plan = {} /\ m \in DraftMoves /\ m.from \in Legacy /\ m.text \in Texts
    BY <1>2, <1>5 DEF MigrationMoves, MoveSteps, MoveFollows, DraftMoves
  <1>7. m.from \in Paths /\ Twin(m.from) \in Named /\ Local \subseteq Paths /\ Named \subseteq Local
        /\ m.from \in Local /\ Local \subseteq Stores /\ m.from \notin Named
    BY <1>6, PathsDiffer DEF Local
  <1>8. Resolved(m) \in Named /\ (m.path # NoPath => m.path \in Named /\ Resolved(m) = m.path)
    BY <1>6, <1>7 DEF Resolved, DraftMoves
  <1>9. Recovery \in Paths /\ Recovery \notin Stores /\ Stores \subseteq Paths
        /\ <<"legacy", 2>> \in Legacy /\ <<"legacy", 2>> \in Paths /\ <<"legacy", 2>> \notin Named
    BY PathsDiffer
  <1>10. CASE l.stage = "rename"
    <2>1. Renamed(m.path, m.text) /\ Updated(l, [l EXCEPT !.stage = "sync"])
      BY <1>5, <1>10 DEF MigrationMoves, MoveSteps
    <2>2. m.path \in Named /\ m.path \in Paths /\ disk[m.path] = Absent /\ disk[m.from] = m.text
          /\ Resolved(m) = m.path /\ m.path # m.from /\ m.path # NoPath
          /\ \A p \in Local : SettledFile(p)
      BY <1>2, <1>5, <1>7, <1>8, <1>10 DEF MoveFollows, ToMove
    <2>3. /\ FilesFit' /\ disk'[m.path] = m.text
          /\ \A q \in Paths \ {m.path} : disk'[q] = disk[q] /\ after'[q] = after[q]
      BY <1>3, <1>4, <1>6, <2>1, <2>2, RenameFits
    <2>4. SavedDraftSurvives'
      <3>1. \A s \in owed : \E q \in Stores : Keeps(q, s)
        BY <1>4 DEF SavedDraftSurvives, Keeps
      <3>2. ASSUME NEW s \in owed PROVE \E q \in Stores : Keeps(q, s)'
        <4>1. PICK q \in Stores : Keeps(q, s)
          BY <3>1
        <4>2. disk[q] \in s /\ s \subseteq Texts
          BY <1>4, <1>9, <4>1, KeeperShows
        <4>3. q # m.path
          BY <2>2, <4>2, ContentsDiffer
        <4>4. Keeps(q, s)'
          BY <1>3, <1>9, <2>3, <4>1, <4>3 DEF Keeps
        <4> QED
          BY <4>4
      <3> QED
        BY <1>3, <3>2 DEF SavedDraftSurvives, Keeps
    <2>5. PICK new : new = [l EXCEPT !.stage = "sync"]
      OBVIOUS
    <2>6. loads' = {new}
      BY <1>2, <2>1, <2>5 DEF Updated
    <2>7. new \in [gen : Nat, migrate : BOOLEAN, stage : LoadStages, plan : SUBSET DraftMoves,
                   move : DraftMoves \cup {NoDraft}, found : SUBSET SavedDrafts, ok : BOOLEAN]
          /\ new.stage = "sync" /\ new.plan = {} /\ new.move = m
      BY <1>1, <1>5, <1>6, <2>5 DEF LoadStages
    <2>8. \A p \in Local : p # m.path => SettledFile(p)'
      BY <1>7, <2>2, <2>3 DEF SettledFile
    <2>9. disk'[m.from] = m.text /\ disk'[Resolved(m)] = m.text /\ Resolved(m)' = Resolved(m)
      BY <1>7, <2>2, <2>3 DEF Resolved, Twin
    <2>10. MoveFollows(new)'
      BY <1>6, <2>2, <2>7, <2>8, <2>9 DEF MoveFollows
    <2>11. disk'[Recovery] = disk[Recovery] /\ after'[Recovery] = after[Recovery]
           /\ after'[<<"legacy", 2>>] \subseteq {Malformed, Absent}
      BY <1>2, <1>7, <1>9, <2>2, <2>3
    <2> QED
      BY <1>1, <1>3, <1>4, <2>3, <2>4, <2>6, <2>7, <2>10, <2>11, MigrationKeeps
  <1>11. CASE l.stage = "sync"
    <2>1. SyncDirectory("drafts") /\ Updated(l, [l EXCEPT !.stage = "unlink"])
      BY <1>11 DEF MigrationMoves, MoveSteps
    <2>2. /\ FilesFit' /\ disk' = disk
          /\ \A q \in Paths : after'[q] \subseteq after[q]
          /\ \A q \in Paths : Directory(q) # "drafts" => after'[q] = after[q]
          /\ \A q \in Paths : Directory(q) = "drafts" /\ q \notin Mail => after'[q] = {disk[q]}
      BY <1>3, <1>4, <2>1, SyncFits
    <2>3. disk[m.from] = m.text /\ disk[Resolved(m)] = m.text
          /\ \A p \in Local : p # m.path => SettledFile(p)
      BY <1>2, <1>5, <1>11 DEF MoveFollows
    <2>4. m.path \in Named
      BY <1>2, <1>5, <1>8, <1>11 DEF MoveFollows
    <2>5. SavedDraftSurvives'
      <3>1. ASSUME NEW s \in owed PROVE \E q \in Stores : Keeps(q, s)'
        <4>1. PICK q \in Stores : Keeps(q, s)
          BY <1>4 DEF SavedDraftSurvives, Keeps
        <4>2. Keeps(q, s)'
          BY <1>3, <1>9, <2>2, <4>1, KeeperKept
        <4> QED
          BY <4>2
      <3> QED
        BY <1>3, <3>1 DEF SavedDraftSurvives, Keeps
    <2>6. PICK new : new = [l EXCEPT !.stage = "unlink"]
      OBVIOUS
    <2>7. loads' = {new}
      BY <1>2, <2>1, <2>6 DEF Updated
    <2>8. new \in [gen : Nat, migrate : BOOLEAN, stage : LoadStages, plan : SUBSET DraftMoves,
                   move : DraftMoves \cup {NoDraft}, found : SUBSET SavedDrafts, ok : BOOLEAN]
          /\ new.stage = "unlink" /\ new.plan = {} /\ new.move = m
      BY <1>1, <1>5, <1>6, <2>6 DEF LoadStages
    <2>9. \A p \in Local : SettledFile(p)'
      <3> TAKE p \in Local
      <3>1. CASE p \in Named
        BY <1>7, <2>2, <3>1, PathsDiffer DEF SettledFile
      <3>2. CASE p \notin Named
        <4>1. after'[p] = after[p] /\ SettledFile(p)
          BY <1>7, <2>2, <2>3, <2>4, <3>2, PathsDiffer
        <4> QED
          BY <2>2, <4>1 DEF SettledFile
      <3> QED
        BY <3>1, <3>2
    <2>10. disk'[m.from] = m.text /\ disk'[Resolved(m)] = m.text /\ Resolved(m)' = Resolved(m)
      BY <2>2, <2>3 DEF Resolved, Twin
    <2>11. MoveFollows(new)'
      BY <1>6, <2>8, <2>9, <2>10 DEF MoveFollows
    <2>12. disk'[Recovery] = disk[Recovery] /\ after'[Recovery] = after[Recovery]
           /\ after'[<<"legacy", 2>>] \subseteq {Malformed, Absent}
      BY <1>2, <1>9, <2>2, PathsDiffer
    <2> QED
      BY <1>1, <1>3, <1>4, <2>2, <2>5, <2>7, <2>8, <2>11, <2>12, MigrationKeeps
  <1>12. CASE l.stage = "unlink"
    <2>1. RemoveFile(m.from) /\ Updated(l, [l EXCEPT !.stage = "next", !.move = NoDraft])
      BY <1>5, <1>12 DEF MigrationMoves, MoveSteps
    <2>2. /\ FilesFit' /\ after'[m.from] = after[m.from] \cup {Absent}
          /\ \A q \in Paths \ {m.from} : disk'[q] = disk[q] /\ after'[q] = after[q]
      BY <1>3, <1>4, <1>7, <2>1, RemoveFits
    <2>3. disk[m.from] = m.text /\ disk[Resolved(m)] = m.text
          /\ \A p \in Local : SettledFile(p)
      BY <1>2, <1>5, <1>12 DEF MoveFollows
    <2>4. PICK c : c = Resolved(m)
      OBVIOUS
    <2>5. c \in Stores /\ c \in Paths /\ c # m.from /\ disk[c] = m.text /\ after[c] = {m.text}
      BY <1>7, <1>8, <2>3, <2>4, PathsDiffer DEF SettledFile
    <2>6. SavedDraftSurvives'
      <3>1. ASSUME NEW s \in owed PROVE \E q \in Stores : Keeps(q, s)'
        <4>1. PICK q \in Stores : Keeps(q, s)
          BY <1>4 DEF SavedDraftSurvives, Keeps
        <4>2. CASE q = m.from
          <5>1. m.text \in s
            BY <1>4, <1>7, <2>3, <4>1, <4>2, KeeperShows
          <5>2. disk'[c] = m.text /\ after'[c] = {m.text}
            BY <2>2, <2>5
          <5>3. Keeps(c, s)'
            BY <5>1, <5>2 DEF Keeps
          <5> QED
            BY <2>5, <5>3
        <4>3. CASE q # m.from
          <5>1. Keeps(q, s)'
            BY <1>3, <1>9, <2>2, <4>1, <4>3 DEF Keeps
          <5> QED
            BY <5>1
        <4> QED
          BY <4>2, <4>3
      <3> QED
        BY <1>3, <3>1 DEF SavedDraftSurvives, Keeps
    <2>7. PICK new : new = [l EXCEPT !.stage = "next", !.move = NoDraft]
      OBVIOUS
    <2>8. loads' = {new}
      BY <1>2, <2>1, <2>7 DEF Updated
    <2>9. new \in [gen : Nat, migrate : BOOLEAN, stage : LoadStages, plan : SUBSET DraftMoves,
                   move : DraftMoves \cup {NoDraft}, found : SUBSET SavedDrafts, ok : BOOLEAN]
          /\ new.stage = "next" /\ new.plan = {}
      BY <1>1, <1>6, <2>7 DEF LoadStages
    <2>10. MoveFollows(new)'
      BY <2>9 DEF MoveFollows
    <2>11. disk'[Recovery] = disk[Recovery] /\ after'[Recovery] = after[Recovery]
           /\ after'[<<"legacy", 2>>] \subseteq {Malformed, Absent}
      <3>1. Recovery # m.from
        BY <1>7, <1>9
      <3> QED
        BY <1>2, <1>9, <2>2, <3>1
    <2> QED
      BY <1>1, <1>3, <1>4, <2>2, <2>6, <2>8, <2>9, <2>10, <2>11, MigrationKeeps
  <1> QED
    BY <1>10, <1>11, <1>12 DEF MigrationMoves, MoveSteps

(* Scans read, and their answers replace the list at most. *)
LEMMA ScanFits ==
  ASSUME FilesFit
  PROVE  Scanned \subseteq SavedDrafts
  BY PathsDiffer DEF Scanned, JsonEntries, SavedDrafts

LEMMA ScanKeeps ==
  ASSUME DraftInv, NEW l \in loads, LoadScans(l) \/ LoadArrives(l)
  PROVE  DraftInv'
  <1>1. l \in [gen : Nat, migrate : BOOLEAN, stage : LoadStages, plan : SUBSET DraftMoves,
                   move : DraftMoves \cup {NoDraft}, found : SUBSET SavedDrafts, ok : BOOLEAN]
        /\ FilesFit /\ OpFits /\ UiFits /\ RestFits /\ AutoFits /\ LoadsFit
    BY DEF DraftInv, DraftTypes, LoadsFit
  <1>2. /\ op' = op /\ auto' = auto /\ rec' = rec /\ owed' = owed /\ mode' = mode
        /\ disk' = disk /\ after' = after /\ count' = count
    BY DEF LoadScans, LoadArrives
  <1>3. FilesFit' /\ OpFits' /\ RestFits' /\ AutoFits'
    BY <1>1, <1>2, FilesUnchanged DEF OpFits, RestFits, AutoFits
  <1>4. OpFollows' /\ SavedDraftSurvives'
    BY <1>1, <1>2, OpKept DEF DraftInv
  <1>5. after[<<"legacy", 2>>] \subseteq {Malformed, Absent}
    BY DEF DraftInv, MigrationFollows
  <1>6. ASSUME ui'.text = ui.text, ui'.active = ui.active, UiFits', LoadsFit', MigrationFollows'
        PROVE  DraftInv'
    <2>1. WriterFollows' /\ UnsavedFollows'
      BY <1>2, <1>6, WriterKept DEF DraftInv
    <2> QED
      BY <1>3, <1>4, <1>6, <2>1 DEF DraftInv, DraftTypes
  <1>7. CASE LoadScans(l)
    <2>1. PICK new : /\ loads' = (loads \ {l}) \cup {new}
                     /\ \/ new = [l EXCEPT !.found = Scanned, !.stage = "reply"]
                        \/ new = [l EXCEPT !.ok = FALSE, !.stage = "reply"]
      BY <1>7 DEF LoadScans, Updated
    <2>2. new.stage = "reply"
          /\ new \in [gen : Nat, migrate : BOOLEAN, stage : LoadStages, plan : SUBSET DraftMoves,
                   move : DraftMoves \cup {NoDraft}, found : SUBSET SavedDrafts, ok : BOOLEAN]
      BY <1>1, <2>1, ScanFits DEF LoadStages
    <2>3. ui' = ui
      BY <1>7 DEF LoadScans
    <2>4. UiFits' /\ LoadsFit'
      BY <1>1, <2>1, <2>2, <2>3 DEF UiFits, LoadsFit
    <2>5. MigrationFollows'
      <3>1. CASE ui.ioMigrating
        <4>1. op' = NoOp /\ \A k \in loads' : k = new
          BY <1>2, <2>1, <3>1 DEF DraftInv, MigrationFollows
        <4>2. MoveFollows(new)'
          BY <2>2 DEF MoveFollows
        <4>3. \A k \in loads' : MoveFollows(k)'
          BY <4>1, <4>2
        <4> QED
          BY <1>2, <1>5, <2>3, <3>1, <4>1, <4>3 DEF MigrationFollows
      <3>2. CASE ~ui.ioMigrating
        <4>1. \A k \in loads' : k.stage \in {"scan", "reply"}
          BY <2>1, <2>2, <3>2 DEF DraftInv, MigrationFollows
        <4> QED
          BY <1>2, <1>5, <2>3, <3>2, <4>1, MigrationOver
      <3> QED
        BY <3>1, <3>2
    <2> QED
      BY <1>6, <2>3, <2>4, <2>5
  <1>8. CASE LoadArrives(l)
    <2>1. loads' = loads \ {l} /\ l.stage = "reply"
      BY <1>8 DEF LoadArrives
    <2>2. ui' = ui \/ ui' = [ui EXCEPT !.ioActive = 0, !.ioMigrating = FALSE,
                             !.list = IF l.ok THEN l.found ELSE @]
      BY <1>8 DEF LoadArrives
    <2>3. UiFits' /\ ui'.text = ui.text /\ ui'.active = ui.active /\ (ui' = ui \/ ~ui'.ioMigrating)
      <3>1. CASE ui' = ui
        BY <1>1, <3>1 DEF UiFits
      <3>2. CASE ui' = [ui EXCEPT !.ioActive = 0, !.ioMigrating = FALSE, !.list = IF l.ok THEN l.found ELSE @]
        <4>1. PICK li \in SUBSET SavedDrafts : li = IF l.ok THEN l.found ELSE ui.list
          BY <1>1 DEF UiFits
        <4>2. ui' = [ui EXCEPT !.ioActive = 0, !.ioMigrating = FALSE, !.list = li]
          BY <3>2, <4>1
        <4> QED
          BY <1>1, <4>2 DEF UiFits
      <3> QED
        BY <2>2, <3>1, <3>2
    <2>4. LoadsFit'
      BY <1>1, <2>1 DEF LoadsFit
    <2>5. MigrationFollows'
      <3>1. CASE ui.ioMigrating
        <4>1. loads' = {} /\ op' = NoOp
          BY <1>2, <2>1, <3>1 DEF DraftInv, MigrationFollows
        <4> QED
          BY <1>2, <1>5, <4>1 DEF MigrationFollows
      <3>2. CASE ~ui.ioMigrating
        <4>1. \A k \in loads' : k.stage \in {"scan", "reply"}
          BY <2>1, <3>2 DEF DraftInv, MigrationFollows
        <4>2. ~ui'.ioMigrating
          BY <2>3, <3>2
        <4> QED
          BY <1>2, <1>5, <4>1, <4>2, MigrationOver
      <3> QED
        BY <3>1, <3>2
    <2> QED
      BY <1>6, <2>3, <2>4, <2>5
  <1> QED
    BY <1>7, <1>8

(* A new load, when no migration runs. *)
LEMMA BeginFits ==
  ASSUME LoadsFit, NEW u, ~u.ioMigrating,
         u \in [text : Texts \cup {Empty}, active : SavedDrafts \cup {NoDraft}, list : SUBSET SavedDrafts,
                ioGen : Nat, ioActive : Nat, ioMigrating : BOOLEAN],
         \A l \in loads : l.stage \in {"scan", "reply"},
         ui' = Begin(u, loads).u, loads' = Begin(u, loads).l
  PROVE  /\ UiFits' /\ LoadsFit' /\ ~ui'.ioMigrating /\ \A l \in loads' : l.stage \in {"scan", "reply"}
         /\ ui'.text = u.text /\ ui'.active = u.active
  <1>1. PICK new : new = [gen |-> u.ioGen + 1, migrate |-> FALSE, stage |-> "scan",
                          plan |-> {}, move |-> NoDraft, found |-> {}, ok |-> TRUE]
    OBVIOUS
  <1>2. ui' = [u EXCEPT !.ioGen = @ + 1, !.ioActive = u.ioGen + 1] /\ loads' = loads \cup {new}
    BY <1>1 DEF Begin
  <1>3. new.stage = "scan"
        /\ new \in [gen : Nat, migrate : BOOLEAN, stage : LoadStages, plan : SUBSET DraftMoves,
                   move : DraftMoves \cup {NoDraft}, found : SUBSET SavedDrafts, ok : BOOLEAN]
    BY <1>1 DEF LoadStages
  <1>4. u.ioGen + 1 \in Nat
    OBVIOUS
  <1>5. ui' \in [text : Texts \cup {Empty}, active : SavedDrafts \cup {NoDraft}, list : SUBSET SavedDrafts,
                ioGen : Nat, ioActive : Nat, ioMigrating : BOOLEAN]
        /\ ui'.text = u.text /\ ui'.active = u.active /\ ui'.ioMigrating = u.ioMigrating
    BY <1>2, <1>4
  <1> QED
    BY <1>2, <1>3, <1>5 DEF UiFits, LoadsFit

(* The recovery writer starts, writes and fails. *)
LEMMA WriterKeeps ==
  ASSUME DraftInv, AutosaveStarts \/ AutosaveSteps \/ AutosaveFails
  PROVE  DraftInv'
  <1>1. FilesFit /\ OpFits /\ UiFits /\ RestFits /\ AutoFits /\ LoadsFit /\ WriterFollows /\ UnsavedFollows
        /\ OpFollows /\ SavedDraftSurvives /\ MigrationFollows
    BY DEF DraftInv, DraftTypes
  <1>2. op' = op /\ rec' = rec /\ owed' = owed /\ mode' = mode /\ ui' = ui /\ loads' = loads
    BY DEF AutosaveStarts, AutosaveSteps, AutosaveFails
  <1>3. count' \in [typed : Nat, saves : Nat, faults : Nat, crashes : Nat]
    <2>1. count \in [typed : Nat, saves : Nat, faults : Nat, crashes : Nat]
      BY <1>1 DEF RestFits
    <2>2. count' = count \/ count' = [count EXCEPT !.faults = @ + 1]
      BY DEF AutosaveStarts, AutosaveSteps, AutosaveFails
    <2> QED
      BY <2>1, <2>2
  <1>4. OpFits' /\ UiFits' /\ RestFits' /\ LoadsFit'
    BY <1>1, <1>2, <1>3 DEF OpFits, UiFits, RestFits, LoadsFit
  <1>5. ASSUME AutoFits', FilesFit', \A q \in Stores : disk'[q] = disk[q] /\ after'[q] = after[q],
               WriterFollows', UnsavedFollows'
        PROVE  DraftInv'
    <2>1. OpFollows' /\ SavedDraftSurvives'
      BY <1>1, <1>2, <1>5, OpKept
    <2>2. MigrationFollows'
      <3>1. Local \subseteq Stores
        BY PathsDiffer DEF Local
      <3>2. ui.ioMigrating => op' = NoOp
        BY <1>1, <1>2 DEF MigrationFollows
      <3> QED
        BY <1>1, <1>2, <1>5, <3>1, <3>2, MigrationKept
    <2> QED
      BY <1>4, <1>5, <2>1, <2>2 DEF DraftInv, DraftTypes
  <1>6. /\ auto.pending \in Actions /\ auto.urgent \in Actions /\ auto.kept \in BOOLEAN
        /\ auto.write \in [act : Actions, boundary : BOOLEAN, stage : WriteStages]
    BY <1>1 DEF AutoFits
  <1>7. CASE AutosaveStarts
    <2>1. disk' = disk /\ after' = after
      BY <1>7 DEF AutosaveStarts
    <2>2. auto.write = NoWrite /\ auto.write.stage = "idle" /\ ~auto.write.boundary
      BY <1>7 DEF AutosaveStarts, NoWrite
    <2>3. CASE auto.urgent # NoAction
      <3>1. auto' = [auto EXCEPT !.urgent = NoAction,
                        !.write = [act |-> auto.urgent, boundary |-> TRUE, stage |-> "rename"]]
        BY <1>7, <2>3 DEF AutosaveStarts
      <3>2. PICK w : w = [act |-> auto.urgent, boundary |-> TRUE, stage |-> "rename"]
        OBVIOUS
      <3>3. w \in [act : Actions, boundary : BOOLEAN, stage : WriteStages] /\ w.act = auto.urgent
            /\ w.boundary /\ w.stage = "rename"
        BY <1>6, <3>2 DEF WriteStages
      <3>4. NoAction \in Actions
        BY DEF Actions
      <3>5. AutoFits' /\ auto'.pending = auto.pending /\ auto'.urgent = NoAction /\ auto'.write = w
            /\ auto'.kept = auto.kept
        BY <1>1, <3>1, <3>2, <3>3, <3>4 DEF AutoFits
      <3>6. WriterFollows'
        BY <1>1, <1>2, <2>3, <3>3, <3>5 DEF WriterFollows
      <3>7. InHand => InHand'
        BY <1>2, <2>2, <2>3, <3>3, <3>5 DEF InHand
      <3>8. UnsavedFollows'
        BY <1>1, <1>2, <3>7 DEF UnsavedFollows
      <3> QED
        BY <1>1, <1>2, <1>5, <2>1, <3>5, <3>6, <3>8, FilesUnchanged
    <2>4. CASE auto.urgent = NoAction
      <3>1. auto' = [auto EXCEPT !.pending = NoAction,
                        !.write = [act |-> auto.pending, boundary |-> FALSE, stage |-> "rename"]]
            /\ auto.pending # NoAction
        BY <1>7, <2>4 DEF AutosaveStarts
      <3>2. PICK w : w = [act |-> auto.pending, boundary |-> FALSE, stage |-> "rename"]
        OBVIOUS
      <3>3. w \in [act : Actions, boundary : BOOLEAN, stage : WriteStages] /\ w.act = auto.pending
            /\ ~w.boundary /\ w.stage = "rename"
        BY <1>6, <3>2 DEF WriteStages
      <3>4. NoAction \in Actions
        BY DEF Actions
      <3>5. AutoFits' /\ auto'.pending = NoAction /\ auto'.urgent = auto.urgent /\ auto'.write = w
            /\ auto'.kept = auto.kept
        BY <1>1, <3>1, <3>2, <3>3, <3>4 DEF AutoFits
      <3>6. WriterFollows'
        BY <1>1, <1>2, <2>2, <2>4, <3>1, <3>3, <3>5 DEF WriterFollows
      <3>7. InHand => InHand'
        BY <1>2, <2>2, <2>4, <3>1, <3>3, <3>5 DEF InHand
      <3>8. UnsavedFollows'
        BY <1>1, <1>2, <3>7 DEF UnsavedFollows
      <3> QED
        BY <1>1, <1>2, <1>5, <2>1, <3>5, <3>6, <3>8, FilesUnchanged
    <2> QED
      BY <2>3, <2>4
  <1>8. ASSUME NEW st \in WriteStages \ {"idle"}, Staged(st), auto.write.stage # "idle",
               FilesFit', \A q \in Stores : disk'[q] = disk[q] /\ after'[q] = after[q],
               st = "sync" => disk'[Recovery] = Outcome(auto.write.act),
               st \in {"legacy", "ok"} => after'[Recovery] = {Outcome(auto.write.act)}
        PROVE  DraftInv'
    <2>1. /\ auto'.pending = auto.pending /\ auto'.urgent = auto.urgent /\ auto'.kept = auto.kept
          /\ auto'.write.act = auto.write.act /\ auto'.write.boundary = auto.write.boundary
          /\ auto'.write.stage = st
      BY <1>1, <1>8 DEF Staged, AutoFits
    <2>2. AutoFits'
      <3>1. [auto.write EXCEPT !.stage = st] \in [act : Actions, boundary : BOOLEAN, stage : WriteStages]
        BY <1>6, <1>8
      <3>2. auto' = [auto EXCEPT !.write = [auto.write EXCEPT !.stage = st]]
        BY <1>1, <1>8 DEF Staged, AutoFits
      <3> QED
        BY <1>1, <3>1, <3>2 DEF AutoFits
    <2>3. WriterFollows'
      BY <1>1, <1>2, <1>8, <2>1 DEF WriterFollows, Outcome
    <2>4. InHand => InHand'
      BY <1>2, <1>8, <2>1 DEF InHand
    <2>5. UnsavedFollows'
      BY <1>1, <1>2, <2>4 DEF UnsavedFollows
    <2> QED
      BY <1>5, <1>8, <2>2, <2>3, <2>5
  <1>9. CASE AutosaveFails
    <2>1. disk' = disk /\ after' = after /\ auto.write.stage # "idle"
          /\ (Staged("failed") \/ Staged("legacyOnly"))
      BY <1>9 DEF AutosaveFails
    <2>2. FilesFit'
      BY <1>1, <1>2, <2>1, FilesUnchanged
    <2>3. \E st \in WriteStages \ {"idle"} : Staged(st) /\ st \in {"failed", "legacyOnly"}
      BY <2>1 DEF WriteStages
    <2> QED
      BY <1>8, <2>1, <2>2, <2>3
  <1>10. Recovery \in Paths /\ OldRecovery \in Paths /\ Stores \subseteq Paths /\ Recovery # OldRecovery
         /\ Recovery \notin Stores /\ OldRecovery \notin Stores
    BY PathsDiffer
  <1>11. CASE AutosaveSteps /\ auto.write.stage = "rename"
    <2>1. PICK a : a = auto.write.act
      OBVIOUS
    <2>2. a \in Actions /\ a # NoAction
      BY <1>1, <1>6, <1>11, <2>1 DEF WriterFollows
    <2>3. /\ FilesFit' /\ disk'[Recovery] = Outcome(a)
          /\ \A q \in Paths \ {Recovery} : disk'[q] = disk[q] /\ after'[q] = after[q]
      <3>1. CASE a = ClearRecoveryFile
        <4>1. RemoveFile(Recovery)
          BY <1>11, <2>1, <3>1 DEF AutosaveSteps
        <4> QED
          BY <1>1, <1>2, <1>10, <3>1, <4>1, RemoveFits DEF Outcome
      <3>2. CASE a # ClearRecoveryFile
        <4>1. Renamed(Recovery, a) /\ a \in Texts
          BY <1>11, <2>1, <2>2, <3>2 DEF AutosaveSteps, Actions, ClearRecoveryFile
        <4> QED
          BY <1>1, <1>2, <1>10, <3>2, <4>1, RenameFits DEF Outcome
      <3> QED
        BY <3>1, <3>2
    <2>4. \E st \in WriteStages \ {"idle"} : Staged(st) /\ st = "sync"
      BY <1>11 DEF WriteStages, AutosaveSteps
    <2> QED
      BY <1>8, <1>10, <1>11, <2>1, <2>3, <2>4
  <1>12. CASE AutosaveSteps /\ auto.write.stage = "sync"
    <2>1. SyncDirectory("recovery")
      BY <1>12 DEF AutosaveSteps
    <2>2. /\ FilesFit' /\ disk' = disk
          /\ \A q \in Paths : Directory(q) # "recovery" => after'[q] = after[q]
          /\ \A q \in Paths : Directory(q) = "recovery" /\ q \notin Mail => after'[q] = {disk[q]}
      BY <1>1, <1>2, <2>1, SyncFits
    <2>3. after'[Recovery] = {disk[Recovery]} /\ \A q \in Stores : after'[q] = after[q]
      BY <1>10, <2>2, PathsDiffer
    <2>4. disk[Recovery] = Outcome(auto.write.act)
      BY <1>1, <1>12 DEF WriterFollows
    <2>5. \E st \in WriteStages \ {"idle"} : Staged(st) /\ st = "legacy"
      BY <1>12 DEF WriteStages, AutosaveSteps
    <2> QED
      BY <1>8, <1>12, <2>2, <2>3, <2>4, <2>5
  <1>13. CASE AutosaveSteps /\ auto.write.stage = "legacy"
    <2>1. RemoveFile(OldRecovery)
      BY <1>13 DEF AutosaveSteps
    <2>2. /\ FilesFit'
          /\ \A q \in Paths \ {OldRecovery} : disk'[q] = disk[q] /\ after'[q] = after[q]
      BY <1>1, <1>2, <1>10, <2>1, RemoveFits
    <2>3. after'[Recovery] = {Outcome(auto.write.act)}
      BY <1>1, <1>10, <1>13, <2>2 DEF WriterFollows
    <2>4. \E st \in WriteStages \ {"idle"} : Staged(st) /\ st = "ok"
      BY <1>13 DEF WriteStages, AutosaveSteps
    <2> QED
      BY <1>8, <1>10, <1>13, <2>2, <2>3, <2>4
  <1>14. CASE AutosaveSteps /\ auto.write.stage = "legacyOnly"
    <2>1. RemoveFile(OldRecovery)
      BY <1>14 DEF AutosaveSteps
    <2>2. /\ FilesFit'
          /\ \A q \in Paths \ {OldRecovery} : disk'[q] = disk[q] /\ after'[q] = after[q]
      BY <1>1, <1>2, <1>10, <2>1, RemoveFits
    <2>3. \E st \in WriteStages \ {"idle"} : Staged(st) /\ st = "failed"
      BY <1>14 DEF WriteStages, AutosaveSteps
    <2> QED
      BY <1>8, <1>10, <1>14, <2>2, <2>3
  <1> QED
    BY <1>7, <1>9, <1>11, <1>12, <1>13, <1>14 DEF AutosaveSteps

(* An operation runs beside no migration. *)
LEMMA OpAlone ==
  ASSUME MigrationFollows, op # NoOp \/ ~ui.ioMigrating
  PROVE  /\ ~ui.ioMigrating /\ \A l \in loads : l.stage \in {"scan", "reply"}
         /\ after[<<"legacy", 2>>] \subseteq {Malformed, Absent}
  BY DEF MigrationFollows

(* The answer of the recovery writer. *)
LEMMA AnswerArrives ==
  ASSUME DraftInv, AutosaveArrives
  PROVE  DraftInv'
  <1>1. FilesFit /\ OpFits /\ UiFits /\ RestFits /\ AutoFits /\ LoadsFit /\ WriterFollows /\ UnsavedFollows
        /\ OpFollows /\ SavedDraftSurvives /\ MigrationFollows
    BY DEF DraftInv, DraftTypes
  <1>2. rec' = rec /\ owed' = owed /\ mode' = mode /\ disk' = disk /\ after' = after /\ count' = count
    BY DEF AutosaveArrives
  <1>3. FilesFit' /\ RestFits'
    BY <1>1, <1>2, FilesUnchanged DEF RestFits
  <1>4. auto.write.stage \in {"ok", "failed"}
        /\ auto' = [auto EXCEPT !.write = NoWrite, !.kept = auto.write.stage = "ok"]
    BY DEF AutosaveArrives
  <1>5. AutoFits' /\ auto'.pending = auto.pending /\ auto'.urgent = auto.urgent /\ auto'.write = NoWrite
        /\ auto'.kept = (auto.write.stage = "ok")
    <2>1. NoWrite \in [act : Actions, boundary : BOOLEAN, stage : WriteStages]
      BY DEF NoWrite, Actions, WriteStages
    <2>2. PICK k \in BOOLEAN : k = (auto.write.stage = "ok")
      OBVIOUS
    <2>3. auto' = [auto EXCEPT !.write = NoWrite, !.kept = k]
      BY <1>4, <2>2
    <2>4. auto' \in [pending : Actions, urgent : Actions,
            write : [act : Actions, boundary : BOOLEAN, stage : WriteStages], kept : BOOLEAN]
      BY <1>1, <2>1, <2>3 DEF AutoFits
    <2>5. auto'.pending = auto.pending /\ auto'.urgent = auto.urgent /\ auto'.write = NoWrite /\ auto'.kept = k
      BY <1>1, <2>3 DEF AutoFits
    <2> QED
      BY <2>2, <2>4, <2>5 DEF AutoFits
  <1>6. NoWrite.stage = "idle" /\ NoWrite.boundary = FALSE
    BY DEF NoWrite
  <1>7. auto.write.stage = "ok" => after[Recovery] = {Outcome(auto.write.act)}
    BY <1>1 DEF WriterFollows
  (* What is left of the text in hand when its write is answered. *)
  <1>8. ASSUME ui.text \in Texts, InHand, ui'.text = ui.text, op' = op \/ auto.urgent = NoAction,
               ~(op.kind = "deleteActive" /\ op.stage = "cleanup" /\ op.text = ui.text)
                 \/ op' = op \/ auto.write.stage # "ok"
        PROVE  InHand'
    <2>1. ui.text # NoAction /\ ui.text # ClearRecoveryFile
      BY <1>8, ContentsDiffer DEF ClearRecoveryFile
    <2>2. Outcome(ui.text) = ui.text
      BY <2>1 DEF Outcome
    <2>3. CASE auto.pending = ui.text
      BY <1>5, <1>8, <2>3 DEF InHand
    <2>4. CASE auto.pending = NoAction /\ auto.urgent = ui.text
      BY <1>5, <1>8, <2>4 DEF InHand
    <2>5. CASE /\ auto.pending = NoAction /\ auto.urgent = NoAction
               /\ auto.write.stage # "idle" /\ auto.write.act = ui.text
      BY <1>2, <1>5, <1>6, <1>7, <1>8, <2>2, <2>5 DEF InHand
    <2>6. CASE /\ auto.pending = NoAction
               /\ op.kind = "deleteActive" /\ op.stage = "cleanup" /\ op.text = ui.text
      <3>1. CASE op' = op
        BY <1>5, <1>8, <2>6, <3>1 DEF InHand
      <3>2. CASE op' # op
        BY <1>5, <1>6, <1>8, <2>6, <3>2 DEF InHand
      <3> QED
        BY <3>1, <3>2
    <2> QED
      BY <1>4, <1>8, <2>3, <2>4, <2>5, <2>6 DEF InHand
  <1>9. ui.text \in Texts \cup {Empty}
    BY <1>1 DEF UiFits
  <1>10. CASE ~auto.write.boundary
    <2>1. ui' = ui /\ loads' = loads /\ op' = op
      BY <1>10 DEF AutosaveArrives
    <2>2. UiFits' /\ OpFits' /\ LoadsFit'
      BY <1>1, <2>1 DEF UiFits, OpFits, LoadsFit
    <2>3. OpFollows' /\ SavedDraftSurvives'
      BY <1>1, <1>2, <2>1, OpKept
    <2>4. MigrationFollows'
      BY <1>1, <1>2, <2>1, MigrationKept DEF MigrationFollows
    <2>5. WriterFollows'
      BY <1>1, <1>2, <1>5, <1>6, <1>10, <2>1 DEF WriterFollows
    <2>6. UnsavedFollows'
      BY <1>1, <1>8, <1>9, <2>1 DEF UnsavedFollows
    <2> QED
      BY <1>3, <1>5, <2>2, <2>3, <2>4, <2>5, <2>6 DEF DraftInv, DraftTypes
  <1>11. CASE auto.write.boundary
    <2>1. FlushAnswers /\ op.stage \in {"flush", "cleanup"} /\ auto.urgent = NoAction
      BY <1>1, <1>11 DEF AutosaveArrives, WriterFollows
    <2>2. op # NoOp
      BY <2>1 DEF NoOp
    <2>3. ~ui.ioMigrating /\ (\A l \in loads : l.stage \in {"scan", "reply"})
          /\ after[<<"legacy", 2>>] \subseteq {Malformed, Absent}
      BY <1>1, <2>2, OpAlone
    <2>4. NoOp \in [kind : OpKinds, stage : OpStages, text : Texts \cup {Empty}, path : Stores \cup {NoPath},
                    prev : SavedDrafts \cup {NoDraft}]
          /\ NoOp.kind = "none" /\ NoOp.stage = "idle"
      BY DEF NoOp, OpKinds, OpStages
    <2>5. ASSUME OpFits', UiFits', LoadsFit', ~ui'.ioMigrating,
                 \A l \in loads' : l.stage \in {"scan", "reply"},
                 op'.stage \notin {"flush", "cleanup"}, OpFollows', UnsavedFollows'
          PROVE  DraftInv'
      <3>1. MigrationFollows'
        BY <1>2, <2>3, <2>5, MigrationOver
      <3>2. WriterFollows'
        BY <1>5, <1>6, <2>1, <2>5 DEF WriterFollows
      <3>3. SavedDraftSurvives'
        BY <1>1, <1>2 DEF SavedDraftSurvives
      <3> QED
        BY <1>3, <1>5, <2>5, <3>1, <3>2, <3>3 DEF DraftInv, DraftTypes
    <2>6. CASE op.stage = "flush"
      <3>1. ui' = ui /\ loads' = loads /\ (op' = [op EXCEPT !.stage = "place"] \/ op' = NoOp)
        BY <2>1, <2>6 DEF FlushAnswers
      <3>2. UiFits' /\ LoadsFit'
        BY <1>1, <3>1 DEF UiFits, LoadsFit
      <3>3. OpFits' /\ op'.stage \notin {"flush", "cleanup"} /\ op'.stage # "remove"
            /\ (op'.kind = "save" => op'.stage = "place" /\ op.kind = "save"
                                       /\ op'.text = op.text /\ op'.prev = op.prev)
        <4>1. CASE op' = NoOp
          BY <2>4, <4>1 DEF OpFits
        <4>2. CASE op' = [op EXCEPT !.stage = "place"]
          BY <1>1, <4>2 DEF OpFits, OpStages
        <4> QED
          BY <3>1, <4>1, <4>2
      <3>4. OpFollows'
        <4>1. CASE op'.kind # "save"
          BY <3>3, <4>1, OpIdle
        <4>2. CASE op'.kind = "save"
          <5>1. \A s \in owed : Held(op.prev) \in s => op.text \in s
            BY <1>1, <2>6, <3>3, <4>2 DEF OpFollows
          <5>2. op.text \in Texts
            BY <1>1, <3>3, <4>2 DEF OpFollows
          <5>3. \A s \in owed : Held(op.prev)' \in s => op'.text \in s
            BY <1>2, <3>3, <4>2, <5>1 DEF Held
          <5> QED
            BY <1>2, <3>3, <4>2, <5>2, <5>3 DEF OpFollows
        <4> QED
          BY <4>1, <4>2
      <3>5. UnsavedFollows'
        BY <1>1, <1>8, <1>9, <2>1, <2>6, <3>1 DEF UnsavedFollows
      <3> QED
        BY <2>3, <2>5, <3>1, <3>2, <3>3, <3>4, <3>5
    <2>7. CASE op.stage = "cleanup"
      <3>1. op' = NoOp
        BY <2>1, <2>7 DEF FlushAnswers
      <3>2. OpFits' /\ op'.stage \notin {"flush", "cleanup"} /\ OpFollows'
        BY <2>4, <3>1, OpIdle DEF OpFits
      <3>3. CASE op.kind \in {"save", "finalize"}
        <4>1. ui' = Begin(ui, loads).u /\ loads' = Begin(ui, loads).l
          BY <2>1, <2>7, <3>3 DEF FlushAnswers
        <4>2. ui \in [text : Texts \cup {Empty}, active : SavedDrafts \cup {NoDraft}, list : SUBSET SavedDrafts,
                ioGen : Nat, ioActive : Nat, ioMigrating : BOOLEAN]
          BY <1>1 DEF UiFits
        <4>3. /\ UiFits' /\ LoadsFit' /\ ~ui'.ioMigrating /\ \A l \in loads' : l.stage \in {"scan", "reply"}
              /\ ui'.text = ui.text /\ ui'.active = ui.active
          BY <1>1, <2>3, <4>1, <4>2, BeginFits
        <4>4. UnsavedFollows'
          BY <1>1, <1>8, <1>9, <2>1, <3>3, <4>3 DEF UnsavedFollows
        <4> QED
          BY <2>5, <3>2, <4>3, <4>4
      <3>4. CASE op.kind \in {"deleteActive", "deleteKept"}
        <4>1. loads' = loads
              /\ ui' = IF auto.write.stage = "ok" /\ op.kind = "deleteActive" /\ ui.text = op.text
                       THEN [ui EXCEPT !.text = Empty] ELSE ui
          BY <2>1, <2>7, <3>4 DEF FlushAnswers
        <4>2. UiFits' /\ LoadsFit' /\ ui'.ioMigrating = ui.ioMigrating /\ ui'.active = ui.active
          BY <1>1, <4>1 DEF UiFits, LoadsFit
        <4>3. UnsavedFollows'
          <5>1. CASE auto.write.stage = "ok" /\ op.kind = "deleteActive" /\ ui.text = op.text
            <6>1. ui'.text = Empty
              BY <1>1, <4>1, <5>1 DEF UiFits
            <6> QED
              BY <6>1 DEF UnsavedFollows
          <5>2. CASE ~(auto.write.stage = "ok" /\ op.kind = "deleteActive" /\ ui.text = op.text)
            <6>1. ui' = ui
              BY <4>1, <5>2
            <6> QED
              BY <1>1, <1>8, <1>9, <2>1, <5>2, <6>1 DEF UnsavedFollows
          <5> QED
            BY <5>1, <5>2
        <4> QED
          BY <2>3, <2>5, <3>2, <4>1, <4>2, <4>3
      <3> QED
        BY <2>1, <2>7, <3>3, <3>4 DEF FlushAnswers
    <2> QED
      BY <2>1, <2>6, <2>7
  <1> QED
    BY <1>10, <1>11

(* An operation begins: what it replaces or deletes may go. *)
LEMMA BeginKeeps ==
  ASSUME DraftInv, SaveBegins
  PROVE  DraftInv'
  <1>1. FilesFit /\ OpFits /\ UiFits /\ RestFits /\ AutoFits /\ LoadsFit /\ WriterFollows /\ UnsavedFollows
        /\ OpFollows /\ SavedDraftSurvives /\ MigrationFollows
    BY DEF DraftInv, DraftTypes
  <1>2. rec' = rec /\ mode' = mode /\ disk' = disk /\ after' = after /\ ui' = ui /\ loads' = loads
        /\ op = NoOp /\ ~ui.ioMigrating /\ ui.text # Empty
    BY DEF SaveBegins, PersistenceAllowed
  <1>3. FilesFit' /\ UiFits' /\ LoadsFit'
    BY <1>1, <1>2, FilesUnchanged DEF UiFits, LoadsFit
  <1>4. MigrationFollows'
    BY <1>1, <1>2, MigrationOver DEF MigrationFollows
  <1>5. ui.text \in Texts /\ ui.active \in SavedDrafts \cup {NoDraft} /\ owed \subseteq SUBSET Texts
        /\ count \in [typed : Nat, saves : Nat, faults : Nat, crashes : Nat]
    BY <1>1, <1>2 DEF UiFits, RestFits
  <1>6. count' \in [typed : Nat, saves : Nat, faults : Nat, crashes : Nat]
    <2>1. count' = [count EXCEPT !.saves = @ + 1]
      BY DEF SaveBegins, Began
    <2> QED
      BY <1>5, <2>1
  <1>7. auto.urgent = NoAction /\ ~auto.write.boundary
    BY <1>1, <1>2 DEF WriterFollows, NoOp
  <1>8. ASSUME NEW a \in Texts \cup {Empty}, auto' = FlushText(a)
        PROVE  /\ AutoFits' /\ auto'.pending = NoAction /\ auto'.urgent = a /\ auto'.write = auto.write
               /\ auto'.kept = auto.kept /\ a # NoAction
    <2>1. a \in Actions /\ NoAction \in Actions /\ a # NoAction
      BY <1>8, ContentsDiffer DEF Actions
    <2>2. auto' = [auto EXCEPT !.urgent = a, !.pending = NoAction]
      BY <1>8 DEF FlushText
    <2> QED
      BY <1>1, <2>1, <2>2 DEF AutoFits
  <1>9. ASSUME NEW a \in Texts \cup {Empty}, auto' = FlushText(a), op'.stage \in {"flush", "cleanup"}
        PROVE  WriterFollows'
    <2>1. AutoFits' /\ auto'.pending = NoAction /\ auto'.urgent = a /\ auto'.write = auto.write /\ a # NoAction
      BY <1>8, <1>9
    <2> QED
      BY <1>1, <1>2, <1>7, <1>9, <2>1 DEF WriterFollows
  <1>10. CASE ui.active.text = ui.text
    <2>1. op' = [NoOp EXCEPT !.kind = "finalize", !.stage = "cleanup"] /\ auto' = FlushText(ClearRecoveryFile)
          /\ owed' = owed
      BY <1>10 DEF SaveBegins, Began
    <2>2. OpFits' /\ op'.kind = "finalize" /\ op'.stage = "cleanup"
      BY <2>1 DEF OpFits, NoOp, OpKinds, OpStages
    <2>3. OpFollows'
      BY <2>2, OpIdle
    <2>4. ClearRecoveryFile \in Texts \cup {Empty}
      BY DEF ClearRecoveryFile
    <2>5. AutoFits' /\ WriterFollows'
      BY <1>8, <1>9, <2>1, <2>2, <2>4
    <2>6. UnsavedFollows'
      BY <1>2, <1>10 DEF UnsavedFollows
    <2>7. SavedDraftSurvives' /\ RestFits'
      BY <1>1, <1>2, <1>6, <2>1 DEF SavedDraftSurvives, RestFits
    <2> QED
      BY <1>3, <1>4, <2>2, <2>3, <2>5, <2>6, <2>7 DEF DraftInv, DraftTypes
  <1>11. CASE ui.active.text # ui.text
    <2>1. op' = [kind |-> "save", stage |-> "flush", text |-> ui.text, path |-> NoPath, prev |-> ui.active]
          /\ auto' = FlushText(ui.text) /\ owed' = Replaceable(Held(ui.active), ui.text)
      BY <1>11 DEF SaveBegins, Began
    <2>2. OpFits' /\ op'.kind = "save" /\ op'.stage = "flush" /\ op'.text = ui.text /\ op'.prev = ui.active
      BY <1>5, <2>1 DEF OpFits, OpKinds, OpStages
    <2>3. PICK h : h = Held(ui.active)
      OBVIOUS
    <2>4. owed' = {IF h \in s THEN s \cup {ui.text} ELSE s : s \in owed}
      BY <2>1, <2>3 DEF Replaceable
    <2>5. owed' \subseteq SUBSET Texts /\ \A s \in owed' : h \in s => ui.text \in s
      <3>1. ASSUME NEW s \in owed' PROVE s \subseteq Texts /\ (h \in s => ui.text \in s)
        <4>1. PICK z \in owed : s = IF h \in z THEN z \cup {ui.text} ELSE z
          BY <2>4
        <4> QED
          BY <1>5, <4>1
      <3> QED
        BY <3>1
    <2>6. Held(op.prev)' = h
      BY <1>2, <2>2, <2>3 DEF Held
    <2>7. OpFollows'
      BY <1>5, <2>2, <2>5, <2>6 DEF OpFollows
    <2>8. SavedDraftSurvives'
      <3>1. ASSUME NEW s \in owed' PROVE \E q \in Stores : Keeps(q, s)'
        <4>1. PICK z \in owed : s = IF h \in z THEN z \cup {ui.text} ELSE z
          BY <2>4
        <4>2. z \subseteq s
          BY <4>1
        <4>3. PICK q \in Stores : Keeps(q, z)
          BY <1>1 DEF SavedDraftSurvives, Keeps
        <4>4. Keeps(q, s)'
          BY <1>2, <4>2, <4>3 DEF Keeps
        <4> QED
          BY <4>4
      <3> QED
        BY <3>1 DEF SavedDraftSurvives, Keeps
    <2>9. AutoFits' /\ WriterFollows' /\ auto'.pending = NoAction /\ auto'.urgent = ui.text
      BY <1>5, <1>8, <1>9, <2>1, <2>2
    <2>10. UnsavedFollows'
      BY <1>2, <2>9 DEF UnsavedFollows, InHand
    <2>11. RestFits'
      BY <1>1, <1>2, <1>6, <2>5 DEF RestFits
    <2> QED
      BY <1>3, <1>4, <2>2, <2>7, <2>8, <2>9, <2>10, <2>11 DEF DraftInv, DraftTypes
  <1> QED
    BY <1>10, <1>11

LEMMA DeleteKeeps ==
  ASSUME DraftInv, NEW kind \in {"deleteActive", "deleteNamed"}, NEW d \in SavedDrafts,
         DeleteBegins(kind, d)
  PROVE  DraftInv'
  <1>1. FilesFit /\ OpFits /\ UiFits /\ RestFits /\ AutoFits /\ LoadsFit /\ WriterFollows /\ UnsavedFollows
        /\ OpFollows /\ SavedDraftSurvives /\ MigrationFollows
    BY DEF DraftInv, DraftTypes
  <1>2. rec' = rec /\ mode' = mode /\ disk' = disk /\ after' = after /\ ui' = ui /\ loads' = loads
        /\ auto' = auto /\ op = NoOp /\ ~ui.ioMigrating
    BY DEF DeleteBegins, PersistenceAllowed
  <1>3. FilesFit' /\ UiFits' /\ LoadsFit' /\ AutoFits'
    BY <1>1, <1>2, FilesUnchanged DEF UiFits, LoadsFit, AutoFits
  <1>4. MigrationFollows'
    BY <1>1, <1>2, MigrationOver DEF MigrationFollows
  <1>5. d.path \in Stores /\ d # NoDraft /\ ui.text \in Texts \cup {Empty}
    BY <1>1, PathsDiffer DEF SavedDrafts, NoDraft, UiFits
  <1>6. op' = [kind |-> kind, stage |-> "remove", text |-> ui.text, path |-> d.path, prev |-> d]
        /\ owed' = Discarded(disk[d.path])
    BY <1>5 DEF DeleteBegins, Began, Held
  <1>7. OpFits' /\ op'.kind = kind /\ op'.stage = "remove" /\ op'.path = d.path
    BY <1>5, <1>6 DEF OpFits, OpKinds, OpStages
  <1>8. owed' \subseteq owed /\ \A s \in owed' : disk[d.path] \notin s
    BY <1>6 DEF Discarded
  <1>9. OpFollows'
    BY <1>2, <1>5, <1>7, <1>8 DEF OpFollows
  <1>10. SavedDraftSurvives'
    BY <1>1, <1>2, <1>8 DEF SavedDraftSurvives
  <1>11. RestFits'
    <2>1. count \in [typed : Nat, saves : Nat, faults : Nat, crashes : Nat]
      BY <1>1 DEF RestFits
    <2>2. count' = [count EXCEPT !.saves = @ + 1]
      BY DEF DeleteBegins, Began
    <2> QED
      BY <1>1, <1>2, <1>8, <2>1, <2>2 DEF RestFits
  <1>12. WriterFollows' /\ UnsavedFollows'
    BY <1>1, <1>2, <1>7, WriterKept DEF NoOp
  <1> QED
    BY <1>3, <1>4, <1>7, <1>9, <1>10, <1>11, <1>12 DEF DraftInv, DraftTypes

(* The parts of the invariant that a step of the worker leaves to show. *)
LEMMA WorkKeeps ==
  ASSUME DraftInv, op.stage \notin {"idle", "flush", "cleanup"}, op'.stage \notin {"flush", "cleanup"},
         ui' = ui, auto' = auto, loads' = loads, rec' = rec, owed' = owed, mode' = mode,
         count' \in [typed : Nat, saves : Nat, faults : Nat, crashes : Nat],
         FilesFit', disk'[Recovery] = disk[Recovery], after'[Recovery] = after[Recovery],
         after'[<<"legacy", 2>>] \subseteq after[<<"legacy", 2>>] \cup {Absent},
         OpFits', OpFollows', SavedDraftSurvives'
  PROVE  DraftInv'
  <1>1. op # NoOp
    BY DEF NoOp
  <1>2. MigrationFollows'
    BY <1>1, OpAlone, MigrationOver DEF DraftInv
  <1>3. WriterFollows' /\ UnsavedFollows'
    BY WriterKept DEF DraftInv
  <1>4. UiFits' /\ AutoFits' /\ LoadsFit' /\ RestFits'
    BY DEF DraftInv, DraftTypes, UiFits, AutoFits, LoadsFit, RestFits
  <1> QED
    BY <1>2, <1>3, <1>4 DEF DraftInv, DraftTypes

LEMMA WorkerStage ==
  ASSUME OpFits, NEW st \in OpStages, Worked(st)
  PROVE  OpFits' /\ op'.kind = op.kind /\ op'.stage = st /\ op'.text = op.text /\ op'.path = op.path
         /\ op'.prev = op.prev
  BY DEF OpFits, Worked

LEMMA PlaceKeeps ==
  ASSUME DraftInv, SavePlaces
  PROVE  DraftInv'
  <1>1. FilesFit /\ OpFits /\ RestFits /\ OpFollows /\ SavedDraftSurvives
    BY DEF DraftInv, DraftTypes
  <1>2. /\ ui' = ui /\ auto' = auto /\ loads' = loads /\ rec' = rec /\ owed' = owed /\ mode' = mode
        /\ count' = count /\ disk' = disk /\ after' = after
        /\ op.kind = "save" /\ op.stage = "place" /\ FreshNames # {} /\ FreshMails # {}
    BY DEF SavePlaces, KeepFiles, WorkerKeeps
  <1>3. FilesFit' /\ SavedDraftSurvives'
    BY <1>1, <1>2, FilesUnchanged DEF SavedDraftSurvives
  <1>4. count' \in [typed : Nat, saves : Nat, faults : Nat, crashes : Nat] /\ owed \subseteq SUBSET Texts
    BY <1>1, <1>2 DEF RestFits
  <1>5. ASSUME OpFits', OpFollows', op'.stage \notin {"flush", "cleanup"} PROVE DraftInv'
    BY <1>2, <1>3, <1>4, <1>5, WorkKeeps
  <1>6. op.text \in Texts /\ \A s \in owed : Held(op.prev) \in s => op.text \in s
    BY <1>1, <1>2 DEF OpFollows
  <1>7. ASSUME NEW p, p \in IF mode = "local" THEN Named ELSE Mail,
               p = op.prev.path \/ after[p] = {Absent},
               op' = [op EXCEPT !.path = p, !.stage = "rename"]
        PROVE  DraftInv'
    <2>1. p \in Stores /\ p \in Paths
      BY <1>7, PathsDiffer
    <2>2. OpFits' /\ op'.kind = "save" /\ op'.stage = "rename" /\ op'.text = op.text /\ op'.path = p
          /\ op'.prev = op.prev
      BY <1>1, <1>2, <1>7, <2>1 DEF OpFits, OpStages
    <2>3. Held(op.prev)' = Held(op.prev)
      BY <1>2, <2>2 DEF Held
    <2>4. after[p] = {Absent} => KeptWithout(p)'
      <3> SUFFICES ASSUME after[p] = {Absent} PROVE KeptWithout(p)'
        OBVIOUS
      <3>1. disk[p] = Absent
        BY <1>1, <2>1 DEF FilesFit
      <3>2. ASSUME NEW s \in owed PROVE \E q \in Stores \ {p} : Keeps(q, s)'
        <4>1. PICK q \in Stores : Keeps(q, s)
          BY <1>1 DEF SavedDraftSurvives, Keeps
        <4>2. disk[q] \in s /\ s \subseteq Texts
          BY <1>1, <1>4, <4>1, KeeperShows, PathsDiffer
        <4>3. q # p
          BY <3>1, <4>2, ContentsDiffer
        <4>4. Keeps(q, s)'
          BY <1>2, <4>1 DEF Keeps
        <4> QED
          BY <4>3, <4>4
      <3> QED
        BY <1>2, <3>2 DEF KeptWithout
    <2>5. OpFollows'
      BY <1>2, <1>6, <1>7, <2>2, <2>3, <2>4 DEF OpFollows
    <2> QED
      BY <1>5, <2>2, <2>5
  <1>8. CASE Worked("err")
    <2>1. "err" \in OpStages
      BY DEF OpStages
    <2>2. OpFits' /\ op'.kind = "save" /\ op'.stage = "err" /\ op'.text = op.text
      BY <1>1, <1>2, <1>8, <2>1, WorkerStage
    <2>3. OpFollows'
      BY <1>6, <2>2 DEF OpFollows
    <2> QED
      BY <1>5, <2>2, <2>3
  <1>9. CASE mode = "maildir" /\ ~Worked("err")
    <2>1. op' = [op EXCEPT !.path = FreshMail, !.stage = "rename"]
      BY <1>9 DEF SavePlaces
    <2>2. FreshMail \in FreshMails
      BY <1>2 DEF FreshMail
    <2>3. FreshMail \in Mail /\ after[FreshMail] = {Absent}
      BY <2>2 DEF FreshMails
    <2>4. PICK p : p = FreshMail
      OBVIOUS
    <2> QED
      BY <1>7, <1>9, <2>1, <2>3, <2>4
  <1>10. CASE mode # "maildir" /\ ~Worked("err")
    <2>1. mode = "local"
      BY <1>1, <1>10 DEF FilesFit
    <2>2. CASE ReplacementPath # NoPath
      <3>1. PICK p : p = ReplacementPath
        OBVIOUS
      <3>2. op' = [op EXCEPT !.path = p, !.stage = "rename"]
        BY <1>10, <2>2, <3>1 DEF SavePlaces
      <3>3. p = op.prev.path /\ Directory(p) = "drafts" /\ p # NoPath
        BY <2>2, <3>1 DEF ReplacementPath
      <3>4. p \in Stores
        BY <1>1, <3>3 DEF OpFits, SavedDrafts, NoDraft
      <3>5. p \in Named
        BY <3>3, <3>4, PathsDiffer
      <3> QED
        BY <1>7, <2>1, <3>2, <3>3, <3>5
    <2>3. CASE ReplacementPath = NoPath
      <3>1. PICK p : p = FreshName
        OBVIOUS
      <3>2. op' = [op EXCEPT !.path = p, !.stage = "rename"]
        BY <1>10, <2>3, <3>1 DEF SavePlaces
      <3>3. p \in FreshNames
        BY <1>2, <3>1 DEF FreshName
      <3>4. p \in Named /\ after[p] = {Absent}
        BY <3>3 DEF FreshNames
      <3> QED
        BY <1>7, <2>1, <3>2, <3>4
    <2> QED
      BY <2>2, <2>3
  <1> QED
    BY <1>8, <1>9, <1>10


(* The drafts that can do without a file survive whatever happens to it. *)
LEMMA DoneWithout ==
  ASSUME mode' = mode, owed' = owed, NEW p, KeptWithout(p),
         \A q \in Stores \ {p} : disk'[q] = disk[q] /\ after'[q] \subseteq after[q]
  PROVE  KeptWithout(p)' /\ SavedDraftSurvives'
  <1>1. ASSUME NEW s \in owed PROVE \E q \in Stores \ {p} : Keeps(q, s)'
    <2>1. PICK q \in Stores \ {p} : Keeps(q, s)
      BY DEF KeptWithout
    <2>2. Keeps(q, s)'
      BY <2>1, KeeperKept
    <2> QED
      BY <2>2
  <1> QED
    BY <1>1 DEF KeptWithout, SavedDraftSurvives, Keeps

LEMMA WriteKeeps ==
  ASSUME DraftInv, SaveWrites
  PROVE  DraftInv'
  <1>1. FilesFit /\ OpFits /\ RestFits /\ OpFollows /\ SavedDraftSurvives
    BY DEF DraftInv, DraftTypes
  <1>2. /\ ui' = ui /\ auto' = auto /\ loads' = loads /\ rec' = rec /\ owed' = owed /\ mode' = mode
        /\ count' = count /\ op.kind = "save"
        /\ op.stage \in {"rename", "index", "sync", "old", "rollback"}
    BY DEF SaveWrites, WorkerKeeps
  <1>3. count' \in [typed : Nat, saves : Nat, faults : Nat, crashes : Nat] /\ owed \subseteq SUBSET Texts
    BY <1>1, <1>2 DEF RestFits
  <1>4. Recovery \in Paths /\ Recovery \notin Stores /\ Stores \subseteq Paths /\ <<"legacy", 2>> \in Stores
        /\ Named \subseteq Stores /\ Mail \subseteq Stores
    BY PathsDiffer
  <1>5. PICK text, path, prev : text = op.text /\ path = op.path /\ prev = op.prev
    OBVIOUS
  <1>6. /\ text \in Texts /\ (prev = NoDraft => prev.path = NoPath)
        /\ (prev # NoDraft => prev.path \in Stores)
    BY <1>1, <1>2, <1>5 DEF OpFits, SavedDrafts, NoDraft, OpFollows
  <1>7. /\ op.stage \in {"rename", "sync", "index", "old"} =>
             \A s \in owed : Held(prev) \in s => text \in s
        /\ op.stage = "rename" => /\ path \in IF mode = "local" THEN Named ELSE Mail
                                  /\ path = prev.path \/ after[path] = {Absent}
        /\ op.stage \in {"sync", "index", "old", "ok"} => path \in Stores /\ disk[path] = text
        /\ op.stage = "sync" => mode = "local" /\ path \in Named
        /\ op.stage = "index" => mode = "maildir"
        /\ op.stage \in {"old", "ok"} /\ mode = "local" => after[path] = {text}
        /\ op.stage \in {"old", "rollback"} => path \in Stores /\ prev.path \in Stores /\ path # prev.path
        /\ path # prev.path => KeptWithout(path)
    <2>1. \A s \in owed : op.stage \in {"rename", "sync", "index", "old"} /\ Held(op.prev) \in s => op.text \in s
      BY <1>1, <1>2 DEF OpFollows
    <2> QED
      BY <1>1, <1>2, <1>5, <2>1 DEF OpFollows
  (* The worker goes to the next stage. *)
  <1>8. ASSUME NEW st \in {"index", "sync", "old", "ok", "err"}, Worked(st), FilesFit',
               \A q \in Paths \ Stores : disk'[q] = disk[q] /\ after'[q] = after[q],
               after'[<<"legacy", 2>>] \subseteq after[<<"legacy", 2>>] \cup {Absent},
               SavedDraftSurvives',
               st \in {"sync", "index", "old"} =>
                 /\ \A s \in owed : Held(prev)' \in s => text \in s
                 /\ path # prev.path => KeptWithout(path)',
               st # "err" => path \in Stores /\ disk'[path] = text,
               st = "sync" => mode = "local" /\ path \in Named,
               st = "index" => mode = "maildir",
               st \in {"old", "ok"} /\ mode = "local" => after'[path] = {text},
               st = "old" => prev.path \in Stores /\ path # prev.path
        PROVE  DraftInv'
    <2>1. st \in OpStages
      BY DEF OpStages
    <2>2. OpFits' /\ op'.kind = "save" /\ op'.stage = st /\ op'.text = text /\ op'.path = path
          /\ op'.prev = prev
      BY <1>1, <1>2, <1>5, <1>8, <2>1, WorkerStage
    <2>3. Held(op.prev)' = Held(prev)'
      BY <2>2 DEF Held
    <2>4. KeptWithout(op.path)' <=> KeptWithout(path)'
      BY <2>2 DEF KeptWithout
    <2>5. st \in {"sync", "index", "old"} => \A s \in owed' : Held(op.prev)' \in s => op'.text \in s
      BY <1>2, <1>8, <2>2, <2>3
    <2>6. OpFollows'
      BY <1>2, <1>6, <1>8, <2>2, <2>4, <2>5 DEF OpFollows
    <2> QED
      BY <1>2, <1>3, <1>4, <1>8, <2>2, <2>6, WorkKeeps
  (* What the file of the save may have held is for the save to replace. *)
  <1>9. ASSUME op.stage = "rename", FilesFit', disk'[path] = text,
               \A q \in Paths \ {path} : disk'[q] = disk[q] /\ after'[q] = after[q],
               mode = "local" => after'[path] = after[path] \cup {text}
        PROVE  /\ SavedDraftSurvives' /\ \A s \in owed : Held(prev)' \in s => text \in s
               /\ path # prev.path => KeptWithout(path)'
    <2>1. path \in Stores
      BY <1>4, <1>7, <1>9
    <2>2. CASE path = prev.path
      <3>1. prev # NoDraft
        BY <1>6, <2>1, <2>2, PathsDiffer
      <3>2. Held(prev) = disk[path] /\ Held(prev)' = disk'[path]
        BY <2>2, <3>1 DEF Held
      <3>3. ASSUME NEW s \in owed PROVE \E q \in Stores : Keeps(q, s)'
        <4>1. PICK q \in Stores : Keeps(q, s)
          BY <1>1 DEF SavedDraftSurvives, Keeps
        <4>2. CASE q # path
          BY <1>2, <1>4, <1>9, <4>1, <4>2 DEF Keeps
        <4>3. CASE q = path
          <5>1. disk[q] \in s
            BY <1>1, <1>4, <4>1, KeeperShows
          <5>2. text \in s
            BY <1>7, <1>9, <3>2, <4>3, <5>1
          <5>3. Keeps(q, s)'
            BY <1>2, <1>9, <4>1, <4>3, <5>2 DEF Keeps
          <5> QED
            BY <5>3
        <4> QED
          BY <4>2, <4>3
      <3>4. SavedDraftSurvives'
        BY <1>2, <3>3 DEF SavedDraftSurvives, Keeps
      <3> QED
        BY <1>9, <2>2, <3>2, <3>4
    <2>3. CASE path # prev.path
      <3>1. KeptWithout(path)' /\ SavedDraftSurvives'
        BY <1>2, <1>4, <1>7, <1>9, <2>3, DoneWithout
      <3>2. Held(prev)' = Held(prev)
        BY <1>4, <1>6, <1>9, <2>3 DEF Held
      <3> QED
        BY <1>7, <1>9, <3>1, <3>2
    <2> QED
      BY <2>2, <2>3
  <1>10. CASE op.stage = "rename" /\ mode = "maildir"
    <2>1. RenamedIntoMaildir(path, text) /\ path \in Mail
      BY <1>5, <1>7, <1>10 DEF SaveWrites
    <2>2. /\ FilesFit' /\ disk'[path] = text
          /\ \A q \in Paths \ {path} : disk'[q] = disk[q] /\ after'[q] = after[q]
      BY <1>1, <1>2, <1>6, <2>1, MaildirRenameFits
    <2>3. /\ SavedDraftSurvives' /\ \A s \in owed : Held(prev)' \in s => text \in s
          /\ path # prev.path => KeptWithout(path)'
      BY <1>9, <1>10, <2>2
    <2>4. \E st \in {"index", "sync", "old", "ok", "err"} : Worked(st) /\ st = "index"
      BY <1>10 DEF SaveWrites
    <2>5. <<"legacy", 2>> # path
      BY <2>1, PathsDiffer
    <2> QED
      BY <1>4, <1>8, <1>10, <2>1, <2>2, <2>3, <2>4, <2>5
  <1>11. CASE op.stage = "rename" /\ mode # "maildir"
    <2>1. Renamed(path, text) /\ path \in Named /\ mode = "local"
      BY <1>1, <1>5, <1>7, <1>11 DEF SaveWrites, FilesFit
    <2>2. /\ FilesFit' /\ disk'[path] = text /\ after'[path] = after[path] \cup {text}
          /\ \A q \in Paths \ {path} : disk'[q] = disk[q] /\ after'[q] = after[q]
      BY <1>1, <1>2, <1>4, <1>6, <2>1, RenameFits
    <2>3. /\ SavedDraftSurvives' /\ \A s \in owed : Held(prev)' \in s => text \in s
          /\ path # prev.path => KeptWithout(path)'
      BY <1>9, <1>11, <2>2
    <2>4. \E st \in {"index", "sync", "old", "ok", "err"} : Worked(st) /\ st = "sync"
      BY <1>11, <2>1 DEF SaveWrites
    <2>5. <<"legacy", 2>> # path
      BY <2>1, PathsDiffer
    <2> QED
      BY <1>4, <1>8, <1>11, <2>1, <2>2, <2>3, <2>4, <2>5
  <1>12. CASE op.stage \in {"index", "sync"}
    <2>1. PICK st \in {"old", "ok"} : Worked(st) /\ (st = "old" => prev.path \notin {NoPath, path})
      BY <1>5, <1>12 DEF SaveWrites, AfterWrite
    <2>2. /\ FilesFit' /\ disk' = disk /\ \A q \in Paths : after'[q] \subseteq after[q]
          /\ \A q \in Paths : q \notin Named => after'[q] = after[q]
          /\ mode = "local" => after'[path] = {text}
      <3>1. CASE op.stage = "index"
        <4>1. disk' = disk /\ after' = after /\ mode = "maildir"
          BY <1>7, <3>1 DEF SaveWrites, KeepFiles
        <4> QED
          BY <1>1, <1>2, <4>1, FilesUnchanged
      <3>2. CASE op.stage = "sync"
        <4>1. SyncDirectory("drafts") /\ path \in Named /\ disk[path] = text
          BY <1>7, <3>2 DEF SaveWrites
        <4>2. /\ FilesFit' /\ disk' = disk
              /\ \A q \in Paths : after'[q] \subseteq after[q]
              /\ \A q \in Paths : Directory(q) # "drafts" => after'[q] = after[q]
              /\ \A q \in Paths : Directory(q) = "drafts" /\ q \notin Mail => after'[q] = {disk[q]}
          BY <1>1, <1>2, <4>1, SyncFits
        <4> QED
          BY <1>4, <4>1, <4>2, PathsDiffer
      <3> QED
        BY <1>12, <3>1, <3>2
    <2>3. SavedDraftSurvives'
      <3>1. ASSUME NEW s \in owed PROVE \E q \in Stores : Keeps(q, s)'
        <4>1. PICK q \in Stores : Keeps(q, s)
          BY <1>1 DEF SavedDraftSurvives, Keeps
        <4>2. Keeps(q, s)'
          BY <1>2, <1>4, <2>2, <4>1, KeeperKept
        <4> QED
          BY <4>2
      <3> QED
        BY <1>2, <3>1 DEF SavedDraftSurvives, Keeps
    <2>4. path # prev.path => KeptWithout(path)'
      BY <1>2, <1>4, <1>7, <2>2, DoneWithout
    <2>5. \A s \in owed : Held(prev)' \in s => text \in s
      BY <1>7, <1>12, <2>2 DEF Held
    <2>6. path \in Stores /\ disk'[path] = text
      BY <1>7, <1>12, <2>2
    <2>7. st = "old" => prev.path \in Stores /\ path # prev.path
      BY <1>6, <2>1
    <2>8. after'[<<"legacy", 2>>] \subseteq after[<<"legacy", 2>>] /\ \A q \in Paths \ Stores : after'[q] = after[q]
      BY <1>4, <2>2
    <2> QED
      BY <1>8, <2>1, <2>2, <2>3, <2>4, <2>5, <2>6, <2>7, <2>8
  <1>13. CASE op.stage = "old"
    <2>1. RemoveFile(prev.path) /\ path \in Stores /\ prev.path \in Stores /\ path # prev.path
      BY <1>5, <1>7, <1>13 DEF SaveWrites
    <2>2. PICK old : old = prev.path
      OBVIOUS
    <2>3. /\ FilesFit' /\ disk'[old] = Absent /\ after'[old] = after[old] \cup {Absent}
          /\ \A q \in Paths \ {old} : disk'[q] = disk[q] /\ after'[q] = after[q]
      BY <1>1, <1>2, <1>4, <2>1, <2>2, RemoveFits
    <2>4. prev # NoDraft /\ Held(prev) = disk[old]
      BY <1>6, <2>1, <2>2, PathsDiffer DEF Held
    <2>5. disk'[path] = text /\ (mode = "local" => after'[path] = {text})
      BY <1>4, <1>7, <1>13, <2>1, <2>2, <2>3
    <2>6. SavedDraftSurvives'
      <3>1. ASSUME NEW s \in owed PROVE \E q \in Stores : Keeps(q, s)'
        <4>1. PICK q \in Stores : Keeps(q, s)
          BY <1>1 DEF SavedDraftSurvives, Keeps
        <4>2. CASE q # old
          BY <1>2, <1>4, <2>3, <4>1, <4>2 DEF Keeps
        <4>3. CASE q = old
          <5>1. disk[q] \in s
            BY <1>1, <1>4, <4>1, KeeperShows
          <5>2. text \in s
            BY <1>7, <1>13, <2>4, <4>3, <5>1
          <5>3. Keeps(path, s)'
            BY <1>2, <2>5, <5>2 DEF Keeps
          <5> QED
            BY <2>1, <5>3
        <4> QED
          BY <4>2, <4>3
      <3> QED
        BY <1>2, <3>1 DEF SavedDraftSurvives, Keeps
    <2>7. \E st \in {"index", "sync", "old", "ok", "err"} : Worked(st) /\ st = "ok"
      BY <1>13 DEF SaveWrites
    <2>8. after'[<<"legacy", 2>>] \subseteq after[<<"legacy", 2>>] \cup {Absent}
          /\ \A q \in Paths \ Stores : disk'[q] = disk[q] /\ after'[q] = after[q]
      BY <1>4, <2>1, <2>2, <2>3
    <2> QED
      BY <1>8, <2>1, <2>3, <2>5, <2>6, <2>7, <2>8
  <1>14. CASE op.stage = "rollback"
    <2>1. RemoveFile(path) /\ path \in Stores /\ path # prev.path
      BY <1>5, <1>7, <1>14 DEF SaveWrites
    <2>2. /\ FilesFit' /\ after'[path] = after[path] \cup {Absent}
          /\ \A q \in Paths \ {path} : disk'[q] = disk[q] /\ after'[q] = after[q]
      BY <1>1, <1>2, <1>4, <2>1, RemoveFits
    <2>3. SavedDraftSurvives'
      BY <1>2, <1>4, <1>7, <2>1, <2>2, DoneWithout
    <2>4. \E st \in {"index", "sync", "old", "ok", "err"} : Worked(st) /\ st = "err"
      BY <1>14 DEF SaveWrites
    <2>5. after'[<<"legacy", 2>>] \subseteq after[<<"legacy", 2>>] \cup {Absent}
          /\ \A q \in Paths \ Stores : disk'[q] = disk[q] /\ after'[q] = after[q]
      BY <1>4, <2>1, <2>2
    <2> QED
      BY <1>8, <2>2, <2>3, <2>4, <2>5
  <1> QED
    BY <1>2, <1>10, <1>11, <1>12, <1>13, <1>14

LEMMA FailKeeps ==
  ASSUME DraftInv, WorkerFails \/ DeleteRemoves
  PROVE  DraftInv'
  <1>1. FilesFit /\ OpFits /\ RestFits /\ OpFollows /\ SavedDraftSurvives
    BY DEF DraftInv, DraftTypes
  <1>2. /\ ui' = ui /\ auto' = auto /\ loads' = loads /\ rec' = rec /\ owed' = owed /\ mode' = mode
        /\ op.stage \in {"rename", "sync", "index", "old", "rollback", "remove"}
    BY DEF WorkerFails, DeleteRemoves, WorkerKeeps
  <1>3. count' \in [typed : Nat, saves : Nat, faults : Nat, crashes : Nat] /\ owed \subseteq SUBSET Texts
    <2>1. count \in [typed : Nat, saves : Nat, faults : Nat, crashes : Nat] /\ owed \subseteq SUBSET Texts
      BY <1>1 DEF RestFits
    <2>2. count' = count \/ count' = [count EXCEPT !.faults = @ + 1]
      BY DEF WorkerFails, DeleteRemoves, WorkerKeeps
    <2> QED
      BY <2>1, <2>2
  <1>4. Recovery \in Paths /\ Recovery \notin Stores /\ Stores \subseteq Paths /\ <<"legacy", 2>> \in Stores
    BY PathsDiffer
  <1>5. PICK path, prev : path = op.path /\ prev = op.prev
    OBVIOUS
  <1>6. CASE WorkerFails
    <2>1. disk' = disk /\ after' = after
      BY <1>6 DEF WorkerFails, KeepFiles
    <2>2. FilesFit' /\ SavedDraftSurvives'
      BY <1>1, <1>2, <2>1, FilesUnchanged DEF SavedDraftSurvives
    <2>3. PICK st \in {"rollback", "err"} : Worked(st) /\ (st = "rollback" <=> op.stage = "old")
      BY <1>6 DEF WorkerFails
    <2>4. OpFits' /\ op'.kind = op.kind /\ op'.stage = st /\ op'.text = op.text /\ op'.path = path
          /\ op'.prev = prev
      <3>1. st \in OpStages
        BY DEF OpStages
      <3> QED
        BY <1>1, <1>5, <2>3, <3>1, WorkerStage
    <2>5. op.kind = "save" => op.text \in Texts
      BY <1>1 DEF OpFollows
    <2>6. op.kind = "save" /\ st = "rollback" =>
            path \in Stores /\ prev.path \in Stores /\ path # prev.path /\ KeptWithout(path)
      BY <1>1, <1>5, <2>3 DEF OpFollows
    <2>7. KeptWithout(path) => KeptWithout(op.path)'
      BY <1>2, <2>1, <2>4 DEF KeptWithout, Keeps
    <2>8. OpFollows'
      BY <2>4, <2>5, <2>6, <2>7 DEF OpFollows
    <2> QED
      BY <1>2, <1>3, <2>1, <2>2, <2>4, <2>8, WorkKeeps
  <1>7. CASE DeleteRemoves
    <2>1. op.stage = "remove" /\ RemoveFile(path) /\ Worked("ok")
      BY <1>5, <1>7 DEF DeleteRemoves
    <2>2. op.kind # "save" /\ path \in Stores /\ \A s \in owed : disk[path] \notin s
      BY <1>1, <1>5, <2>1 DEF OpFollows
    <2>3. /\ FilesFit' /\ after'[path] = after[path] \cup {Absent}
          /\ \A q \in Paths \ {path} : disk'[q] = disk[q] /\ after'[q] = after[q]
      BY <1>1, <1>2, <1>4, <2>1, <2>2, RemoveFits
    <2>4. KeptWithout(path)
      <3>1. ASSUME NEW s \in owed PROVE \E q \in Stores \ {path} : Keeps(q, s)
        <4>1. PICK q \in Stores : Keeps(q, s)
          BY <1>1 DEF SavedDraftSurvives, Keeps
        <4>2. disk[q] \in s
          BY <1>1, <1>4, <4>1, KeeperShows
        <4> QED
          BY <2>2, <4>1, <4>2
      <3> QED
        BY <3>1 DEF KeptWithout
    <2>5. SavedDraftSurvives'
      BY <1>2, <1>4, <2>3, <2>4, DoneWithout
    <2>6. "ok" \in OpStages
      BY DEF OpStages
    <2>7. OpFits' /\ op'.kind = op.kind /\ op'.stage = "ok"
      BY <1>1, <2>1, <2>6, WorkerStage
    <2>8. OpFollows'
      BY <2>2, <2>7, OpIdle
    <2>9. after'[<<"legacy", 2>>] \subseteq after[<<"legacy", 2>>] \cup {Absent}
          /\ disk'[Recovery] = disk[Recovery] /\ after'[Recovery] = after[Recovery]
      BY <1>4, <2>2, <2>3
    <2> QED
      BY <1>2, <1>3, <2>3, <2>5, <2>7, <2>8, <2>9, WorkKeeps
  <1> QED
    BY <1>6, <1>7

(* A boundary of the composer hands the recovery writer what is to be kept. *)
LEMMA FlushFits ==
  ASSUME AutoFits, NEW a \in Texts \cup {Empty}, auto' = FlushText(a)
  PROVE  /\ AutoFits' /\ auto'.pending = NoAction /\ auto'.urgent = a /\ auto'.write = auto.write
         /\ auto'.kept = auto.kept /\ a # NoAction
  <1>1. a \in Actions /\ NoAction \in Actions /\ a # NoAction
    BY ContentsDiffer DEF Actions
  <1>2. auto' = [auto EXCEPT !.urgent = a, !.pending = NoAction]
    BY DEF FlushText
  <1> QED
    BY <1>1, <1>2 DEF AutoFits

LEMMA ScheduleFits ==
  ASSUME AutoFits, NEW a \in Texts \cup {Empty}, auto' = ScheduleText(a)
  PROVE  /\ AutoFits' /\ auto'.pending = a /\ auto'.urgent = auto.urgent /\ auto'.write = auto.write
         /\ auto'.kept = auto.kept
  <1>1. a \in Actions
    BY DEF Actions
  <1>2. auto' = [auto EXCEPT !.pending = a]
    BY DEF ScheduleText
  <1> QED
    BY <1>1, <1>2 DEF AutoFits

(* The writer's own state does not depend on what waits for its timer. *)
LEMMA WriterScheduled ==
  ASSUME WriterFollows, auto'.urgent = auto.urgent, auto'.write = auto.write,
         disk'[Recovery] = disk[Recovery], after'[Recovery] = after[Recovery],
         op' = op \/ (op.stage \notin {"flush", "cleanup"} /\ op'.stage \notin {"flush", "cleanup"})
  PROVE  WriterFollows'
  BY DEF WriterFollows

LEMMA WriterFlushed ==
  ASSUME WriterFollows, op.stage \notin {"flush", "cleanup"}, op'.stage \in {"flush", "cleanup"},
         auto'.urgent # NoAction, auto'.write = auto.write,
         disk'[Recovery] = disk[Recovery], after'[Recovery] = after[Recovery]
  PROVE  WriterFollows'
  BY DEF WriterFollows

LEMMA SaveAnswers ==
  ASSUME DraftInv, SaveArrives
  PROVE  DraftInv'
  <1>1. FilesFit /\ OpFits /\ UiFits /\ RestFits /\ AutoFits /\ LoadsFit /\ WriterFollows /\ UnsavedFollows
        /\ OpFollows /\ SavedDraftSurvives /\ MigrationFollows
    BY DEF DraftInv, DraftTypes
  <1>2. /\ loads' = loads /\ rec' = rec /\ mode' = mode /\ count' = count /\ disk' = disk /\ after' = after
        /\ op.kind = "save" /\ op.stage = "ok" /\ owed' = Settled(op.text) /\ Worked("cleanup")
    BY DEF SaveArrives
  <1>3. FilesFit' /\ LoadsFit'
    BY <1>1, <1>2, FilesUnchanged DEF LoadsFit
  <1>4. PICK text, path : text = op.text /\ path = op.path
    OBVIOUS
  <1>5. /\ text \in Texts /\ path \in Stores /\ disk[path] = text
        /\ mode = "local" => after[path] = {text}
    BY <1>1, <1>2, <1>4 DEF OpFollows
  <1>6. PICK active : active = [path |-> path, text |-> text]
    OBVIOUS
  <1>7. active \in SavedDrafts /\ active.text = text
    BY <1>5, <1>6 DEF SavedDrafts
  <1>8. ui' = [ui EXCEPT !.list = SavedList(ui), !.active = active]
        /\ auto' = FlushText(RecoveryActionFor(ui.text, active))
    BY <1>4, <1>6 DEF SaveArrives
  <1>9. UiFits' /\ ui'.text = ui.text /\ ui'.active = active /\ ui'.ioMigrating = ui.ioMigrating
    <2>1. PICK list : list = SavedList(ui)
      OBVIOUS
    <2>2. list \subseteq SavedDrafts
      <3>1. ui.list \subseteq SavedDrafts
        BY <1>1 DEF UiFits
      <3>2. list \subseteq ui.list \cup {active}
        BY <1>4, <1>6, <2>1 DEF SavedList, Without
      <3> QED
        BY <1>7, <3>1, <3>2
    <2>3. ui' = [ui EXCEPT !.list = list, !.active = active]
      BY <1>8, <2>1
    <2> QED
      BY <1>1, <1>7, <2>2, <2>3 DEF UiFits
  <1>10. OpFits' /\ op'.kind = "save" /\ op'.stage = "cleanup" /\ op'.text = text
    <2>1. "cleanup" \in OpStages
      BY DEF OpStages
    <2> QED
      BY <1>1, <1>2, <1>4, <2>1, WorkerStage
  <1>11. OpFollows'
    BY <1>5, <1>10 DEF OpFollows
  <1>12. owed' \subseteq SUBSET Texts /\ SavedDraftSurvives'
    <2>1. owed' = {IF text \in s THEN {text} ELSE s : s \in owed} \cup {{text}}
      BY <1>2, <1>4 DEF Settled
    <2>2. owed \subseteq SUBSET Texts
      BY <1>1 DEF RestFits
    <2>3. ASSUME NEW s \in owed' PROVE s = {text} \/ s \in owed
      BY <2>1
    <2>4. Keeps(path, {text})'
      BY <1>2, <1>5 DEF Keeps
    <2>5. ASSUME NEW s \in owed' PROVE \E q \in Stores : Keeps(q, s)'
      <3>1. CASE s = {text}
        BY <1>5, <2>4, <3>1
      <3>2. CASE s \in owed
        <4>1. PICK q \in Stores : Keeps(q, s)
          BY <1>1, <3>2 DEF SavedDraftSurvives, Keeps
        <4>2. Keeps(q, s)'
          BY <1>2, <4>1 DEF Keeps
        <4> QED
          BY <4>2
      <3> QED
        BY <2>3, <3>1, <3>2
    <2> QED
      BY <1>5, <2>2, <2>3, <2>5 DEF SavedDraftSurvives, Keeps
  <1>13. RestFits'
    BY <1>1, <1>2, <1>12 DEF RestFits
  <1>14. MigrationFollows'
    <2>1. op # NoOp
      BY <1>2 DEF NoOp
    <2> QED
      BY <1>1, <1>2, <1>9, <2>1, OpAlone, MigrationOver
  <1>15. PICK a : a = RecoveryActionFor(ui.text, active)
    OBVIOUS
  <1>16. a \in Texts \cup {Empty} /\ (ui.text \notin {Empty, text} => a = ui.text)
    BY <1>1, <1>7, <1>15 DEF RecoveryActionFor, ClearRecoveryFile, UiFits
  <1>17. /\ AutoFits' /\ auto'.pending = NoAction /\ auto'.urgent = a /\ auto'.write = auto.write
         /\ a # NoAction
    BY <1>1, <1>8, <1>15, <1>16, FlushFits
  <1>18. WriterFollows'
    BY <1>1, <1>2, <1>10, <1>17, WriterFlushed
  <1>19. UnsavedFollows'
    BY <1>7, <1>9, <1>16, <1>17 DEF UnsavedFollows, InHand
  <1> QED
    BY <1>3, <1>9, <1>10, <1>11, <1>12, <1>13, <1>14, <1>17, <1>18, <1>19 DEF DraftInv, DraftTypes

LEMMA ActiveDeleteAnswers ==
  ASSUME DraftInv, ActiveDeleteArrives
  PROVE  DraftInv'
  <1>1. FilesFit /\ OpFits /\ UiFits /\ RestFits /\ AutoFits /\ LoadsFit /\ WriterFollows /\ UnsavedFollows
        /\ OpFollows /\ SavedDraftSurvives /\ MigrationFollows
    BY DEF DraftInv, DraftTypes
  <1>2. /\ loads' = loads /\ rec' = rec /\ mode' = mode /\ count' = count /\ disk' = disk /\ after' = after
        /\ owed' = owed /\ op.kind = "deleteActive" /\ op.stage = "ok"
    BY DEF ActiveDeleteArrives
  <1>3. FilesFit' /\ LoadsFit' /\ RestFits' /\ SavedDraftSurvives'
    BY <1>1, <1>2, FilesUnchanged DEF LoadsFit, RestFits, SavedDraftSurvives
  <1>was. PICK was \in BOOLEAN, unchanged \in BOOLEAN :
           was = (ui.active = op.prev) /\ unchanged = (was /\ ui.text = op.text)
    OBVIOUS
  <1>4. PICK active, list, a :
           /\ active = (IF was THEN NoDraft ELSE ui.active) /\ list = Without(ui.list, op.path)
           /\ a = IF unchanged THEN ClearRecoveryFile ELSE RecoveryActionFor(ui.text, active)
    OBVIOUS
  <1>5. /\ ui' = [ui EXCEPT !.list = list, !.active = active]
        /\ auto' = FlushText(a)
        /\ op' = [op EXCEPT !.stage = "cleanup", !.kind = IF unchanged THEN @ ELSE "deleteKept"]
    BY <1>was, <1>4 DEF ActiveDeleteArrives
  <1>6. active \in SavedDrafts \cup {NoDraft} /\ list \subseteq SavedDrafts
    BY <1>was, <1>1, <1>4 DEF UiFits, Without
  <1>7. UiFits' /\ ui'.text = ui.text /\ ui'.active = active /\ ui'.ioMigrating = ui.ioMigrating
    BY <1>1, <1>5, <1>6 DEF UiFits
  <1>8. /\ OpFits' /\ op'.kind = (IF unchanged THEN "deleteActive" ELSE "deleteKept")
        /\ op'.stage = "cleanup" /\ op'.text = op.text
    <2>1. PICK kind \in {"deleteActive", "deleteKept"} : kind = IF unchanged THEN "deleteActive" ELSE "deleteKept"
      OBVIOUS
    <2>2. op' = [op EXCEPT !.stage = "cleanup", !.kind = kind]
      BY <1>2, <1>5, <2>1
    <2> QED
      BY <1>1, <2>1, <2>2 DEF OpFits, OpKinds, OpStages
  <1>9. OpFollows'
    BY <1>8, OpIdle
  <1>10. MigrationFollows'
    <2>1. op # NoOp
      BY <1>2 DEF NoOp
    <2> QED
      BY <1>1, <1>2, <1>7, <2>1, OpAlone, MigrationOver
  <1>11. /\ a \in Texts \cup {Empty}
         /\ ~unchanged /\ ui.text \notin {Empty, active.text} => a = ui.text
    BY <1>was, <1>1, <1>4 DEF RecoveryActionFor, ClearRecoveryFile, UiFits
  <1>12. /\ AutoFits' /\ auto'.pending = NoAction /\ auto'.urgent = a /\ auto'.write = auto.write
         /\ a # NoAction
    BY <1>1, <1>5, <1>11, FlushFits
  <1>13. WriterFollows'
    BY <1>1, <1>2, <1>8, <1>12, WriterFlushed
  <1>14. UnsavedFollows'
    <2>1. CASE unchanged
      <3>1. op'.kind = "deleteActive" /\ op'.text = ui'.text
        BY <1>was, <1>4, <1>7, <1>8, <2>1
      <3> QED
        BY <1>8, <1>12, <3>1 DEF UnsavedFollows, InHand
    <2>2. CASE ~unchanged
      BY <1>7, <1>11, <1>12, <2>2 DEF UnsavedFollows, InHand
    <2> QED
      BY <2>1, <2>2
  <1> QED
    BY <1>3, <1>7, <1>8, <1>9, <1>10, <1>12, <1>13, <1>14 DEF DraftInv, DraftTypes

LEMMA NamedDeleteAnswers ==
  ASSUME DraftInv, NamedDeleteArrives
  PROVE  DraftInv'
  <1>1. FilesFit /\ OpFits /\ UiFits /\ RestFits /\ AutoFits /\ LoadsFit /\ WriterFollows /\ UnsavedFollows
        /\ OpFollows /\ SavedDraftSurvives /\ MigrationFollows
    BY DEF DraftInv, DraftTypes
  <1>2. /\ rec' = rec /\ mode' = mode /\ count' = count /\ disk' = disk /\ after' = after
        /\ owed' = owed /\ op.kind = "deleteNamed" /\ op.stage = "ok" /\ op' = NoOp
    BY DEF NamedDeleteArrives
  <1>3. FilesFit' /\ RestFits' /\ SavedDraftSurvives'
    BY <1>1, <1>2, FilesUnchanged DEF RestFits, SavedDraftSurvives
  <1>4. OpFits' /\ OpFollows' /\ op'.stage = "idle"
    BY <1>2, OpIdle DEF OpFits, NoOp, OpKinds, OpStages
  <1>5. ~ui.ioMigrating /\ (\A l \in loads : l.stage \in {"scan", "reply"})
        /\ after[<<"legacy", 2>>] \subseteq {Malformed, Absent}
    <2>1. op # NoOp
      BY <1>2 DEF NoOp
    <2> QED
      BY <1>1, <2>1, OpAlone
  <1>was. PICK was \in BOOLEAN : was = (ui.active.path = op.path)
    OBVIOUS
  <1>6. PICK active, list, u :
           /\ active = (IF was THEN NoDraft ELSE ui.active) /\ list = Without(ui.list, op.path)
           /\ u = [ui EXCEPT !.list = list, !.active = active]
    OBVIOUS
  <1>7. active \in SavedDrafts \cup {NoDraft} /\ list \subseteq SavedDrafts
    BY <1>was, <1>1, <1>6 DEF UiFits, Without
  <1>8. u \in [text : Texts \cup {Empty}, active : SavedDrafts \cup {NoDraft}, list : SUBSET SavedDrafts,
               ioGen : Nat, ioActive : Nat, ioMigrating : BOOLEAN]
        /\ u.text = ui.text /\ u.active = active /\ ~u.ioMigrating
    BY <1>was, <1>1, <1>5, <1>6, <1>7 DEF UiFits
  <1>9. /\ ui' = Begin(u, loads).u /\ loads' = Begin(u, loads).l
        /\ auto' = IF was THEN ScheduleText(RecoveryActionFor(ui.text, NoDraft)) ELSE auto
    BY <1>was, <1>6 DEF NamedDeleteArrives
  <1>10. /\ UiFits' /\ LoadsFit' /\ ~ui'.ioMigrating /\ \A l \in loads' : l.stage \in {"scan", "reply"}
         /\ ui'.text = ui.text /\ ui'.active = active
    BY <1>1, <1>5, <1>8, <1>9, BeginFits
  <1>11. MigrationFollows'
    BY <1>2, <1>5, <1>10, MigrationOver
  <1>12. CASE was
    <2>1. PICK a : a = RecoveryActionFor(ui.text, NoDraft)
      OBVIOUS
    <2>2. a \in Texts \cup {Empty} /\ (ui.text \notin {Empty, NoDraft.text} => a = ui.text)
      BY <1>1, <2>1 DEF RecoveryActionFor, ClearRecoveryFile, UiFits
    <2>3. AutoFits' /\ auto'.pending = a /\ auto'.urgent = auto.urgent /\ auto'.write = auto.write
      BY <1>1, <1>9, <1>12, <2>1, <2>2, ScheduleFits
    <2>4. WriterFollows'
      BY <1>1, <1>2, <1>4, <2>3, WriterScheduled
    <2>5. UnsavedFollows'
      BY <1>was, <1>6, <1>10, <1>12, <2>2, <2>3 DEF UnsavedFollows, InHand
    <2> QED
      BY <1>3, <1>4, <1>10, <1>11, <2>3, <2>4, <2>5 DEF DraftInv, DraftTypes
  <1>13. CASE ~was
    <2>1. auto' = auto /\ ui'.active = ui.active
      BY <1>was, <1>6, <1>9, <1>10, <1>13
    <2>2. WriterFollows' /\ UnsavedFollows'
      BY <1>1, <1>2, <1>4, <1>10, <2>1, WriterKept
    <2>3. AutoFits'
      BY <1>1, <2>1 DEF AutoFits
    <2> QED
      BY <1>3, <1>4, <1>10, <1>11, <2>2, <2>3 DEF DraftInv, DraftTypes
  <1> QED
    BY <1>12, <1>13

LEMMA FailureAnswers ==
  ASSUME DraftInv, FailureArrives
  PROVE  DraftInv'
  <1>1. op.stage = "err" /\ op' = NoOp /\ count' = count /\ disk' = disk /\ after' = after
        /\ ui' = ui /\ auto' = auto /\ loads' = loads /\ rec' = rec /\ owed' = owed /\ mode' = mode
    BY DEF FailureArrives
  <1>2. OpFits' /\ OpFollows' /\ op'.stage = "idle"
    BY <1>1, OpIdle DEF OpFits, NoOp, OpKinds, OpStages
  <1>3. FilesFit' /\ SavedDraftSurvives'
    BY <1>1, FilesUnchanged DEF DraftInv, DraftTypes, SavedDraftSurvives
  <1>4. count' \in [typed : Nat, saves : Nat, faults : Nat, crashes : Nat]
    BY <1>1 DEF DraftInv, DraftTypes, RestFits
  <1> QED
    BY <1>1, <1>2, <1>3, <1>4, WorkKeeps

(* The parts of the invariant that a step of the composer leaves to show. *)
LEMMA ComposerKeeps ==
  ASSUME DraftInv, mode' = mode, disk' = disk, after' = after, op' = op, loads' = loads,
         UiFits', ui'.ioMigrating = ui.ioMigrating, AutoFits', RestFits', owed' = owed,
         auto'.urgent = auto.urgent, auto'.write = auto.write, UnsavedFollows'
  PROVE  DraftInv'
  <1>1. FilesFit' /\ OpFits' /\ LoadsFit'
    BY FilesUnchanged DEF DraftInv, DraftTypes, OpFits, LoadsFit
  <1>2. OpFollows' /\ SavedDraftSurvives'
    BY OpKept DEF DraftInv, DraftTypes
  <1>3. MigrationFollows'
    <2>1. ui.ioMigrating => op' = NoOp
      BY DEF DraftInv, MigrationFollows
    <2> QED
      BY <2>1, MigrationKept DEF DraftInv, DraftTypes
  <1>4. WriterFollows'
    BY WriterScheduled DEF DraftInv
  <1> QED
    BY <1>1, <1>2, <1>3, <1>4 DEF DraftInv, DraftTypes

LEMMA SupersedeFits ==
  ASSUME RestFits, Supersede
  PROVE  rec' \in [phase : {"reading", "read", "idle"}, text : DraftTexts, superseded : BOOLEAN]
  BY DEF RestFits, Supersede

LEMMA TypeKeeps ==
  ASSUME DraftInv, Type
  PROVE  DraftInv'
  <1>1. UiFits /\ AutoFits /\ RestFits
    BY DEF DraftInv, DraftTypes
  <1>2. mode' = mode /\ disk' = disk /\ after' = after /\ op' = op /\ loads' = loads /\ owed' = owed
        /\ Supersede /\ count.typed < MaxText
    BY DEF Type
  <1>3. PICK t : t = 3 + count.typed
    OBVIOUS
  <1>4. ui' = [ui EXCEPT !.text = t] /\ auto' = ScheduleText(t) /\ count' = [count EXCEPT !.typed = @ + 1]
    BY <1>3 DEF Type
  <1>5. count \in [typed : Nat, saves : Nat, faults : Nat, crashes : Nat] /\ owed \subseteq SUBSET Texts
    BY <1>1 DEF RestFits
  <1>6. t \in Texts
    BY <1>2, <1>3, <1>5, DraftFilesAssumption DEF Texts
  <1>7. UiFits' /\ ui'.text = t /\ ui'.ioMigrating = ui.ioMigrating
    BY <1>1, <1>4, <1>6 DEF UiFits
  <1>8. AutoFits' /\ auto'.pending = t /\ auto'.urgent = auto.urgent /\ auto'.write = auto.write
    BY <1>1, <1>4, <1>6, ScheduleFits
  <1>9. RestFits'
    <2>1. count' \in [typed : Nat, saves : Nat, faults : Nat, crashes : Nat]
      BY <1>4, <1>5
    <2> QED
      BY <1>1, <1>2, <1>5, <2>1, SupersedeFits DEF RestFits
  <1>10. UnsavedFollows'
    BY <1>7, <1>8 DEF UnsavedFollows, InHand
  <1> QED
    BY <1>2, <1>7, <1>8, <1>9, <1>10, ComposerKeeps

LEMMA LoadKeeps ==
  ASSUME DraftInv, NEW e \in ui.list, LoadNamed(e)
  PROVE  DraftInv'
  <1>1. UiFits /\ AutoFits /\ RestFits
    BY DEF DraftInv, DraftTypes
  <1>2. mode' = mode /\ disk' = disk /\ after' = after /\ op' = op /\ loads' = loads /\ owed' = owed
        /\ count' = count /\ Supersede /\ ui' = [ui EXCEPT !.text = e.text, !.active = e]
        /\ auto' = ScheduleText(ClearRecoveryFile)
    BY DEF LoadNamed
  <1>3. e \in SavedDrafts /\ e.text \in Texts /\ ClearRecoveryFile \in Texts \cup {Empty}
    BY <1>1 DEF UiFits, SavedDrafts, ClearRecoveryFile
  <1>4. UiFits' /\ ui'.text = e.text /\ ui'.active = e /\ ui'.ioMigrating = ui.ioMigrating
    BY <1>1, <1>2, <1>3 DEF UiFits
  <1>5. AutoFits' /\ auto'.urgent = auto.urgent /\ auto'.write = auto.write
    BY <1>1, <1>2, <1>3, ScheduleFits
  <1>6. RestFits'
    BY <1>1, <1>2, SupersedeFits DEF RestFits
  <1>7. UnsavedFollows'
    BY <1>4 DEF UnsavedFollows
  <1> QED
    BY <1>2, <1>4, <1>5, <1>6, <1>7, ComposerKeeps

LEMMA RecoveryKeeps ==
  ASSUME DraftInv, RecoveryReads \/ RecoveryArrives
  PROVE  DraftInv'
  <1>1. UiFits /\ AutoFits /\ RestFits /\ FilesFit /\ UnsavedFollows
    BY DEF DraftInv, DraftTypes
  <1>2. mode' = mode /\ disk' = disk /\ after' = after /\ op' = op /\ loads' = loads /\ owed' = owed
        /\ count' = count
    BY DEF RecoveryReads, RecoveryArrives
  <1>3. RestFits'
    <2>1. rec' \in [phase : {"reading", "read", "idle"}, text : DraftTexts, superseded : BOOLEAN]
      <3>1. CASE RecoveryReads
        <4>1. PICK t : t = IF disk[Recovery] # Absent THEN disk[Recovery] ELSE disk[OldRecovery]
          OBVIOUS
        <4>2. t \in DraftTexts
          BY <1>1, <4>1, PathsDiffer DEF FilesFit
        <4>3. rec' = [rec EXCEPT !.phase = "read", !.text = t]
          BY <3>1, <4>1 DEF RecoveryReads
        <4> QED
          BY <1>1, <4>2, <4>3 DEF RestFits
      <3>2. CASE RecoveryArrives
        BY <3>2, ContentsDiffer DEF RecoveryArrives
      <3> QED
        BY <3>1, <3>2
    <2> QED
      BY <1>1, <1>2, <2>1 DEF RestFits
  <1>4. CASE ui' = ui /\ auto' = auto
    <2>1. UiFits' /\ AutoFits'
      BY <1>1, <1>4 DEF UiFits, AutoFits
    <2>2. UnsavedFollows'
      BY <1>1, <1>2, <1>4 DEF UnsavedFollows, InHand
    <2> QED
      BY <1>2, <1>3, <1>4, <2>1, <2>2, ComposerKeeps
  <1>5. CASE ~(ui' = ui /\ auto' = auto)
    <2>1. PICK t : t = rec.text
      OBVIOUS
    <2>2. t \in Texts /\ ui' = [ui EXCEPT !.text = t, !.active = NoDraft] /\ auto' = ScheduleText(t)
      BY <1>5, <2>1 DEF RecoveryReads, RecoveryArrives, Recovers
    <2>3. UiFits' /\ ui'.text = t /\ ui'.ioMigrating = ui.ioMigrating
      BY <1>1, <2>2 DEF UiFits
    <2>4. AutoFits' /\ auto'.pending = t /\ auto'.urgent = auto.urgent /\ auto'.write = auto.write
      BY <1>1, <2>2, ScheduleFits
    <2>5. UnsavedFollows'
      BY <2>3, <2>4 DEF UnsavedFollows, InHand
    <2> QED
      BY <1>2, <1>3, <2>3, <2>4, <2>5, ComposerKeeps
  <1> QED
    BY <1>4, <1>5

(* What a process starts with. *)
LEMMA StartFits ==
  /\ StartedUi \in [text : Texts \cup {Empty}, active : SavedDrafts \cup {NoDraft}, list : SUBSET SavedDrafts,
                    ioGen : Nat, ioActive : Nat, ioMigrating : BOOLEAN]
  /\ StartedUi.text = Empty
  /\ NoOp \in [kind : OpKinds, stage : OpStages, text : Texts \cup {Empty}, path : Stores \cup {NoPath},
               prev : SavedDrafts \cup {NoDraft}]
  /\ NoOp.kind = "none" /\ NoOp.stage = "idle"
  /\ StartedAuto \in [pending : Actions, urgent : Actions,
            write : [act : Actions, boundary : BOOLEAN, stage : WriteStages], kept : BOOLEAN]
  /\ StartedAuto.urgent = NoAction /\ StartedAuto.write = NoWrite
  /\ NoWrite.stage = "idle" /\ NoWrite.boundary = FALSE
  /\ StartedLoads \subseteq [gen : Nat, migrate : BOOLEAN, stage : LoadStages, plan : SUBSET DraftMoves,
                   move : DraftMoves \cup {NoDraft}, found : SUBSET SavedDrafts, ok : BOOLEAN]
  /\ \A k, l \in StartedLoads : k = l /\ l.stage = "plan"
  /\ StartedUi.ioMigrating
  /\ StartedRec \in [phase : {"reading", "read", "idle"}, text : DraftTexts, superseded : BOOLEAN]
  <1>1. /\ StartedUi \in [text : Texts \cup {Empty}, active : SavedDrafts \cup {NoDraft},
                    list : SUBSET SavedDrafts, ioGen : Nat, ioActive : Nat, ioMigrating : BOOLEAN]
        /\ StartedUi.text = Empty /\ StartedUi.ioMigrating
    BY DEF StartedUi
  <1>2. /\ NoOp \in [kind : OpKinds, stage : OpStages, text : Texts \cup {Empty}, path : Stores \cup {NoPath},
               prev : SavedDrafts \cup {NoDraft}]
        /\ NoOp.kind = "none" /\ NoOp.stage = "idle"
    BY DEF NoOp, OpKinds, OpStages
  <1>3. NoWrite \in [act : Actions, boundary : BOOLEAN, stage : WriteStages] /\ NoAction \in Actions
        /\ NoWrite.stage = "idle" /\ NoWrite.boundary = FALSE
    BY DEF NoWrite, Actions, WriteStages
  <1>4. /\ StartedAuto \in [pending : Actions, urgent : Actions,
            write : [act : Actions, boundary : BOOLEAN, stage : WriteStages], kept : BOOLEAN]
        /\ StartedAuto.urgent = NoAction /\ StartedAuto.write = NoWrite
    BY <1>3 DEF StartedAuto
  <1>5. /\ StartedLoads \subseteq [gen : Nat, migrate : BOOLEAN, stage : LoadStages, plan : SUBSET DraftMoves,
                   move : DraftMoves \cup {NoDraft}, found : SUBSET SavedDrafts, ok : BOOLEAN]
        /\ \A k, l \in StartedLoads : k = l /\ l.stage = "plan"
    BY DEF StartedLoads, LoadStages
  <1>6. StartedRec \in [phase : {"reading", "read", "idle"}, text : DraftTexts, superseded : BOOLEAN]
    BY ContentsDiffer DEF StartedRec
  <1> QED
    BY <1>1, <1>2, <1>3, <1>4, <1>5, <1>6

LEMMA StartKeeps ==
  ASSUME DraftInv, EarlierFits, Restarted, \A p \in Paths : disk'[p] \in after[p] \cup earlier[p],
         disk' \in [Paths -> DraftTexts], after' = [p \in Paths |-> {disk'[p]}],
         owed' \subseteq owed, SavedDraftSurvives'
  PROVE  DraftInv'
  <1>1. FilesFit /\ RestFits
        /\ after[<<"legacy", 2>>] \cup earlier[<<"legacy", 2>>] \subseteq {Malformed, Absent}
    BY DEF DraftInv, DraftTypes, MigrationFollows, EarlierFits
  <1>2. ui' = StartedUi /\ op' = NoOp /\ auto' = StartedAuto /\ loads' = StartedLoads /\ rec' = StartedRec
        /\ mode' = mode /\ count' = [count EXCEPT !.crashes = @ + 1]
    BY DEF Restarted
  <1>3. \A p \in Paths : after'[p] = {disk'[p]} /\ disk'[p] \in DraftTexts
    OBVIOUS
  <1>4. FilesFit'
    <2>1. after' \in [Paths -> SUBSET DraftTexts]
      BY <1>3
    <2>2. \A p \in Paths : disk'[p] \in after'[p] /\ (Torn \in after'[p] => p \in Mail)
      BY <1>1, <1>3 DEF FilesFit, EarlierFits
    <2> QED
      BY <1>1, <1>2, <2>1, <2>2 DEF FilesFit
  <1>5. RestFits'
    <2>1. count \in [typed : Nat, saves : Nat, faults : Nat, crashes : Nat]
      BY <1>1 DEF RestFits
    <2>2. count' \in [typed : Nat, saves : Nat, faults : Nat, crashes : Nat]
      BY <1>2, <2>1
    <2> QED
      BY <1>1, <1>2, <2>2, StartFits DEF RestFits
  <1>6. UiFits' /\ OpFits' /\ AutoFits' /\ LoadsFit'
    BY <1>2, StartFits DEF UiFits, OpFits, AutoFits, LoadsFit
  <1>7. MigrationFollows'
    <2>1. \A p \in Local : SettledFile(p)'
      BY <1>3, PathsDiffer DEF SettledFile, Local
    <2>2. \A l \in loads' : MoveFollows(l)'
      BY <1>2, <2>1, StartFits DEF MoveFollows
    <2>3. after'[<<"legacy", 2>>] \subseteq {Malformed, Absent}
      <3>1. <<"legacy", 2>> \in Paths
        BY PathsDiffer
      <3> QED
        BY <1>1, <1>3, <3>1
    <2>4. op' = NoOp /\ \A k, l \in loads' : k = l
      BY <1>2, StartFits
    <2>5. ui'.ioMigrating
      BY <1>2, StartFits
    <2> QED
      BY <2>2, <2>3, <2>4, <2>5 DEF MigrationFollows
  <1>8. OpFollows'
    BY <1>2, OpIdle, StartFits
  <1>10. WriterFollows'
    BY <1>2, StartFits DEF WriterFollows
  <1>11. UnsavedFollows'
    BY <1>2, StartFits DEF UnsavedFollows
  <1> QED
    BY <1>4, <1>5, <1>6, <1>7, <1>8, <1>10, <1>11 DEF DraftInv, DraftTypes

LEMMA DeathKeeps ==
  ASSUME DraftInv, EarlierFits, ProcessDies \/ PowerFails
  PROVE  DraftInv'
  <1>1. FilesFit /\ SavedDraftSurvives /\ Stores \subseteq Paths
    BY PathsDiffer DEF DraftInv, DraftTypes
  <1>2. disk \in [Paths -> DraftTexts] /\ after \in [Paths -> SUBSET DraftTexts]
        /\ earlier \in [Paths -> SUBSET DraftTexts] /\ \A p \in Paths : disk[p] \in after[p]
    BY <1>1 DEF FilesFit, EarlierFits
  <1>3. CASE ProcessDies
    <2>1. Restarted /\ mode' = mode /\ owed' = owed /\ disk' = disk /\ after' = [p \in Paths |-> {disk'[p]}]
      BY <1>3 DEF ProcessDies, Restarted
    <2>2. ASSUME NEW s \in owed PROVE \E q \in Stores : Keeps(q, s)'
      <3>1. PICK q \in Stores : Keeps(q, s)
        BY <1>1 DEF SavedDraftSurvives, Keeps
      <3>2. disk'[q] \in s /\ after'[q] = {disk'[q]}
        BY <1>1, <2>1, <3>1, KeeperShows
      <3> QED
        BY <3>2 DEF Keeps
    <2>3. SavedDraftSurvives'
      BY <2>1, <2>2 DEF SavedDraftSurvives, Keeps
    <2> QED
      BY <1>2, <2>1, <2>3, StartKeeps
  <1>4. CASE PowerFails
    <2>1. Restarted /\ mode = "local" /\ mode' = mode /\ after' = [p \in Paths |-> {disk'[p]}]
      BY <1>4 DEF PowerFails, Restarted
    <2>2. PICK open, f : disk' = [p \in Paths |-> IF p \in open THEN f[p] ELSE disk[p]]
                         /\ \A p \in open : f[p] \in after[p] \cup earlier[p]
      BY <1>4 DEF PowerFails
    <2>3. \A p \in Paths : disk'[p] \in after[p] \cup earlier[p]
      BY <1>2, <2>2
    <2>4. \A p \in Paths : after[p] \subseteq DraftTexts /\ earlier[p] \subseteq DraftTexts
      BY <1>2
    <2>5. disk' \in [Paths -> DraftTexts]
      BY <2>2, <2>3, <2>4
    <2>6. owed' = IF AllSynced THEN owed ELSE {s \in owed : \E p \in Stores : disk'[p] \in s}
      BY <1>4 DEF PowerFails
    <2>7. ASSUME NEW s \in owed' PROVE \E q \in Stores : Keeps(q, s)'
      <3>1. PICK q \in Stores : disk'[q] \in s
        <4>1. CASE AllSynced
          <5>1. PICK q \in Stores : after[q] \subseteq s
            BY <1>1, <2>1, <2>6, <4>1 DEF SavedDraftSurvives
          <5>2. disk'[q] \in after[q]
            BY <1>1, <2>3, <4>1 DEF AllSynced
          <5> QED
            BY <5>1, <5>2
        <4>2. CASE ~AllSynced
          BY <2>6, <4>2
        <4> QED
          BY <4>1, <4>2
      <3>2. after'[q] = {disk'[q]}
        BY <1>1, <2>1
      <3> QED
        BY <3>1, <3>2 DEF Keeps
    <2>8. SavedDraftSurvives' /\ owed' \subseteq owed
      BY <2>6, <2>7 DEF SavedDraftSurvives, Keeps
    <2> QED
      BY <2>1, <2>3, <2>5, <2>8, StartKeeps
  <1> QED
    BY <1>3, <1>4

LEMMA StartHolds == DraftInit => DraftInv
  <1> SUFFICES ASSUME DraftInit PROVE DraftInv
    OBVIOUS
  <1>1. ui = StartedUi /\ op = NoOp /\ auto = StartedAuto /\ loads = StartedLoads /\ rec = StartedRec
        /\ mode \in Modes /\ count = [typed |-> 0, saves |-> 0, faults |-> 0, crashes |-> 0]
        /\ after = [p \in Paths |-> {disk[p]}]
    BY DEF DraftInit
  <1>2. PICK f \in Left :
        /\ disk = [p \in Paths |-> IF p \in DOMAIN f THEN f[p] ELSE Absent]
        /\ owed = {{t} : t \in {f[p] : p \in DOMAIN f \ {OldRecovery}} \cap Texts}
    BY DEF DraftInit
  <1>3. /\ DOMAIN f = {<<"drafts", 1>>, <<"drafts", 2>>, <<"legacy", 1>>, <<"legacy", 2>>, OldRecovery}
        /\ \A p \in DOMAIN f : f[p] \in {1, 2, Malformed, Absent}
        /\ f[<<"legacy", 2>>] \in {Malformed, Absent}
    BY <1>2 DEF Left
  <1>4. {1, 2, Malformed, Absent} \subseteq DraftTexts \ {Torn}
    <2>1. 1 \in Texts /\ 2 \in Texts
      BY DraftFilesAssumption DEF Texts
    <2> QED
      BY <2>1, ContentsDiffer
  <1>5. DOMAIN f \ {OldRecovery} \subseteq Stores
    <2>1. 1 \in FileNames /\ 2 \in FileNames
      BY DraftFilesAssumption DEF FileNames
    <2> QED
      BY <1>3, <2>1 DEF Stores, Named, Legacy
  <1>6. \A p \in Paths : disk[p] \in DraftTexts \ {Torn} /\ after[p] = {disk[p]}
    BY <1>1, <1>2, <1>3, <1>4
  <1>7. FilesFit
    <2>1. disk \in [Paths -> DraftTexts]
      BY <1>2, <1>6
    <2>2. after \in [Paths -> SUBSET DraftTexts]
      BY <1>1, <1>6
    <2>3. mode \in {"local", "maildir"}
      BY <1>1, DraftFilesAssumption
    <2> QED
      BY <1>1, <1>6, <2>1, <2>2, <2>3 DEF FilesFit
  <1>8. owed \subseteq SUBSET Texts
    BY <1>2
  <1>9. RestFits
    BY <1>1, <1>8, StartFits DEF RestFits
  <1>10. UiFits /\ OpFits /\ AutoFits /\ LoadsFit
    BY <1>1, StartFits DEF UiFits, OpFits, AutoFits, LoadsFit
  <1>11. MigrationFollows
    <2>1. \A p \in Local : SettledFile(p)
      BY <1>6, PathsDiffer DEF SettledFile, Local
    <2>2. \A l \in loads : MoveFollows(l)
      BY <1>1, <2>1, StartFits DEF MoveFollows
    <2>3. <<"legacy", 2>> \in Paths /\ <<"legacy", 2>> \in DOMAIN f
      BY <1>3, PathsDiffer
    <2>4. after[<<"legacy", 2>>] \subseteq {Malformed, Absent}
      BY <1>2, <1>3, <1>6, <2>3
    <2>5. op = NoOp /\ \A k, l \in loads : k = l
      BY <1>1, StartFits
    <2>6. ui.ioMigrating
      BY <1>1, StartFits
    <2> QED
      BY <2>2, <2>4, <2>5, <2>6 DEF MigrationFollows
  <1>12. OpFollows
    BY <1>1, StartFits DEF OpFollows
  <1>13. SavedDraftSurvives
    <2>1. ASSUME NEW s \in owed PROVE \E q \in Stores : Keeps(q, s)
      <3>1. PICK t \in {f[p] : p \in DOMAIN f \ {OldRecovery}} \cap Texts : s = {t}
        BY <1>2
      <3>2. PICK q \in DOMAIN f \ {OldRecovery} : f[q] = t
        BY <3>1
      <3>3. q \in Stores /\ q \in Paths
        BY <1>5, <3>2, PathsDiffer
      <3>4. disk[q] = t /\ after[q] = {t}
        BY <1>2, <1>6, <3>2, <3>3
      <3> QED
        BY <3>1, <3>3, <3>4 DEF Keeps
    <2> QED
      BY <2>1 DEF SavedDraftSurvives, Keeps
  <1>14. WriterFollows
    BY <1>1, StartFits DEF WriterFollows
  <1>15. UnsavedFollows
    BY <1>1, StartFits DEF UnsavedFollows
  <1> QED
    BY <1>7, <1>9, <1>10, <1>11, <1>12, <1>13, <1>14, <1>15 DEF DraftInv, DraftTypes

LEMMA DraftStutters ==
  ASSUME DraftInv, UNCHANGED draftVars
  PROVE  DraftInv'
  <1>1. mode' = mode /\ disk' = disk /\ after' = after /\ op' = op /\ loads' = loads /\ owed' = owed
        /\ ui' = ui /\ auto' = auto /\ rec' = rec /\ count' = count
    BY DEF draftVars
  <1>2. UiFits' /\ AutoFits' /\ RestFits'
    BY <1>1 DEF DraftInv, DraftTypes, UiFits, AutoFits, RestFits
  <1>3. UnsavedFollows'
    BY <1>1 DEF DraftInv, UnsavedFollows, InHand
  <1> QED
    BY <1>1, <1>2, <1>3, ComposerKeeps

(* Only the death of a process leaves anything unsynced behind. *)
LEMMA EarlierShrinks ==
  ASSUME EarlierFits, DraftNext, ~ProcessDies, ~PowerFails
  PROVE  /\ mode' = mode /\ earlier' \in [Paths -> SUBSET DraftTexts]
         /\ \A p \in Paths : earlier'[p] \subseteq earlier[p]
  <1>1. mode' = mode
    BY DEF DraftNext, AutosaveStarts, AutosaveSteps, AutosaveFails, AutosaveArrives, MigrationPlans,
       MigrationPicks, MigrationMoves, MigrationFails, LoadScans, LoadArrives, SaveBegins, SavePlaces,
       SaveWrites, WorkerFails, WorkerKeeps, DeleteBegins, LoadNamed, DeleteRemoves, SaveArrives,
       ActiveDeleteArrives, NamedDeleteArrives, FailureArrives, Type, RecoveryReads, RecoveryArrives
  <1>2. earlier' = earlier \/ \E d : SyncDirectory(d)
    <2>1. CASE AutosaveStarts \/ AutosaveSteps \/ AutosaveFails \/ AutosaveArrives
      BY <2>1 DEF AutosaveStarts, AutosaveSteps, AutosaveFails, AutosaveArrives, RemoveFile, Renamed
    <2>2. ASSUME NEW l \in loads,
                 \/ MigrationPlans(l) \/ MigrationPicks(l) \/ MigrationMoves(l) \/ MigrationFails(l)
                 \/ LoadScans(l) \/ LoadArrives(l)
          PROVE  earlier' = earlier \/ \E d : SyncDirectory(d)
      BY <2>2 DEF MigrationPlans, MigrationPicks, MigrationMoves, MoveSteps, MigrationFails, LoadScans,
         LoadArrives, RemoveFile, Renamed
    <2>3. CASE SaveBegins \/ SavePlaces \/ SaveWrites \/ WorkerFails \/ DeleteRemoves
      BY <2>3 DEF SaveBegins, SavePlaces, SaveWrites, WorkerFails, DeleteRemoves, KeepFiles, RemoveFile,
         Renamed, RenamedIntoMaildir
    <2>4. ASSUME NEW kind, NEW d, DeleteBegins(kind, d) \/ LoadNamed(d) PROVE earlier' = earlier
      BY <2>4 DEF DeleteBegins, LoadNamed
    <2>5. CASE SaveArrives \/ ActiveDeleteArrives \/ NamedDeleteArrives \/ FailureArrives
      BY <2>5 DEF SaveArrives, ActiveDeleteArrives, NamedDeleteArrives, FailureArrives
    <2>6. CASE Type \/ RecoveryReads \/ RecoveryArrives
      BY <2>6 DEF Type, RecoveryReads, RecoveryArrives
    <2> QED
      BY <2>1, <2>2, <2>3, <2>4, <2>5, <2>6 DEF DraftNext
  <1>3. ASSUME NEW d, SyncDirectory(d)
        PROVE  /\ earlier' \in [Paths -> SUBSET DraftTexts]
               /\ \A p \in Paths : earlier'[p] \subseteq earlier[p]
    <2>1. earlier' = [p \in Paths |-> IF Directory(p) = d THEN {} ELSE earlier[p]]
      BY <1>3 DEF SyncDirectory
    <2>2. \A p \in Paths : earlier[p] \subseteq DraftTexts
      BY DEF EarlierFits
    <2> QED
      BY <2>1, <2>2
  <1> QED
    BY <1>1, <1>2, <1>3 DEF EarlierFits

LEMMA EarlierStillFits ==
  ASSUME DraftInv, EarlierFits, DraftNext
  PROVE  EarlierFits'
  <1>1. FilesFit /\ after[<<"legacy", 2>>] \subseteq {Malformed, Absent} /\ <<"legacy", 2>> \in Paths
    BY PathsDiffer DEF DraftInv, DraftTypes, MigrationFollows
  <1>2. CASE ProcessDies
    <2>1. earlier' = [p \in Paths |-> earlier[p] \cup (after[p] \ {disk[p]})]
      BY <1>2 DEF ProcessDies
    <2>2. \A p \in Paths : earlier[p] \subseteq DraftTexts /\ after[p] \subseteq DraftTexts
      BY <1>1 DEF FilesFit, EarlierFits
    <2>3. earlier' \in [Paths -> SUBSET DraftTexts]
      BY <2>1, <2>2
    <2>4. \A p \in Paths : Torn \in earlier'[p] => p \in Mail
      BY <1>1, <2>1 DEF FilesFit, EarlierFits
    <2>5. earlier'[<<"legacy", 2>>] \subseteq {Malformed, Absent}
      BY <1>1, <2>1 DEF EarlierFits
    <2> QED
      BY <2>3, <2>4, <2>5 DEF EarlierFits
  <1>3. CASE PowerFails
    <2>1. earlier' = [p \in Paths |-> {}]
      BY <1>3 DEF PowerFails
    <2> QED
      BY <1>1, <2>1 DEF EarlierFits
  <1>4. CASE ~ProcessDies /\ ~PowerFails
    BY <1>1, <1>4, EarlierShrinks DEF EarlierFits
  <1> QED
    BY <1>2, <1>3, <1>4

(* The recovery writer at rest counts only what it has synced itself. *)
LEMMA RecoveryStaysSynced ==
  ASSUME DraftInv, EarlierInv, DraftNext
  PROVE  RecoverySynced'
  <1>1. UiFits /\ AutoFits /\ RestFits /\ EarlierFits /\ RecoverySynced /\ Recovery \in Paths
    BY PathsDiffer DEF DraftInv, DraftTypes, EarlierInv
  <1>2. CASE ProcessDies \/ PowerFails
    <2>1. ui' = StartedUi /\ auto' = StartedAuto
      BY <1>2 DEF ProcessDies, PowerFails, Restarted
    <2>2. ui'.text = Empty /\ auto'.write.stage = "idle"
      BY <2>1, StartFits
    <2> QED
      BY <2>2 DEF RecoverySynced
  <1>3. CASE ~ProcessDies /\ ~PowerFails
    <2>1. earlier[Recovery] = {} => earlier'[Recovery] = {}
      BY <1>1, <1>3, EarlierShrinks
    <2>2. ASSUME auto' = auto, ui'.text = ui.text PROVE RecoverySynced'
      BY <1>1, <2>1, <2>2 DEF RecoverySynced
    <2>3. ASSUME NEW a \in Texts \cup {Empty}, auto' = FlushText(a) \/ auto' = ScheduleText(a)
          PROVE  RecoverySynced'
      <3>1. a # NoAction
        BY ContentsDiffer
      <3>2. auto'.pending = a \/ auto'.urgent = a
        BY <1>1, <2>3 DEF FlushText, ScheduleText, AutoFits
      <3>3. auto'.write = auto.write
        BY <1>1, <2>3 DEF FlushText, ScheduleText, AutoFits
      <3> QED
        BY <1>1, <2>1, <3>1, <3>2, <3>3 DEF RecoverySynced
    <2>4. \A t \in Texts \cup {Empty} : \A d : RecoveryActionFor(t, d) \in Texts \cup {Empty}
      BY DEF RecoveryActionFor, ClearRecoveryFile
    <2>5. ui.text \in Texts \cup {Empty} /\ ClearRecoveryFile \in Texts \cup {Empty}
      BY <1>1 DEF UiFits, ClearRecoveryFile
    <2>6. CASE AutosaveStarts
      <3>1. auto'.write.stage = "rename"
        <4>1. ASSUME auto' = [auto EXCEPT !.urgent = NoAction,
                               !.write = [act |-> auto.urgent, boundary |-> TRUE, stage |-> "rename"]]
              PROVE  auto'.write.stage = "rename"
          <5>1. auto'.write = [act |-> auto.urgent, boundary |-> TRUE, stage |-> "rename"]
            BY <1>1, <4>1 DEF AutoFits
          <5> QED
            BY <5>1
        <4>2. ASSUME auto' = [auto EXCEPT !.pending = NoAction,
                               !.write = [act |-> auto.pending, boundary |-> FALSE, stage |-> "rename"]]
              PROVE  auto'.write.stage = "rename"
          <5>1. auto'.write = [act |-> auto.pending, boundary |-> FALSE, stage |-> "rename"]
            BY <1>1, <4>2 DEF AutoFits
          <5> QED
            BY <5>1
        <4> QED
          BY <2>6, <4>1, <4>2 DEF AutosaveStarts
      <3> QED
        BY <3>1 DEF RecoverySynced
    <2>7. CASE AutosaveSteps \/ AutosaveFails
      <3>1. PICK st : st # "idle" /\ Staged(st)
                      /\ (st \in {"legacy", "ok"} => (st = "legacy" /\ SyncDirectory("recovery"))
                                                       \/ (st = "ok" /\ auto.write.stage = "legacy"))
        BY <2>7 DEF AutosaveSteps, AutosaveFails
      <3>2. auto'.write.stage = st
        BY <1>1, <3>1 DEF Staged, AutoFits
      <3>3. Directory(Recovery) = "recovery"
        BY PathsDiffer
      <3>4. SyncDirectory("recovery") => earlier'[Recovery] = {}
        BY <1>1, <3>3 DEF SyncDirectory
      <3> QED
        BY <1>1, <2>1, <3>1, <3>2, <3>4 DEF RecoverySynced
    <2>8. CASE AutosaveArrives
      <3>1. PICK k \in BOOLEAN : k = (auto.write.stage = "ok")
        OBVIOUS
      <3>2. auto' = [auto EXCEPT !.write = NoWrite, !.kept = k]
        BY <2>8, <3>1 DEF AutosaveArrives
      <3>3. auto'.kept = k /\ auto'.write.stage = "idle"
        BY <1>1, <3>2, StartFits DEF AutoFits
      <3> QED
        BY <1>1, <2>1, <3>1, <3>3 DEF RecoverySynced
    <2>9. ASSUME NEW l \in loads,
                 \/ MigrationPlans(l) \/ MigrationPicks(l) \/ MigrationMoves(l) \/ MigrationFails(l)
                 \/ LoadScans(l) \/ LoadArrives(l)
          PROVE  RecoverySynced'
      <3>1. auto' = auto
        BY <2>9 DEF MigrationPlans, MigrationPicks, MigrationMoves, MigrationFails, LoadScans, LoadArrives
      <3>2. ui'.text = ui.text
        BY <1>1, <2>9 DEF MigrationPlans, MigrationPicks, MigrationMoves, MigrationFails, LoadScans,
           LoadArrives, UiFits
      <3> QED
        BY <2>2, <3>1, <3>2
    <2>10. CASE SavePlaces \/ SaveWrites \/ WorkerFails \/ DeleteRemoves
      BY <2>2, <2>10 DEF SavePlaces, SaveWrites, WorkerFails, DeleteRemoves, WorkerKeeps
    <2>11. ASSUME NEW kind, NEW d, DeleteBegins(kind, d) PROVE RecoverySynced'
      BY <2>2, <2>11 DEF DeleteBegins
    <2>12. CASE FailureArrives \/ RecoveryReads
      BY <2>2, <2>12 DEF FailureArrives, RecoveryReads
    <2>13. CASE SaveBegins
      BY <2>3, <2>5, <2>13 DEF SaveBegins
    <2>14. CASE SaveArrives
      BY <2>3, <2>4, <2>5, <2>14 DEF SaveArrives
    <2>15. CASE ActiveDeleteArrives
      BY <2>3, <2>4, <2>5, <2>15 DEF ActiveDeleteArrives
    <2>16. CASE NamedDeleteArrives
      <3>1. PICK u : /\ u = [ui EXCEPT !.list = Without(@, op.path), !.active = IF ui.active.path = op.path THEN NoDraft ELSE @]
                     /\ ui' = Begin(u, loads).u
        BY <2>16 DEF NamedDeleteArrives
      <3>2. u.text = ui.text /\ Begin(u, loads).u.text = u.text
        BY <1>1, <3>1 DEF Begin, UiFits
      <3>3. auto' = auto \/ auto' = ScheduleText(RecoveryActionFor(ui.text, NoDraft))
        BY <2>16 DEF NamedDeleteArrives
      <3> QED
        BY <2>2, <2>3, <2>4, <2>5, <3>1, <3>2, <3>3
    <2>17. CASE Type
      <3>1. PICK t : t = 3 + count.typed
        OBVIOUS
      <3>2. auto' = ScheduleText(t) /\ count.typed < MaxText /\ count.typed \in Nat
        BY <1>1, <2>17, <3>1 DEF Type, RestFits
      <3>3. t \in Texts
        BY <3>1, <3>2, DraftFilesAssumption DEF Texts
      <3> QED
        BY <2>3, <3>2, <3>3
    <2>18. ASSUME NEW e, LoadNamed(e) PROVE RecoverySynced'
      BY <2>3, <2>5, <2>18 DEF LoadNamed
    <2>19. CASE RecoveryArrives
      <3>1. CASE Recovers
        BY <2>3, <2>19, <3>1 DEF RecoveryArrives, Recovers
      <3>2. CASE ~Recovers
        BY <2>2, <2>19, <3>2 DEF RecoveryArrives
      <3> QED
        BY <3>1, <3>2
    <2> QED
      BY <1>3, <2>6, <2>7, <2>8, <2>9, <2>10, <2>11, <2>12, <2>13, <2>14, <2>15, <2>16, <2>17, <2>18,
         <2>19 DEF DraftNext
  <1> QED
    BY <1>2, <1>3

(* The text of a save is synced in the recovery file or in its own. *)
LEMMA SaveStaysSynced ==
  ASSUME DraftInv, EarlierInv, DraftNext
  PROVE  SaveSynced'
  <1>1. OpFits /\ OpFollows /\ AutoFits /\ WriterFollows /\ EarlierFits /\ RecoverySynced /\ SaveSynced
        /\ FilesFit /\ Recovery \in Paths /\ Stores \subseteq Paths
    BY PathsDiffer DEF DraftInv, DraftTypes, EarlierInv
  <1>2. SUFFICES ASSUME op'.kind = "save" PROVE SaveSynced'
    BY DEF SaveSynced
  <1>3. ~ProcessDies /\ ~PowerFails
    BY <1>2 DEF ProcessDies, PowerFails, Restarted, NoOp
  <1>4. mode' = mode /\ \A p \in Paths : earlier[p] = {} => earlier'[p] = {}
    BY <1>1, <1>3, EarlierShrinks
  <1>5. ASSUME op' = op PROVE SaveSynced'
    BY <1>1, <1>4, <1>5 DEF SaveSynced
  <1>6. ASSUME NEW st, op.kind = "save", op.stage \notin {"flush", "cleanup"}, Worked(st),
               st \in {"old", "ok", "cleanup"} /\ mode = "local" => op.path \in Stores /\ earlier'[op.path] = {}
        PROVE  SaveSynced'
    <2>1. op'.stage = st /\ op'.path = op.path
      BY <1>1, <1>6 DEF Worked, OpFits
    <2>2. earlier'[Recovery] = {}
      BY <1>1, <1>4, <1>6 DEF SaveSynced
    <2> QED
      BY <1>4, <1>6, <2>1, <2>2 DEF SaveSynced
  <1>7. CASE AutosaveArrives
    <2>1. op' = op \/ op' = NoOp
            \/ (op.stage = "flush" /\ op' = [op EXCEPT !.stage = "place"] /\ auto.write.stage = "ok")
      BY <1>7 DEF AutosaveArrives, FlushAnswers, MaySave
    <2>2. op' # NoOp
      BY <1>2 DEF NoOp
    <2>3. CASE op.stage = "flush" /\ op' = [op EXCEPT !.stage = "place"] /\ auto.write.stage = "ok"
      <3>1. op'.stage = "place"
        BY <1>1, <2>3 DEF OpFits
      <3>2. earlier'[Recovery] = {}
        BY <1>1, <1>4, <2>3 DEF RecoverySynced
      <3> QED
        BY <3>1, <3>2 DEF SaveSynced
    <2> QED
      BY <1>5, <2>1, <2>2, <2>3
  <1>8. CASE SavePlaces
    <2>1. op.kind = "save" /\ op.stage = "place"
          /\ (Worked("err") \/ \E p : op' = [op EXCEPT !.path = p, !.stage = "rename"])
      BY <1>8 DEF SavePlaces
    <2>2. op'.stage \in {"err", "rename"}
      BY <1>1, <2>1 DEF Worked, OpFits
    <2>3. earlier'[Recovery] = {}
      BY <1>1, <1>4, <2>1 DEF SaveSynced
    <2> QED
      BY <2>2, <2>3 DEF SaveSynced
  <1>9. CASE SaveWrites
    <2>1. op.kind = "save"
      BY <1>9 DEF SaveWrites
    <2>2. CASE op.stage = "rename"
      <3>1. Worked("index") \/ Worked("sync")
        BY <1>9, <2>2 DEF SaveWrites
      <3> QED
        BY <1>6, <2>1, <2>2, <3>1
    <2>3. CASE op.stage = "index"
      <3>1. Worked(AfterWrite) /\ mode # "local"
        BY <1>1, <1>9, <2>1, <2>3 DEF SaveWrites, OpFollows
      <3> QED
        BY <1>6, <2>1, <2>3, <3>1
    <2>4. CASE op.stage = "sync"
      <3>1. Worked(AfterWrite) /\ SyncDirectory("drafts") /\ op.path \in Named
        BY <1>1, <1>9, <2>1, <2>4 DEF SaveWrites, OpFollows
      <3>2. op.path \in Stores /\ Directory(op.path) = "drafts"
        BY <1>1, <3>1, PathsDiffer
      <3>3. earlier'[op.path] = {}
        BY <1>1, <3>1, <3>2 DEF SyncDirectory
      <3> QED
        BY <1>6, <2>1, <2>4, <3>1, <3>2, <3>3
    <2>5. CASE op.stage = "old"
      <3>1. Worked("ok")
        BY <1>9, <2>5 DEF SaveWrites
      <3>2. mode = "local" => op.path \in Stores /\ earlier'[op.path] = {}
        BY <1>1, <1>4, <2>1, <2>5 DEF SaveSynced
      <3> QED
        BY <1>6, <2>1, <2>5, <3>1, <3>2
    <2>6. CASE op.stage = "rollback"
      <3>1. Worked("err")
        BY <1>9, <2>6 DEF SaveWrites
      <3> QED
        BY <1>6, <2>1, <2>6, <3>1
    <2> QED
      BY <1>9, <2>2, <2>3, <2>4, <2>5, <2>6 DEF SaveWrites
  <1>10. CASE WorkerFails
    <2>1. op.stage \notin {"flush", "cleanup"} /\ (Worked("rollback") \/ Worked("err"))
      BY <1>10 DEF WorkerFails
    <2>2. op.kind = "save"
      BY <1>1, <1>2, <2>1 DEF Worked, OpFits
    <2> QED
      BY <1>6, <2>1, <2>2
  <1>11. CASE DeleteRemoves
    <2>1. op.stage = "remove" /\ Worked("ok")
      BY <1>11 DEF DeleteRemoves
    <2>2. op'.kind = op.kind
      BY <1>1, <2>1 DEF Worked, OpFits
    <2> QED
      BY <1>1, <1>2, <2>1, <2>2 DEF OpFollows
  <1>12. CASE SaveArrives
    <2>1. op.kind = "save" /\ op.stage = "ok" /\ Worked("cleanup")
      BY <1>12 DEF SaveArrives
    <2>2. mode = "local" => op.path \in Stores /\ earlier'[op.path] = {}
      BY <1>1, <1>4, <2>1 DEF SaveSynced
    <2> QED
      BY <1>6, <2>1, <2>2
  <1>13. CASE SaveBegins
    <2>1. \/ op' = [kind |-> "save", stage |-> "flush", text |-> ui.text, path |-> NoPath, prev |-> ui.active]
          \/ op' = [NoOp EXCEPT !.kind = "finalize", !.stage = "cleanup"]
      BY <1>13 DEF SaveBegins, Began
    <2>2. [NoOp EXCEPT !.kind = "finalize", !.stage = "cleanup"].kind = "finalize"
      BY DEF NoOp
    <2>3. op' = [kind |-> "save", stage |-> "flush", text |-> ui.text, path |-> NoPath, prev |-> ui.active]
      <3>1. op' # [NoOp EXCEPT !.kind = "finalize", !.stage = "cleanup"]
        BY <1>2, <2>2
      <3> QED
        BY <2>1, <3>1
    <2>4. op'.stage = "flush"
      BY <2>3
    <2> QED
      BY <2>4 DEF SaveSynced
  <1>14. ASSUME NEW kind \in {"deleteActive", "deleteNamed"}, NEW d, DeleteBegins(kind, d) PROVE FALSE
    <2>1. op' = [kind |-> kind, stage |-> "remove", text |-> ui.text, path |-> d.path, prev |-> d]
      BY <1>14 DEF DeleteBegins, Began
    <2> QED
      BY <1>2, <2>1
  <1>15. ASSUME ActiveDeleteArrives \/ NamedDeleteArrives \/ FailureArrives PROVE FALSE
    <2>1. op' = NoOp \/ \E k \in {"deleteActive", "deleteKept"} : op' = [op EXCEPT !.stage = "cleanup", !.kind = k]
      <3>1. CASE ActiveDeleteArrives
        BY <3>1 DEF ActiveDeleteArrives
      <3>2. CASE NamedDeleteArrives \/ FailureArrives
        BY <3>2 DEF NamedDeleteArrives, FailureArrives
      <3> QED
        BY <1>15, <3>1, <3>2
    <2>2. ASSUME NEW k \in {"deleteActive", "deleteKept"}, op' = [op EXCEPT !.stage = "cleanup", !.kind = k]
          PROVE  FALSE
      <3>1. op'.kind = k
        BY <1>1, <2>2 DEF OpFits
      <3> QED
        BY <1>2, <3>1
    <2>3. op' # NoOp
      BY <1>2 DEF NoOp
    <2> QED
      BY <2>1, <2>2, <2>3
  <1>16. CASE AutosaveStarts \/ AutosaveSteps \/ AutosaveFails \/ Type \/ RecoveryReads \/ RecoveryArrives
    BY <1>5, <1>16 DEF AutosaveStarts, AutosaveSteps, AutosaveFails, Type, RecoveryReads, RecoveryArrives
  <1>17. ASSUME NEW l \in loads,
                \/ MigrationPlans(l) \/ MigrationPicks(l) \/ MigrationMoves(l) \/ MigrationFails(l)
                \/ LoadScans(l) \/ LoadArrives(l)
         PROVE  SaveSynced'
    BY <1>5, <1>17 DEF MigrationPlans, MigrationPicks, MigrationMoves, MigrationFails, LoadScans, LoadArrives
  <1>18. ASSUME NEW e, LoadNamed(e) PROVE SaveSynced'
    BY <1>5, <1>18 DEF LoadNamed
  <1> QED
    BY <1>3, <1>7, <1>8, <1>9, <1>10, <1>11, <1>12, <1>13, <1>14, <1>15, <1>16, <1>17, <1>18 DEF DraftNext

LEMMA EarlierKept ==
  ASSUME DraftInv, EarlierInv, [DraftNext]_draftVars
  PROVE  EarlierInv'
  <1>1. CASE DraftNext
    BY <1>1, EarlierStillFits, RecoveryStaysSynced, SaveStaysSynced DEF EarlierInv
  <1>2. CASE UNCHANGED draftVars
    BY <1>2 DEF draftVars, EarlierInv, EarlierFits, RecoverySynced, SaveSynced
  <1> QED
    BY <1>1, <1>2

(***************************************************************************)
(* The writers of the draft files and the recovery file keep their places: *)
(* a migration runs alone and settles a copy before the original goes, a   *)
(* save has its text in a store before the draft it replaces goes, and the *)
(* recovery writer has the last unsaved text (draft_io.rs, composer.rs,    *)
(* main_window.rs), whatever fails and whenever the process dies; and none *)
(* of them relies on what a dead process wrote and did not sync.           *)
(***************************************************************************)
THEOREM DraftInvariant == DraftSpec => [](DraftInv /\ EarlierInv)
  <1>1. DraftInv /\ EarlierInv /\ [DraftNext]_draftVars => DraftInv'
    <2> SUFFICES ASSUME DraftInv, EarlierInv, [DraftNext]_draftVars PROVE DraftInv'
      OBVIOUS
    <2>1. CASE AutosaveStarts \/ AutosaveSteps \/ AutosaveFails
      BY <2>1, WriterKeeps
    <2>2. CASE AutosaveArrives
      BY <2>2, AnswerArrives
    <2>3. ASSUME NEW l \in loads, MigrationPlans(l) \/ MigrationPicks(l) \/ MigrationFails(l)
          PROVE  DraftInv'
      BY <2>3, PlanKeeps
    <2>4. ASSUME NEW l \in loads, MigrationMoves(l) PROVE DraftInv'
      BY <2>4, MoveKeeps
    <2>5. ASSUME NEW l \in loads, LoadScans(l) \/ LoadArrives(l) PROVE DraftInv'
      BY <2>5, ScanKeeps
    <2>6. CASE SaveBegins
      BY <2>6, BeginKeeps
    <2>7. CASE SavePlaces
      BY <2>7, PlaceKeeps
    <2>8. CASE SaveWrites
      BY <2>8, WriteKeeps
    <2>9. CASE WorkerFails \/ DeleteRemoves
      BY <2>9, FailKeeps
    <2>10. CASE ui.active # NoDraft /\ DeleteBegins("deleteActive", ui.active)
      <3>1. ui.active \in SavedDrafts
        BY <2>10 DEF DraftInv, DraftTypes, UiFits
      <3>2. PICK kind \in {"deleteActive", "deleteNamed"} : kind = "deleteActive"
        OBVIOUS
      <3>3. PICK d \in SavedDrafts : d = ui.active
        BY <3>1
      <3>4. DeleteBegins(kind, d)
        BY <2>10, <3>2, <3>3
      <3> QED
        BY <3>4, DeleteKeeps
    <2>11. ASSUME NEW e \in ui.list, DeleteBegins("deleteNamed", e) PROVE DraftInv'
      <3>1. e \in SavedDrafts
        BY DEF DraftInv, DraftTypes, UiFits
      <3>2. PICK kind \in {"deleteActive", "deleteNamed"} : kind = "deleteNamed"
        OBVIOUS
      <3>3. DeleteBegins(kind, e)
        BY <2>11, <3>2
      <3> QED
        BY <3>1, <3>3, DeleteKeeps
    <2>12. ASSUME NEW e \in ui.list, LoadNamed(e) PROVE DraftInv'
      BY <2>12, LoadKeeps
    <2>13. CASE SaveArrives
      BY <2>13, SaveAnswers
    <2>14. CASE ActiveDeleteArrives
      BY <2>14, ActiveDeleteAnswers
    <2>15. CASE NamedDeleteArrives
      BY <2>15, NamedDeleteAnswers
    <2>16. CASE FailureArrives
      BY <2>16, FailureAnswers
    <2>17. CASE Type
      BY <2>17, TypeKeeps
    <2>18. CASE RecoveryReads \/ RecoveryArrives
      BY <2>18, RecoveryKeeps
    <2>19. CASE ProcessDies \/ PowerFails
      BY <2>19, DeathKeeps DEF EarlierInv
    <2>20. CASE UNCHANGED draftVars
      BY <2>20, DraftStutters
    <2> QED
      BY <2>1, <2>2, <2>3, <2>4, <2>5, <2>6, <2>7, <2>8, <2>9, <2>10, <2>11, <2>12, <2>13, <2>14,
         <2>15, <2>16, <2>17, <2>18, <2>19, <2>20 DEF DraftNext
  <1>2. DraftInit => EarlierInv
    <2> SUFFICES ASSUME DraftInit PROVE EarlierInv
      OBVIOUS
    <2>1. earlier = [p \in Paths |-> {}] /\ op = NoOp
      BY DEF DraftInit
    <2>2. \A p \in Paths : earlier[p] = {}
      BY <2>1
    <2>3. Recovery \in Paths /\ <<"legacy", 2>> \in Paths /\ op.kind # "save"
      BY <2>1, PathsDiffer DEF NoOp
    <2> QED
      BY <2>1, <2>2, <2>3 DEF EarlierInv, EarlierFits, RecoverySynced, SaveSynced
  <1>3. DraftInv /\ EarlierInv /\ [DraftNext]_draftVars => EarlierInv'
    BY EarlierKept
  <1> QED
    BY <1>1, <1>2, <1>3, StartHolds, PTL DEF DraftSpec

(* The type invariant of the draft files, the composer and the workers. *)
THEOREM DraftTypeCorrect == DraftSpec => []DraftTypeOK
  <1>1. DraftInv /\ EarlierInv => DraftTypeOK
    <2> SUFFICES ASSUME DraftInv, EarlierInv PROVE DraftTypeOK
      OBVIOUS
    <2>1. FilesFit /\ EarlierFits /\ UiFits /\ OpFits /\ AutoFits /\ RestFits
      BY DEF DraftInv, DraftTypes, EarlierInv
    <2>2. SavedDrafts \subseteq Draft /\ Stores \subseteq Paths
      BY PathsDiffer DEF SavedDrafts, Draft
    <2>3. /\ mode \in Modes /\ disk \in [Paths -> DraftTexts]
          /\ \A p \in Paths : disk[p] \in after[p] /\ after[p] \cup earlier[p] \subseteq DraftTexts
      BY <2>1 DEF FilesFit, EarlierFits
    <2>4. /\ ui.text \in Texts \cup {Empty} /\ ui.active \in Draft \cup {NoDraft}
          /\ ui.list \subseteq Draft
      BY <2>1, <2>2 DEF UiFits
    <2>5. op.text \in Texts \cup {Empty} /\ op.path \in Paths \cup {NoPath}
      BY <2>1, <2>2 DEF OpFits
    <2>6. /\ auto.pending \in Texts \cup {ClearRecoveryFile, NoAction}
          /\ auto.urgent \in Texts \cup {ClearRecoveryFile, NoAction}
      BY <2>1 DEF AutoFits, Actions, ClearRecoveryFile
    <2>7. rec.phase \in {"reading", "read", "idle"} /\ owed \subseteq SUBSET Texts
      BY <2>1 DEF RestFits
    <2> QED
      BY <2>3, <2>4, <2>5, <2>6, <2>7 DEF DraftTypeOK
  <1> QED
    BY <1>1, DraftInvariant, PTL

(***************************************************************************)
(* A draft the user has saved and has neither deleted nor replaced is in a *)
(* draft store at every moment, and in the local store a power failure at  *)
(* that moment leaves it there, for every number of drafts, edits, saves,  *)
(* failures and deaths of the process (draft_io.rs                         *)
(* migrate_legacy_named_drafts, main_window.rs perform_captured_draft_save).*)
(***************************************************************************)
THEOREM SavedDraftsSurvive == DraftSpec => []SavedDraftSurvives
  <1>1. DraftInv => SavedDraftSurvives
    BY DEF DraftInv
  <1> QED
    BY <1>1, DraftInvariant, PTL

(***************************************************************************)
(* When the recovery writer is at rest and its last write succeeded, an    *)
(* unsaved text of the composer is in the recovery file for good           *)
(* (composer.rs persist_recovery_draft).                                   *)
(***************************************************************************)
THEOREM UnsavedTextsRecoverable == DraftSpec => []UnsavedTextRecoverable
  <1>1. DraftInv /\ EarlierInv => UnsavedTextRecoverable
    <2> SUFFICES ASSUME DraftInv, EarlierInv, auto.pending = NoAction, auto.urgent = NoAction,
                        auto.write = NoWrite, auto.kept, op = NoOp, ui.text \notin {Empty, ui.active.text}
                 PROVE  after[Recovery] \cup earlier[Recovery] = {ui.text}
      BY DEF UnsavedTextRecoverable
    <2>1. InHand
      BY DEF DraftInv, UnsavedFollows
    <2>2. ui.text # NoAction
      BY ContentsDiffer DEF DraftInv, DraftTypes, UiFits
    <2>3. auto.write.stage = "idle" /\ op.stage = "idle"
      BY StartFits
    <2>4. earlier[Recovery] = {}
      BY <2>3 DEF EarlierInv, RecoverySynced
    <2> QED
      BY <2>1, <2>2, <2>3, <2>4 DEF InHand
  <1> QED
    BY <1>1, DraftInvariant, PTL

--------------------------------------------------------------------------------
(***************************************************************************)
(* A save and the recovery file.  A text typed later has a higher number,  *)
(* so no text anywhere is later than the last one typed.  From the         *)
(* boundary that opens a save the recovery writer has the text of the save *)
(* or a later one, until the file of the save holds it: the startup        *)
(* recovery, which could bring an older one, comes to nothing once the     *)
(* composer was touched (main_window.rs start_captured_draft_save,         *)
(* finish_draft_recovery_load).                                            *)
(***************************************************************************)
WrittenBy(x, n) == x \in Texts => x <= 2 + n

FilesWritten == \A p \in Paths : \A x \in after[p] : WrittenBy(x, count.typed)
UiWritten == WrittenBy(ui.text, count.typed) /\ \A e \in ui.list : WrittenBy(e.text, count.typed)
OpWritten == WrittenBy(op.text, count.typed)
AutoWritten ==
  /\ WrittenBy(auto.pending, count.typed) /\ WrittenBy(auto.urgent, count.typed)
  /\ WrittenBy(auto.write.act, count.typed)
LoadsWritten == \A l \in loads : \A e \in l.found : WrittenBy(e.text, count.typed)
RecWritten == WrittenBy(rec.text, count.typed)
OnlyWritten == FilesWritten /\ UiWritten /\ OpWritten /\ AutoWritten /\ LoadsWritten /\ RecWritten

Untouched ==
  rec.phase # "idle" /\ ~rec.superseded => ui.text = Empty /\ ui.active = NoDraft /\ op.kind # "save"

(* The text of the save, or a later one. *)
Later(x) == x \in Texts /\ x >= op.text
Boundary ==
  op.kind = "save" =>
    /\ op.stage # "cleanup" => auto.pending = NoAction \/ Later(auto.pending)
    /\ op.stage = "flush" => auto.urgent = op.text \/ (auto.write.boundary /\ auto.write.act = op.text)
    /\ op.stage \notin {"flush", "cleanup"} =>
         /\ \A x \in after[Recovery] : Later(x)
         /\ auto.write.stage # "idle" => Later(auto.write.act)
    /\ op.stage = "cleanup" => op.path \in Stores /\ Keeps(op.path, {op.text})

EarlierWritten == \A p \in Paths : \A x \in earlier[p] : WrittenBy(x, count.typed)

SavingInv == OnlyWritten /\ EarlierWritten /\ Untouched /\ Boundary

(* Only typing makes a new text. *)
LEMMA NothingTyped ==
  ASSUME DraftInv,
         \/ count' = count
         \/ count' = [count EXCEPT !.faults = @ + 1]
         \/ count' = [count EXCEPT !.saves = @ + 1]
         \/ count' = [count EXCEPT !.crashes = @ + 1]
  PROVE  count.typed \in Nat /\ count'.typed \in Nat /\ count'.typed = count.typed
  BY DEF DraftInv, DraftTypes, RestFits

(* What a step leaves alone stays written. *)
LEMMA WrittenStays ==
  ASSUME OnlyWritten, count.typed \in Nat, count'.typed \in Nat, count.typed <= count'.typed
  PROVE  /\ \A x : WrittenBy(x, count.typed) => WrittenBy(x, count'.typed)
         /\ after' = after => FilesWritten'
         /\ ui' = ui => UiWritten'
         /\ op'.text = op.text => OpWritten'
         /\ auto' = auto => AutoWritten'
         /\ loads' = loads => LoadsWritten'
         /\ rec'.text = rec.text => RecWritten'
  <1>1. ASSUME NEW x, WrittenBy(x, count.typed) PROVE WrittenBy(x, count'.typed)
    <2> SUFFICES ASSUME x \in Texts PROVE x <= 2 + count'.typed
      BY DEF WrittenBy
    <2>1. x \in Nat /\ x <= 2 + count.typed
      BY <1>1, ContentsDiffer DEF WrittenBy
    <2> QED
      BY <2>1
  <1>2. after' = after => FilesWritten'
    BY <1>1 DEF OnlyWritten, FilesWritten
  <1>3. ui' = ui => UiWritten'
    BY <1>1 DEF OnlyWritten, UiWritten
  <1>4. /\ op'.text = op.text => OpWritten'
        /\ rec'.text = rec.text => RecWritten'
    BY <1>1 DEF OnlyWritten, OpWritten, RecWritten
  <1>5. auto' = auto => AutoWritten'
    BY <1>1 DEF OnlyWritten, AutoWritten
  <1>6. loads' = loads => LoadsWritten'
    BY <1>1 DEF OnlyWritten, LoadsWritten
  <1> QED
    BY <1>1, <1>2, <1>3, <1>4, <1>5, <1>6

(* What is no text of the user's. *)
LEMMA NotWritten ==
  ASSUME NEW n
  PROVE  /\ WrittenBy(Empty, n) /\ WrittenBy(NoAction, n) /\ WrittenBy(Absent, n) /\ WrittenBy(Torn, n)
         /\ WrittenBy(ClearRecoveryFile, n)
  BY ContentsDiffer DEF WrittenBy, ClearRecoveryFile

(* The texts that a flush or a schedule hands to the writer. *)
LEMMA ActionWritten ==
  ASSUME NEW t \in Texts \cup {Empty}, NEW d, NEW n, WrittenBy(t, n)
  PROVE  RecoveryActionFor(t, d) \in Texts \cup {Empty} /\ WrittenBy(RecoveryActionFor(t, d), n)
  BY NotWritten DEF RecoveryActionFor, ClearRecoveryFile

LEMMA WriterWrites ==
  ASSUME DraftInv, OnlyWritten, AutosaveStarts \/ AutosaveSteps \/ AutosaveFails
  PROVE  OnlyWritten'
  <1>t. FilesFit /\ AutoFits /\ ui' = ui /\ op' = op /\ loads' = loads /\ rec' = rec /\ mode' = mode
    BY DEF DraftInv, DraftTypes, AutosaveStarts, AutosaveSteps, AutosaveFails
  <1>n. count.typed \in Nat /\ count'.typed \in Nat /\ count'.typed = count.typed
    BY NothingTyped DEF AutosaveStarts, AutosaveSteps, AutosaveFails
  <1>o. UiWritten' /\ OpWritten' /\ LoadsWritten' /\ RecWritten'
    BY <1>t, <1>n, WrittenStays
  <1>1. AutoWritten'
    <2>1. auto'.pending \in {auto.pending, NoAction} /\ auto'.urgent \in {auto.urgent, NoAction}
          /\ auto'.write.act \in {auto.write.act, auto.urgent, auto.pending}
      <3>1. CASE AutosaveStarts
        <4>1. CASE auto' = [auto EXCEPT !.urgent = NoAction,
                              !.write = [act |-> auto.urgent, boundary |-> TRUE, stage |-> "rename"]]
          BY <1>t, <4>1 DEF AutoFits
        <4>2. CASE auto' = [auto EXCEPT !.pending = NoAction,
                              !.write = [act |-> auto.pending, boundary |-> FALSE, stage |-> "rename"]]
          BY <1>t, <4>2 DEF AutoFits
        <4> QED
          BY <3>1, <4>1, <4>2 DEF AutosaveStarts
      <3>2. CASE AutosaveSteps \/ AutosaveFails
        BY <1>t, <3>2 DEF AutosaveSteps, AutosaveFails, Staged, AutoFits
      <3> QED
        BY <3>1, <3>2
    <2> QED
      BY <1>n, <2>1, NotWritten DEF OnlyWritten, AutoWritten
  <1>2. FilesWritten'
    <2>1. CASE after' = after
      BY <1>n, <2>1, WrittenStays
    <2>2. CASE AutosaveSteps
      <3>1. \A p \in Paths : \A x \in after'[p] : x \in after[p] \/ x = Absent \/ x = auto.write.act
        <4>1. CASE RemoveFile(Recovery) \/ RemoveFile(OldRecovery)
          BY <1>t, <4>1 DEF RemoveFile, FilesFit
        <4>2. CASE Renamed(Recovery, auto.write.act)
          BY <1>t, <4>2 DEF Renamed, FilesFit
        <4>3. CASE SyncDirectory("recovery")
          BY <1>t, <4>3, SyncFits
        <4> QED
          BY <2>2, <4>1, <4>2, <4>3 DEF AutosaveSteps
      <3> QED
        BY <1>n, <3>1, NotWritten DEF OnlyWritten, FilesWritten, AutoWritten
    <2> QED
      BY <2>1, <2>2 DEF AutosaveStarts, AutosaveFails
  <1> QED
    BY <1>o, <1>1, <1>2 DEF OnlyWritten

LEMMA LoadsWrite ==
  ASSUME DraftInv, OnlyWritten, NEW l \in loads,
         \/ MigrationPlans(l) \/ MigrationPicks(l) \/ MigrationMoves(l) \/ MigrationFails(l)
         \/ LoadScans(l) \/ LoadArrives(l)
  PROVE  OnlyWritten'
  <1>t. FilesFit /\ LoadsFit /\ UiFits /\ op' = op /\ auto' = auto /\ rec' = rec /\ mode' = mode
    BY DEF DraftInv, DraftTypes, MigrationPlans, MigrationPicks, MigrationMoves, MigrationFails, LoadScans, LoadArrives
  <1>n. count.typed \in Nat /\ count'.typed \in Nat /\ count'.typed = count.typed
    BY NothingTyped DEF MigrationPlans, MigrationPicks, MigrationMoves, MigrationFails, LoadScans, LoadArrives
  <1>o. OpWritten' /\ AutoWritten' /\ RecWritten'
    BY <1>t, <1>n, WrittenStays
  <1>1. CASE LoadArrives(l)
    <2>1. loads' = loads \ {l} /\ after' = after
      BY <1>1 DEF LoadArrives
    <2>2. ui'.text = ui.text /\ ui'.list \in {ui.list, l.found}
      BY <1>1, <1>t DEF LoadArrives, UiFits
    <2>3. LoadsWritten' /\ UiWritten'
      BY <1>n, <2>1, <2>2 DEF OnlyWritten, LoadsWritten, UiWritten
    <2> QED
      BY <1>n, <1>o, <2>1, <2>3, WrittenStays DEF OnlyWritten
  <1>2. CASE ~LoadArrives(l)
    <2>u. ui' = ui
      BY <1>2 DEF MigrationPlans, MigrationPicks, MigrationMoves, MigrationFails, LoadScans
    <2>l. l.found \subseteq SavedDrafts
          /\ l \in [gen : Nat, migrate : BOOLEAN, stage : LoadStages, plan : SUBSET DraftMoves,
                     move : DraftMoves \cup {NoDraft}, found : SUBSET SavedDrafts, ok : BOOLEAN]
      BY <1>t DEF LoadsFit
    <2>1. \A k \in loads' : k \in loads \/ k.found = l.found \/ k.found = Scanned
      <3>f. \A new : loads' = (loads \ {l}) \cup {new} /\ new.found \in {l.found, Scanned}
                      => \A k \in loads' : k \in loads \/ k.found = l.found \/ k.found = Scanned
        OBVIOUS
      <3>1. CASE MigrationPlans(l)
        <4>1. PICK new : /\ new \in {[l EXCEPT !.plan = Moves, !.stage = "next"], [l EXCEPT !.ok = FALSE, !.stage = "reply"]}
                         /\ loads' = (loads \ {l}) \cup {new}
          BY <3>1 DEF MigrationPlans, Updated
        <4>2. new.found = l.found
          BY <2>l, <4>1
        <4> QED
          BY <3>f, <4>1, <4>2
      <3>2. CASE MigrationPicks(l)
        <4>1. CASE l.plan = {}
          <5>1. PICK new : new = [l EXCEPT !.stage = "scan"] /\ loads' = (loads \ {l}) \cup {new}
            BY <3>2, <4>1 DEF MigrationPicks, Updated
          <5>2. new.found = l.found
            BY <2>l, <5>1
          <5> QED
            BY <3>f, <5>1, <5>2
        <4>2. CASE l.plan # {}
          <5>1. PICK m \in l.plan :
                  Updated(l, [l EXCEPT !.plan = @ \ {m}, !.move = m,
                                       !.stage = IF m.path = NoPath THEN "unlink" ELSE "rename"])
            BY <3>2, <4>2 DEF MigrationPicks
          <5>2. PICK s, P : s = (IF m.path = NoPath THEN "unlink" ELSE "rename") /\ P = l.plan \ {m}
            OBVIOUS
          <5>3. PICK new : new = [l EXCEPT !.plan = P, !.move = m, !.stage = s] /\ loads' = (loads \ {l}) \cup {new}
            BY <5>1, <5>2 DEF Updated
          <5>4. new.found = l.found
            BY <2>l, <5>3
          <5> QED
            BY <3>f, <5>3, <5>4
        <4> QED
          BY <4>1, <4>2
      <3>3. CASE MigrationMoves(l)
        <4>1. PICK new : /\ new \in {[l EXCEPT !.stage = "sync"], [l EXCEPT !.stage = "unlink"],
                                     [l EXCEPT !.stage = "next", !.move = NoDraft]}
                         /\ loads' = (loads \ {l}) \cup {new}
          BY <3>3 DEF MigrationMoves, MoveSteps, Updated
        <4>2. new.found = l.found
          BY <2>l, <4>1
        <4> QED
          BY <3>f, <4>1, <4>2
      <3>4. CASE MigrationFails(l)
        <4>1. PICK new : new = [l EXCEPT !.ok = FALSE, !.stage = "reply"] /\ loads' = (loads \ {l}) \cup {new}
          BY <3>4 DEF MigrationFails, Updated
        <4>2. new.found = l.found
          BY <2>l, <4>1
        <4> QED
          BY <3>f, <4>1, <4>2
      <3>5. CASE LoadScans(l)
        <4>1. PICK new : /\ new \in {[l EXCEPT !.found = Scanned, !.stage = "reply"], [l EXCEPT !.ok = FALSE, !.stage = "reply"]}
                         /\ loads' = (loads \ {l}) \cup {new}
          BY <3>5 DEF LoadScans, Updated
        <4>2. new.found \in {l.found, Scanned}
          BY <2>l, <4>1
        <4> QED
          BY <3>f, <4>1, <4>2
      <3> QED
        BY <1>2, <3>1, <3>2, <3>3, <3>4, <3>5
    <2>2. \A e \in Scanned : \E q \in Paths : e.text \in after[q]
      <3>1. Named \subseteq Paths /\ Legacy \subseteq Paths
        BY PathsDiffer
      <3> QED
        BY <1>t, <3>1 DEF Scanned, JsonEntries, FilesFit
    <2>3. LoadsWritten'
      BY <1>n, <2>1, <2>2 DEF OnlyWritten, LoadsWritten, FilesWritten
    <2>4. FilesWritten'
      <3>1. CASE after' = after
        BY <1>n, <3>1, WrittenStays
      <3>2. CASE MigrationMoves(l)
        <4>1. \A p \in Paths : \A x \in after'[p] : x \in after[p] \/ x = Absent \/ \E q \in Paths : x \in after[q]
          <5>1. CASE l.stage = "rename" /\ Renamed(l.move.path, l.move.text)
            <6>1. l.move \in DraftMoves /\ disk[l.move.from] = l.move.text
              BY <5>1 DEF DraftInv, MigrationFollows, MoveFollows, ToMove
            <6>2. l.move.from \in Paths /\ l.move.text \in after[l.move.from]
              BY <1>t, <6>1, PathsDiffer DEF DraftMoves, FilesFit
            <6> QED
              BY <1>t, <5>1, <6>2 DEF Renamed, FilesFit
          <5>2. CASE SyncDirectory("drafts")
            BY <1>t, <5>2, SyncFits
          <5>3. CASE RemoveFile(l.move.from)
            BY <1>t, <5>3 DEF RemoveFile, FilesFit
          <5> QED
            BY <3>2, <5>1, <5>2, <5>3 DEF MigrationMoves, MoveSteps
        <4> QED
          BY <1>n, <4>1, NotWritten DEF OnlyWritten, FilesWritten
      <3> QED
        BY <1>2, <3>1, <3>2 DEF MigrationPlans, MigrationPicks, MigrationFails, LoadScans
    <2> QED
      BY <1>n, <1>o, <2>u, <2>3, <2>4, WrittenStays DEF OnlyWritten
  <1> QED
    BY <1>1, <1>2

(* A save or a deletion begins, and its worker writes and removes files. *)
LEMMA BeginsWrite ==
  ASSUME DraftInv, OnlyWritten,
         SaveBegins \/ (\E d \in SavedDrafts, kind \in {"deleteActive", "deleteNamed"} : DeleteBegins(kind, d))
  PROVE  OnlyWritten'
  <1>t. OpFits /\ UiFits /\ AutoFits /\ after' = after /\ ui' = ui /\ loads' = loads /\ rec' = rec
    BY DEF DraftInv, DraftTypes, SaveBegins, DeleteBegins
  <1>n. count.typed \in Nat /\ count'.typed \in Nat /\ count'.typed = count.typed
    BY NothingTyped DEF SaveBegins, DeleteBegins, Began
  <1>o. FilesWritten' /\ UiWritten' /\ LoadsWritten' /\ RecWritten'
    BY <1>t, <1>n, WrittenStays
  <1>1. op'.text \in {ui.text, Empty}
    <2>1. CASE SaveBegins
      <3>1. op' \in {[NoOp EXCEPT !.kind = "finalize", !.stage = "cleanup"],
                     [kind |-> "save", stage |-> "flush", text |-> ui.text, path |-> NoPath, prev |-> ui.active]}
        BY <2>1 DEF SaveBegins, Began
      <3>2. [NoOp EXCEPT !.kind = "finalize", !.stage = "cleanup"].text = Empty
        BY DEF NoOp
      <3>3. [kind |-> "save", stage |-> "flush", text |-> ui.text, path |-> NoPath, prev |-> ui.active].text = ui.text
        OBVIOUS
      <3> QED
        BY <3>1, <3>2, <3>3
    <2>2. ASSUME NEW d \in SavedDrafts, NEW kind \in {"deleteActive", "deleteNamed"}, DeleteBegins(kind, d)
          PROVE  op'.text = ui.text
      <3>1. op' = [kind |-> kind, stage |-> "remove", text |-> ui.text, path |-> d.path, prev |-> d]
        BY <2>2 DEF DeleteBegins, Began
      <3> QED
        BY <3>1
    <2> QED
      BY <2>1, <2>2
  <1>2. OpWritten'
    BY <1>n, <1>1, NotWritten DEF OnlyWritten, OpWritten, UiWritten
  <1>3. AutoWritten'
    <2>1. auto' \in {auto, FlushText(ClearRecoveryFile), FlushText(ui.text)}
      BY DEF SaveBegins, DeleteBegins
    <2>2. auto'.pending \in {auto.pending, NoAction} /\ auto'.urgent \in {auto.urgent, ClearRecoveryFile, ui.text}
          /\ auto'.write = auto.write
      BY <1>t, <2>1 DEF FlushText, AutoFits
    <2> QED
      BY <1>n, <2>2, NotWritten DEF OnlyWritten, AutoWritten, UiWritten
  <1> QED
    BY <1>o, <1>2, <1>3 DEF OnlyWritten

LEMMA WorkersWrite ==
  ASSUME DraftInv, OnlyWritten, SavePlaces \/ SaveWrites \/ WorkerFails \/ DeleteRemoves
  PROVE  OnlyWritten'
  <1>t. OpFits /\ FilesFit /\ auto' = auto /\ ui' = ui /\ loads' = loads /\ rec' = rec /\ mode' = mode
    BY DEF DraftInv, DraftTypes, SavePlaces, SaveWrites, WorkerFails, DeleteRemoves, WorkerKeeps
  <1>n. count.typed \in Nat /\ count'.typed \in Nat /\ count'.typed = count.typed
    BY NothingTyped DEF SavePlaces, SaveWrites, WorkerFails, DeleteRemoves, WorkerKeeps
  <1>o. AutoWritten' /\ UiWritten' /\ LoadsWritten' /\ RecWritten'
    BY <1>t, <1>n, WrittenStays
  <1>1. op'.text = op.text
    <2>1. (\E s : Worked(s)) \/ (\E p : op' = [op EXCEPT !.path = p, !.stage = "rename"])
      BY DEF SavePlaces, SaveWrites, WorkerFails, DeleteRemoves
    <2> QED
      BY <1>t, <2>1 DEF Worked, OpFits
  <1>2. OpWritten'
    BY <1>n, <1>1, WrittenStays
  <1>3. \A p \in Paths : \A x \in after'[p] : x \in after[p] \/ x = op.text \/ x = Absent \/ x = Torn
    <2>1. \/ after' = after
          \/ SyncDirectory("drafts")
          \/ \E p : RemoveFile(p) \/ Renamed(p, op.text) \/ RenamedIntoMaildir(p, op.text)
      BY DEF SavePlaces, SaveWrites, WorkerFails, DeleteRemoves, KeepFiles
    <2>2. ASSUME NEW p, RemoveFile(p) \/ Renamed(p, op.text) \/ RenamedIntoMaildir(p, op.text), NEW q \in Paths, NEW x \in after'[q]
          PROVE  x \in after[q] \/ x = op.text \/ x = Absent \/ x = Torn
      BY <1>t, <2>2 DEF RemoveFile, Renamed, RenamedIntoMaildir, FilesFit
    <2>3. SyncDirectory("drafts") => \A q \in Paths : after'[q] \subseteq after[q]
      BY <1>t, SyncFits
    <2> QED
      BY <2>1, <2>2, <2>3
  <1>4. FilesWritten'
    BY <1>n, <1>3, NotWritten DEF OnlyWritten, FilesWritten, OpWritten
  <1> QED
    BY <1>o, <1>2, <1>4 DEF OnlyWritten

(* The window answers a worker. *)
LEMMA AnswersWrite ==
  ASSUME DraftInv, OnlyWritten, SaveArrives \/ ActiveDeleteArrives \/ NamedDeleteArrives \/ FailureArrives
  PROVE  OnlyWritten'
  <1>t. OpFits /\ UiFits /\ AutoFits /\ after' = after /\ rec' = rec
    BY DEF DraftInv, DraftTypes, SaveArrives, ActiveDeleteArrives, NamedDeleteArrives, FailureArrives
  <1>n. count.typed \in Nat /\ count'.typed \in Nat /\ count'.typed = count.typed
    BY NothingTyped DEF SaveArrives, ActiveDeleteArrives, NamedDeleteArrives, FailureArrives
  <1>o. FilesWritten' /\ RecWritten'
    BY <1>t, <1>n, WrittenStays
  <1>1. OpWritten'
    <2>1. op' = NoOp \/ (\E s : Worked(s)) \/ (\E k : op' = [op EXCEPT !.stage = "cleanup", !.kind = k])
      BY DEF SaveArrives, ActiveDeleteArrives, NamedDeleteArrives, FailureArrives
    <2>2. op'.text \in {op.text, Empty}
      <3>1. CASE op' = NoOp
        BY <3>1 DEF NoOp
      <3>2. ASSUME NEW s, Worked(s) PROVE op'.text = op.text
        BY <1>t, <3>2 DEF Worked, OpFits
      <3>3. ASSUME NEW k, op' = [op EXCEPT !.stage = "cleanup", !.kind = k] PROVE op'.text = op.text
        BY <1>t, <3>3 DEF OpFits
      <3> QED
        BY <2>1, <3>1, <3>2, <3>3
    <2> QED
      BY <1>n, <2>2, NotWritten DEF OnlyWritten, OpWritten
  <1>2. AutoWritten'
    <2>1. \/ auto' = auto
          \/ \E d : auto' = FlushText(RecoveryActionFor(ui.text, d)) \/ auto' = ScheduleText(RecoveryActionFor(ui.text, d))
          \/ auto' = FlushText(ClearRecoveryFile)
      <3>1. CASE SaveArrives \/ FailureArrives \/ NamedDeleteArrives
        BY <3>1 DEF SaveArrives, FailureArrives, NamedDeleteArrives
      <3>2. CASE ActiveDeleteArrives
        BY <3>2 DEF ActiveDeleteArrives
      <3> QED
        BY <3>1, <3>2
    <2>2. ASSUME NEW a, WrittenBy(a, count.typed), auto' = FlushText(a) \/ auto' = ScheduleText(a) PROVE AutoWritten'
      BY <1>t, <1>n, <2>2, NotWritten DEF FlushText, ScheduleText, AutoFits, OnlyWritten, AutoWritten
    <2>3. \A d : WrittenBy(RecoveryActionFor(ui.text, d), count.typed)
      BY <1>t, ActionWritten DEF UiFits, OnlyWritten, UiWritten
    <2> QED
      BY <1>n, <2>1, <2>2, <2>3, WrittenStays, NotWritten
  <1>3. /\ ui'.text = ui.text
        /\ \A e \in ui'.list : e \in ui.list \/ e.text = op.text
        /\ \A l \in loads' : l \in loads \/ l.found = {}
    <2>1. CASE SaveArrives
      <3>1. ui'.text = ui.text /\ ui'.list = SavedList(ui) /\ loads' = loads
        BY <1>t, <2>1 DEF SaveArrives, UiFits
      <3>2. \A e \in SavedList(ui) : e \in ui.list \/ e = [path |-> op.path, text |-> op.text]
        BY DEF SavedList, Without
      <3> QED
        BY <3>1, <3>2
    <2>2. CASE ActiveDeleteArrives
      <3>1. ui'.text = ui.text /\ ui'.list = Without(ui.list, op.path) /\ loads' = loads
        BY <1>t, <2>2 DEF ActiveDeleteArrives, UiFits
      <3> QED
        BY <3>1 DEF Without
    <2>3. CASE NamedDeleteArrives
      <3>1. PICK u : /\ u = [ui EXCEPT !.list = Without(@, op.path), !.active = IF ui.active.path = op.path THEN NoDraft ELSE @]
                     /\ ui' = Begin(u, loads).u /\ loads' = Begin(u, loads).l
        BY <2>3 DEF NamedDeleteArrives
      <3>2. u.text = ui.text /\ u.list = Without(ui.list, op.path)
        BY <1>t, <3>1 DEF UiFits
      <3>3. Begin(u, loads).u.text = u.text /\ Begin(u, loads).u.list = u.list
            /\ \A l \in Begin(u, loads).l : l \in loads \/ l.found = {}
        BY <1>t, <3>1 DEF Begin, UiFits
      <3> QED
        BY <3>1, <3>2, <3>3 DEF Without
    <2>4. CASE FailureArrives
      BY <2>4 DEF FailureArrives
    <2> QED
      BY <2>1, <2>2, <2>3, <2>4
  <1>4. UiWritten' /\ LoadsWritten'
    BY <1>n, <1>3 DEF OnlyWritten, UiWritten, OpWritten, LoadsWritten
  <1> QED
    BY <1>o, <1>1, <1>2, <1>4 DEF OnlyWritten

LEMMA WriterAnswerWrites ==
  ASSUME DraftInv, OnlyWritten, AutosaveArrives
  PROVE  OnlyWritten'
  <1>t. OpFits /\ UiFits /\ AutoFits /\ after' = after /\ rec' = rec
    BY DEF DraftInv, DraftTypes, AutosaveArrives
  <1>n. count.typed \in Nat /\ count'.typed \in Nat /\ count'.typed = count.typed
    BY NothingTyped DEF AutosaveArrives
  <1>o. FilesWritten' /\ RecWritten'
    BY <1>t, <1>n, WrittenStays
  <1>1. AutoWritten'
    <2>1. PICK k : auto' = [auto EXCEPT !.write = NoWrite, !.kept = k]
      BY DEF AutosaveArrives
    <2>2. auto'.pending = auto.pending /\ auto'.urgent = auto.urgent /\ auto'.write.act = NoAction
      BY <1>t, <2>1 DEF AutoFits, NoWrite
    <2> QED
      BY <1>n, <2>2, NotWritten DEF OnlyWritten, AutoWritten
  <1>2. OpWritten'
    <2>1. op' \in {op, NoOp, [op EXCEPT !.stage = "place"]}
      BY DEF AutosaveArrives, FlushAnswers
    <2>2. op'.text \in {op.text, Empty}
      BY <1>t, <2>1 DEF NoOp, OpFits
    <2> QED
      BY <1>n, <2>2, NotWritten DEF OnlyWritten, OpWritten
  <1>3. ui'.text \in {ui.text, Empty} /\ ui'.list = ui.list /\ \A l \in loads' : l \in loads \/ l.found = {}
    <2>1. \/ loads' = loads /\ ui' \in {ui, [ui EXCEPT !.text = Empty]}
          \/ ui' = Begin(ui, loads).u /\ loads' = Begin(ui, loads).l
      BY DEF AutosaveArrives, FlushAnswers
    <2>2. Begin(ui, loads).u.text = ui.text /\ Begin(ui, loads).u.list = ui.list
          /\ \A l \in Begin(ui, loads).l : l \in loads \/ l.found = {}
      BY <1>t DEF Begin, UiFits
    <2> QED
      BY <1>t, <2>1, <2>2 DEF UiFits
  <1>4. UiWritten' /\ LoadsWritten'
    BY <1>n, <1>3, NotWritten DEF OnlyWritten, UiWritten, LoadsWritten
  <1> QED
    BY <1>o, <1>1, <1>2, <1>4 DEF OnlyWritten

(* The composer and the startup recovery. *)
LEMMA ComposerWrites ==
  ASSUME DraftInv, OnlyWritten,
         Type \/ (\E e \in ui.list : LoadNamed(e)) \/ RecoveryReads \/ RecoveryArrives
  PROVE  OnlyWritten'
  <1>t. FilesFit /\ UiFits /\ AutoFits /\ RestFits /\ after' = after /\ op' = op /\ loads' = loads
    BY DEF DraftInv, DraftTypes, Type, LoadNamed, RecoveryReads, RecoveryArrives
  <1>c. count \in [typed : Nat, saves : Nat, faults : Nat, crashes : Nat]
    BY <1>t DEF RestFits
  <1>1. CASE Type
    <2>1. count' = [count EXCEPT !.typed = @ + 1]
      BY <1>1 DEF Type
    <2>2. count'.typed = count.typed + 1 /\ count.typed \in Nat /\ count'.typed \in Nat /\ count.typed <= count'.typed
      BY <1>c, <2>1
    <2>3. PICK t : t = 3 + count.typed
      OBVIOUS
    <2>4. ui' = [ui EXCEPT !.text = t] /\ auto' = ScheduleText(t)
      BY <1>1, <2>3 DEF Type
    <2>5. ui'.text = t /\ ui'.list = ui.list /\ auto'.pending = t /\ auto'.urgent = auto.urgent /\ auto'.write = auto.write
      BY <1>t, <2>4 DEF UiFits, AutoFits, ScheduleText
    <2>6. WrittenBy(t, count'.typed)
      BY <2>2, <2>3 DEF WrittenBy
    <2>7. rec'.text = rec.text
      BY <1>1, <1>t DEF Type, Supersede, RestFits
    <2>8. /\ \A x : WrittenBy(x, count.typed) => WrittenBy(x, count'.typed)
          /\ FilesWritten' /\ OpWritten' /\ LoadsWritten' /\ RecWritten'
      BY <1>t, <2>2, <2>7, WrittenStays
    <2>9. UiWritten' /\ AutoWritten'
      BY <2>5, <2>6, <2>8 DEF OnlyWritten, UiWritten, AutoWritten
    <2> QED
      BY <2>8, <2>9 DEF OnlyWritten
  <1>2. CASE count' = count
    <2>n. count.typed \in Nat /\ count'.typed \in Nat /\ count'.typed = count.typed
      BY <1>2, NothingTyped
    <2>o. FilesWritten' /\ OpWritten' /\ LoadsWritten'
      BY <1>t, <2>n, WrittenStays
    <2>1. ASSUME NEW e \in ui.list, LoadNamed(e) PROVE OnlyWritten'
      <3>1. ui'.text = e.text /\ ui'.list = ui.list
        BY <1>t, <2>1 DEF LoadNamed, UiFits
      <3>2. auto'.pending = ClearRecoveryFile /\ auto'.urgent = auto.urgent /\ auto'.write = auto.write
        BY <1>t, <2>1 DEF LoadNamed, ScheduleText, AutoFits
      <3>3. rec'.text = rec.text
        BY <1>t, <2>1 DEF LoadNamed, Supersede, RestFits
      <3>4. UiWritten' /\ AutoWritten' /\ RecWritten'
        BY <2>n, <3>1, <3>2, <3>3, NotWritten DEF OnlyWritten, UiWritten, AutoWritten, RecWritten
      <3> QED
        BY <2>o, <3>4 DEF OnlyWritten
    <2>2. CASE RecoveryReads
      <3>1. ui' = ui /\ auto' = auto
        BY <2>2 DEF RecoveryReads
      <3>2. PICK t : t = IF disk[Recovery] # Absent THEN disk[Recovery] ELSE disk[OldRecovery]
        OBVIOUS
      <3>3. rec' = [rec EXCEPT !.phase = "read", !.text = t]
        BY <2>2, <3>2 DEF RecoveryReads
      <3>4. rec'.text = t
        BY <1>t, <3>3 DEF RestFits
      <3>5. \E q \in Paths : t \in after[q]
        BY <1>t, <3>2, PathsDiffer DEF FilesFit
      <3>6. RecWritten'
        BY <2>n, <3>4, <3>5 DEF OnlyWritten, FilesWritten, RecWritten
      <3> QED
        BY <2>n, <2>o, <3>1, <3>6, WrittenStays DEF OnlyWritten
    <2>3. CASE RecoveryArrives
      <3>1. rec'.text = Absent
        BY <2>3 DEF RecoveryArrives
      <3>2. RecWritten'
        BY <3>1, NotWritten DEF RecWritten
      <3>3. UiWritten' /\ AutoWritten'
        <4>1. CASE ui' = ui /\ auto' = auto
          BY <2>n, <4>1, WrittenStays
        <4>2. CASE ui' = [ui EXCEPT !.text = rec.text, !.active = NoDraft] /\ auto' = ScheduleText(rec.text)
          <5>1. ui'.text = rec.text /\ ui'.list = ui.list
            BY <1>t, <4>2 DEF UiFits
          <5>2. auto'.pending = rec.text /\ auto'.urgent = auto.urgent /\ auto'.write = auto.write
            BY <1>t, <4>2 DEF ScheduleText, AutoFits
          <5> QED
            BY <2>n, <5>1, <5>2 DEF OnlyWritten, UiWritten, AutoWritten, RecWritten
        <4> QED
          BY <2>3, <4>1, <4>2 DEF RecoveryArrives
      <3> QED
        BY <2>o, <3>2, <3>3 DEF OnlyWritten
    <2>4. ASSUME Type PROVE FALSE
      <3>1. count' = [count EXCEPT !.typed = @ + 1]
        BY <2>4 DEF Type
      <3>2. count'.typed = count.typed + 1 /\ count.typed \in Nat
        BY <1>c, <3>1
      <3> QED
        BY <1>2, <3>2
    <2> QED
      BY <2>1, <2>2, <2>3, <2>4
  <1> QED
    BY <1>1, <1>2 DEF LoadNamed, RecoveryReads, RecoveryArrives

LEMMA DeathWrites ==
  ASSUME DraftInv, EarlierInv, OnlyWritten, EarlierWritten, ProcessDies \/ PowerFails
  PROVE  OnlyWritten' /\ EarlierWritten'
  <1>t. FilesFit /\ ui' = StartedUi /\ op' = NoOp /\ auto' = StartedAuto /\ loads' = StartedLoads /\ rec' = StartedRec
    BY DEF DraftInv, DraftTypes, ProcessDies, PowerFails, Restarted
  <1>n. count.typed \in Nat /\ count'.typed \in Nat /\ count'.typed = count.typed
    BY NothingTyped DEF ProcessDies, PowerFails, Restarted
  <1>1. UiWritten' /\ OpWritten' /\ AutoWritten' /\ LoadsWritten' /\ RecWritten'
    BY <1>t, NotWritten DEF UiWritten, OpWritten, AutoWritten, LoadsWritten, RecWritten, StartedUi, NoOp, StartedAuto,
       NoWrite, StartedLoads, StartedRec
  <1>2. \A p \in Paths : /\ after'[p] \subseteq after[p] \cup earlier[p]
                         /\ earlier'[p] \subseteq after[p] \cup earlier[p]
    <2>1. CASE ProcessDies
      BY <1>t, <2>1 DEF ProcessDies, FilesFit
    <2>2. CASE PowerFails
      <3>1. PICK open \in SUBSET Paths : \E f :
                            /\ \A p \in open : f[p] \in after[p] \cup earlier[p]
                            /\ disk' = [p \in Paths |-> IF p \in open THEN f[p] ELSE disk[p]]
                            /\ after' = [p \in Paths |-> {disk'[p]}]
                            /\ earlier' = [p \in Paths |-> {}]
        BY <2>2 DEF PowerFails
      <3> QED
        BY <1>t, <3>1 DEF FilesFit
    <2> QED
      BY <2>1, <2>2
  <1>3. FilesWritten' /\ EarlierWritten'
    BY <1>n, <1>2 DEF OnlyWritten, FilesWritten, EarlierWritten
  <1> QED
    BY <1>1, <1>3 DEF OnlyWritten

LEMMA EarlierWrittenKept ==
  ASSUME DraftInv, EarlierInv, OnlyWritten, EarlierWritten, DraftNext
  PROVE  EarlierWritten'
  <1>1. CASE ProcessDies \/ PowerFails
    BY <1>1, DeathWrites
  <1>2. CASE ~ProcessDies /\ ~PowerFails
    <2>1. \A p \in Paths : earlier'[p] \subseteq earlier[p]
      BY <1>2, EarlierShrinks DEF EarlierInv
    <2>2. \/ count' = count
          \/ \E k \in {"faults", "saves", "crashes", "typed"} : count' = [count EXCEPT ![k] = @ + 1]
      <3>1. CASE AutosaveStarts \/ AutosaveSteps \/ AutosaveFails \/ AutosaveArrives
        BY <3>1 DEF AutosaveStarts, AutosaveSteps, AutosaveFails, AutosaveArrives
      <3>2. ASSUME NEW l \in loads,
                   \/ MigrationPlans(l) \/ MigrationPicks(l) \/ MigrationMoves(l) \/ MigrationFails(l)
                   \/ LoadScans(l) \/ LoadArrives(l)
            PROVE  count' = count \/ count' = [count EXCEPT !["faults"] = @ + 1]
        BY <3>2 DEF MigrationPlans, MigrationPicks, MigrationMoves, MigrationFails, LoadScans, LoadArrives
      <3>3. CASE SaveBegins \/ SavePlaces \/ SaveWrites \/ WorkerFails \/ DeleteRemoves
        BY <3>3 DEF SaveBegins, Began, SavePlaces, SaveWrites, WorkerFails, WorkerKeeps, DeleteRemoves
      <3>4. ASSUME NEW kind, NEW d, DeleteBegins(kind, d) \/ LoadNamed(d)
            PROVE  count' = count \/ count' = [count EXCEPT !["saves"] = @ + 1]
        BY <3>4 DEF DeleteBegins, Began, LoadNamed
      <3>5. CASE SaveArrives \/ ActiveDeleteArrives \/ NamedDeleteArrives \/ FailureArrives
        BY <3>5 DEF SaveArrives, ActiveDeleteArrives, NamedDeleteArrives, FailureArrives
      <3>6. CASE Type \/ RecoveryReads \/ RecoveryArrives
        BY <3>6 DEF Type, RecoveryReads, RecoveryArrives
      <3> QED
        BY <1>2, <3>1, <3>2, <3>3, <3>4, <3>5, <3>6 DEF DraftNext
    <2>3. count \in [typed : Nat, saves : Nat, faults : Nat, crashes : Nat]
      BY DEF DraftInv, DraftTypes, RestFits
    <2>4. count.typed \in Nat /\ count'.typed \in Nat /\ count.typed <= count'.typed
      BY <2>2, <2>3
    <2>5. \A x : WrittenBy(x, count.typed) => WrittenBy(x, count'.typed)
      BY <2>4, WrittenStays
    <2> QED
      BY <2>1, <2>5 DEF EarlierWritten
  <1> QED
    BY <1>1, <1>2

LEMMA OnlyWrittenKept ==
  ASSUME DraftInv, DraftInv', EarlierInv, OnlyWritten, EarlierWritten, DraftNext
  PROVE  OnlyWritten'
  <1>1. CASE AutosaveStarts \/ AutosaveSteps \/ AutosaveFails
    BY <1>1, WriterWrites
  <1>2. CASE AutosaveArrives
    BY <1>2, WriterAnswerWrites
  <1>3. CASE \E l \in loads :
          \/ MigrationPlans(l) \/ MigrationPicks(l) \/ MigrationMoves(l) \/ MigrationFails(l)
          \/ LoadScans(l) \/ LoadArrives(l)
    BY <1>3, LoadsWrite
  <1>4. CASE SavePlaces \/ SaveWrites \/ WorkerFails \/ DeleteRemoves
    BY <1>4, WorkersWrite
  <1>5. CASE SaveBegins \/ (ui.active # NoDraft /\ DeleteBegins("deleteActive", ui.active))
             \/ (\E e \in ui.list : DeleteBegins("deleteNamed", e))
    <2>1. ui.list \subseteq SavedDrafts /\ ui.active \in SavedDrafts \cup {NoDraft}
      BY DEF DraftInv, DraftTypes, UiFits
    <2>2. SaveBegins \/ \E d \in SavedDrafts, kind \in {"deleteActive", "deleteNamed"} : DeleteBegins(kind, d)
      BY <1>5, <2>1
    <2> QED
      BY <2>2, BeginsWrite
  <1>6. CASE SaveArrives \/ ActiveDeleteArrives \/ NamedDeleteArrives \/ FailureArrives
    BY <1>6, AnswersWrite
  <1>7. CASE Type \/ (\E e \in ui.list : LoadNamed(e)) \/ RecoveryReads \/ RecoveryArrives
    BY <1>7, ComposerWrites DEF DraftInv, DraftTypes
  <1>8. CASE ProcessDies \/ PowerFails
    BY <1>8, DeathWrites
  <1> QED
    BY <1>1, <1>2, <1>3, <1>4, <1>5, <1>6, <1>7, <1>8 DEF DraftNext

LEMMA UntouchedKept ==
  ASSUME DraftInv, Untouched, DraftNext
  PROVE  Untouched'
  <1>t. OpFits /\ UiFits /\ RestFits /\ LoadsFit
    BY DEF DraftInv, DraftTypes
  <1>k. ASSUME rec'.phase # "idle" => rec.phase # "idle", rec'.superseded = rec.superseded,
               ui'.text \in {ui.text, Empty}, ui'.active \in {ui.active, NoDraft},
               op'.kind = op.kind \/ op'.kind # "save"
        PROVE  Untouched'
    BY <1>k DEF Untouched
  <1>1. CASE AutosaveStarts \/ AutosaveSteps \/ AutosaveFails
    BY <1>1, <1>k DEF AutosaveStarts, AutosaveSteps, AutosaveFails
  <1>2. CASE AutosaveArrives
    <2>1. \/ loads' = loads /\ ui' \in {ui, [ui EXCEPT !.text = Empty]}
          \/ ui' = Begin(ui, loads).u /\ loads' = Begin(ui, loads).l
      BY <1>2 DEF AutosaveArrives, FlushAnswers
    <2>2. ui'.text \in {ui.text, Empty} /\ ui'.active = ui.active
      BY <1>t, <2>1 DEF Begin, UiFits
    <2>3. op' \in {op, NoOp, [op EXCEPT !.stage = "place"]}
      BY <1>2 DEF AutosaveArrives, FlushAnswers
    <2>4. op'.kind = op.kind \/ op'.kind # "save"
      BY <1>t, <2>3 DEF NoOp, OpFits
    <2> QED
      BY <1>2, <1>k, <2>2, <2>4 DEF AutosaveArrives
  <1>3. ASSUME NEW l \in loads,
               \/ MigrationPlans(l) \/ MigrationPicks(l) \/ MigrationMoves(l) \/ MigrationFails(l) \/ LoadScans(l)
        PROVE  Untouched'
    BY <1>3, <1>k DEF MigrationPlans, MigrationPicks, MigrationMoves, MigrationFails, LoadScans
  <1>4. ASSUME NEW l \in loads, LoadArrives(l) PROVE Untouched'
    <2>1. ui'.text = ui.text /\ ui'.active = ui.active
      BY <1>4, <1>t DEF LoadArrives, UiFits
    <2> QED
      BY <1>4, <1>k, <2>1 DEF LoadArrives
  <1>5. CASE SavePlaces \/ SaveWrites \/ WorkerFails \/ DeleteRemoves
    <2>1. (\E s : Worked(s)) \/ (\E p : op' = [op EXCEPT !.path = p, !.stage = "rename"])
      BY <1>5 DEF SavePlaces, SaveWrites, WorkerFails, DeleteRemoves
    <2>2. op'.kind = op.kind
      BY <1>t, <2>1 DEF Worked, OpFits
    <2> QED
      BY <1>5, <1>k, <2>2 DEF SavePlaces, SaveWrites, WorkerFails, DeleteRemoves, WorkerKeeps
  <1>6. CASE SaveBegins
    <2>1. op = NoOp /\ ui.text # Empty /\ rec' = rec /\ ui' = ui
      BY <1>6 DEF SaveBegins, PersistenceAllowed
    <2> QED
      BY <2>1 DEF Untouched
  <1>7. ASSUME NEW d, NEW kind \in {"deleteActive", "deleteNamed"}, DeleteBegins(kind, d) PROVE Untouched'
    <2>1. op'.kind # "save"
      BY <1>7 DEF DeleteBegins, Began
    <2> QED
      BY <1>7, <1>k, <2>1 DEF DeleteBegins
  <1>8. CASE SaveArrives
    <2>1. op.kind = "save" /\ op'.kind = op.kind /\ rec' = rec
      BY <1>8, <1>t DEF SaveArrives, Worked, OpFits
    <2> QED
      BY <2>1 DEF Untouched
  <1>9. CASE ActiveDeleteArrives
    <2>1. op.kind = "deleteActive" /\ rec' = rec
      BY <1>9 DEF ActiveDeleteArrives
    <2>2. PICK k \in {"deleteActive", "deleteKept"} : op' = [op EXCEPT !.stage = "cleanup", !.kind = k]
      BY <1>9, <2>1 DEF ActiveDeleteArrives
    <2>3. op'.kind # "save"
      BY <1>t, <2>2 DEF OpFits
    <2>4. PICK d \in {ui.active, NoDraft} : ui' = [ui EXCEPT !.list = Without(@, op.path), !.active = d]
      BY <1>9 DEF ActiveDeleteArrives
    <2>5. ui'.text = ui.text /\ ui'.active = d
      BY <1>t, <2>4 DEF UiFits
    <2> QED
      BY <1>k, <2>1, <2>3, <2>5
  <1>10. CASE NamedDeleteArrives
    <2>1. PICK d \in {ui.active, NoDraft} :
            ui' = Begin([ui EXCEPT !.list = Without(@, op.path), !.active = d], loads).u
      BY <1>10 DEF NamedDeleteArrives
    <2>2. PICK u : u = [ui EXCEPT !.list = Without(@, op.path), !.active = d]
      OBVIOUS
    <2>3. u.text = ui.text /\ u.active = d
      BY <1>t, <2>2 DEF UiFits
    <2>4. Begin(u, loads).u.text = u.text /\ Begin(u, loads).u.active = u.active
      BY <1>t, <2>2 DEF Begin, UiFits
    <2>5. op'.kind # "save" /\ rec' = rec
      BY <1>10 DEF NamedDeleteArrives, NoOp
    <2> QED
      BY <1>k, <2>1, <2>2, <2>3, <2>4, <2>5
  <1>11. CASE FailureArrives
    BY <1>11, <1>k DEF FailureArrives, NoOp
  <1>12. ASSUME Supersede PROVE Untouched'
    <2>1. rec'.phase # "idle" => rec'.superseded
      BY <1>12, <1>t DEF Supersede, RestFits
    <2> QED
      BY <2>1 DEF Untouched
  <1>13. CASE RecoveryReads
    <2>1. rec'.superseded = rec.superseded
      BY <1>13, <1>t DEF RecoveryReads, RestFits
    <2> QED
      BY <1>13, <1>k, <2>1 DEF RecoveryReads
  <1>14. CASE RecoveryArrives
    BY <1>14 DEF RecoveryArrives, Untouched
  <1>15. CASE ProcessDies \/ PowerFails
    BY <1>15 DEF ProcessDies, PowerFails, Restarted, StartedUi, NoOp, Untouched
  <1> QED
    BY <1>1, <1>2, <1>3, <1>4, <1>5, <1>6, <1>7, <1>8, <1>9, <1>10, <1>11, <1>12, <1>13, <1>14, <1>15
       DEF DraftNext, Type, LoadNamed

(* The boundary before a save, while neither the save nor the writer moves. *)
LEMMA BoundaryStays ==
  ASSUME FilesFit, FilesFit', Boundary, mode' = mode, op' = op, auto' = auto, after'[Recovery] = after[Recovery],
         \A q \in Stores : disk'[q] = disk[q] /\ after'[q] = after[q]
  PROVE  Boundary'
  BY DEF Boundary, Later, Keeps

LEMMA WriterHoldsBoundary ==
  ASSUME DraftInv, DraftInv', Boundary, AutosaveStarts \/ AutosaveSteps \/ AutosaveFails
  PROVE  Boundary'
  <1>t. FilesFit /\ AutoFits /\ OpFits /\ WriterFollows /\ OpFollows /\ op' = op /\ mode' = mode
    BY DEF DraftInv, DraftTypes, AutosaveStarts, AutosaveSteps, AutosaveFails
  <1>s. Recovery \in Paths /\ OldRecovery \in Paths /\ Recovery # OldRecovery /\ Stores \subseteq Paths
        /\ Recovery \notin Stores /\ OldRecovery \notin Stores
        /\ \A p \in Paths : Directory(p) = "recovery" <=> p = Recovery
    BY PathsDiffer
  <1> SUFFICES ASSUME op.kind = "save" PROVE Boundary'
    BY <1>t DEF Boundary
  <1>o. op.text \in Texts /\ op.text # NoAction
    BY <1>t, ContentsDiffer DEF OpFollows
  <1>b. /\ op.stage # "cleanup" => auto.pending = NoAction \/ Later(auto.pending)
        /\ op.stage = "flush" => auto.urgent = op.text \/ (auto.write.boundary /\ auto.write.act = op.text)
        /\ op.stage \notin {"flush", "cleanup"} =>
             /\ \A x \in after[Recovery] : Later(x)
             /\ auto.write.stage # "idle" => Later(auto.write.act)
        /\ op.stage = "cleanup" => op.path \in Stores /\ Keeps(op.path, {op.text})
    BY DEF Boundary
  <1>w. /\ auto.urgent # NoAction \/ auto.write.boundary <=> op.stage \in {"flush", "cleanup"}
        /\ auto.urgent = NoAction \/ ~auto.write.boundary
    BY <1>t DEF WriterFollows
  <1>1. CASE AutosaveStarts
    <2>1. auto.write = NoWrite /\ disk' = disk /\ after' = after
      BY <1>1 DEF AutosaveStarts
    <2>2. auto.write.boundary = FALSE
      BY <2>1 DEF NoWrite
    <2>3. CASE auto.urgent # NoAction
      <3>1. auto' = [auto EXCEPT !.urgent = NoAction,
                        !.write = [act |-> auto.urgent, boundary |-> TRUE, stage |-> "rename"]]
        BY <1>1, <2>3 DEF AutosaveStarts
      <3>2. auto'.pending = auto.pending /\ auto'.write = [act |-> auto.urgent, boundary |-> TRUE, stage |-> "rename"]
        BY <1>t, <3>1 DEF AutoFits
      <3>3. auto'.write.act = auto.urgent /\ auto'.write.boundary
        BY <3>2
      <3>4. op.stage \in {"flush", "cleanup"}
        BY <1>w, <2>3
      <3>5. op.stage = "flush" => auto'.write.act = op.text
        BY <1>b, <2>2, <3>3
      <3> QED
        BY <1>t, <1>b, <2>1, <3>2, <3>3, <3>4, <3>5 DEF Boundary, Later, Keeps
    <2>4. CASE auto.urgent = NoAction
      <3>1. auto' = [auto EXCEPT !.pending = NoAction,
                        !.write = [act |-> auto.pending, boundary |-> FALSE, stage |-> "rename"]]
            /\ auto.pending # NoAction
        BY <1>1, <2>4 DEF AutosaveStarts
      <3>2. auto'.pending = NoAction /\ auto'.write = [act |-> auto.pending, boundary |-> FALSE, stage |-> "rename"]
        BY <1>t, <3>1 DEF AutoFits
      <3>3. auto'.write.act = auto.pending
        BY <3>2
      <3>4. op.stage \notin {"flush", "cleanup"}
        BY <1>w, <2>2, <2>4
      <3> QED
        BY <1>t, <1>b, <2>1, <3>1, <3>2, <3>3, <3>4 DEF Boundary, Later
    <2> QED
      BY <2>3, <2>4
  <1>2. CASE AutosaveSteps \/ AutosaveFails
    <2>1. auto.write.stage \in {"rename", "sync", "legacy", "legacyOnly"}
      BY <1>2 DEF AutosaveSteps, AutosaveFails
    <2>2. /\ auto'.pending = auto.pending /\ auto'.urgent = auto.urgent
          /\ auto'.write.act = auto.write.act /\ auto'.write.boundary = auto.write.boundary
      <3>1. PICK s : auto' = [auto EXCEPT !.write.stage = s]
        BY <1>2 DEF AutosaveSteps, AutosaveFails, Staged
      <3> QED
        BY <1>t, <3>1 DEF AutoFits
    <2>3. \A q \in Stores : disk'[q] = disk[q] /\ after'[q] = after[q]
      <3>1. \A p \in {Recovery, OldRecovery} :
              RemoveFile(p) => \A q \in Stores : disk'[q] = disk[q] /\ after'[q] = after[q]
        BY <1>t, <1>s, RemoveFits
      <3>2. Renamed(Recovery, auto.write.act) => \A q \in Stores : disk'[q] = disk[q] /\ after'[q] = after[q]
        BY <1>t, <1>s DEF Renamed, FilesFit
      <3>3. SyncDirectory("recovery") => \A q \in Stores : disk'[q] = disk[q] /\ after'[q] = after[q]
        BY <1>t, <1>s, SyncFits
      <3> QED
        BY <1>2, <3>1, <3>2, <3>3 DEF AutosaveSteps, AutosaveFails
    <2>4. op.stage \notin {"flush", "cleanup"} => \A x \in after'[Recovery] : Later(x)
      <3> SUFFICES ASSUME op.stage \notin {"flush", "cleanup"}, NEW x \in after'[Recovery] PROVE Later(x)
        OBVIOUS
      <3>1. Later(auto.write.act) /\ \A y \in after[Recovery] : Later(y)
        BY <1>b, <2>1
      <3>2. CASE after' = after
        BY <3>1, <3>2
      <3>3. CASE auto.write.stage = "rename" /\ AutosaveSteps
        <4>1. auto.write.act # ClearRecoveryFile
          BY <3>1, ContentsDiffer DEF Later, ClearRecoveryFile
        <4>2. Renamed(Recovery, auto.write.act)
          BY <3>3, <4>1 DEF AutosaveSteps
        <4>3. x \in after[Recovery] \/ x = auto.write.act
          BY <1>t, <1>s, <4>2 DEF Renamed, FilesFit
        <4> QED
          BY <3>1, <4>3
      <3>4. CASE auto.write.stage # "rename" /\ AutosaveSteps
        <4>1. SyncDirectory("recovery") \/ RemoveFile(OldRecovery)
          BY <3>4 DEF AutosaveSteps
        <4>2. SyncDirectory("recovery") => after'[Recovery] \subseteq after[Recovery]
          BY <1>t, <1>s, SyncFits
        <4>3. RemoveFile(OldRecovery) => after'[Recovery] = after[Recovery]
          BY <1>t, <1>s, RemoveFits
        <4> QED
          BY <3>1, <4>1, <4>2, <4>3
      <3> QED
        BY <1>2, <3>2, <3>3, <3>4 DEF AutosaveFails
    <2>5. op.stage = "cleanup" => Keeps(op.path, {op.text})'
      BY <1>t, <1>b, <2>3 DEF Keeps
    <2> QED
      BY <1>t, <1>b, <2>1, <2>2, <2>4, <2>5 DEF Boundary, Later
  <1> QED
    BY <1>1, <1>2

LEMMA BoundaryAnswered ==
  ASSUME DraftInv, DraftInv', Boundary, AutosaveArrives
  PROVE  Boundary'
  <1>t. AutoFits /\ OpFits /\ WriterFollows /\ OpFollows /\ mode' = mode /\ disk' = disk /\ after' = after
    BY DEF DraftInv, DraftTypes, AutosaveArrives
  <1> SUFFICES ASSUME op'.kind = "save" PROVE Boundary'
    BY DEF Boundary
  <1>1. op' \in {op, [op EXCEPT !.stage = "place"]} /\ op' # NoOp
    BY DEF AutosaveArrives, FlushAnswers, NoOp
  <1>2. op.kind = "save" /\ op'.text = op.text /\ op'.path = op.path
    BY <1>t, <1>1 DEF OpFits
  <1>o. op.text \in Texts /\ op.text # NoAction /\ op.text # ClearRecoveryFile
    BY <1>t, <1>2, ContentsDiffer DEF OpFollows, ClearRecoveryFile
  <1>3. auto'.pending = auto.pending /\ auto'.urgent = auto.urgent /\ auto'.write = NoWrite
    <2>1. PICK k : auto' = [auto EXCEPT !.write = NoWrite, !.kept = k]
      BY DEF AutosaveArrives
    <2> QED
      BY <1>t, <2>1 DEF AutoFits
  <1>4. auto'.write.stage = "idle"
    BY <1>3 DEF NoWrite
  <1>w. /\ auto.urgent # NoAction \/ auto.write.boundary <=> op.stage \in {"flush", "cleanup"}
        /\ auto.urgent = NoAction \/ ~auto.write.boundary
    BY <1>t DEF WriterFollows
  <1>b. /\ op.stage # "cleanup" => auto.pending = NoAction \/ Later(auto.pending)
        /\ op.stage = "flush" => auto.urgent = op.text \/ (auto.write.boundary /\ auto.write.act = op.text)
        /\ op.stage \notin {"flush", "cleanup"} => \A x \in after[Recovery] : Later(x)
        /\ op.stage = "cleanup" => op.path \in Stores /\ Keeps(op.path, {op.text})
    BY <1>2 DEF Boundary
  <1>5. CASE auto.write.boundary
    <2>1. op.stage = "flush" /\ auto.write.stage = "ok" /\ op' = [op EXCEPT !.stage = "place"]
      BY <1>1, <1>2, <1>5, <1>w DEF AutosaveArrives, FlushAnswers, MaySave
    <2>2. op'.stage = "place"
      BY <1>t, <2>1 DEF OpFits
    <2>3. auto.write.act = op.text
      BY <1>5, <1>b, <1>o, <1>w, <2>1
    <2>4. after[Recovery] = {op.text}
      BY <1>t, <1>o, <2>1, <2>3 DEF WriterFollows, Outcome
    <2>5. Later(op.text)
      <3>1. op.text \in Nat
        BY <1>o, ContentsDiffer
      <3>2. op.text >= op.text
        BY <3>1
      <3> QED
        BY <1>o, <3>2 DEF Later
    <2> QED
      BY <1>t, <1>2, <1>3, <1>4, <1>b, <2>1, <2>2, <2>4, <2>5 DEF Boundary, Later
  <1>6. CASE ~auto.write.boundary
    <2>1. op' = op
      BY <1>6 DEF AutosaveArrives
    <2>2. op.stage = "flush" => auto.urgent = op.text
      BY <1>6, <1>b
    <2> QED
      BY <1>t, <1>3, <1>4, <1>b, <2>1, <2>2 DEF Boundary, Later, Keeps
  <1> QED
    BY <1>5, <1>6

LEMMA BoundaryWorks ==
  ASSUME DraftInv, DraftInv', Boundary, SavePlaces \/ SaveWrites \/ WorkerFails \/ DeleteRemoves
  PROVE  Boundary'
  <1>t. FilesFit /\ OpFits /\ OpFollows /\ auto' = auto /\ mode' = mode
    BY DEF DraftInv, DraftTypes, SavePlaces, SaveWrites, WorkerFails, DeleteRemoves, WorkerKeeps
  <1>s. /\ Recovery \in Paths /\ Stores \subseteq Paths /\ Recovery \notin Stores /\ Named \subseteq Stores /\ Mail \subseteq Stores
        /\ Directory(Recovery) # "drafts"
    BY PathsDiffer
  <1>1. (\E s \in {"err", "index", "sync", "old", "ok", "rollback"} : Worked(s))
          \/ (\E p : op' = [op EXCEPT !.path = p, !.stage = "rename"])
    BY DEF SavePlaces, SaveWrites, WorkerFails, DeleteRemoves, AfterWrite
  <1>2. op'.kind = op.kind /\ op'.text = op.text /\ op'.stage \notin {"flush", "cleanup"}
    BY <1>t, <1>1 DEF Worked, OpFits
  <1>3. op.stage \notin {"flush", "cleanup"}
    BY DEF SavePlaces, SaveWrites, WorkerFails, DeleteRemoves
  <1>4. ASSUME op.kind = "save" PROVE after'[Recovery] \subseteq after[Recovery]
    <2>1. CASE SavePlaces \/ WorkerFails
      BY <2>1 DEF SavePlaces, WorkerFails, KeepFiles
    <2>2. CASE DeleteRemoves
      BY <1>t, <1>4, <2>2 DEF DeleteRemoves, OpFollows
    <2>3. CASE SaveWrites
      <3>1. ASSUME NEW p \in Stores, RemoveFile(p) \/ Renamed(p, op.text) \/ RenamedIntoMaildir(p, op.text)
            PROVE  after'[Recovery] = after[Recovery]
        BY <1>t, <1>s, <3>1 DEF RemoveFile, Renamed, RenamedIntoMaildir, FilesFit
      <3>2. SyncDirectory("drafts") => after'[Recovery] = after[Recovery]
        BY <1>t, <1>s, SyncFits
      <3>3. op.stage = "rename" => op.path \in Stores
        <4>1. op.kind = "save" /\ op.stage = "rename" => op.path \in IF mode = "local" THEN Named ELSE Mail
          BY <1>t DEF OpFollows
        <4> QED
          BY <1>4, <1>s, <4>1
      <3>4. op.stage \in {"old", "rollback"} => op.path \in Stores /\ op.prev.path \in Stores
        BY <1>t, <1>4 DEF OpFollows
      <3> QED
        BY <2>3, <3>1, <3>2, <3>3, <3>4 DEF SaveWrites, KeepFiles
    <2> QED
      BY <2>1, <2>2, <2>3
  <1> QED
    BY <1>t, <1>2, <1>3, <1>4 DEF Boundary, Later

LEMMA BoundaryKept ==
  ASSUME DraftInv, DraftInv', SavingInv, DraftNext
  PROVE  Boundary'
  <1>t. FilesFit /\ FilesFit' /\ AutoFits /\ OpFits /\ UiFits /\ RestFits /\ WriterFollows /\ OpFollows /\ MigrationFollows
    BY DEF DraftInv, DraftTypes
  <1>i. OnlyWritten /\ Untouched /\ Boundary
    BY DEF SavingInv
  <1>k. ASSUME op'.kind # "save" PROVE Boundary'
    BY <1>k DEF Boundary
  <1>1. CASE AutosaveStarts \/ AutosaveSteps \/ AutosaveFails
    BY <1>1, <1>i, WriterHoldsBoundary
  <1>2. CASE AutosaveArrives
    BY <1>2, <1>i, BoundaryAnswered
  <1>3. ASSUME NEW l \in loads, MigrationPlans(l) \/ MigrationPicks(l) \/ MigrationMoves(l) \/ MigrationFails(l)
        PROVE  Boundary'
    <2>1. l.stage \notin {"scan", "reply"} /\ op' = op
      BY <1>3 DEF MigrationPlans, MigrationPicks, MigrationMoves, MoveSteps, MigrationFails
    <2>2. op = NoOp
      BY <1>t, <2>1, MigrationAlone
    <2> QED
      BY <1>k, <2>1, <2>2 DEF NoOp
  <1>4. ASSUME NEW l \in loads, LoadScans(l) \/ LoadArrives(l) PROVE Boundary'
    BY <1>4, <1>t, <1>i, BoundaryStays DEF LoadScans, LoadArrives
  <1>5. CASE SavePlaces \/ SaveWrites \/ WorkerFails \/ DeleteRemoves
    BY <1>5, <1>i, BoundaryWorks
  <1>6. CASE SaveBegins
    <2>1. CASE op' = [kind |-> "save", stage |-> "flush", text |-> ui.text, path |-> NoPath, prev |-> ui.active]
               /\ auto' = FlushText(ui.text)
      <3>1. op'.kind = "save" /\ op'.stage = "flush" /\ op'.text = ui.text
        BY <2>1
      <3>2. auto'.pending = NoAction /\ auto'.urgent = ui.text
        BY <1>t, <2>1 DEF FlushText, AutoFits
      <3> QED
        BY <3>1, <3>2 DEF Boundary
    <2>2. CASE op' = [NoOp EXCEPT !.kind = "finalize", !.stage = "cleanup"]
      <3>1. op'.kind # "save"
        BY <2>2 DEF NoOp
      <3> QED
        BY <1>k, <3>1
    <2> QED
      BY <1>6, <2>1, <2>2 DEF SaveBegins, Began
  <1>7. ASSUME NEW d, NEW kind \in {"deleteActive", "deleteNamed"}, DeleteBegins(kind, d) PROVE Boundary'
    <2>1. op'.kind # "save"
      BY <1>7 DEF DeleteBegins, Began
    <2> QED
      BY <1>k, <2>1
  <1>8. CASE SaveArrives
    <2>1. /\ op.kind = "save" /\ op.stage = "ok" /\ op' = [op EXCEPT !.stage = "cleanup"]
          /\ mode' = mode /\ disk' = disk /\ after' = after
      BY <1>8, <1>t DEF SaveArrives, Worked, FilesFit
    <2>2. op'.stage = "cleanup" /\ op'.path = op.path /\ op'.text = op.text
      BY <1>t, <2>1 DEF OpFits
    <2>3. op.path \in Stores /\ disk[op.path] = op.text /\ (mode = "local" => after[op.path] = {op.text})
      BY <1>t, <2>1 DEF OpFollows
    <2> QED
      BY <2>1, <2>2, <2>3 DEF Boundary, Keeps
  <1>9. CASE ActiveDeleteArrives
    <2>1. PICK k \in {"deleteActive", "deleteKept"} : op' = [op EXCEPT !.stage = "cleanup", !.kind = k]
      BY <1>9 DEF ActiveDeleteArrives
    <2>2. op'.kind # "save"
      BY <1>t, <2>1 DEF OpFits
    <2> QED
      BY <1>k, <2>2
  <1>10. CASE NamedDeleteArrives \/ FailureArrives \/ ProcessDies \/ PowerFails
    BY <1>10, <1>k DEF NamedDeleteArrives, FailureArrives, ProcessDies, PowerFails, Restarted, NoOp
  <1>11. CASE Type
    <2>1. op' = op /\ mode' = mode /\ disk' = disk /\ after' = after
      BY <1>11 DEF Type
    <2>2. PICK t : t = 3 + count.typed
      OBVIOUS
    <2>3. auto' = ScheduleText(t) /\ count.typed < MaxText /\ count.typed \in Nat
      BY <1>11, <1>t, <2>2 DEF Type, RestFits
    <2>4. auto'.pending = t /\ auto'.urgent = auto.urgent /\ auto'.write = auto.write
      BY <1>t, <2>3 DEF ScheduleText, AutoFits
    <2>5. t \in Texts
      BY <2>2, <2>3, DraftFilesAssumption DEF Texts
    <2>6. op.kind = "save" => Later(t)
      <3> SUFFICES ASSUME op.kind = "save" PROVE Later(t)
        OBVIOUS
      <3>1. op.text \in Texts /\ op.text \in Nat
        BY <1>t, ContentsDiffer DEF OpFollows
      <3>2. op.text <= 2 + count.typed
        BY <1>i, <3>1 DEF OnlyWritten, OpWritten, WrittenBy
      <3>3. t >= op.text
        BY <2>2, <2>3, <3>1, <3>2
      <3> QED
        BY <2>5, <3>3 DEF Later
    <2> QED
      BY <1>i, <2>1, <2>4, <2>6 DEF Boundary, Later, Keeps
  <1>12. ASSUME NEW e \in ui.list, LoadNamed(e) PROVE Boundary'
    <2>1. op = NoOp /\ op' = op
      BY <1>12 DEF LoadNamed
    <2> QED
      BY <1>k, <2>1 DEF NoOp
  <1>13. CASE RecoveryReads \/ RecoveryArrives
    <2>1. op' = op /\ mode' = mode /\ disk' = disk /\ after' = after
      BY <1>13 DEF RecoveryReads, RecoveryArrives
    <2>2. CASE auto' = auto
      BY <1>t, <1>i, <2>1, <2>2, BoundaryStays
    <2>3. CASE auto' # auto
      <3>1. rec.phase = "read" /\ ~rec.superseded
        BY <1>13, <2>3 DEF RecoveryReads, RecoveryArrives, Recovers
      <3>2. op.kind # "save"
        BY <1>i, <3>1 DEF Untouched
      <3> QED
        BY <1>k, <2>1, <3>2
    <2> QED
      BY <2>2, <2>3
  <1> QED
    BY <1>1, <1>2, <1>3, <1>4, <1>5, <1>6, <1>7, <1>8, <1>9, <1>10, <1>11, <1>12, <1>13 DEF DraftNext

(***************************************************************************)
(* No step makes a text later than the last one typed, the startup         *)
(* recovery fills a composer only while nobody has touched it and nothing  *)
(* is saved, and the recovery writer or the new file has the text of every *)
(* save under way (main_window.rs start_captured_draft_save).              *)
(***************************************************************************)
THEOREM SavingInvariance == DraftSpec => []SavingInv
  <1>1. DraftInit => SavingInv
    <2> SUFFICES ASSUME DraftInit PROVE SavingInv
      OBVIOUS
    <2>1. /\ ui = StartedUi /\ op = NoOp /\ auto = StartedAuto /\ loads = StartedLoads /\ rec = StartedRec
          /\ count = [typed |-> 0, saves |-> 0, faults |-> 0, crashes |-> 0]
      BY DEF DraftInit
    <2>2. \A p \in Paths : \A x \in after[p] : x \in {1, 2, Malformed, Absent}
      <3>1. PICK f \in Left : disk = [p \in Paths |-> IF p \in DOMAIN f THEN f[p] ELSE Absent]
        BY DEF DraftInit
      <3>2. \A p \in DOMAIN f : f[p] \in {1, 2, Malformed, Absent}
        BY DEF Left
      <3> QED
        BY <3>1, <3>2 DEF DraftInit
    <2>3. FilesWritten
      <3>1. count.typed = 0
        BY <2>1
      <3>2. Malformed \notin Texts /\ Absent \notin Texts
        BY ContentsDiffer
      <3> QED
        BY <2>2, <3>1, <3>2 DEF FilesWritten, WrittenBy
    <2>4. UiWritten /\ OpWritten /\ AutoWritten /\ LoadsWritten /\ RecWritten
      BY <2>1, NotWritten DEF UiWritten, OpWritten, AutoWritten, LoadsWritten, RecWritten, StartedUi, NoOp, StartedAuto,
         NoWrite, StartedLoads, StartedRec
    <2>5. Untouched /\ Boundary
      BY <2>1 DEF Untouched, Boundary, StartedUi, NoOp
    <2>6. EarlierWritten
      BY DEF DraftInit, EarlierWritten
    <2> QED
      BY <2>3, <2>4, <2>5, <2>6 DEF SavingInv, OnlyWritten
  <1>2. DraftInv /\ DraftInv' /\ EarlierInv /\ SavingInv /\ [DraftNext]_draftVars => SavingInv'
    <2>1. CASE DraftInv /\ DraftInv' /\ EarlierInv /\ SavingInv /\ DraftNext
      BY <2>1, OnlyWrittenKept, EarlierWrittenKept, UntouchedKept, BoundaryKept DEF SavingInv
    <2>2. ASSUME SavingInv, UNCHANGED draftVars PROVE SavingInv'
      BY <2>2 DEF draftVars, SavingInv, OnlyWritten, EarlierWritten, FilesWritten, UiWritten, OpWritten, AutoWritten, LoadsWritten,
         RecWritten, Untouched, Boundary, Later, Keeps
    <2> QED
      BY <2>1, <2>2
  <1> QED
    BY <1>1, <1>2, DraftInvariant, PTL DEF DraftSpec

(***************************************************************************)
(* From the recovery boundary that opens a save until the save is over,    *)
(* some file holds the text that is being saved, or a newer one that       *)
(* replaced it in the recovery file, even when the save fails; in the      *)
(* local stores it also survives a power failure (main_window.rs           *)
(* start_captured_draft_save).                                             *)
(***************************************************************************)
THEOREM SavesKeepTheText == DraftSpec => []SaveKeepsText
  <1>1. DraftInv /\ EarlierInv /\ SavingInv => SaveKeepsText
    <2> SUFFICES ASSUME DraftInv, EarlierInv, SavingInv, op.kind = "save", op.stage # "flush"
                 PROVE  \E p \in Paths : LET safe == {t \in Texts : t >= op.text}
                          IN  IF mode = "local" THEN after[p] \cup earlier[p] \subseteq safe
                              ELSE disk[p] \in safe
      BY DEF SaveKeepsText
    <2> DEFINE safe == {t \in Texts : t >= op.text}
    <2>t. FilesFit /\ op.text \in Texts /\ op.text \in Nat /\ Recovery \in Paths /\ Stores \subseteq Paths
      BY ContentsDiffer, PathsDiffer DEF DraftInv, DraftTypes, OpFollows
    <2>1. op.text \in safe
      <3>1. op.text >= op.text
        BY <2>t
      <3> QED
        BY <2>t, <3>1
    <2>2. CASE op.stage = "cleanup"
      <3>1. op.path \in Paths /\ Keeps(op.path, {op.text})
        BY <2>2, <2>t DEF SavingInv, Boundary
      <3>2. mode = "local" => earlier[op.path] = {}
        BY <2>2 DEF EarlierInv, SaveSynced
      <3> QED
        BY <2>1, <3>1, <3>2 DEF Keeps
    <2>3. CASE op.stage # "cleanup"
      <3>1. after[Recovery] \subseteq safe
        BY <2>3 DEF SavingInv, Boundary, Later
      <3>2. disk[Recovery] \in after[Recovery]
        BY <2>t DEF FilesFit
      <3>3. earlier[Recovery] = {}
        BY <2>3 DEF EarlierInv, SaveSynced
      <3> QED
        BY <2>t, <3>1, <3>2, <3>3
    <2> QED
      BY <2>2, <2>3
  <1> QED
    BY <1>1, DraftInvariant, SavingInvariance, PTL

(***************************************************************************)
(* The recovered text only ever fills a composer nobody has touched since  *)
(* the process started (main_window.rs finish_draft_recovery_load).        *)
(***************************************************************************)
THEOREM RecoveryNeverOverwrites == DraftSpec => RecoveryFillsUntouched
  <1> DEFINE Sound ==
        rec.phase = "read" /\ rec'.phase = "idle" /\ count' = count /\ ui'.text # ui.text
          => ui.text = Empty /\ ui.active = NoDraft
  <1>1. DraftInv /\ SavingInv /\ [DraftNext]_draftVars => [Sound]_draftVars
    <2>1. ASSUME DraftInv, SavingInv, DraftNext PROVE Sound
      <3> SUFFICES ASSUME rec.phase = "read", rec'.phase = "idle", count' = count, ui'.text # ui.text
                   PROVE  ui.text = Empty /\ ui.active = NoDraft
        OBVIOUS
      <3>1. CASE RecoveryArrives
        <4>1. ~rec.superseded
          BY <3>1 DEF RecoveryArrives, Recovers
        <4>2. rec.phase # "idle"
          BY <3>1 DEF RecoveryArrives
        <4>3. Untouched
          BY <2>1 DEF SavingInv
        <4> QED
          BY <4>1, <4>2, <4>3 DEF Untouched
      <3>2. ASSUME Supersede PROVE FALSE
        BY <3>2 DEF Supersede, DraftInv, DraftTypes, RestFits
      <3>3. ASSUME ProcessDies \/ PowerFails PROVE FALSE
        BY <3>3 DEF ProcessDies, PowerFails, Restarted, StartedRec
      <3>4. ASSUME rec' = rec PROVE FALSE
        BY <3>4
      <3>5. ASSUME RecoveryReads PROVE FALSE
        BY <3>5 DEF RecoveryReads
      <3>6. RecoveryArrives \/ Supersede \/ ProcessDies \/ PowerFails \/ rec' = rec \/ RecoveryReads
        <4>1. CASE AutosaveStarts \/ AutosaveSteps \/ AutosaveFails \/ AutosaveArrives
          BY <4>1 DEF AutosaveStarts, AutosaveSteps, AutosaveFails, AutosaveArrives
        <4>2. CASE SavePlaces \/ SaveWrites \/ WorkerFails \/ DeleteRemoves \/ SaveBegins
                   \/ \E d : DeleteBegins("deleteActive", d) \/ DeleteBegins("deleteNamed", d)
          BY <4>2 DEF SavePlaces, SaveWrites, WorkerFails, DeleteRemoves, SaveBegins, DeleteBegins, WorkerKeeps
        <4>3. CASE SaveArrives \/ ActiveDeleteArrives \/ NamedDeleteArrives \/ FailureArrives
          BY <4>3 DEF SaveArrives, ActiveDeleteArrives, NamedDeleteArrives, FailureArrives
        <4>4. CASE \E l \in loads :
                 \/ MigrationPlans(l) \/ MigrationPicks(l) \/ MigrationMoves(l) \/ MigrationFails(l)
                 \/ LoadScans(l) \/ LoadArrives(l)
          BY <4>4 DEF MigrationPlans, MigrationPicks, MigrationMoves, MigrationFails, LoadScans, LoadArrives
        <4>5. CASE Type \/ \E e \in ui.list : LoadNamed(e)
          BY <4>5 DEF Type, LoadNamed
        <4> QED
          BY <2>1, <4>1, <4>2, <4>3, <4>4, <4>5 DEF DraftNext
      <3> QED
        BY <3>1, <3>2, <3>3, <3>4, <3>5, <3>6
    <2> HIDE DEF Sound
    <2> QED
      BY <2>1
  <1>2. RecoveryFillsUntouched <=> [][Sound]_draftVars
    BY DEF RecoveryFillsUntouched
  <1> QED
    BY <1>1, <1>2, DraftInvariant, SavingInvariance, PTL DEF DraftSpec

================================================================================
