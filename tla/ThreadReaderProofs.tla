-------------------------- MODULE ThreadReaderProofs --------------------------
(***************************************************************************)
(* Proofs about the message pane: the loading of threads, for any number   *)
(* of threads, messages and loads (ThreadReader), and the web view that    *)
(* shows a message, for any number of documents, changes of the background *)
(* and restores (HtmlView).                                                *)
(***************************************************************************)
EXTENDS ThreadReader, HtmlView, TLAPS

(***************************************************************************)
(* What the proofs need beside the properties.                             *)
(*                                                                         *)
(* Numbering: every load that is anywhere has a number up to the           *)
(* coordinator's, and the load that is waited for has the last number.     *)
(* Following a load: its timer runs while it is in the channel or being    *)
(* prepared, it is in one of the two places and in one only, and its reply *)
(* is sent when it has left both.  The flag that the service remembers is  *)
(* that of the load that is waited for, until it is replied to.            *)
(***************************************************************************)
Intents == {"preview", "open", "window", "openMessage", "message"}
LoadRequests == [thread : Threads, candidates : SUBSET Threads, intent : Intents, old : Selections]
LoadReplies ==
    [kind : {"ok", "error", "absent"}, thread : Threads \cup {NoThread}, target : 0..1]

Elements(c) == {c[i] : i \in DOMAIN c}

Numbered ==
    /\ generation \in 0..MaxGeneration
    /\ active \in {0, generation}
    /\ channel \in Seq(0..generation) /\ job \in 0..generation
    /\ token \in 0..generation /\ cancelled \subseteq 1..generation
    /\ DOMAIN requests \subseteq 1..generation
    /\ DOMAIN replies \subseteq DOMAIN requests
    /\ workerUp \in BOOLEAN /\ wish \subseteq Threads

Asked ==
    /\ \A g \in DOMAIN requests :
          requests[g] \in LoadRequests /\ requests[g].thread \in requests[g].candidates
    /\ \A g \in DOMAIN replies :
          /\ replies[g] \in LoadReplies
          /\ replies[g].kind = "ok" => replies[g].thread \in requests[g].candidates

Followed ==
    /\ job # 0 => job \in DOMAIN requests /\ job \notin DOMAIN replies /\ job \notin Elements(channel)
    /\ \A g \in Elements(channel) : g # 0 => g \in DOMAIN requests /\ g \notin DOMAIN replies
    /\ active # 0 => active \in DOMAIN requests /\ wish = requests[active].candidates

FlagKept ==
    /\ token # 0 => token = active
    /\ active # 0 => (token = active <=> active \notin DOMAIN replies)

LoadInv == Numbered /\ Asked /\ Followed /\ FlagKept /\ AwaitedLoadNotSkipped /\ CancelReachesLoad

(* The part of the state that the coordinator and its worker do not have.  *)
PaneTypes ==
    /\ list \subseteq Threads /\ selected \in Selections
    /\ prepared \in Threads \cup {NoThread}
    /\ pending \in (0..Messages + 1) \X (0..MaxGeneration)
    /\ searching \in {"no", "plain", "first", "restore", "id"}
    /\ openId \in BOOLEAN /\ blocked \in BOOLEAN
    /\ asking \in [new : Selections, old : Selections] \cup {NoSelectionYet}

ReaderInv == LoadInv /\ PaneTypes /\ PickBelongsToLoad

loadVars == <<generation, active, channel, job, token, cancelled, requests, replies, workerUp, wish>>

----------------------------------------------------------------------------
(* The channel as the set of its commands.                                 *)

LEMMA AppendCommand ==
    ASSUME NEW S, NEW c \in Seq(S), NEW e \in S
    PROVE  /\ Append(c, e) \in Seq(S)
           /\ Append(c, e) # <<>>
           /\ Append(c, e)[Len(Append(c, e))] = e
           /\ Elements(Append(c, e)) = Elements(c) \cup {e}
  <1>1. /\ Append(c, e) \in Seq(S)
        /\ Len(c) \in Nat
        /\ DOMAIN c = 1..Len(c)
        /\ Len(Append(c, e)) = Len(c) + 1
        /\ DOMAIN Append(c, e) = 1..Len(c) + 1
        /\ Append(c, e)[Len(c) + 1] = e
        /\ \A i \in 1 .. Len(c) : Append(c, e)[i] = c[i]
    OBVIOUS
  <1>2. \A i \in 1 .. Len(c) + 1 : i \in 1 .. Len(c) \/ i = Len(c) + 1
    BY <1>1
  <1>3. Len(c) + 1 \in 1 .. Len(c) + 1 /\ \A i \in 1 .. Len(c) : i \in 1 .. Len(c) + 1
    BY <1>1
  <1>4. Elements(Append(c, e)) = Elements(c) \cup {e}
    BY <1>1, <1>2, <1>3 DEF Elements
  <1>5. Append(c, e) # <<>>
    BY <1>1
  <1> QED
    BY <1>1, <1>4, <1>5

(* A command for loads up to number n, sent to a channel for them.         *)
LEMMA SendCommand ==
    ASSUME NEW n, NEW c \in Seq(0..n), NEW e \in 0..n
    PROVE  /\ Append(c, e) \in Seq(0..n)
           /\ Append(c, e) # <<>>
           /\ Append(c, e)[Len(Append(c, e))] = e
           /\ Elements(Append(c, e)) = Elements(c) \cup {e}
  <1> DEFINE S == 0..n
  <1>1. c \in Seq(S) /\ e \in S
    OBVIOUS
  <1> HIDE DEF S
  <1>2. /\ Append(c, e) \in Seq(S)
        /\ Append(c, e) # <<>>
        /\ Append(c, e)[Len(Append(c, e))] = e
        /\ Elements(Append(c, e)) = Elements(c) \cup {e}
    BY <1>1, AppendCommand
  <1> QED
    BY <1>2 DEF S

(* The last command is one of the channel.                                 *)
LEMMA LastCommand ==
    ASSUME NEW S, NEW c \in Seq(S), c # <<>>
    PROVE  c[Len(c)] \in Elements(c) /\ c[Len(c)] \in S
  <1>1. Len(c) \in Nat \ {0} /\ DOMAIN c = 1..Len(c)
    OBVIOUS
  <1>2. Len(c) \in DOMAIN c
    BY <1>1
  <1> QED
    BY <1>1, <1>2 DEF Elements

(* A channel for the numbers so far is one for the numbers to come.        *)
LEMMA WiderChannel ==
    ASSUME NEW n \in Nat, NEW c \in Seq(0..n)
    PROVE  c \in Seq(0..n + 1) /\ Elements(c) \subseteq 0..n
  <1>1. \A i \in DOMAIN c : c[i] \in 0..n /\ c[i] \in 0..n + 1
    OBVIOUS
  <1> QED
    BY <1>1 DEF Elements

----------------------------------------------------------------------------
(* The coordinator and the worker.                                         *)

(* ThreadLoadCoordinator.cancel: the flag of the load that was waited for  *)
(* is set, and the worker skips what is in the channel.                    *)
LEMMA CancelKeeps ==
    ASSUME LoadInv, CancelLoad, UNCHANGED <<job, replies, workerUp, requests>>
    PROVE  LoadInv'
  <1>1. generation \in Nat /\ generation' = generation + 1 /\ generation' \in 0..MaxGeneration
    BY ReaderAssumption DEF LoadInv, Numbered, CancelLoad
  <1>2. channel \in Seq(0..generation + 1) /\ Elements(channel) \subseteq 0..generation
    BY <1>1, WiderChannel DEF LoadInv, Numbered
  <1>3. channel' \in Seq(0..generation') /\ Elements(channel') \subseteq Elements(channel) \cup {0}
    <2>1. 0 \in 0..generation + 1
      BY <1>1
    <2>2. /\ Append(channel, 0) \in Seq(0..generation + 1)
          /\ Elements(Append(channel, 0)) = Elements(channel) \cup {0}
      BY <1>2, <2>1, SendCommand
    <2> QED
      BY <1>1, <1>2, <2>2 DEF CancelLoad, Skipped
  <1>4. Numbered'
    BY <1>1, <1>3 DEF LoadInv, Numbered, CancelLoad, CancelActive
  <1>5. Asked' /\ Followed' /\ FlagKept' /\ AwaitedLoadNotSkipped'
    BY <1>1, <1>3 DEF LoadInv, Asked, Followed, FlagKept, AwaitedLoadNotSkipped, CancelLoad
  <1>6. CancelReachesLoad'
    <2> SUFFICES ASSUME NEW g \in LoadNumbers, g = job \/ g \in Elements(channel')
                 PROVE  g \in cancelled'
      BY DEF CancelReachesLoad, CancelLoad, Elements
    <2>1. g = job \/ g \in Elements(channel)
      BY <1>3 DEF LoadNumbers
    <2>2. CASE g # active
      BY <2>1, <2>2 DEF LoadInv, CancelReachesLoad, CancelLoad, CancelActive, Elements
    <2>3. CASE g = active
      <3>1. g # 0 /\ g \notin DOMAIN replies
        BY <2>1 DEF LoadInv, Followed, LoadNumbers
      <3> QED
        BY <2>3, <3>1 DEF LoadInv, FlagKept, CancelLoad, CancelActive
    <2> QED
      BY <2>2, <2>3
  <1> QED
    BY <1>4, <1>5, <1>6 DEF LoadInv

(* schedule_thread_load: the load before is cancelled, and the command of  *)
(* the new one is the last in the channel.                                 *)
LEMMA StartKeeps ==
    ASSUME LoadInv, NEW request \in LoadRequests, request.thread \in request.candidates,
           ScheduleThreadLoad(request)
    PROVE  LoadInv' /\ pending' = NoPick
  <1> DEFINE n == generation + 1
  <1>1. generation \in Nat /\ generation' = n /\ active' = n /\ n \in 1..MaxGeneration
        /\ n \notin DOMAIN requests /\ n \notin DOMAIN replies /\ n # job /\ n \notin cancelled
        /\ n \notin Elements(channel) /\ n # token /\ workerUp' = workerUp /\ job' = job
    <2>1. Elements(channel) \subseteq 0..generation
      <3>1. generation \in Nat /\ channel \in Seq(0..generation)
        BY ReaderAssumption DEF LoadInv, Numbered
      <3> QED
        BY <3>1, WiderChannel
    <2> QED
      BY <2>1, ReaderAssumption DEF LoadInv, Numbered, ScheduleThreadLoad
  <1>2. channel \in Seq(0..n) /\ Elements(channel) \subseteq 0..generation
    BY <1>1, WiderChannel DEF LoadInv, Numbered
  <1>3. ASSUME workerUp
        PROVE  /\ channel' \in Seq(0..n) /\ channel' # <<>> /\ channel'[Len(channel')] = n
               /\ Elements(channel') = Elements(channel) \cup {0, n}
    <2>1. 0 \in 0..n /\ n \in 0..n
      BY <1>1
    <2>2. Append(channel, 0) \in Seq(0..n) /\ Elements(Append(channel, 0)) = Elements(channel) \cup {0}
      BY <1>2, <2>1, SendCommand
    <2>3. channel' = Append(Append(channel, 0), n)
      BY <1>3 DEF ScheduleThreadLoad, Submitted, Skipped
    <2> DEFINE d == Append(channel, 0)
    <2>5. d \in Seq(0..n) /\ channel' = Append(d, n)
      BY <2>2, <2>3
    <2> HIDE DEF n, d
    <2>4. /\ channel' \in Seq(0..n) /\ channel' # <<>> /\ channel'[Len(channel')] = n
          /\ Elements(channel') = Elements(d) \cup {n}
      BY <2>1, <2>5, SendCommand
    <2> QED
      BY <2>2, <2>4 DEF d
  <1>4. ~workerUp => channel' = channel
    BY DEF ScheduleThreadLoad, Submitted
  <1>5. /\ requests' = [h \in DOMAIN requests \cup {n} |-> IF h = n THEN request ELSE requests[h]]
        /\ cancelled' = CancelActive(cancelled, token)
        /\ token' = IF workerUp THEN n ELSE 0
        /\ wish' = request.candidates /\ pending' = NoPick
        /\ replies' = IF workerUp THEN replies
                      ELSE [h \in DOMAIN replies \cup {n} |-> IF h = n THEN Failed ELSE replies[h]]
    BY DEF ScheduleThreadLoad, PendingOfNewLoad
  <1>r. /\ DOMAIN requests' = DOMAIN requests \cup {n} /\ requests'[n] = request
        /\ \A h \in DOMAIN requests : requests'[h] = requests[h]
        /\ DOMAIN replies' = IF workerUp THEN DOMAIN replies ELSE DOMAIN replies \cup {n}
        /\ \A h \in DOMAIN replies : replies'[h] = replies[h]
        /\ ~workerUp => replies'[n] = Failed
    BY <1>1, <1>5
  <1>6. Numbered'
    <2>1. cancelled' \subseteq 1..n
      BY <1>1, <1>5 DEF LoadInv, Numbered, CancelActive
    <2>2. channel' \in Seq(0..n)
      BY <1>2, <1>3, <1>4
    <2>3. DOMAIN requests' \subseteq 1..n /\ DOMAIN replies' \subseteq DOMAIN requests'
      BY <1>1, <1>r DEF LoadInv, Numbered
    <2>4. wish' \subseteq Threads
      BY <1>5 DEF LoadRequests
    <2> QED
      BY <1>1, <1>5, <2>1, <2>2, <2>3, <2>4 DEF LoadInv, Numbered
  <1>7. Asked'
    <2>1. Failed \in LoadReplies /\ Failed.kind = "error"
      BY DEF Failed, LoadReplies
    <2>2. \A g \in DOMAIN requests' :
            requests'[g] \in LoadRequests /\ requests'[g].thread \in requests'[g].candidates
      BY <1>r DEF LoadInv, Asked
    <2>3. ASSUME NEW g \in DOMAIN replies'
          PROVE  /\ replies'[g] \in LoadReplies
                 /\ replies'[g].kind = "ok" => replies'[g].thread \in requests'[g].candidates
      <3>1. CASE g \in DOMAIN replies
        BY <3>1, <1>r DEF LoadInv, Asked, Numbered
      <3>2. CASE g \notin DOMAIN replies
        BY <3>2, <2>1, <2>3, <1>r
      <3> QED
        BY <3>1, <3>2
    <2> QED
      BY <2>2, <2>3 DEF Asked
  <1>8. Followed'
    BY <1>1, <1>3, <1>4, <1>5, <1>r DEF LoadInv, Followed
  <1>9. FlagKept'
    BY <1>1, <1>5, <1>r DEF FlagKept
  <1>10. AwaitedLoadNotSkipped'
    BY <1>1, <1>3, <1>5, <1>r DEF AwaitedLoadNotSkipped, CancelActive
  <1>11. CancelReachesLoad'
    <2> SUFFICES ASSUME NEW g \in LoadNumbers, g # n, g = job \/ g \in Elements(channel')
                 PROVE  g \in cancelled'
      BY <1>1 DEF CancelReachesLoad, Elements
    <2>1. g = job \/ g \in Elements(channel)
      BY <1>3, <1>4 DEF LoadNumbers
    <2>2. CASE g # active
      BY <2>1, <2>2, <1>5 DEF LoadInv, CancelReachesLoad, CancelActive, Elements
    <2>3. CASE g = active
      <3>1. g # 0 /\ g \notin DOMAIN replies
        BY <2>1 DEF LoadInv, Followed, LoadNumbers
      <3> QED
        BY <2>3, <3>1, <1>5 DEF LoadInv, FlagKept, CancelActive
    <2> QED
      BY <2>2, <2>3
  <1> QED
    BY <1>5, <1>6, <1>7, <1>8, <1>9, <1>10, <1>11 DEF LoadInv

(* The worker takes the last command and forgets those before it.          *)
LEMMA TakesKeeps ==
    ASSUME LoadInv, WorkerTakes
    PROVE  LoadInv'
  <1>1. channel # <<>> /\ job = 0 /\ job' = channel[Len(channel)] /\ channel' = <<>>
        /\ cancelled' = cancelled \cap {job'}
        /\ UNCHANGED <<generation, active, token, requests, replies, workerUp, wish>>
    BY DEF WorkerTakes, LatestThreadLoadJob
  <1>2. job' \in Elements(channel) /\ job' \in 0..generation
    BY <1>1, LastCommand DEF LoadInv, Numbered
  <1>3. Elements(channel') = {} /\ channel' \in Seq(0..generation)
    BY <1>1 DEF Elements
  <1>4. Numbered' /\ Asked' /\ FlagKept'
    BY <1>1, <1>2, <1>3 DEF LoadInv, Numbered, Asked, FlagKept
  <1>5. Followed'
    BY <1>1, <1>2, <1>3 DEF LoadInv, Followed
  <1>6. AwaitedLoadNotSkipped'
    BY <1>1 DEF LoadInv, AwaitedLoadNotSkipped
  <1>7. CancelReachesLoad'
    BY <1>1, <1>2, <1>3 DEF LoadInv, CancelReachesLoad, Elements
  <1> QED
    BY <1>4, <1>5, <1>6, <1>7 DEF LoadInv

(* The worker replies and lets go of its own flag only.                    *)
LEMMA EndsKeeps ==
    ASSUME LoadInv, WorkerEnds
    PROVE  LoadInv'
  <1>1. job # 0 /\ job' = 0 /\ token' = TokenAfterJob /\ cancelled' = cancelled \ {job}
        /\ UNCHANGED <<generation, active, channel, requests, workerUp, wish>>
    BY DEF WorkerEnds
  <1>2. job \in DOMAIN requests /\ job \notin DOMAIN replies /\ job \notin Elements(channel)
        /\ requests[job] \in LoadRequests /\ requests[job].thread \in requests[job].candidates
    BY <1>1 DEF LoadInv, Followed, Asked
  <1>3. PICK outcome \in LoadThread(requests[job]) :
          replies' = [h \in DOMAIN replies \cup {job} |-> IF h = job THEN outcome ELSE replies[h]]
    BY DEF WorkerEnds
  <1>4. outcome \in LoadReplies /\ (outcome.kind = "ok" => outcome.thread \in requests[job].candidates)
    BY <1>2, ReaderAssumption DEF LoadThread, LoadReplies, LoadRequests, Failed
  <1>5. DOMAIN replies' = DOMAIN replies \cup {job} /\ replies'[job] = outcome
        /\ \A h \in DOMAIN replies : replies'[h] = replies[h]
    BY <1>2, <1>3
  <1>6. Numbered'
    <2>1. DOMAIN replies' \subseteq DOMAIN requests' /\ DOMAIN requests' \subseteq 1..generation'
      BY <1>1, <1>2, <1>5 DEF LoadInv, Numbered
    <2>2. token' \in 0..generation' /\ cancelled' \subseteq 1..generation' /\ job' \in 0..generation'
      BY <1>1, ReaderAssumption DEF LoadInv, Numbered, TokenAfterJob
    <2>3. /\ generation' \in 0..MaxGeneration /\ active' \in {0, generation'}
          /\ channel' \in Seq(0..generation') /\ workerUp' \in BOOLEAN /\ wish' \subseteq Threads
      BY <1>1 DEF LoadInv, Numbered
    <2> QED
      BY <2>1, <2>2, <2>3 DEF Numbered
  <1>7. Asked'
    BY <1>1, <1>2, <1>4, <1>5 DEF LoadInv, Asked
  <1>8. Followed'
    BY <1>1, <1>2, <1>5 DEF LoadInv, Followed
  <1>9. FlagKept'
    BY <1>1, <1>2, <1>5 DEF LoadInv, FlagKept, TokenAfterJob
  <1>10. AwaitedLoadNotSkipped'
    BY <1>1, <1>5 DEF LoadInv, AwaitedLoadNotSkipped
  <1>11. CancelReachesLoad'
    <2> SUFFICES ASSUME NEW g \in LoadNumbers \ {active}, g \in Elements(channel)
                 PROVE  g \in cancelled'
      BY <1>1 DEF CancelReachesLoad, Elements, LoadNumbers
    <2> QED
      BY <1>1, <1>2 DEF LoadInv, CancelReachesLoad, Elements
  <1> QED
    BY <1>6, <1>7, <1>8, <1>9, <1>10, <1>11 DEF LoadInv

(* The timer of a load sees its reply, or that none can come: the latter   *)
(* never happens to the load that is waited for.                           *)
LEMMA PollKeeps ==
    ASSUME LoadInv, NEW g \in LoadNumbers, Poll(g)
    PROVE  LoadInv'
  <1>1. /\ g \in DOMAIN requests /\ Ended(g)
        /\ requests' = [h \in DOMAIN requests \ {g} |-> requests[h]]
        /\ replies' = [h \in DOMAIN replies \ {g} |-> replies[h]]
        /\ active' = IF active = g THEN 0 ELSE active
        /\ wish' = IF active = g THEN {} ELSE wish
        /\ UNCHANGED <<job, workerUp>>
    BY DEF Poll, Accepts
  <1>2. job # g /\ g \notin Elements(channel)
    BY <1>1 DEF Ended, Disconnected, LoadInv, Followed, Elements, LoadNumbers
  <1>3. active = g => g \in DOMAIN replies
    BY <1>1, <1>2, LastCommand
       DEF Ended, LoadInv, AwaitedLoadNotSkipped, Numbered, LoadNumbers
  <1>4. /\ DOMAIN requests' = DOMAIN requests \ {g} /\ DOMAIN replies' = DOMAIN replies \ {g}
        /\ \A h \in DOMAIN requests' : requests'[h] = requests[h]
        /\ \A h \in DOMAIN replies' : replies'[h] = replies[h]
    BY <1>1
  <1>5. \/ UNCHANGED <<generation, channel, token, cancelled>>
        \/ /\ active = g
           /\ generation < MaxGeneration /\ generation' = generation + 1 /\ channel' = Skipped
           /\ cancelled' = CancelActive(cancelled, token) /\ token' = 0
    BY DEF Poll, Accepts, FinishThreadLoad
  <1>6. Asked'
    BY <1>4 DEF LoadInv, Asked, Numbered
  <1>7. CASE UNCHANGED <<generation, channel, token, cancelled>>
    <2>1. Numbered' /\ Followed' /\ FlagKept'
      BY <1>1, <1>2, <1>3, <1>4, <1>7, ReaderAssumption
         DEF LoadInv, Numbered, Followed, FlagKept, LoadNumbers
    <2>2. AwaitedLoadNotSkipped'
      BY <1>1, <1>4, <1>7 DEF LoadInv, AwaitedLoadNotSkipped
    <2>3. CancelReachesLoad'
      BY <1>1, <1>2, <1>7 DEF LoadInv, CancelReachesLoad, Elements
    <2> QED
      BY <1>6, <2>1, <2>2, <2>3 DEF LoadInv
  <1>8. CASE /\ active = g
             /\ generation < MaxGeneration /\ generation' = generation + 1 /\ channel' = Skipped
             /\ cancelled' = CancelActive(cancelled, token) /\ token' = 0
    <2>1. token = 0 /\ active' = 0 /\ cancelled' = cancelled
      BY <1>1, <1>3, <1>8 DEF LoadInv, FlagKept, CancelActive, LoadNumbers
    <2>2. generation \in Nat /\ generation' \in 0..MaxGeneration
      BY <1>8, ReaderAssumption DEF LoadInv, Numbered
    <2>3. channel \in Seq(0..generation + 1) /\ 0 \in 0..generation + 1
      BY <2>2, WiderChannel DEF LoadInv, Numbered
    <2>4. /\ Append(channel, 0) \in Seq(0..generation + 1)
          /\ Elements(Append(channel, 0)) = Elements(channel) \cup {0}
      BY <2>3, SendCommand
    <2>5. channel' \in Seq(0..generation') /\ Elements(channel') \subseteq Elements(channel) \cup {0}
      BY <1>8, <2>3, <2>4 DEF Skipped
    <2>a. DOMAIN replies' \subseteq DOMAIN requests' /\ DOMAIN requests' \subseteq DOMAIN requests
      BY <1>4 DEF LoadInv, Numbered
    <2>b. cancelled' \subseteq 1..generation' /\ job' \in 0..generation'
      <3>1. cancelled \subseteq 1..generation /\ job \in 0..generation
        BY DEF LoadInv, Numbered
      <3>2. generation' = generation + 1 /\ cancelled' = cancelled /\ job' = job
        BY <1>1, <1>8, <2>1
      <3> QED
        BY <2>2, <3>1, <3>2
    <2>c. DOMAIN requests' \subseteq 1..generation'
      BY <1>8, <2>2, <2>a DEF LoadInv, Numbered
    <2>6. Numbered'
      BY <1>1, <1>8, <2>1, <2>2, <2>5, <2>a, <2>b, <2>c DEF LoadInv, Numbered
    <2>7. Followed' /\ FlagKept' /\ AwaitedLoadNotSkipped'
      BY <1>1, <1>2, <1>4, <1>8, <2>1, <2>5
         DEF LoadInv, Followed, FlagKept, AwaitedLoadNotSkipped
    <2>8. CancelReachesLoad'
      BY <1>1, <1>2, <1>8, <2>1, <2>5 DEF LoadInv, CancelReachesLoad, Elements, LoadNumbers
    <2> QED
      BY <1>6, <2>6, <2>7, <2>8 DEF LoadInv
  <1> QED
    BY <1>5, <1>7, <1>8

(* Nothing of the coordinator changes.                                     *)
LEMMA SameKeeps ==
    ASSUME LoadInv, UNCHANGED loadVars
    PROVE  LoadInv'
  BY DEF loadVars, LoadInv, Numbered, Asked, Followed, FlagKept, AwaitedLoadNotSkipped,
         CancelReachesLoad, Elements
----------------------------------------------------------------------------
(* The handlers: each either leaves the coordinator alone, cancels or      *)
(* starts a load.                                                          *)

Questions == [new : Selections, old : Selections] \cup {NoSelectionYet}

LEMMA NothingSelected == NoSelectionYet \in Selections /\ NoPick \in (0..Messages + 1) \X (0..MaxGeneration)
  BY ReaderAssumption DEF NoSelectionYet, Selections, NoPick

LEMMA RequestType ==
    ASSUME PaneTypes, NEW t \in Threads, NEW c \in SUBSET Threads, NEW i \in Intents
    PROVE  /\ Request(t, c, i) \in LoadRequests /\ Request(t, c, i).thread = t
           /\ Request(t, c, i).candidates = c /\ Request(t, c, i).intent = i
           /\ Request(t, c, i).old = selected
  BY DEF PaneTypes, Request, LoadRequests

(* request_show_selected_message *)
LEMMA ShowType ==
    ASSUME PaneTypes, NEW new \in Selections, NEW request, request.old \in Selections,
           ShowSelected(new, request)
    PROVE  selected' \in Selections /\ asking' \in Questions
  <1>1. [new |-> new, old |-> request.old] \in Questions /\ NoSelectionYet \in Questions
    BY DEF Questions
  <1> QED
    BY <1>1 DEF ShowSelected, PaneTypes, Questions

(* Cancelling or starting a load leaves no message picked for another load. *)
LEMMA CancelStep ==
    ASSUME ReaderInv, CancelLoad, UNCHANGED <<job, replies, workerUp, requests>>
    PROVE  LoadInv' /\ PickBelongsToLoad'
  BY CancelKeeps DEF ReaderInv, PickBelongsToLoad, CancelLoad

LEMMA StartStep ==
    ASSUME ReaderInv, NEW request \in LoadRequests, request.thread \in request.candidates,
           ScheduleThreadLoad(request)
    PROVE  LoadInv' /\ PickBelongsToLoad' /\ pending' = NoPick
  BY StartKeeps DEF ReaderInv, PickBelongsToLoad

LEMMA SameStep ==
    ASSUME ReaderInv, UNCHANGED <<coordinatorVars, workerVars, requests, wish>>, UNCHANGED pending
    PROVE  LoadInv' /\ PickBelongsToLoad'
  BY SameKeeps DEF ReaderInv, loadVars, PickBelongsToLoad, coordinatorVars, workerVars

LEMMA SearchStep ==
    ASSUME ReaderInv, NEW kind, ScheduleSearch(kind)
    PROVE  LoadInv' /\ PickBelongsToLoad' /\ pending' = pending /\ searching' = kind
  BY CancelStep DEF ScheduleSearch, workerVars

LEMMA SelectThreadStep ==
    ASSUME ReaderInv, NEW t \in Threads, SelectThread(t) \/ OpenThread(t)
    PROVE  ReaderInv'
  <1>1. CASE SelectThread(t) /\ selected.thread = t /\ prepared = t
    <2>1. LoadInv' /\ PickBelongsToLoad'
      BY <1>1, CancelStep DEF SelectThread, workerVars
    <2> QED
      BY <1>1, <2>1, NothingSelected DEF SelectThread, ReaderInv, PaneTypes, readerViewVars
  <1>2. CASE \/ SelectThread(t) /\ ~(selected.thread = t /\ prepared = t)
             \/ OpenThread(t)
    <2>1. PICK i \in Intents : ScheduleThreadLoad(Request(t, {t}, i))
      BY <1>2 DEF SelectThread, OpenThread, Intents
    <2>2. Request(t, {t}, i) \in LoadRequests
          /\ Request(t, {t}, i).thread \in Request(t, {t}, i).candidates
      BY RequestType DEF ReaderInv
    <2>3. LoadInv' /\ PickBelongsToLoad' /\ pending' = NoPick
      BY <2>1, <2>2, StartStep
    <2>4. UNCHANGED <<list, readerViewVars, openId, searching, blocked>>
      BY <1>2 DEF SelectThread, OpenThread
    <2> QED
      BY <2>3, <2>4, NothingSelected DEF ReaderInv, PaneTypes, readerViewVars
  <1> QED
    BY <1>1, <1>2

(* A thread is asked for by one of its messages.                           *)
LEMMA OpenAtMessageStep ==
    ASSUME ReaderInv, NEW l \in SUBSET Threads, NEW old \in Selections, NEW first \in l,
           ScheduleThreadLoad([Request(first, l, "openMessage") EXCEPT !.old = old])
    PROVE  LoadInv' /\ PickBelongsToLoad' /\ pending' = NoPick
  <1> DEFINE q == [Request(first, l, "openMessage") EXCEPT !.old = old]
  <1>1. Request(first, l, "openMessage") \in LoadRequests
        /\ Request(first, l, "openMessage").thread \in Request(first, l, "openMessage").candidates
    BY RequestType DEF ReaderInv, Intents
  <1>2. q \in LoadRequests /\ q.thread \in q.candidates
    BY <1>1 DEF LoadRequests
  <1> QED
    BY <1>2, StartStep

LEMMA OpenMessageIdStep ==
    ASSUME ReaderInv, OpenMessageId
    PROVE  ReaderInv'
  <1>1. /\ openId' = TRUE /\ UNCHANGED <<list, readerViewVars, blocked>>
    BY DEF OpenMessageId
  <1>2. CASE ~blocked /\ list # {}
    <2>1. PICK first \in list : ScheduleThreadLoad(Request(first, list, "openMessage"))
      BY <1>2 DEF OpenMessageId, OpenLoadedThreadAtMessage
    <2>2. list \in SUBSET Threads /\ first \in Threads
      BY DEF ReaderInv, PaneTypes
    <2>3. Request(first, list, "openMessage") \in LoadRequests
          /\ Request(first, list, "openMessage").thread
                \in Request(first, list, "openMessage").candidates
      BY <2>2, RequestType DEF ReaderInv, Intents
    <2>4. LoadInv' /\ PickBelongsToLoad' /\ pending' = NoPick
      BY <2>1, <2>3, StartStep
    <2>5. UNCHANGED searching
      BY <1>2 DEF OpenMessageId
    <2> QED
      BY <1>1, <2>4, <2>5, NothingSelected DEF ReaderInv, PaneTypes, readerViewVars
  <1>3. CASE ~(~blocked /\ list # {})
    <2>1. LoadInv' /\ PickBelongsToLoad' /\ pending' = pending /\ searching' = "first"
      BY <1>3, SearchStep DEF OpenMessageId
    <2> QED
      BY <1>1, <2>1 DEF ReaderInv, PaneTypes, readerViewVars
  <1> QED
    BY <1>2, <1>3

LEMMA SelectMessageStep ==
    ASSUME ReaderInv, NEW m \in 1..Messages + 1, SelectMessage(m)
    PROVE  ReaderInv'
  <1>1. UNCHANGED <<coordinatorVars, workerVars, requests, list, prepared, openId, searching,
                    blocked, wish>>
    BY DEF SelectMessage
  <1>2. LoadInv'
    BY <1>1, SameKeeps DEF ReaderInv, loadVars, coordinatorVars, workerVars
  <1>3. CASE active # 0
    <2>1. pending' = <<m, active>> /\ UNCHANGED <<selected, asking>>
      BY <1>3 DEF SelectMessage
    <2>2. m \in 0..Messages + 1 /\ active \in 0..MaxGeneration
      BY ReaderAssumption DEF ReaderInv, LoadInv, Numbered
    <2>3. pending' \in (0..Messages + 1) \X (0..MaxGeneration)
      BY <2>1, <2>2
    <2>4. PaneTypes'
      BY <1>1, <2>1, <2>3 DEF ReaderInv, PaneTypes
    <2> QED
      BY <1>1, <1>2, <2>1, <2>4 DEF ReaderInv, PickBelongsToLoad, coordinatorVars
  <1>4. CASE active = 0
    <2>1. /\ m \in 1..Messages /\ pending' = pending
          /\ ShowSelected([selected EXCEPT !.message = m], Request(selected.thread, {}, "message"))
      BY <1>4 DEF SelectMessage
    <2>2. [selected EXCEPT !.message = m] \in Selections
      BY <2>1, ReaderAssumption DEF ReaderInv, PaneTypes, Selections
    <2>3. Request(selected.thread, {}, "message").old \in Selections
      BY DEF Request, ReaderInv, PaneTypes
    <2>4. selected' \in Selections /\ asking' \in Questions
      BY <2>1, <2>2, <2>3, ShowType DEF ReaderInv
    <2>5. PaneTypes'
      BY <1>1, <2>1, <2>4 DEF ReaderInv, PaneTypes, Questions
    <2> QED
      BY <1>1, <1>2, <1>4, <2>5 DEF ReaderInv, PickBelongsToLoad, coordinatorVars
  <1> QED
    BY <1>3, <1>4 DEF ReaderInv, LoadInv, Numbered

(* Editing, the beginning and the end of a tag operation, and a search.    *)
LEMMA DroppingStep ==
    ASSUME ReaderInv, ComposerEdited \/ TagStarts \/ TagEnds \/ SearchStarts \/ SearchFails
    PROVE  ReaderInv'
  <1>1. CASE ComposerEdited
    <2>1. LoadInv' /\ PickBelongsToLoad'
      BY <1>1, CancelStep DEF ComposerEdited, workerVars
    <2> QED
      BY <1>1, <2>1, NothingSelected DEF ComposerEdited, ReaderInv, PaneTypes, readerViewVars
  <1>2. CASE TagStarts /\ active # 0
    <2>1. LoadInv' /\ PickBelongsToLoad'
      BY <1>2, CancelStep DEF TagStarts, workerVars
    <2> QED
      BY <1>2, <2>1, NothingSelected DEF TagStarts, ReaderInv, PaneTypes, readerViewVars
  <1>3. CASE TagStarts /\ active = 0
    <2>1. LoadInv' /\ PickBelongsToLoad'
      BY <1>3, SameStep DEF TagStarts
    <2> QED
      BY <1>3, <2>1 DEF TagStarts, ReaderInv, PaneTypes, readerViewVars
  <1>4. CASE TagEnds
    <2>1. CASE ScheduleSearch("restore") \/ ScheduleSearch("plain")
      <3>1. LoadInv' /\ PickBelongsToLoad' /\ pending' = pending /\ searching' \in {"restore", "plain"}
        BY <2>1, SearchStep
      <3> QED
        BY <1>4, <3>1 DEF TagEnds, ReaderInv, PaneTypes, readerViewVars
    <2>2. CASE UNCHANGED <<coordinatorVars, workerVars, requests, pending, searching, wish>>
      <3>1. LoadInv' /\ PickBelongsToLoad'
        BY <2>2, SameStep
      <3> QED
        BY <1>4, <2>2, <3>1 DEF TagEnds, ReaderInv, PaneTypes, readerViewVars
    <2> QED
      BY <1>4, <2>1, <2>2 DEF TagEnds
  <1>5. CASE SearchStarts
    <2>1. LoadInv' /\ PickBelongsToLoad' /\ pending' = pending /\ searching' = "first"
      BY <1>5, SearchStep DEF SearchStarts
    <2> QED
      BY <1>5, <2>1 DEF SearchStarts, ReaderInv, PaneTypes, readerViewVars
  <1>6. CASE SearchFails
    <2>1. LoadInv' /\ PickBelongsToLoad'
      BY <1>6, SameStep DEF SearchFails
    <2> QED
      BY <1>6, <2>1 DEF SearchFails, ReaderInv, PaneTypes, readerViewVars
  <1> QED
    BY <1>1, <1>2, <1>3, <1>4, <1>5, <1>6

(* A page of the search has replaced the list.                             *)
LEMMA ReplacedSearchStep ==
    ASSUME ReaderInv, NEW l \in SUBSET Threads, FinishReplacedSearch(l)
    PROVE  ReaderInv'
  <1>1. /\ list' = l /\ selected' \in Selections /\ prepared' = NoThread
        /\ UNCHANGED <<blocked, asking>>
    BY NothingSelected DEF FinishReplacedSearch, ReaderInv, PaneTypes
  <1> SUFFICES /\ LoadInv' /\ PickBelongsToLoad'
               /\ pending' \in {pending, NoPick} /\ openId' \in BOOLEAN
               /\ searching' \in {"no", "id"}
    BY <1>1, NothingSelected DEF ReaderInv, PaneTypes
  <1>2. CASE openId /\ l # {} /\ ~blocked
    <2>1. PICK first \in l :
            ScheduleThreadLoad([Request(first, l, "openMessage") EXCEPT !.old = selected'])
      BY <1>2 DEF FinishReplacedSearch
    <2>2. searching' = "no" /\ openId' = openId
      BY <1>2 DEF FinishReplacedSearch
    <2>3. LoadInv' /\ PickBelongsToLoad' /\ pending' = NoPick
      BY <1>1, <2>1, OpenAtMessageStep
    <2> QED
      BY <2>2, <2>3 DEF ReaderInv, PaneTypes
  <1>3. CASE openId /\ ~(l # {} /\ ~blocked) /\ searching # "id"
    <2>1. ScheduleSearch("id") /\ openId' = openId
      BY <1>3 DEF FinishReplacedSearch
    <2> QED
      BY <2>1, SearchStep DEF ReaderInv, PaneTypes
  <1>4. CASE openId /\ ~(l # {} /\ ~blocked) /\ searching = "id"
    <2>1. /\ openId' = FALSE /\ searching' = "no"
          /\ UNCHANGED <<coordinatorVars, workerVars, requests, pending, wish>>
      BY <1>4 DEF FinishReplacedSearch
    <2> QED
      BY <2>1, SameStep
  <1>5. CASE ~openId /\ searching \in {"first", "id"} /\ l # {} /\ ~blocked
    <2>1. PICK t \in l : ScheduleThreadLoad([Request(t, {t}, "preview") EXCEPT !.old = selected'])
      BY <1>5 DEF FinishReplacedSearch
    <2>2. searching' = "no" /\ openId' = openId
      BY <1>5 DEF FinishReplacedSearch
    <2>3. Request(t, {t}, "preview") \in LoadRequests
          /\ Request(t, {t}, "preview").thread \in Request(t, {t}, "preview").candidates
      BY RequestType DEF ReaderInv, Intents
    <2> DEFINE q == [Request(t, {t}, "preview") EXCEPT !.old = selected']
    <2>4. q \in LoadRequests /\ q.thread \in q.candidates
      BY <1>1, <2>3 DEF LoadRequests
    <2>5. LoadInv' /\ PickBelongsToLoad' /\ pending' = NoPick
      BY <2>1, <2>4, StartStep
    <2> QED
      BY <2>2, <2>5 DEF ReaderInv, PaneTypes
  <1>6. CASE ~openId /\ ~(searching \in {"first", "id"} /\ l # {} /\ ~blocked)
    <2>1. /\ openId' = openId /\ searching' = "no"
          /\ UNCHANGED <<coordinatorVars, workerVars, requests, pending, wish>>
      BY <1>6 DEF FinishReplacedSearch
    <2> QED
      BY <2>1, SameStep DEF ReaderInv, PaneTypes
  <1> QED
    BY <1>2, <1>3, <1>4, <1>5, <1>6

(* finish_thread_load: what a reply does to the pane.                      *)
LEMMA FinishTypes ==
    ASSUME PaneTypes, NEW request \in LoadRequests, NEW reply \in LoadReplies,
           FinishThreadLoad(request, reply)
    PROVE  /\ selected' \in Selections /\ asking' \in Questions
           /\ prepared' \in Threads \cup {NoThread}
           /\ prepared' # prepared => reply.kind = "ok" /\ prepared' = reply.thread
           /\ pending' \in {pending, NoPick} /\ openId' \in BOOLEAN
           /\ searching' \in {searching, "id"}
  <1>1. request.old \in Selections
    BY DEF LoadRequests
  <1>2. CASE ~(reply.kind = "ok" /\ reply.thread \in list
               /\ (request.intent # "openMessage" \/ reply.target # 0))
    <2>1. /\ selected' \in {selected, request.old}
          /\ UNCHANGED <<prepared, pending, asking>>
          /\ openId' \in {openId, FALSE, openId /\ ~(reply.kind = "absent")}
          /\ searching' \in {searching, "id"}
      BY <1>2 DEF FinishThreadLoad
    <2> QED
      BY <1>1, <2>1 DEF PaneTypes, Questions
  <1>3. CASE reply.kind = "ok" /\ reply.thread \in list
             /\ (request.intent # "openMessage" \/ reply.target # 0)
    <2>1. /\ ShowSelected([thread |-> reply.thread, message |-> MessageAfterLoad(request, reply)], request)
          /\ prepared' = reply.thread /\ pending' = NoPick
          /\ openId' = (openId /\ request.intent # "openMessage")
          /\ searching' = searching
      BY <1>3 DEF FinishThreadLoad, LoadReplies
    <2>2. MessageAfterLoad(request, reply) \in 0..Messages
      BY ReaderAssumption DEF MessageAfterLoad, LoadReplies
    <2>3. [thread |-> reply.thread, message |-> MessageAfterLoad(request, reply)] \in Selections
      BY <2>2 DEF LoadReplies, Selections
    <2>4. selected' \in Selections /\ asking' \in Questions
      BY <1>1, <2>1, <2>3, ShowType
    <2> QED
      BY <1>3, <2>1, <2>4 DEF PaneTypes, LoadReplies
  <1> QED
    BY <1>2, <1>3

LEMMA PollStep ==
    ASSUME ReaderInv, NEW g \in LoadNumbers, Poll(g)
    PROVE  ReaderInv' /\ (prepared' # prepared => prepared' \in wish)
  <1>1. LoadInv'
    BY PollKeeps DEF ReaderInv
  <1>2. UNCHANGED <<list, blocked>> /\ active' = IF active = g THEN 0 ELSE active
    BY DEF Poll, Accepts
  <1>3. CASE active = g /\ g \in DOMAIN replies
    <2>1. FinishThreadLoad(requests[g], replies[g])
      BY <1>3 DEF Poll, Accepts
    <2>2. requests[g] \in LoadRequests /\ replies[g] \in LoadReplies
          /\ (replies[g].kind = "ok" => replies[g].thread \in wish)
      BY <1>3 DEF ReaderInv, LoadInv, Asked, Followed, Numbered, LoadNumbers
    <2>3. /\ selected' \in Selections /\ asking' \in Questions
          /\ prepared' \in Threads \cup {NoThread}
          /\ prepared' # prepared => prepared' \in wish
          /\ pending' \in {pending, NoPick} /\ openId' \in BOOLEAN
          /\ searching' \in {searching, "id"}
      BY <2>1, <2>2, FinishTypes DEF ReaderInv
    <2>4. PaneTypes'
      BY <1>2, <2>3, NothingSelected DEF ReaderInv, PaneTypes, Questions
    <2>5. PickBelongsToLoad'
      BY <1>2, <1>3 DEF PickBelongsToLoad
    <2> QED
      BY <1>1, <2>3, <2>4, <2>5 DEF ReaderInv
  <1>4. CASE ~(active = g /\ g \in DOMAIN replies)
    <2>1. UNCHANGED <<selected, prepared, pending, asking, openId, searching>>
      BY <1>4 DEF Poll, Accepts
    <2>2. PaneTypes'
      BY <1>2, <2>1 DEF ReaderInv, PaneTypes
    <2>3. PickBelongsToLoad'
      BY <1>2, <2>1 DEF ReaderInv, PickBelongsToLoad
    <2> QED
      BY <1>1, <2>1, <2>2, <2>3 DEF ReaderInv
  <1> QED
    BY <1>3, <1>4

(* The composer's question is answered.                                    *)
LEMMA AnswerStep ==
    ASSUME ReaderInv, Answer
    PROVE  ReaderInv'
  <1>1. LoadInv' /\ PickBelongsToLoad'
    BY SameStep DEF Answer
  <1>2. asking \in [new : Selections, old : Selections]
    BY DEF Answer, ReaderInv, PaneTypes
  <1>3. selected' \in Selections
    BY <1>2 DEF Answer
  <1> QED
    BY <1>1, <1>3 DEF Answer, ReaderInv, PaneTypes

LEMMA WorkerStep ==
    ASSUME ReaderInv, WorkerTakes \/ WorkerEnds
    PROVE  ReaderInv'
  <1>1. LoadInv'
    BY TakesKeeps, EndsKeeps DEF ReaderInv
  <1>2. UNCHANGED <<active, list, readerViewVars, pending, openId, searching, blocked>>
    BY DEF WorkerTakes, WorkerEnds
  <1> QED
    BY <1>1, <1>2 DEF ReaderInv, PaneTypes, PickBelongsToLoad, readerViewVars

----------------------------------------------------------------------------

LEMMA ReaderInitInv == ReaderInit => ReaderInv
  <1> SUFFICES ASSUME ReaderInit PROVE ReaderInv
    OBVIOUS
  <1>1. Elements(channel) = {} /\ channel \in Seq(0..generation) /\ DOMAIN requests = {} /\ DOMAIN replies = {}
    BY DEF ReaderInit, Elements
  <1>2. Numbered /\ Asked /\ Followed /\ FlagKept /\ AwaitedLoadNotSkipped
    BY <1>1, ReaderAssumption
       DEF ReaderInit, Numbered, Asked, Followed, FlagKept, AwaitedLoadNotSkipped
  <1>3. CancelReachesLoad
    BY <1>1 DEF ReaderInit, CancelReachesLoad, Elements, LoadNumbers
  <1> QED
    BY <1>2, <1>3, NothingSelected DEF ReaderInit, ReaderInv, LoadInv, PaneTypes, PickBelongsToLoad

LEMMA ReaderNextInv == ReaderInv /\ [ReaderNext]_readerVars => ReaderInv'
  <1> SUFFICES ASSUME ReaderInv, [ReaderNext]_readerVars PROVE ReaderInv'
    OBVIOUS
  <1>1. CASE UNCHANGED readerVars
    <2>1. LoadInv' /\ PickBelongsToLoad'
      BY <1>1, SameStep DEF readerVars, coordinatorVars, workerVars
    <2> QED
      BY <1>1, <2>1 DEF readerVars, ReaderInv, PaneTypes
  <1>2. CASE ReaderNext
    BY <1>2, SelectThreadStep, OpenMessageIdStep, SelectMessageStep, DroppingStep,
       ReplacedSearchStep, PollStep, AnswerStep, WorkerStep DEF ReaderNext
  <1> QED
    BY <1>1, <1>2

LEMMA ReaderInvariance == ReaderSpec => []ReaderInv
  BY ReaderInitInv, ReaderNextInv, PTL DEF ReaderSpec

(* Type correctness of the loader, the coordinator and the message pane.   *)
THEOREM ReaderTypeCorrect == ReaderSpec => []ReaderTypeOK
  <1>1. ReaderInv => ReaderTypeOK
    <2> SUFFICES ASSUME ReaderInv PROVE ReaderTypeOK
      OBVIOUS
    <2>1. /\ generation \in 0..MaxGeneration /\ active \in 0..generation
          /\ cancelled \subseteq LoadNumbers /\ DOMAIN requests \subseteq LoadNumbers
      BY ReaderAssumption DEF ReaderInv, LoadInv, Numbered, LoadNumbers
    <2> QED
      BY <2>1 DEF ReaderInv, LoadInv, Numbered, PaneTypes, ReaderTypeOK
  <1> QED
    BY <1>1, ReaderInvariance, PTL

(***************************************************************************)
(* thread_loader.rs begin, cancel and latest_thread_load_job: whatever     *)
(* supersedes or drops loads, the one that is waited for is neither        *)
(* flagged nor skipped by the worker.                                      *)
(***************************************************************************)
THEOREM AwaitedLoadReachesWorker == ReaderSpec => []AwaitedLoadNotSkipped
  <1>1. ReaderInv => AwaitedLoadNotSkipped
    BY DEF ReaderInv, LoadInv
  <1> QED
    BY <1>1, ReaderInvariance, PTL

(* ThreadLoaderService.cancel: a load nobody waits for is told to stop, and   *)
(* a worker that ends one load never lets go of the flag of the next.         *)
THEOREM DroppedLoadIsFlagged == ReaderSpec => []CancelReachesLoad
  <1>1. ReaderInv => CancelReachesLoad
    BY DEF ReaderInv, LoadInv
  <1> QED
    BY <1>1, ReaderInvariance, PTL

(* pending_message_selection: a message picked during a load is used for      *)
(* that load only.                                                            *)
THEOREM PickStaysWithLoad == ReaderSpec => []PickBelongsToLoad
  <1>1. ReaderInv => PickBelongsToLoad
    BY DEF ReaderInv
  <1> QED
    BY <1>1, ReaderInvariance, PTL

(***************************************************************************)
(* finish_thread_load and accepts: contents are put in place only by the   *)
(* load that the user asked for last and has not dropped.                  *)
(***************************************************************************)
THEOREM NewestLoadShown == ReaderSpec => NewestLoadWins
  <1> DEFINE Wins == prepared' \notin {prepared, NoThread} => prepared' \in wish
  <1>1. ASSUME ReaderInv, [ReaderNext]_readerVars PROVE [Wins]_readerVars
    <2>1. ASSUME NEW g \in LoadNumbers, Poll(g) PROVE Wins
      BY <1>1, <2>1, PollStep
    <2>2. ASSUME NEW l \in SUBSET Threads, FinishReplacedSearch(l) PROVE Wins
      BY <2>2 DEF FinishReplacedSearch
    <2>3. ASSUME NEW t \in Threads, SelectThread(t) \/ OpenThread(t) PROVE Wins
      BY <2>3 DEF SelectThread, OpenThread, readerViewVars
    <2>4. ASSUME NEW m \in 1..Messages + 1, SelectMessage(m) PROVE Wins
      BY <2>4 DEF SelectMessage
    <2>5. ASSUME \/ OpenMessageId \/ ComposerEdited \/ TagStarts \/ TagEnds \/ SearchStarts
                 \/ SearchFails \/ Answer \/ WorkerTakes \/ WorkerEnds
          PROVE  Wins
      BY <2>5 DEF OpenMessageId, ComposerEdited, TagStarts, TagEnds, SearchStarts, SearchFails,
         Answer, WorkerTakes, WorkerEnds, readerViewVars
    <2> QED
      BY <1>1, <2>1, <2>2, <2>3, <2>4, <2>5 DEF ReaderNext
  <1> QED
    BY <1>1, ReaderInvariance, PTL DEF ReaderSpec, NewestLoadWins

(***************************************************************************)
(* The web view (HtmlView).  What holds of the two queues, the lifecycle   *)
(* and the web process is stated over values and not over the variables:   *)
(* q is the commands, v the events, l the lifecycle, w the web process and *)
(* d the background that was chosen.  A handler that changes several of    *)
(* them is then followed one change at a time: what it sends (Sends,       *)
(* Paint), what it heard (Hears), what was executed (Executes), what the   *)
(* web process tells (Tells).                                              *)
(***************************************************************************)
(* Records on the two queues *)
Kinds == {"probe", "scroll", "restore"}

Commands ==
  [op: {"stop"}] \cup [op: {"load"}, gen: 0..MaxLoads, dark: BOOLEAN]
  \cup [op: {"eval"}, kind: Kinds, gen: 0..MaxLoads, dark: BOOLEAN, y: 0..2]
  \cup [op: {"collect"}, gen: Nat] \cup [op: {"render"}, gen: Nat, doc: 0..MaxLoads]

Happenings ==
  [op: {"started"}] \cup [op: {"finished"}, doc: 0..MaxLoads]
  \cup [op: {"report"}, doc: 0..MaxLoads, ready: BOOLEAN]
  \cup [op: {"answer"}, kind: Kinds, gen: 0..MaxLoads, ok: BOOLEAN, doc: 0..MaxLoads, ready: BOOLEAN]
  \cup [op: {"collected"}, gen: Nat, doc: 0..MaxLoads, links: 0..3, retry: BOOLEAN]
  \cup [op: {"rendered"}, gen: Nat, ok: BOOLEAN]

Lives == [gen: 0..MaxLoads, ready: BOOLEAN, pend: 0..2, flight: BOOLEAN]
Webs == [doc: 0..MaxLoads, complete: BOOLEAN, prov: 0..MaxLoads, dark: BOOLEAN, y: 0..2]

HintsTyped ==
  /\ busy \in BOOLEAN
  /\ hints \in [phase: {"idle", "active"} \cup Loading, gen: Nat, doc: 0..MaxLoads,
                prefix: Seq({0,1}), tries: Nat]
  /\ timers \subseteq Nat

Typed(q, v, l, w) == q \in Seq(Commands) /\ v \in Seq(Happenings) /\ l \in Lives /\ w \in Webs

(* The document that was loaded last is in the web process, complete. *)
IsLast(l, w) == w.doc = l.gen /\ w.complete

(* Documents come in the order of their generations: a load that waits is newer than the
   document on screen, than the one being loaded and than the loads before it, and a stop is
   sent only in front of a load. *)
Ordered(q, l, w) ==
  /\ \A i \in DOMAIN q : q[i].op = "load" => w.doc < q[i].gen /\ w.prov < q[i].gen /\ q[i].gen <= l.gen
  /\ \A i, j \in DOMAIN q : i < j /\ q[i].op = "load" /\ q[j].op = "load" => q[i].gen < q[j].gen
  /\ \A i \in DOMAIN q : q[i].op = "stop" => i + 1 \in DOMAIN q /\ q[i + 1].op = "load"
  /\ \A i \in DOMAIN q : q[i].op = "eval" => q[i].gen <= l.gen
  /\ w.doc <= l.gen
  /\ w.prov # 0 => w.doc < w.prov /\ w.prov <= l.gen
  /\ w.complete => w.doc # 0

(* No event speaks of a document that is still to come, and one that says "ready" of the
   document on screen is right. *)
Heard(v, l, w) ==
  /\ l.ready => IsLast(l, w)
  /\ \A i \in DOMAIN v :
       v[i].op \in {"report", "answer"} =>
         v[i].doc <= w.doc /\ (v[i].ready /\ v[i].doc = w.doc => w.complete)
  /\ \A i \in DOMAIN v : v[i].op = "answer" => v[i].gen <= l.gen

(* Once the last document is complete, the UI knows it, or the report that says so is on its
   way with the end of the load behind it, and nothing later contradicts it. *)
Speaks(e, l) ==
  \/ e.op = "report" /\ e.doc = l.gen
  \/ e.op = "answer" /\ e.gen = l.gen /\ e.doc = l.gen /\ e.ok

Announced(v, l, i) ==
  /\ v[i].op = "report" /\ v[i].doc = l.gen /\ v[i].ready
  /\ i + 1 \in DOMAIN v /\ v[i + 1].op = "finished"
  /\ \A j \in DOMAIN v : j > i /\ Speaks(v[j], l) => v[j].ready

Shown(v, l, w) ==
  IsLast(l, w) =>
    \/ l.ready /\ \A j \in DOMAIN v : Speaks(v[j], l) => v[j].ready
    \/ \E i \in DOMAIN v : Announced(v, l, i)

(* The last document has the chosen background, or gets it: from the last script on its way,
   or from the one that the end of the load, still to be handled, is going to send. *)
Paints(c, l) == c.op = "eval" /\ c.gen = l.gen

Painted(q, l, d, i) ==
  /\ Paints(q[i], l) /\ q[i].dark = d
  /\ \A j \in DOMAIN q : j > i /\ Paints(q[j], l) => q[j].dark = d

Follows(q, v, l, w, d) ==
  IsLast(l, w) =>
    \/ \E i \in DOMAIN v : v[i].op = "finished"
    \/ \E i \in DOMAIN q : Painted(q, l, d, i)
    \/ w.dark = d /\ \A j \in DOMAIN q : Paints(q[j], l) => q[j].dark = d

(* A restore is sent only to the last document, complete; it is answered well; and the flag
   in_flight means that the script or its answer is on its way. *)
Restores(c, l) == Paints(c, l) /\ c.kind = "restore"
Restored(e, l) == e.op = "answer" /\ e.kind = "restore" /\ e.gen = l.gen

Flying(q, v, l, w) ==
  /\ \A i \in DOMAIN q : Restores(q[i], l) => IsLast(l, w)
  /\ \A i \in DOMAIN v : Restored(v[i], l) => v[i].ok /\ v[i].doc = l.gen /\ v[i].ready
  /\ l.flight => (\E i \in DOMAIN q : Restores(q[i], l)) \/ (\E i \in DOMAIN v : Restored(v[i], l))

Held(q, v, l, w) ==
  /\ Typed(q, v, l, w)
  /\ Ordered(q, l, w)
  /\ Heard(v, l, w)
  /\ Shown(v, l, w)
  /\ Flying(q, v, l, w)

Core(q, v, l, w, d) == Held(q, v, l, w) /\ Follows(q, v, l, w, d)

(* A fraction that waits for a document that is ready was sent. *)
Served(l) == l.pend # NoFraction /\ l.ready => l.flight

HtmlInv == HintsTyped /\ dark \in BOOLEAN /\ Core(cmds, events, life, web, dark) /\ Served(life)


-----------------------------------------------------------------------------
(* Positions *)

LEMMA TailPositions ==
  ASSUME NEW S, NEW v \in Seq(S), v # <<>>
  PROVE  /\ Tail(v) \in Seq(S) /\ Head(v) \in S /\ Head(v) = v[1] /\ 1 \in DOMAIN v
         /\ DOMAIN v \subseteq Nat \ {0} /\ DOMAIN Tail(v) \subseteq Nat \ {0}
         /\ \A i \in DOMAIN Tail(v) : i + 1 \in DOMAIN v /\ Tail(v)[i] = v[i + 1]
         /\ \A i \in DOMAIN v : i # 1 => i - 1 \in DOMAIN Tail(v) /\ Tail(v)[i - 1] = v[i]
  OBVIOUS

LEMMA ConcatPositions ==
  ASSUME NEW S, NEW q \in Seq(S), NEW x \in Seq(S)
  PROVE  /\ q \o x \in Seq(S)
         /\ DOMAIN q \subseteq DOMAIN (q \o x)
         /\ \A i \in DOMAIN q : (q \o x)[i] = q[i]
         /\ \A i \in DOMAIN (q \o x) : i \notin DOMAIN q => i - Len(q) \in DOMAIN x /\ (q \o x)[i] = x[i - Len(q)]
         /\ \A k \in DOMAIN x : Len(q) + k \in DOMAIN (q \o x) /\ (q \o x)[Len(q) + k] = x[k]
         /\ \A i \in DOMAIN q, j \in DOMAIN (q \o x) : j \notin DOMAIN q => i < j
         /\ \A i \in DOMAIN q, j \in DOMAIN (q \o x) : j <= i => j \in DOMAIN q
         /\ DOMAIN q \subseteq Nat \ {0} /\ DOMAIN (q \o x) \subseteq Nat \ {0} /\ Len(q) \in Nat
  OBVIOUS

LEMMA AppendIsConcat ==
  ASSUME NEW S, NEW q \in Seq(S), NEW e \in S
  PROVE  Append(q, e) = q \o <<e>> /\ <<e>> \in Seq(S) /\ DOMAIN <<e>> = {1} /\ <<e>>[1] = e
  OBVIOUS

LEMMA CommandFields ==
  ASSUME NEW c \in Commands
  PROVE  /\ c.op \in {"stop", "load", "eval", "collect", "render"}
         /\ c.op = "load" => c.gen \in 0..MaxLoads /\ c.dark \in BOOLEAN
         /\ c.op = "eval" => c.kind \in Kinds /\ c.gen \in 0..MaxLoads /\ c.dark \in BOOLEAN /\ c.y \in 0..2
         /\ c.op = "collect" => c.gen \in Nat
         /\ c.op = "render" => c.gen \in Nat /\ c.doc \in 0..MaxLoads
  BY DEF Commands

LEMMA HappeningFields ==
  ASSUME NEW e \in Happenings
  PROVE  /\ e.op \in {"started", "finished", "report", "answer", "collected", "rendered"}
         /\ e.op = "finished" => e.doc \in 0..MaxLoads
         /\ e.op = "report" => e.doc \in 0..MaxLoads /\ e.ready \in BOOLEAN
         /\ e.op = "answer" => /\ e.kind \in Kinds /\ e.gen \in 0..MaxLoads /\ e.ok \in BOOLEAN
                               /\ e.doc \in 0..MaxLoads /\ e.ready \in BOOLEAN
         /\ e.op = "collected" => e.gen \in Nat /\ e.doc \in 0..MaxLoads /\ e.links \in 0..3 /\ e.retry \in BOOLEAN
         /\ e.op = "rendered" => e.gen \in Nat /\ e.ok \in BOOLEAN
  BY DEF Happenings

-----------------------------------------------------------------------------
(* Commands sent *)

(* What the UI may send at any time: hint commands, and scripts of the last document. *)
Sendable(c, l) ==
  \/ c.op \in {"collect", "render"}
  \/ c.op = "eval" /\ c.gen = l.gen /\ (c.kind = "restore" => l.ready)

LEMMA Sends ==
  ASSUME NEW q, NEW v, NEW l, NEW w, Held(q, v, l, w),
         NEW x \in Seq(Commands), \A k \in DOMAIN x : Sendable(x[k], l)
  PROVE  Held(q \o x, v, l, w)
  <1> DEFINE p == q \o x
  <1>0. q \in Seq(Commands) /\ v \in Seq(Happenings) /\ l \in Lives /\ w \in Webs
    BY DEF Held, Typed
  <1>1. \A i \in DOMAIN q : i \in DOMAIN p /\ p[i] = q[i] /\ i \in Nat
    BY <1>0, ConcatPositions
  <1>2. \A i \in DOMAIN p : i \notin DOMAIN q => Sendable(p[i], l)
    BY <1>0, ConcatPositions
  <1>3. /\ \A i \in DOMAIN q, j \in DOMAIN p : j <= i => j \in DOMAIN q
        /\ \A i \in DOMAIN q, j \in DOMAIN p : j \notin DOMAIN q => i < j
        /\ DOMAIN p \subseteq Nat
    BY <1>0, ConcatPositions
  <1>4. p \in Seq(Commands)
    BY <1>0, ConcatPositions
  <1>5. l.gen \in Nat /\ l.ready \in BOOLEAN
    BY <1>0 DEF Lives
  <1> HIDE DEF p
  <1>10. Typed(p, v, l, w)
    BY <1>0, <1>4 DEF Typed
  <1>11. Ordered(p, l, w)
    <2>0. Ordered(q, l, w)
      BY DEF Held
    <2>1. \A i \in DOMAIN p : p[i].op = "load" => i \in DOMAIN q
      BY <1>2 DEF Sendable
    <2>2. \A i \in DOMAIN p : p[i].op = "stop" => i \in DOMAIN q
      BY <1>2 DEF Sendable
    <2>3. \A i \in DOMAIN p : p[i].op = "load" => w.doc < p[i].gen /\ w.prov < p[i].gen /\ p[i].gen <= l.gen
      BY <2>0, <2>1, <1>1 DEF Ordered
    <2>4. \A i, j \in DOMAIN p : i < j /\ p[i].op = "load" /\ p[j].op = "load" => p[i].gen < p[j].gen
      BY <2>0, <2>1, <1>1 DEF Ordered
    <2>5. \A i \in DOMAIN p : p[i].op = "stop" => i + 1 \in DOMAIN p /\ p[i + 1].op = "load"
      BY <2>0, <2>2, <1>1 DEF Ordered
    <2>6. \A i \in DOMAIN p : p[i].op = "eval" => p[i].gen <= l.gen
      BY <2>0, <1>1, <1>2, <1>5 DEF Ordered, Sendable
    <2> QED
      BY <2>0, <2>3, <2>4, <2>5, <2>6 DEF Ordered
  <1>13. Flying(p, v, l, w)
    <2>1. \A i \in DOMAIN p : Restores(p[i], l) => IsLast(l, w)
      BY <1>1, <1>2 DEF Held, Flying, Heard, Sendable, Restores, Paints
    <2>2. (\E i \in DOMAIN q : Restores(q[i], l)) => \E i \in DOMAIN p : Restores(p[i], l)
      BY <1>1
    <2> QED
      BY <2>1, <2>2 DEF Held, Flying
  <1>20. Shown(v, l, w)
    BY DEF Held
  <1> QED
    BY <1>10, <1>11, <1>13, <1>20 DEF Held, p

(* Scripts with the background of the moment keep it the last. *)
LEMMA SendsPaint ==
  ASSUME NEW q, NEW v, NEW l, NEW w, NEW d, Core(q, v, l, w, d), NEW x \in Seq(Commands),
         \A k \in DOMAIN x : Sendable(x[k], l) /\ (x[k].op = "eval" => x[k].dark = d)
  PROVE  Core(q \o x, v, l, w, d)
  <1> DEFINE p == q \o x
  <1>0. q \in Seq(Commands) /\ Held(q, v, l, w) /\ Follows(q, v, l, w, d)
    BY DEF Core, Held, Typed
  <1>1. \A i \in DOMAIN q : i \in DOMAIN p /\ p[i] = q[i] /\ i \in Nat
    BY <1>0, ConcatPositions
  <1>2. \A i \in DOMAIN p : i \notin DOMAIN q => (p[i].op = "eval" => p[i].dark = d)
    BY <1>0, ConcatPositions
  <1>3. Held(p, v, l, w)
    BY <1>0, Sends
  <1> HIDE DEF p
  <1>12. Follows(p, v, l, w, d)
    <2> SUFFICES ASSUME IsLast(l, w), ~ \E i \in DOMAIN v : v[i].op = "finished"
                 PROVE  \/ \E i \in DOMAIN p : Painted(p, l, d, i)
                        \/ w.dark = d /\ \A j \in DOMAIN p : Paints(p[j], l) => p[j].dark = d
      BY DEF Follows
    <2>1. \A j \in DOMAIN p : j \notin DOMAIN q /\ Paints(p[j], l) => p[j].dark = d
      BY <1>2 DEF Paints
    <2>2. CASE \E i \in DOMAIN q : Painted(q, l, d, i)
      <3>1. PICK i \in DOMAIN q : Painted(q, l, d, i)
        BY <2>2
      <3>2. \A j \in DOMAIN p : j > i /\ Paints(p[j], l) => p[j].dark = d
        BY <3>1, <2>1, <1>1 DEF Painted
      <3> QED
        BY <3>1, <3>2, <1>1 DEF Painted
    <2>3. CASE w.dark = d /\ \A j \in DOMAIN q : Paints(q[j], l) => q[j].dark = d
      BY <2>1, <2>3, <1>1
    <2> QED
      BY <1>0, <2>2, <2>3 DEF Follows
  <1> QED
    BY <1>3, <1>12 DEF Core, p

(* The script sent last decides the background, whatever else was sent before. *)
LEMMA Paint ==
  ASSUME NEW q \in Seq(Commands), NEW x \in Seq(Commands), NEW l, NEW d,
         NEW k \in DOMAIN x, Paints(x[k], l), \A j \in DOMAIN x : Paints(x[j], l) => x[j].dark = d
  PROVE  Painted(q \o x, l, d, Len(q) + k) /\ Len(q) + k \in DOMAIN (q \o x)
  <1>1. \A i \in DOMAIN (q \o x) : i > Len(q) + k => i \notin DOMAIN q
    OBVIOUS
  <1>2. \A i \in DOMAIN (q \o x) : i > Len(q) + k => i - Len(q) \in DOMAIN x /\ (q \o x)[i] = x[i - Len(q)]
    BY <1>1, ConcatPositions
  <1>3. Len(q) + k \in DOMAIN (q \o x) /\ (q \o x)[Len(q) + k] = x[k]
    BY ConcatPositions
  <1> QED
    BY <1>2, <1>3 DEF Painted

-----------------------------------------------------------------------------
(* The lifecycle's own steps *)

(* Which fraction waits is no part of the rest. *)
LEMMA Waits ==
  ASSUME NEW q, NEW v, NEW l, NEW w, NEW d, Core(q, v, l, w, d), NEW y \in 0..2
  PROVE  Core(q, v, [l EXCEPT !.pend = y], w, d)
  <1> DEFINE m == [l EXCEPT !.pend = y]
  <1>1. l \in Lives
    BY DEF Core, Held, Typed
  <1>2. m \in Lives /\ m.gen = l.gen /\ m.ready = l.ready /\ m.flight = l.flight
    BY <1>1 DEF Lives
  <1> HIDE DEF m
  <1>3. IsLast(m, w) <=> IsLast(l, w)
    BY <1>2 DEF IsLast
  <1>4. /\ \A c : Paints(c, m) <=> Paints(c, l)
        /\ \A c : Restores(c, m) <=> Restores(c, l)
        /\ \A c : Restored(c, m) <=> Restored(c, l)
        /\ \A c : Speaks(c, m) <=> Speaks(c, l)
    BY <1>2 DEF Paints, Restores, Restored, Speaks
  <1>5. Typed(q, v, m, w) /\ Ordered(q, m, w) /\ Heard(v, m, w)
    BY <1>2, <1>3 DEF Core, Held, Typed, Ordered, Heard
  <1>6. Shown(v, m, w)
    BY <1>2, <1>3, <1>4 DEF Core, Held, Shown, Announced
  <1>7. Follows(q, v, m, w, d)
    BY <1>3, <1>4 DEF Core, Follows, Painted
  <1>8. Flying(q, v, m, w)
    BY <1>2, <1>3, <1>4 DEF Core, Held, Flying
  <1> QED
    BY <1>5, <1>6, <1>7, <1>8 DEF Core, Held, m

(* dispatch_ready_restore leaves no restore waiting that could be sent. *)
LEMMA Dispatches ==
  ASSUME NEW q, NEW v, NEW l, NEW w, Core(q, v, l, w, dark), dark \in BOOLEAN
  PROVE  Core(q \o DispatchCommand(l), v, Dispatched(l), w, dark) /\ Served(Dispatched(l))
  <1>1. l \in Lives /\ q \in Seq(Commands)
    BY DEF Core, Held, Typed
  <1>2. CASE ~CanRestore(l)
    <2>1. Dispatched(l) = l /\ q \o DispatchCommand(l) = q
      BY <1>1, <1>2 DEF Dispatched, DispatchCommand
    <2>2. Served(l)
      BY <1>1, <1>2 DEF CanRestore, Served, Lives
    <2> QED
      BY <2>1, <2>2
  <1>3. CASE CanRestore(l)
    <2> DEFINE c == Evaluation(l, "restore")
               p == q \o <<c>>
               m == [l EXCEPT !.flight = TRUE]
    <2>1. c \in Commands
      BY <1>1 DEF Evaluation, Commands, Kinds, Lives
    <2>2. c.op = "eval" /\ c.kind = "restore" /\ c.gen = l.gen /\ c.dark = dark
      BY DEF Evaluation
    <2>3. l.ready
      BY <1>3 DEF CanRestore
    <2> HIDE DEF c
    <2>4. <<c>> \in Seq(Commands) /\ DOMAIN <<c>> = {1} /\ <<c>>[1] = c
      BY <2>1
    <2>5. \A k \in DOMAIN <<c>> : Sendable(<<c>>[k], l) /\ (<<c>>[k].op = "eval" => <<c>>[k].dark = dark)
      BY <2>2, <2>3, <2>4 DEF Sendable
    <2>6. Core(p, v, l, w, dark)
      BY <2>4, <2>5, SendsPaint
    <2>7. Len(q) + 1 \in DOMAIN p /\ p[Len(q) + 1] = c
      BY <1>1, <2>4, ConcatPositions
    <2> HIDE DEF p
    <2>8. m \in Lives /\ m.gen = l.gen /\ m.ready = l.ready /\ m.flight
      BY <1>1 DEF Lives
    <2> HIDE DEF m
    <2>9. IsLast(m, w) <=> IsLast(l, w)
      BY <2>8 DEF IsLast
    <2>10. /\ \A e : Paints(e, m) <=> Paints(e, l)
           /\ \A e : Restores(e, m) <=> Restores(e, l)
           /\ \A e : Restored(e, m) <=> Restored(e, l)
           /\ \A e : Speaks(e, m) <=> Speaks(e, l)
      BY <2>8 DEF Paints, Restores, Restored, Speaks
    <2>11. Typed(p, v, m, w) /\ Ordered(p, m, w) /\ Heard(v, m, w)
      BY <2>6, <2>8, <2>9 DEF Core, Held, Typed, Ordered, Heard
    <2>12. Shown(v, m, w)
      BY <2>6, <2>8, <2>9, <2>10 DEF Core, Held, Shown, Announced
    <2>13. Follows(p, v, m, w, dark)
      BY <2>6, <2>9, <2>10 DEF Core, Follows, Painted
    <2>14. Restores(p[Len(q) + 1], m)
      BY <2>2, <2>7, <2>8 DEF Restores, Paints
    <2>15. Flying(p, v, m, w)
      BY <2>6, <2>7, <2>8, <2>9, <2>10, <2>14 DEF Core, Held, Flying
    <2>16. Core(p, v, m, w, dark) /\ Served(m)
      BY <2>8, <2>11, <2>12, <2>13, <2>15 DEF Core, Held, Served
    <2>17. Dispatched(l) = m /\ q \o DispatchCommand(l) = p
      BY <1>3 DEF Dispatched, DispatchCommand, m, p, c
    <2> QED
      BY <2>16, <2>17
  <1> QED
    BY <1>2, <1>3

(* begin_load: what is still on its way is about an older document. *)
LEMMA Loads ==
  ASSUME NEW q, NEW v, NEW l, NEW w, NEW d \in BOOLEAN, Core(q, v, l, w, d), l.gen < MaxLoads
  PROVE  /\ Core(q \o <<[op |-> "stop"], [op |-> "load", gen |-> l.gen + 1, dark |-> d]>>, v, BegunLoad(l), w, d)
         /\ Served(BegunLoad(l))
  <1> DEFINE a == [op |-> "stop"]
             b == [op |-> "load", gen |-> l.gen + 1, dark |-> d]
             x == <<a, b>>
             p == q \o x
             m == BegunLoad(l)
             n == Len(q)
  <1>0. q \in Seq(Commands) /\ v \in Seq(Happenings) /\ l \in Lives /\ w \in Webs
    BY DEF Core, Held, Typed
  <1>1. l.gen \in Nat /\ MaxLoads \in Nat /\ w.doc \in Nat /\ w.prov \in Nat
    BY <1>0, HtmlAssumption DEF Lives, Webs
  <1>2. m \in Lives /\ m.gen = l.gen + 1 /\ m.ready = FALSE /\ m.pend = NoFraction /\ m.flight = FALSE
    BY <1>0, <1>1, HtmlAssumption DEF BegunLoad, Lives, NoFraction
  <1>3. a \in Commands /\ b \in Commands
    BY <1>1, HtmlAssumption DEF Commands
  <1>4. a.op = "stop" /\ b.op = "load" /\ b.gen = l.gen + 1
    OBVIOUS
  <1> HIDE DEF a, b, m
  <1>5. x \in Seq(Commands) /\ DOMAIN x = {1, 2} /\ x[1] = a /\ x[2] = b
    BY <1>3
  <1> HIDE DEF x
  <1>6. p \in Seq(Commands) /\ n \in Nat
    BY <1>0, <1>5, ConcatPositions
  <1>7. /\ \A i \in DOMAIN q : i \in DOMAIN p /\ p[i] = q[i] /\ i \in Nat /\ i < n + 1
        /\ n + 1 \in DOMAIN p /\ p[n + 1] = a /\ n + 2 \in DOMAIN p /\ p[n + 2] = b
        /\ \A i \in DOMAIN p : i \in DOMAIN q \/ i = n + 1 \/ i = n + 2
    <2>1. \A i \in DOMAIN q : i \in DOMAIN p /\ p[i] = q[i] /\ i \in Nat
      BY <1>0, <1>5, ConcatPositions
    <2>2. \A i \in DOMAIN q : i < n + 1
      BY <1>0
    <2>3. n + 1 \in DOMAIN p /\ p[n + 1] = a /\ n + 2 \in DOMAIN p /\ p[n + 2] = b
      BY <1>0, <1>5, ConcatPositions
    <2>4. \A i \in DOMAIN p : i \notin DOMAIN q => i - n \in DOMAIN x /\ i \in Nat
      BY <1>0, <1>5, ConcatPositions
    <2>5. \A i \in DOMAIN p : i \in DOMAIN q \/ i = n + 1 \/ i = n + 2
      BY <2>4, <1>5, <1>6
    <2> QED
      BY <2>1, <2>2, <2>3, <2>5
  <1> HIDE DEF p, n
  <1>8. Typed(p, v, m, w)
    BY <1>0, <1>2, <1>6 DEF Typed
  <1>9. w.doc <= l.gen /\ (w.prov # 0 => w.prov <= l.gen)
    BY DEF Core, Held, Ordered
  <1>10. \A i \in DOMAIN q : /\ q[i].op = "load" => q[i].gen \in Nat
                             /\ q[i].op = "eval" => q[i].gen \in Nat
    BY <1>0, CommandFields
  <1>11. Ordered(p, m, w)
    <2>1. \A i \in DOMAIN p : p[i].op = "load" => w.doc < p[i].gen /\ w.prov < p[i].gen /\ p[i].gen <= m.gen
      BY <1>1, <1>2, <1>4, <1>7, <1>9, <1>10 DEF Core, Held, Ordered
    <2>2. \A i, j \in DOMAIN p : i < j /\ p[i].op = "load" /\ p[j].op = "load" => p[i].gen < p[j].gen
      <3> SUFFICES ASSUME NEW i \in DOMAIN p, NEW j \in DOMAIN p, i < j, p[i].op = "load", p[j].op = "load"
                   PROVE  p[i].gen < p[j].gen
        OBVIOUS
      <3>1. CASE j \in DOMAIN q
        <4>1. i \in DOMAIN q
          BY <1>6, <1>7, <3>1
        <4> QED
          BY <3>1, <4>1, <1>7 DEF Core, Held, Ordered
      <3>2. CASE j \notin DOMAIN q
        <4>1. j = n + 2 /\ i \in DOMAIN q
          BY <3>2, <1>4, <1>6, <1>7
        <4>2. p[i].gen <= l.gen /\ p[i].gen \in Nat
          BY <4>1, <1>7, <1>10 DEF Core, Held, Ordered
        <4> QED
          BY <4>1, <4>2, <1>1, <1>4, <1>7
      <3> QED
        BY <3>1, <3>2
    <2>3. \A i \in DOMAIN p : p[i].op = "stop" => i + 1 \in DOMAIN p /\ p[i + 1].op = "load"
      <3> SUFFICES ASSUME NEW i \in DOMAIN p, p[i].op = "stop"
                   PROVE  i + 1 \in DOMAIN p /\ p[i + 1].op = "load"
        OBVIOUS
      <3>1. CASE i \in DOMAIN q
        BY <3>1, <1>7 DEF Core, Held, Ordered
      <3>2. CASE i = n + 1
        BY <3>2, <1>4, <1>6, <1>7
      <3>3. i # n + 2
        BY <1>4, <1>7
      <3> QED
        BY <3>1, <3>2, <3>3, <1>7
    <2>4. \A i \in DOMAIN p : p[i].op = "eval" => p[i].gen <= m.gen
      BY <1>1, <1>2, <1>4, <1>7, <1>10 DEF Core, Held, Ordered
    <2>5. w.doc <= m.gen /\ (w.prov # 0 => w.doc < w.prov /\ w.prov <= m.gen) /\ (w.complete => w.doc # 0)
      BY <1>1, <1>2, <1>9 DEF Core, Held, Ordered
    <2> QED
      BY <2>1, <2>2, <2>3, <2>4, <2>5 DEF Ordered
  <1>12. ~IsLast(m, w)
    BY <1>1, <1>2, <1>9 DEF IsLast
  <1>13. \A i \in DOMAIN v : v[i].op = "answer" => v[i].gen \in Nat /\ v[i].gen <= l.gen
    BY <1>0, HappeningFields DEF Core, Held, Heard
  <1>14. Heard(v, m, w)
    BY <1>1, <1>2, <1>13 DEF Core, Held, Heard
  <1>15. \A i \in DOMAIN p : ~Restores(p[i], m)
    BY <1>1, <1>2, <1>4, <1>7, <1>10 DEF Restores, Paints, Core, Held, Ordered
  <1>16. \A i \in DOMAIN v : ~Restored(v[i], m)
    BY <1>1, <1>2, <1>13 DEF Restored
  <1>17. Shown(v, m, w) /\ Follows(p, v, m, w, d) /\ Flying(p, v, m, w)
    BY <1>2, <1>12, <1>15, <1>16 DEF Shown, Follows, Flying
  <1>18. Served(m)
    BY <1>2 DEF Served
  <1> QED
    BY <1>8, <1>11, <1>14, <1>17, <1>18 DEF Core, Held, p, x, a, b, m

(* set_dark_background: the script of the moment carries the new background, or the load
   under way is still to be announced as finished. *)
LEMMA Darkens ==
  ASSUME NEW q, NEW v, NEW w, Core(q, v, life, w, dark), dark \in BOOLEAN
  PROVE  Core(q \o ProbeOnChange(life), v, life, w, ~dark)
  <1>0. q \in Seq(Commands) /\ v \in Seq(Happenings) /\ life \in Lives /\ w \in Webs
    BY DEF Core, Held, Typed
  <1>1. CASE ~life.ready
    <2>1. q \o ProbeOnChange(life) = q
      BY <1>0, <1>1 DEF ProbeOnChange
    <2>2. Follows(q, v, life, w, ~dark)
      BY <1>1 DEF Core, Held, Shown, Announced, Follows
    <2> QED
      BY <2>1, <2>2 DEF Core, Held
  <1>2. CASE life.ready
    <2> DEFINE c == [Evaluation(life, "probe") EXCEPT !.dark = ~dark]
               p == q \o <<c>>
    <2>1. c \in Commands
      BY <1>0 DEF Evaluation, Commands, Kinds, Lives
    <2>2. c.op = "eval" /\ c.kind = "probe" /\ c.gen = life.gen /\ c.dark = ~dark
      BY DEF Evaluation
    <2> HIDE DEF c
    <2>3. <<c>> \in Seq(Commands) /\ DOMAIN <<c>> = {1} /\ <<c>>[1] = c
      BY <2>1
    <2>4. Held(p, v, life, w)
      <3>1. \A k \in DOMAIN <<c>> : Sendable(<<c>>[k], life)
        BY <2>2, <2>3 DEF Sendable
      <3> QED
        BY <2>3, <3>1, Sends DEF Core
    <2>5. Painted(p, life, ~dark, Len(q) + 1) /\ Len(q) + 1 \in DOMAIN p
      <3>1. Paints(<<c>>[1], life) /\ \A j \in DOMAIN <<c>> : Paints(<<c>>[j], life) => <<c>>[j].dark = ~dark
        BY <2>2, <2>3 DEF Paints
      <3> QED
        BY <1>0, <2>3, <3>1, Paint
    <2>6. q \o ProbeOnChange(life) = p
      BY <1>2 DEF ProbeOnChange, p, c
    <2> HIDE DEF p
    <2>7. Follows(p, v, life, w, ~dark)
      BY <2>5 DEF Follows
    <2> QED
      BY <2>4, <2>6, <2>7 DEF Core
  <1> QED
    BY <1>1, <1>2

-----------------------------------------------------------------------------
(* Events heard *)

(* What handling the first event must do to the lifecycle. *)
Heeds(q, v, l, m, w, d) ==
  /\ m.gen = l.gen
  /\ m.ready => IsLast(l, w)
  /\ IsLast(l, w) /\ Speaks(Head(v), l) /\ Head(v).ready => m.ready
  /\ IsLast(l, w) /\ ~Speaks(Head(v), l) /\ l.ready => m.ready
  /\ m.flight => l.flight /\ ~Restored(Head(v), l)
  /\ Head(v).op = "finished" => \E i \in DOMAIN q : Painted(q, l, d, i)

LEMMA Hears ==
  ASSUME NEW q, NEW v, NEW l, NEW w, NEW d, Core(q, v, l, w, d), v # <<>>,
         NEW m \in Lives, Heeds(q, v, l, m, w, d)
  PROVE  Core(q, Tail(v), m, w, d)
  <1> DEFINE t == Tail(v)
             e == Head(v)
  <1>0. /\ q \in Seq(Commands) /\ v \in Seq(Happenings) /\ l \in Lives /\ w \in Webs
        /\ Ordered(q, l, w) /\ Heard(v, l, w) /\ Shown(v, l, w) /\ Flying(q, v, l, w) /\ Follows(q, v, l, w, d)
    BY DEF Core, Held, Typed
  <1>1. t \in Seq(Happenings) /\ e \in Happenings /\ e = v[1] /\ 1 \in DOMAIN v
    BY <1>0, TailPositions
  <1>2. \A i \in DOMAIN t : i + 1 \in DOMAIN v /\ t[i] = v[i + 1] /\ i \in Nat
    BY <1>0, TailPositions
  <1>3. \A i \in DOMAIN v : i # 1 => i - 1 \in DOMAIN t /\ t[i - 1] = v[i]
    BY <1>0, TailPositions
  <1>4. DOMAIN v \subseteq Nat \ {0}
    BY <1>0, TailPositions
  <1> HIDE DEF t, e
  <1>5. m.gen = l.gen /\ (IsLast(m, w) <=> IsLast(l, w))
    BY DEF Heeds, IsLast
  <1>6. /\ \A c : Paints(c, m) <=> Paints(c, l)
        /\ \A c : Restores(c, m) <=> Restores(c, l)
        /\ \A c : Restored(c, m) <=> Restored(c, l)
        /\ \A c : Speaks(c, m) <=> Speaks(c, l)
    BY <1>5 DEF Paints, Restores, Restored, Speaks
  <1>7. Typed(q, t, m, w) /\ Ordered(q, m, w)
    BY <1>0, <1>1, <1>5 DEF Typed, Ordered
  <1>8. Heard(t, m, w)
    BY <1>0, <1>2, <1>5 DEF Heard, Heeds
  <1>9. Shown(t, m, w)
    <2> SUFFICES ASSUME IsLast(l, w)
                 PROVE  \/ m.ready /\ \A j \in DOMAIN t : Speaks(t[j], l) => t[j].ready
                        \/ \E i \in DOMAIN t : Announced(t, m, i)
      BY <1>5, <1>6 DEF Shown
    <2>1. CASE l.ready /\ \A j \in DOMAIN v : Speaks(v[j], l) => v[j].ready
      <3>1. Speaks(e, l) => e.ready
        BY <2>1, <1>1
      <3>2. m.ready
        BY <2>1, <3>1 DEF Heeds, e
      <3> QED
        BY <2>1, <3>2, <1>2
    <2>2. CASE \E i \in DOMAIN v : Announced(v, l, i)
      <3>1. PICK i \in DOMAIN v : Announced(v, l, i)
        BY <2>2
      <3>2. CASE i = 1
        <4>1. e.op = "report" /\ e.doc = l.gen /\ e.ready
          BY <3>1, <3>2, <1>1 DEF Announced
        <4>2. m.ready
          BY <4>1 DEF Heeds, Speaks, e
        <4>3. \A j \in DOMAIN t : Speaks(t[j], l) => t[j].ready
          <5> SUFFICES ASSUME NEW j \in DOMAIN t, Speaks(t[j], l)
                       PROVE  t[j].ready
            OBVIOUS
          <5>1. j + 1 \in DOMAIN v /\ t[j] = v[j + 1] /\ j \in Nat /\ j + 1 \in Nat \ {0} /\ j # 0
            BY <1>2, <1>4, <1>1
          <5> QED
            BY <5>1, <3>1, <3>2 DEF Announced
        <4> QED
          BY <4>2, <4>3
      <3>3. CASE i # 1
        <4>1. i - 1 \in DOMAIN t /\ t[i - 1] = v[i] /\ i \in Nat \ {0}
          BY <3>3, <1>3, <1>4
        <4>2. i + 1 \in DOMAIN v /\ i + 1 # 1
          BY <3>1, <4>1 DEF Announced
        <4>3. (i + 1) - 1 \in DOMAIN t /\ t[(i + 1) - 1] = v[i + 1] /\ (i + 1) - 1 = (i - 1) + 1
          BY <4>1, <4>2, <1>3
        <4>4. \A j \in DOMAIN t : j > i - 1 /\ Speaks(t[j], m) => t[j].ready
          <5> SUFFICES ASSUME NEW j \in DOMAIN t, j > i - 1, Speaks(t[j], m)
                       PROVE  t[j].ready
            OBVIOUS
          <5>1. j + 1 \in DOMAIN v /\ t[j] = v[j + 1] /\ j \in Nat /\ j + 1 > i
            BY <1>2, <4>1
          <5>2. Speaks(v[j + 1], l)
            BY <5>1, <1>6
          <5> QED
            BY <5>1, <5>2, <3>1 DEF Announced
        <4>5. Announced(t, m, i - 1)
          BY <4>1, <4>3, <4>4, <3>1, <1>5 DEF Announced
        <4> QED
          BY <4>1, <4>5
      <3> QED
        BY <3>2, <3>3
    <2> QED
      BY <2>1, <2>2, <1>0 DEF Shown
  <1>10. Follows(q, t, m, w, d)
    <2> SUFFICES ASSUME IsLast(l, w)
                 PROVE  \/ \E i \in DOMAIN t : t[i].op = "finished"
                        \/ \E i \in DOMAIN q : Painted(q, m, d, i)
                        \/ w.dark = d /\ \A j \in DOMAIN q : Paints(q[j], m) => q[j].dark = d
      BY <1>5 DEF Follows
    <2>1. \A i \in DOMAIN q : Painted(q, l, d, i) => Painted(q, m, d, i)
      BY <1>6 DEF Painted
    <2>2. (\E i \in DOMAIN v : v[i].op = "finished") =>
            (\E i \in DOMAIN t : t[i].op = "finished") \/ e.op = "finished"
      BY <1>1, <1>3
    <2>3. e.op = "finished" => \E i \in DOMAIN q : Painted(q, l, d, i)
      BY DEF Heeds, e
    <2> QED
      BY <2>1, <2>2, <2>3, <1>0, <1>6 DEF Follows
  <1>11. Flying(q, t, m, w)
    <2>1. \A i \in DOMAIN q : Restores(q[i], m) => IsLast(m, w)
      BY <1>0, <1>5, <1>6 DEF Flying
    <2>2. \A i \in DOMAIN t : Restored(t[i], m) => t[i].ok /\ t[i].doc = m.gen /\ t[i].ready
      BY <1>0, <1>2, <1>5, <1>6 DEF Flying
    <2>3. ASSUME m.flight
          PROVE  (\E i \in DOMAIN q : Restores(q[i], m)) \/ (\E i \in DOMAIN t : Restored(t[i], m))
      <3>1. l.flight /\ ~Restored(e, l)
        BY <2>3 DEF Heeds, e
      <3>2. CASE \E i \in DOMAIN v : Restored(v[i], l)
        BY <3>1, <3>2, <1>1, <1>3, <1>6
      <3> QED
        BY <3>1, <3>2, <1>0, <1>6 DEF Flying
    <2> QED
      BY <2>1, <2>2, <2>3 DEF Flying
  <1> QED
    BY <1>7, <1>8, <1>9, <1>10, <1>11 DEF Core, Held, t

(* An event that is neither a report nor an answer nor the end of a load. *)
LEMMA HearsOther ==
  ASSUME NEW q, NEW v, NEW l, NEW w, NEW d, Core(q, v, l, w, d), v # <<>>,
         Head(v).op \notin {"report", "answer"},
         Head(v).op = "finished" => \E i \in DOMAIN q : Painted(q, l, d, i)
  PROVE  Core(q, Tail(v), l, w, d)
  <1>1. l \in Lives
    BY DEF Core, Held, Typed
  <1>2. Heeds(q, v, l, l, w, d)
    BY DEF Heeds, Speaks, Restored, Core, Held, Heard
  <1> QED
    BY <1>1, <1>2, Hears

LEMMA HearsReport ==
  ASSUME NEW q, NEW v, NEW l, NEW w, NEW d, Core(q, v, l, w, d), v # <<>>, Head(v).op = "report"
  PROVE  Core(q, Tail(v), Recorded(l, Head(v)), w, d)
  <1> DEFINE e == Head(v)
             m == Recorded(l, e)
  <1>0. /\ v \in Seq(Happenings) /\ l \in Lives /\ w \in Webs
        /\ Ordered(q, l, w) /\ Heard(v, l, w)
    BY DEF Core, Held, Typed
  <1>1. e \in Happenings /\ e = v[1] /\ 1 \in DOMAIN v
    BY <1>0, TailPositions
  <1>2. e.op = "report" /\ e.ready \in BOOLEAN /\ e.doc \in Nat
    BY <1>1, HappeningFields
  <1>3. e.doc <= w.doc /\ (e.ready /\ e.doc = w.doc => w.complete)
    BY <1>0, <1>1, <1>2 DEF Heard
  <1>4. /\ m \in Lives /\ m.gen = l.gen /\ m.flight = l.flight
        /\ e.doc = l.gen => m.ready = e.ready
        /\ e.doc # l.gen => m.ready = l.ready
    BY <1>0, <1>2 DEF Recorded, Lives
  <1>5. w.doc <= l.gen /\ w.doc \in Nat /\ l.gen \in Nat
    BY <1>0 DEF Ordered, Webs, Lives
  <1>6. m.ready => IsLast(l, w)
    BY <1>0, <1>2, <1>3, <1>4, <1>5 DEF IsLast, Heard
  <1>7. Heeds(q, v, l, m, w, d)
    BY <1>2, <1>4, <1>6 DEF Heeds, Speaks, Restored
  <1> QED
    BY <1>4, <1>7, Hears

LEMMA HearsAnswer ==
  ASSUME NEW q, NEW v, NEW l, NEW w, NEW d, Core(q, v, l, w, d), v # <<>>, Head(v).op = "answer"
  PROVE  /\ Core(q, Tail(v), Completed(l, Head(v)), w, d)
         /\ Served(l) /\ ~GoesOn(l, Head(v)) => Served(Completed(l, Head(v)))
  <1> DEFINE e == Head(v)
             m == Completed(l, e)
  <1>0. /\ v \in Seq(Happenings) /\ l \in Lives /\ w \in Webs
        /\ Ordered(q, l, w) /\ Heard(v, l, w) /\ Flying(q, v, l, w)
    BY DEF Core, Held, Typed
  <1>1. e \in Happenings /\ e = v[1] /\ 1 \in DOMAIN v
    BY <1>0, TailPositions
  <1>2. e.op = "answer" /\ e.ready \in BOOLEAN /\ e.ok \in BOOLEAN /\ e.doc \in Nat /\ e.gen \in Nat
    BY <1>1, HappeningFields
  <1>3. e.doc <= w.doc /\ (e.ready /\ e.doc = w.doc => w.complete)
    BY <1>0, <1>1, <1>2 DEF Heard
  <1>4. e.kind = "restore" /\ e.gen = l.gen => e.ok /\ e.doc = l.gen /\ e.ready
    BY <1>0, <1>1, <1>2 DEF Flying, Restored
  <1>5. w.doc <= l.gen /\ w.doc \in Nat /\ l.gen \in Nat
    BY <1>0 DEF Ordered, Webs, Lives
  <1>6. CASE ~GoesOn(l, e)
    <2>1. m = l
      <3>1. CASE e.gen # l.gen
        BY <3>1 DEF Completed
      <3>2. CASE e.gen = l.gen
        <4>1. e.kind # "restore" /\ (~e.ok \/ e.doc # l.gen)
          BY <3>2, <1>4, <1>6, <1>2 DEF GoesOn
        <4>2. m = [l EXCEPT !.flight = @]
          BY <3>2, <4>1 DEF Completed
        <4> QED
          BY <4>2, <1>0 DEF Lives
      <3> QED
        BY <3>1, <3>2
    <2>2. ~Speaks(e, l) /\ ~Restored(e, l)
      BY <1>2, <1>4, <1>6 DEF Speaks, Restored, GoesOn
    <2>3. Heeds(q, v, l, l, w, d)
      BY <2>2, <1>0, <1>2 DEF Heeds, Heard
    <2> QED
      BY <2>1, <2>3, <1>0, Hears
  <1>7. CASE GoesOn(l, e)
    <2>1. e.gen = l.gen /\ e.ok /\ e.doc = l.gen
      BY <1>7 DEF GoesOn
    <2>2. /\ m \in Lives /\ m.gen = l.gen /\ m.ready = e.ready
          /\ m.flight = IF e.kind = "restore" THEN FALSE ELSE l.flight
      <3> DEFINE n == [l EXCEPT !.flight = IF e.kind = "restore" THEN FALSE ELSE @]
      <3>1. n \in Lives /\ n.gen = l.gen /\ n.flight = IF e.kind = "restore" THEN FALSE ELSE l.flight
        BY <1>0 DEF Lives
      <3>2. m = [n EXCEPT !.ready = e.ready, !.pend = IF e.kind = "restore" /\ e.ready THEN NoFraction ELSE @]
        BY <2>1 DEF Completed
      <3>3. PICK y \in 0..2 : y = IF e.kind = "restore" /\ e.ready THEN NoFraction ELSE n.pend
        BY <3>1 DEF Lives, NoFraction
      <3>4. m = [n EXCEPT !.ready = e.ready, !.pend = y]
        BY <3>1, <3>2, <3>3 DEF Lives
      <3> HIDE DEF n, m
      <3> QED
        BY <3>1, <3>4, <1>2 DEF Lives
    <2> HIDE DEF m
    <2>3. m.ready => IsLast(l, w)
      BY <2>1, <2>2, <1>3, <1>5 DEF IsLast
    <2>4. Speaks(e, l)
      BY <2>1, <1>2 DEF Speaks
    <2>5. Heeds(q, v, l, m, w, d)
      BY <2>1, <2>2, <2>3, <2>4, <1>2 DEF Heeds, Restored
    <2>6. Core(q, Tail(v), m, w, d)
      BY <2>2, <2>5, Hears
    <2> QED
      BY <2>6, <1>7 DEF m
  <1> QED
    BY <1>6, <1>7

-----------------------------------------------------------------------------
(* The web process *)

LEMMA TakenInOrder ==
  ASSUME NEW q \in Seq(Commands), q # <<>>, NEW l, NEW w, Ordered(q, l, w)
  PROVE  Ordered(Tail(q), l, w)
  <1> DEFINE t == Tail(q)
  <1>1. \A i \in DOMAIN t : i + 1 \in DOMAIN q /\ t[i] = q[i + 1] /\ i \in Nat
    BY TailPositions
  <1>2. \A i \in DOMAIN q : i # 1 => i - 1 \in DOMAIN t /\ t[i - 1] = q[i]
    BY TailPositions
  <1> HIDE DEF t
  <1>3. \A i \in DOMAIN t : t[i].op = "stop" => i + 1 \in DOMAIN t /\ t[i + 1].op = "load"
    <2> SUFFICES ASSUME NEW i \in DOMAIN t, t[i].op = "stop"
                 PROVE  i + 1 \in DOMAIN t /\ t[i + 1].op = "load"
      OBVIOUS
    <2>1. i \in Nat /\ (i + 1) + 1 \in DOMAIN q /\ q[(i + 1) + 1].op = "load"
      BY <1>1 DEF Ordered
    <2>2. i \in Nat /\ i + 1 \in DOMAIN q
      BY <1>1
    <2>3. 0 \notin DOMAIN q
      BY TailPositions
    <2>4. (i + 1) + 1 # 1 /\ ((i + 1) + 1) - 1 = i + 1
      BY <2>2, <2>3
    <2> QED
      BY <2>1, <2>4, <1>2
  <1>4. \A i, j \in DOMAIN t : i < j /\ t[i].op = "load" /\ t[j].op = "load" => t[i].gen < t[j].gen
    BY <1>1 DEF Ordered
  <1> QED
    BY <1>1, <1>3, <1>4 DEF Ordered, t

(* What the web process may report of a document. *)
Truthful(e, l, w) ==
  /\ e.op \in {"report", "answer"} => e.doc <= w.doc /\ (e.ready /\ e.doc = w.doc => w.complete)
  /\ e.op = "answer" => e.gen <= l.gen
  /\ IsLast(l, w) /\ Speaks(e, l) => e.ready
  /\ Restored(e, l) => e.ok /\ e.doc = l.gen /\ e.ready

LEMMA Tells ==
  ASSUME NEW q, NEW v, NEW l, NEW w, NEW d, Core(q, v, l, w, d), NEW e \in Happenings, Truthful(e, l, w)
  PROVE  Core(q, Append(v, e), l, w, d)
  <1> DEFINE t == Append(v, e)
             n == Len(v) + 1
  <1>0. /\ q \in Seq(Commands) /\ v \in Seq(Happenings) /\ l \in Lives /\ w \in Webs
        /\ Ordered(q, l, w) /\ Heard(v, l, w) /\ Shown(v, l, w) /\ Flying(q, v, l, w) /\ Follows(q, v, l, w, d)
    BY DEF Core, Held, Typed
  <1>1. /\ t \in Seq(Happenings) /\ n \in DOMAIN t /\ t[n] = e
        /\ \A i \in DOMAIN v : i \in DOMAIN t /\ t[i] = v[i] /\ i < n
        /\ \A i \in DOMAIN t : i # n => i \in DOMAIN v
    BY <1>0
  <1> HIDE DEF t, n
  <1>2. Typed(q, t, l, w)
    BY <1>0, <1>1 DEF Typed
  <1>3. Heard(t, l, w)
    BY <1>0, <1>1 DEF Heard, Truthful
  <1>4. Shown(t, l, w)
    <2> SUFFICES ASSUME IsLast(l, w)
                 PROVE  \/ l.ready /\ \A j \in DOMAIN t : Speaks(t[j], l) => t[j].ready
                        \/ \E i \in DOMAIN t : Announced(t, l, i)
      BY DEF Shown
    <2>0. Speaks(e, l) => e.ready
      BY DEF Truthful
    <2>1. CASE l.ready /\ \A j \in DOMAIN v : Speaks(v[j], l) => v[j].ready
      BY <2>0, <2>1, <1>1
    <2>2. CASE \E i \in DOMAIN v : Announced(v, l, i)
      <3>1. PICK i \in DOMAIN v : Announced(v, l, i)
        BY <2>2
      <3>2. \A j \in DOMAIN t : j > i /\ Speaks(t[j], l) => t[j].ready
        BY <3>1, <2>0, <1>1 DEF Announced
      <3>3. Announced(t, l, i)
        BY <3>1, <3>2, <1>1 DEF Announced
      <3> QED
        BY <3>3, <1>1
    <2> QED
      BY <2>1, <2>2, <1>0 DEF Shown
  <1>5. Follows(q, t, l, w, d)
    BY <1>0, <1>1 DEF Follows
  <1>6. Flying(q, t, l, w)
    <2>1. \A i \in DOMAIN t : Restored(t[i], l) => t[i].ok /\ t[i].doc = l.gen /\ t[i].ready
      BY <1>0, <1>1 DEF Flying, Truthful
    <2>2. (\E i \in DOMAIN v : Restored(v[i], l)) => \E i \in DOMAIN t : Restored(t[i], l)
      BY <1>1
    <2> QED
      BY <2>1, <2>2, <1>0 DEF Flying
  <1> QED
    BY <1>0, <1>2, <1>3, <1>4, <1>5, <1>6 DEF Core, Held, t

(* A command that leaves the document as it is, executed. *)
LEMMA Executes ==
  ASSUME NEW q, NEW v, NEW l, NEW w, NEW d, Core(q, v, l, w, d), q # <<>>, NEW u \in Webs,
         u.doc = w.doc, u.prov = w.prov, u.complete = w.complete,
         Restores(Head(q), l) => \E i \in DOMAIN v : Restored(v[i], l),
         IsLast(l, w) /\ Paints(Head(q), l) => u.dark = Head(q).dark,
         IsLast(l, w) /\ ~Paints(Head(q), l) => u.dark = w.dark
  PROVE  Core(Tail(q), v, l, u, d)
  <1> DEFINE t == Tail(q)
             c == Head(q)
  <1>0. /\ q \in Seq(Commands) /\ v \in Seq(Happenings) /\ l \in Lives /\ w \in Webs
        /\ Ordered(q, l, w) /\ Heard(v, l, w) /\ Shown(v, l, w) /\ Flying(q, v, l, w) /\ Follows(q, v, l, w, d)
    BY DEF Core, Held, Typed
  <1>1. t \in Seq(Commands) /\ c = q[1] /\ 1 \in DOMAIN q
    BY <1>0, TailPositions
  <1>2. \A i \in DOMAIN t : i + 1 \in DOMAIN q /\ t[i] = q[i + 1] /\ i \in Nat /\ i # 0
    BY <1>0, TailPositions
  <1>3. \A i \in DOMAIN q : (i # 1 => i - 1 \in DOMAIN t /\ t[i - 1] = q[i]) /\ i \in Nat
    BY <1>0, TailPositions
  <1>4. Ordered(t, l, w)
    BY <1>0, TakenInOrder
  <1>5. IsLast(l, u) <=> IsLast(l, w)
    BY DEF IsLast
  <1>6. IsLast(l, u) => /\ Paints(c, l) => u.dark = c.dark
                        /\ ~Paints(c, l) => u.dark = w.dark
    BY <1>5
  <1>7. Restores(c, l) => \E i \in DOMAIN v : Restored(v[i], l)
    OBVIOUS
  <1> HIDE DEF t, c
  <1>8. Typed(t, v, l, u) /\ Ordered(t, l, u) /\ Heard(v, l, u) /\ Shown(v, l, u)
    BY <1>0, <1>1, <1>4, <1>5 DEF Typed, Ordered, Heard, Shown
  <1>9. Follows(t, v, l, u, d)
    <2> SUFFICES ASSUME IsLast(l, u), ~ \E i \in DOMAIN v : v[i].op = "finished"
                 PROVE  \/ \E i \in DOMAIN t : Painted(t, l, d, i)
                        \/ u.dark = d /\ \A j \in DOMAIN t : Paints(t[j], l) => t[j].dark = d
      BY DEF Follows
    <2>1. CASE \E i \in DOMAIN q : Painted(q, l, d, i)
      <3>1. PICK i \in DOMAIN q : Painted(q, l, d, i)
        BY <2>1
      <3>2. \A j \in DOMAIN t : j + 1 > i /\ Paints(t[j], l) => t[j].dark = d
        BY <3>1, <1>2 DEF Painted
      <3>3. CASE i = 1
        <4>1. Paints(c, l) /\ c.dark = d
          BY <3>1, <3>3, <1>1 DEF Painted
        <4>2. \A j \in DOMAIN t : j + 1 > i
          BY <1>2, <3>3
        <4> QED
          BY <4>1, <4>2, <3>2, <1>6
      <3>4. CASE i # 1
        <4>1. i - 1 \in DOMAIN t /\ t[i - 1] = q[i] /\ i \in Nat
          BY <3>4, <1>3
        <4>2. \A j \in DOMAIN t : j > i - 1 => j + 1 > i
          BY <1>2, <4>1
        <4>3. Painted(t, l, d, i - 1)
          BY <4>1, <4>2, <3>1, <3>2 DEF Painted
        <4> QED
          BY <4>1, <4>3
      <3> QED
        BY <3>3, <3>4
    <2>2. CASE w.dark = d /\ \A j \in DOMAIN q : Paints(q[j], l) => q[j].dark = d
      <3>1. u.dark = d
        BY <2>2, <1>1, <1>6
      <3> QED
        BY <3>1, <2>2, <1>2
    <2> QED
      BY <2>1, <2>2, <1>0, <1>5 DEF Follows
  <1>10. Flying(t, v, l, u)
    <2>1. \A i \in DOMAIN t : Restores(t[i], l) => IsLast(l, u)
      BY <1>0, <1>2, <1>5 DEF Flying
    <2>2. (\E i \in DOMAIN q : Restores(q[i], l)) =>
             (\E i \in DOMAIN t : Restores(t[i], l)) \/ (\E i \in DOMAIN v : Restored(v[i], l))
      BY <1>1, <1>3, <1>7
    <2> QED
      BY <2>1, <2>2, <1>0 DEF Flying
  <1> QED
    BY <1>8, <1>9, <1>10 DEF Core, Held, t

Kept == Core(cmds, events, life, web, dark)

LEMMA WebStopsKeeps ==
  ASSUME Kept, WebStops
  PROVE  Core(cmds', events', life, web', dark)
  <1> DEFINE t == Tail(cmds)
             u == [web EXCEPT !.prov = 0, !.complete = web.doc # 0]
  <1>0. /\ cmds \in Seq(Commands) /\ events \in Seq(Happenings) /\ life \in Lives /\ web \in Webs
        /\ Ordered(cmds, life, web) /\ Heard(events, life, web) /\ Flying(cmds, events, life, web)
    BY DEF Kept, Core, Held, Typed
  <1>1. cmds # <<>> /\ Head(cmds).op = "stop" /\ cmds' = t /\ web' = u
    BY DEF WebStops, NextCommand
  <1>2. /\ t \in Seq(Commands) /\ Head(cmds) = cmds[1] /\ 1 \in DOMAIN cmds
        /\ \A i \in DOMAIN t : i + 1 \in DOMAIN cmds /\ t[i] = cmds[i + 1]
    BY <1>0, <1>1, TailPositions
  <1>3. web.doc < life.gen /\ web.doc \in Nat /\ web.prov \in Nat /\ life.gen \in Nat
    <2>1. 1 + 1 \in DOMAIN cmds /\ cmds[1 + 1].op = "load"
      BY <1>0, <1>1, <1>2 DEF Ordered
    <2>2. cmds[1 + 1] \in Commands
      BY <2>1, <1>0
    <2>3. cmds[1 + 1].gen \in Nat
      BY <2>1, <2>2, CommandFields
    <2>4. web.doc \in Nat /\ web.prov \in Nat /\ life.gen \in Nat
      BY <1>0 DEF Webs, Lives
    <2> QED
      BY <2>1, <2>3, <2>4, <1>0 DEF Ordered
  <1>4. u \in Webs /\ u.doc = web.doc /\ u.prov = 0 /\ (u.complete <=> web.doc # 0)
    <2>1. PICK b \in BOOLEAN : b = (web.doc # 0)
      OBVIOUS
    <2>2. u = [web EXCEPT !.prov = 0, !.complete = b]
      BY <2>1
    <2>3. 0 \in 0..MaxLoads
      BY HtmlAssumption
    <2> HIDE DEF u
    <2>4. u \in Webs /\ u.doc = web.doc /\ u.prov = 0 /\ u.complete = b
      BY <1>0, <2>2, <2>3 DEF Webs
    <2> QED
      BY <2>1, <2>4
  <1>5. Ordered(t, life, web)
    BY <1>0, <1>1, TakenInOrder
  <1> HIDE DEF t, u
  <1>6. Ordered(t, life, u)
    <2>1. \A i \in DOMAIN t : t[i].op = "load" => t[i].gen \in Nat
      BY <1>2, CommandFields
    <2>2. \A i \in DOMAIN t : t[i].op = "load" => u.doc < t[i].gen /\ u.prov < t[i].gen /\ t[i].gen <= life.gen
      BY <1>3, <1>4, <1>5, <2>1 DEF Ordered
    <2>3. u.doc <= life.gen /\ u.prov = 0 /\ (u.complete => u.doc # 0)
      BY <1>3, <1>4, <1>5 DEF Ordered
    <2> QED
      BY <1>5, <2>2, <2>3 DEF Ordered
  <1>7. ~IsLast(life, web) /\ ~IsLast(life, u)
    BY <1>3, <1>4 DEF IsLast
  <1>8. Heard(events, life, u)
    <2>1. web.complete => web.doc # 0
      BY <1>0 DEF Ordered
    <2> QED
      BY <1>0, <1>4, <1>7, <2>1 DEF Heard
  <1>9. Shown(events, life, u) /\ Follows(t, events, life, u, dark)
    BY <1>7 DEF Shown, Follows
  <1>10. Flying(t, events, life, u)
    BY <1>0, <1>2, <1>7 DEF Flying
  <1>11. Core(t, events, life, u, dark)
    BY <1>0, <1>2, <1>4, <1>6, <1>8, <1>9, <1>10 DEF Core, Held, Typed
  <1>12. PICK g \in 0..MaxLoads : g = IF web.prov # 0 THEN web.prov ELSE web.doc
    BY <1>0 DEF Webs
  <1> DEFINE e == [op |-> "finished", doc |-> g]
  <1>13. e \in Happenings /\ e.op = "finished"
    BY DEF Happenings
  <1>14. Truthful(e, life, u)
    BY <1>13 DEF Truthful, Speaks, Restored
  <1>15. Core(t, Append(events, e), life, u, dark)
    <2> HIDE DEF e
    <2> QED
      BY <1>11, <1>13, <1>14, Tells
  <1>16. events' = events \/ events' = Append(events, e)
    BY <1>12 DEF WebStops, Emit
  <1> HIDE DEF e
  <1> QED
    BY <1>1, <1>11, <1>15, <1>16

LEMMA WebStartsKeeps ==
  ASSUME Kept, WebStarts
  PROVE  Core(cmds', events', life, web', dark)
  <1> DEFINE t == Tail(cmds)
             c == Head(cmds)
             u == [web EXCEPT !.prov = c.gen, !.dark = c.dark]
             e == [op |-> "started"]
  <1>0. /\ cmds \in Seq(Commands) /\ events \in Seq(Happenings) /\ life \in Lives /\ web \in Webs
        /\ Ordered(cmds, life, web) /\ Heard(events, life, web) /\ Flying(cmds, events, life, web)
    BY DEF Kept, Core, Held, Typed
  <1>1. cmds # <<>> /\ c.op = "load" /\ cmds' = t /\ web' = u /\ events' = Append(events, e)
    BY DEF WebStarts, NextCommand, Emit
  <1>2. /\ t \in Seq(Commands) /\ c = cmds[1] /\ 1 \in DOMAIN cmds /\ c \in Commands
        /\ \A i \in DOMAIN t : i + 1 \in DOMAIN cmds /\ t[i] = cmds[i + 1] /\ i \in Nat /\ i # 0
    BY <1>0, <1>1, TailPositions
  <1>3. c.gen \in 0..MaxLoads /\ c.dark \in BOOLEAN
    BY <1>1, <1>2, CommandFields
  <1>4. web.doc < c.gen /\ c.gen <= life.gen
    BY <1>0, <1>1, <1>2 DEF Ordered
  <1>5. u \in Webs /\ u.doc = web.doc /\ u.prov = c.gen /\ u.complete = web.complete
    BY <1>0, <1>3 DEF Webs
  <1>6. web.doc \in Nat /\ life.gen \in Nat
    BY <1>0 DEF Webs, Lives
  <1>7. Ordered(t, life, web)
    BY <1>0, <1>1, TakenInOrder
  <1>8. \A i \in DOMAIN t : t[i].op = "load" => c.gen < t[i].gen
    <2> SUFFICES ASSUME NEW i \in DOMAIN t, t[i].op = "load"
                 PROVE  c.gen < t[i].gen
      OBVIOUS
    <2>1. 1 < i + 1
      BY <1>2
    <2> QED
      BY <2>1, <1>0, <1>1, <1>2 DEF Ordered
  <1> HIDE DEF t, c, u
  <1>9. Ordered(t, life, u)
    BY <1>4, <1>5, <1>7, <1>8 DEF Ordered
  <1>10. ~IsLast(life, web) /\ ~IsLast(life, u)
    BY <1>3, <1>4, <1>5, <1>6 DEF IsLast
  <1>11. Heard(events, life, u)
    BY <1>0, <1>5, <1>10 DEF Heard
  <1>12. Flying(t, events, life, u) /\ Shown(events, life, u) /\ Follows(t, events, life, u, dark)
    BY <1>0, <1>2, <1>10 DEF Flying, Shown, Follows
  <1>13. Core(t, events, life, u, dark)
    BY <1>0, <1>2, <1>5, <1>9, <1>11, <1>12 DEF Core, Held, Typed
  <1>14. e \in Happenings /\ Truthful(e, life, u)
    BY DEF Happenings, Truthful, Speaks, Restored
  <1> HIDE DEF e
  <1> QED
    BY <1>1, <1>13, <1>14, Tells

LEMMA WebCommitsKeeps ==
  ASSUME Kept, WebCommits
  PROVE  Core(cmds', events', life, web', dark)
  <1> DEFINE u == [web EXCEPT !.doc = web.prov, !.prov = 0, !.complete = FALSE, !.y = NoFraction]
             e == Report(web.prov, FALSE)
  <1>0. /\ cmds \in Seq(Commands) /\ events \in Seq(Happenings) /\ life \in Lives /\ web \in Webs
        /\ Ordered(cmds, life, web) /\ Heard(events, life, web) /\ Flying(cmds, events, life, web)
    BY DEF Kept, Core, Held, Typed
  <1>1. web.prov # 0 /\ web' = u /\ events' = Append(events, e) /\ cmds' = cmds
    BY DEF WebCommits, Emit
  <1>2. web.doc \in Nat /\ life.gen \in Nat /\ web.prov \in 0..MaxLoads /\ MaxLoads \in Nat
    BY <1>0, HtmlAssumption DEF Webs, Lives
  <1>3. web.doc < web.prov /\ web.prov <= life.gen
    BY <1>0, <1>1 DEF Ordered
  <1>4. u \in Webs /\ u.doc = web.prov /\ u.prov = 0 /\ u.complete = FALSE
    <2>1. 0 \in 0..MaxLoads /\ NoFraction \in 0..2
      BY <1>2 DEF NoFraction
    <2> QED
      BY <1>0, <1>2, <2>1 DEF Webs
  <1> HIDE DEF u
  <1>5. ~IsLast(life, web) /\ ~IsLast(life, u)
    BY <1>2, <1>3, <1>4 DEF IsLast
  <1>6. Ordered(cmds, life, u)
    <2>1. \A i \in DOMAIN cmds : cmds[i].op = "load" => cmds[i].gen \in Nat
      BY <1>0, CommandFields
    <2> QED
      BY <1>0, <1>2, <1>3, <1>4, <2>1 DEF Ordered
  <1>7. Heard(events, life, u)
    <2>1. \A i \in DOMAIN events : events[i].op \in {"report", "answer"} => events[i].doc \in Nat
      BY <1>0, HappeningFields
    <2> QED
      BY <1>0, <1>2, <1>3, <1>4, <1>5, <2>1 DEF Heard
  <1>8. Flying(cmds, events, life, u) /\ Shown(events, life, u) /\ Follows(cmds, events, life, u, dark)
    BY <1>0, <1>5 DEF Flying, Shown, Follows
  <1>9. Core(cmds, events, life, u, dark)
    BY <1>0, <1>4, <1>6, <1>7, <1>8 DEF Core, Held, Typed
  <1>10. e \in Happenings /\ e.op = "report" /\ e.doc = web.prov /\ e.ready = FALSE
    BY <1>2 DEF Report, Happenings
  <1> HIDE DEF e
  <1>11. Truthful(e, life, u)
    BY <1>2, <1>4, <1>5, <1>10 DEF Truthful, Restored
  <1> QED
    BY <1>1, <1>9, <1>10, <1>11, Tells

LEMMA WebCompletesKeeps ==
  ASSUME Kept, WebCompletes
  PROVE  Core(cmds', events', life, web', dark)
  <1> DEFINE u == [web EXCEPT !.complete = TRUE]
             a == Report(web.doc, TRUE)
             b == [op |-> "finished", doc |-> web.doc]
             t == events \o <<a, b>>
             n == Len(events)
  <1>0. /\ cmds \in Seq(Commands) /\ events \in Seq(Happenings) /\ life \in Lives /\ web \in Webs
        /\ Ordered(cmds, life, web) /\ Heard(events, life, web) /\ Flying(cmds, events, life, web)
    BY DEF Kept, Core, Held, Typed
  <1>1. web.prov = 0 /\ web.doc # 0 /\ web' = u /\ events' = t /\ cmds' = cmds
    BY DEF WebCompletes
  <1>2. web.doc \in 0..MaxLoads /\ life.gen \in Nat /\ MaxLoads \in Nat
    BY <1>0, HtmlAssumption DEF Webs, Lives
  <1>3. u \in Webs /\ u.doc = web.doc /\ u.prov = web.prov /\ u.complete
    BY <1>0 DEF Webs
  <1>4. /\ a \in Happenings /\ a.op = "report" /\ a.doc = web.doc /\ a.ready
        /\ b \in Happenings /\ b.op = "finished"
    BY <1>2 DEF Report, Happenings
  <1> HIDE DEF u, a, b
  <1>5. <<a, b>> \in Seq(Happenings) /\ DOMAIN <<a, b>> = {1, 2} /\ <<a, b>>[1] = a /\ <<a, b>>[2] = b
    BY <1>4
  <1>6. /\ t \in Seq(Happenings) /\ n \in Nat
        /\ \A i \in DOMAIN events : i \in DOMAIN t /\ t[i] = events[i]
        /\ n + 1 \in DOMAIN t /\ t[n + 1] = a /\ (n + 1) + 1 \in DOMAIN t /\ t[(n + 1) + 1] = b
        /\ \A i \in DOMAIN t : i \in DOMAIN events \/ i = n + 1 \/ i = (n + 1) + 1
    <2>1. /\ t \in Seq(Happenings) /\ n \in Nat
          /\ \A i \in DOMAIN events : i \in DOMAIN t /\ t[i] = events[i]
          /\ \A i \in DOMAIN t : i \notin DOMAIN events => i - n \in {1, 2} /\ i \in Nat
      BY <1>0, <1>5, ConcatPositions
    <2>2. n + 1 \in DOMAIN t /\ t[n + 1] = a /\ n + 2 \in DOMAIN t /\ t[n + 2] = b
      BY <1>0, <1>5, ConcatPositions
    <2>3. n + 2 = (n + 1) + 1
      BY <2>1
    <2>4. \A i \in DOMAIN t : i \notin DOMAIN events => i = n + 1 \/ i = (n + 1) + 1
      BY <2>1
    <2> QED
      BY <2>1, <2>2, <2>3, <2>4
  <1>61. \A i \in DOMAIN events : i <= n
    BY <1>0
  <1> HIDE DEF t, n
  <1>7. IsLast(life, web) => IsLast(life, u)
    BY <1>3 DEF IsLast
  <1>8. Ordered(cmds, life, u)
    BY <1>0, <1>1, <1>3 DEF Ordered
  <1>9. Heard(t, life, u)
    <2>1. life.ready => IsLast(life, u)
      BY <1>0, <1>7 DEF Heard
    <2>2. \A i \in DOMAIN t : t[i].op \in {"report", "answer"} =>
             t[i].doc <= u.doc /\ (t[i].ready /\ t[i].doc = u.doc => u.complete)
      BY <1>0, <1>2, <1>3, <1>4, <1>6 DEF Heard
    <2>3. \A i \in DOMAIN t : t[i].op = "answer" => t[i].gen <= life.gen
      BY <1>0, <1>4, <1>6 DEF Heard
    <2> QED
      BY <2>1, <2>2, <2>3 DEF Heard
  <1>10. Shown(t, life, u)
    <2> SUFFICES ASSUME IsLast(life, u)
                 PROVE  Announced(t, life, n + 1)
      BY <1>6 DEF Shown
    <2>1. a.doc = life.gen
      BY <1>3, <1>4 DEF IsLast
    <2>2. \A j \in DOMAIN t : j > n + 1 => t[j] = b
      BY <1>6, <1>61
    <2>3. ~Speaks(b, life)
      BY <1>4 DEF Speaks
    <2> QED
      BY <2>1, <2>2, <2>3, <1>4, <1>6 DEF Announced
  <1>11. Follows(cmds, t, life, u, dark)
    BY <1>4, <1>6 DEF Follows
  <1>12. Flying(cmds, t, life, u)
    <2>1. ~Restored(a, life) /\ ~Restored(b, life)
      BY <1>4 DEF Restored
    <2>2. \A i \in DOMAIN t : Restored(t[i], life) => t[i].ok /\ t[i].doc = life.gen /\ t[i].ready
      BY <2>1, <1>0, <1>6 DEF Flying
    <2>3. (\E i \in DOMAIN events : Restored(events[i], life)) => \E i \in DOMAIN t : Restored(t[i], life)
      BY <1>6
    <2> QED
      BY <2>2, <2>3, <1>0, <1>7 DEF Flying
  <1> QED
    BY <1>0, <1>1, <1>3, <1>6, <1>8, <1>9, <1>10, <1>11, <1>12 DEF Core, Held, Typed

LEMMA WebEvaluatesKeeps ==
  ASSUME Kept, WebEvaluates
  PROVE  Core(cmds', events', life, web', dark)
  <1> DEFINE c == Head(cmds)
             fits == web.doc = c.gen /\ web.complete
  <1>0. /\ cmds \in Seq(Commands) /\ events \in Seq(Happenings) /\ life \in Lives /\ web \in Webs
        /\ Ordered(cmds, life, web) /\ Heard(events, life, web) /\ Flying(cmds, events, life, web)
    BY DEF Kept, Core, Held, Typed
  <1>1. cmds # <<>> /\ c.op = "eval" /\ cmds' = Tail(cmds)
    BY DEF WebEvaluates, NextCommand
  <1>2. c = cmds[1] /\ 1 \in DOMAIN cmds /\ c \in Commands
    BY <1>0, <1>1, TailPositions
  <1>3. c.kind \in Kinds /\ c.gen \in 0..MaxLoads /\ c.dark \in BOOLEAN /\ c.y \in 0..2 /\ c.gen <= life.gen
    BY <1>0, <1>1, <1>2, CommandFields DEF Ordered
  <1>4. PICK ok \in BOOLEAN : /\ fits => ok
                              /\ events' = Append(events, [op |-> "answer", kind |-> c.kind, gen |-> c.gen,
                                                           ok |-> ok, doc |-> web.doc, ready |-> fits])
    BY DEF WebEvaluates, Emit
  <1>5. PICK f \in BOOLEAN : f = fits
    BY <1>0 DEF Webs
  <1> DEFINE e == [op |-> "answer", kind |-> c.kind, gen |-> c.gen, ok |-> ok, doc |-> web.doc, ready |-> f]
             v == Append(events, e)
             u == web'
  <1>6. events' = v
    BY <1>4, <1>5
  <1>7. web.doc \in 0..MaxLoads /\ life.gen \in Nat
    BY <1>0 DEF Webs, Lives
  <1>8. /\ e \in Happenings /\ e.op = "answer" /\ e.kind = c.kind /\ e.gen = c.gen /\ e.doc = web.doc
        /\ e.ready = f /\ e.ok = ok
    BY <1>3, <1>7 DEF Happenings
  <1>9. web' = IF f THEN [web EXCEPT !.dark = c.dark, !.y = IF c.kind = "restore" THEN c.y ELSE @] ELSE web
    BY <1>5 DEF WebEvaluates
  <1>10. f = (web.doc = c.gen /\ web.complete) /\ (f => ok)
    BY <1>4, <1>5
  <1> HIDE DEF e, c, fits
  <1>11. Restores(c, life) => f
    BY <1>0, <1>2, <1>10 DEF Flying, Restores, Paints, IsLast
  <1>12. Truthful(e, life, web)
    <2>1. e.doc <= web.doc /\ (e.ready /\ e.doc = web.doc => web.complete) /\ e.gen <= life.gen
      <3>1. e.doc <= web.doc /\ e.gen <= life.gen
        BY <1>3, <1>7, <1>8
      <3>2. e.ready => web.complete
        BY <1>8, <1>10
      <3> QED
        BY <3>1, <3>2
    <2>2. IsLast(life, web) /\ Speaks(e, life) => e.ready
      BY <1>8, <1>10 DEF IsLast, Speaks
    <2>3. Restored(e, life) => e.ok /\ e.doc = life.gen /\ e.ready
      BY <1>1, <1>8, <1>10, <1>11 DEF Restored, Restores, Paints
    <2> QED
      BY <2>1, <2>2, <2>3 DEF Truthful
  <1>13. Core(cmds, v, life, web, dark)
    BY <1>8, <1>12, Tells DEF Kept
  <1>14. Len(events) + 1 \in DOMAIN v /\ v[Len(events) + 1] = e
    BY <1>0, <1>8
  <1> HIDE DEF v
  <1>15. Restores(c, life) => \E i \in DOMAIN v : Restored(v[i], life)
    BY <1>8, <1>14 DEF Restores, Paints, Restored
  <1>16. /\ u \in Webs /\ u.doc = web.doc /\ u.prov = web.prov /\ u.complete = web.complete
         /\ u.dark = IF f THEN c.dark ELSE web.dark
    <2>1. CASE f
      <3>1. PICK y \in 0..2 : y = IF c.kind = "restore" THEN c.y ELSE web.y
        BY <1>0, <1>3 DEF Webs
      <3>2. u = [web EXCEPT !.dark = c.dark, !.y = y]
        BY <2>1, <3>1, <1>0, <1>9 DEF Webs
      <3> HIDE DEF u
      <3> QED
        BY <2>1, <3>2, <1>0, <1>3 DEF Webs
    <2>2. CASE ~f
      BY <2>2, <1>0, <1>9
    <2> QED
      BY <2>1, <2>2
  <1>17. IsLast(life, web) => (Paints(c, life) <=> f)
    BY <1>1, <1>7, <1>10 DEF IsLast, Paints
  <1>18. Core(Tail(cmds), v, life, u, dark)
    <2> HIDE DEF u
    <2> QED
      BY <1>1, <1>13, <1>15, <1>16, <1>17, Executes DEF c
  <1> QED
    BY <1>1, <1>6, <1>18

LEMMA WebCollectsKeeps ==
  ASSUME Kept, WebCollects \/ WebRenders
  PROVE  Core(cmds', events', life, web', dark)
  <1> DEFINE c == Head(cmds)
  <1>0. cmds \in Seq(Commands) /\ life \in Lives /\ web \in Webs
    BY DEF Kept, Core, Held, Typed
  <1>1. cmds # <<>> /\ c.op \in {"collect", "render"} /\ cmds' = Tail(cmds) /\ web' = web
    BY DEF WebCollects, WebRenders, NextCommand
  <1>2. c \in Commands
    BY <1>0, <1>1, TailPositions
  <1>3. c.gen \in Nat
    BY <1>1, <1>2, CommandFields
  <1> HIDE DEF c
  <1>4. PICK e \in Happenings : events' = Append(events, e) /\ e.op \in {"collected", "rendered"}
    <2>1. CASE WebCollects
      <3>1. PICK n \in 0..3 : n = IF web.complete THEN Links(web.doc) ELSE 0
        BY DEF Links
      <3>2. PICK r \in BOOLEAN : r = (~web.complete /\ web.doc # 0)
        BY <1>0 DEF Webs
      <3>3. web.doc \in 0..MaxLoads
        BY <1>0 DEF Webs
      <3>4. events' = Append(events, [op |-> "collected", gen |-> c.gen, doc |-> web.doc, links |-> n, retry |-> r])
        BY <2>1, <3>1, <3>2 DEF WebCollects, Emit, c
      <3>5. [op |-> "collected", gen |-> c.gen, doc |-> web.doc, links |-> n, retry |-> r] \in Happenings
        BY <1>3, <3>3 DEF Happenings
      <3> QED
        BY <3>4, <3>5
    <2>2. CASE WebRenders
      <3>1. PICK ok \in BOOLEAN : events' = Append(events, [op |-> "rendered", gen |-> c.gen, ok |-> ok])
        BY <2>2 DEF WebRenders, Emit, c
      <3>2. [op |-> "rendered", gen |-> c.gen, ok |-> ok] \in Happenings
        BY <1>3 DEF Happenings
      <3> QED
        BY <3>1, <3>2
    <2> QED
      BY <2>1, <2>2
  <1>5. Truthful(e, life, web)
    BY <1>4 DEF Truthful, Speaks, Restored
  <1>6. Core(cmds, events', life, web, dark)
    BY <1>4, <1>5, Tells DEF Kept
  <1>7. ~Paints(c, life) /\ ~Restores(c, life)
    BY <1>1 DEF Paints, Restores
  <1> QED
    BY <1>0, <1>1, <1>6, <1>7, Executes DEF c

-----------------------------------------------------------------------------
(* The user's steps and the events of the main loop *)

LEMMA SendsOne ==
  ASSUME NEW q, NEW v, NEW l, NEW w, NEW d, Core(q, v, l, w, d), NEW c \in Commands,
         Sendable(c, l), c.op = "eval" => c.dark = d
  PROVE  Core(Append(q, c), v, l, w, d)
  <1>1. q \in Seq(Commands)
    BY DEF Core, Held, Typed
  <1>2. Append(q, c) = q \o <<c>> /\ <<c>> \in Seq(Commands) /\ DOMAIN <<c>> = {1} /\ <<c>>[1] = c
    BY <1>1, AppendIsConcat
  <1> QED
    BY <1>2, SendsPaint

(* evaluate_started *)
LEMMA EvaluationIsSendable ==
  ASSUME NEW l \in Lives, NEW kind \in {"probe", "scroll"}, dark \in BOOLEAN
  PROVE  LET c == Evaluation(l, kind)
         IN  c \in Commands /\ Sendable(c, l) /\ c.dark = dark /\ Paints(c, l)
  BY DEF Evaluation, Commands, Kinds, Lives, Sendable, Paints

LEMMA CollectIsSendable ==
  ASSUME NEW g \in Nat, NEW l
  PROVE  Collect(g) \in Commands /\ Sendable(Collect(g), l) /\ Collect(g).op # "eval"
  BY DEF Collect, Commands, Sendable

Hints == [phase: {"idle", "active"} \cup Loading, gen: Nat, doc: 0..MaxLoads, prefix: Seq({0, 1}), tries: Nat]

LEMMA IdleIsHints ==
  ASSUME NEW g \in Nat
  PROVE  IdleHints(g + 1) \in Hints /\ [IdleHints(g + 1) EXCEPT !.phase = "awaiting"] \in Hints
         /\ [IdleHints(g + 1) EXCEPT !.phase = "collecting"] \in Hints
  <1>1. <<>> \in Seq({0, 1}) /\ 0 \in 0..MaxLoads
    BY HtmlAssumption
  <1> DEFINE h == IdleHints(g + 1)
  <1>2. h \in Hints
    BY <1>1 DEF IdleHints, Hints
  <1> HIDE DEF h
  <1>3. [h EXCEPT !.phase = "awaiting"] \in Hints /\ [h EXCEPT !.phase = "collecting"] \in Hints
    BY <1>2 DEF Hints, Loading
  <1> QED
    BY <1>2, <1>3 DEF h

HtmlKept == HintsTyped' /\ dark' \in BOOLEAN /\ Core(cmds', events', life', web', dark') /\ Served(life')

LEMMA HintsTypedIs == HintsTyped <=> busy \in BOOLEAN /\ hints \in Hints /\ timers \subseteq Nat
  BY DEF HintsTyped, Hints

LEMMA LifeStep ==
  ASSUME HtmlInv, LoadHtml \/ SetDark \/ Scroll \/ (\E y \in 1..2 : RestoreFraction(y))
  PROVE  HtmlKept
  <1>0. HintsTyped /\ dark \in BOOLEAN /\ Core(cmds, events, life, web, dark) /\ Served(life) /\ life \in Lives
    BY DEF HtmlInv, Core, Held, Typed
  <1>1. CASE LoadHtml
    <2>1. HintsTyped'
      BY <1>0, <1>1 DEF LoadHtml, HintsTyped, hintVars
    <2>2. Core(cmds', events, life', web, dark) /\ Served(life')
      BY <1>0, <1>1, Loads DEF LoadHtml
    <2> QED
      BY <1>0, <1>1, <2>1, <2>2 DEF LoadHtml, HtmlKept
  <1>2. CASE SetDark
    <2>1. HintsTyped' /\ dark' \in BOOLEAN
      BY <1>0, <1>2 DEF SetDark, HintsTyped, hintVars
    <2>2. Core(cmds', events, life, web, ~dark)
      BY <1>0, <1>2, Darkens DEF SetDark
    <2>3. dark' = ~dark /\ events' = events /\ life' = life /\ web' = web
      BY <1>2 DEF SetDark
    <2>4. Core(cmds', events', life', web', dark')
      BY <2>2, <2>3
    <2> QED
      BY <1>0, <2>1, <2>3, <2>4 DEF HtmlKept
  <1>3. CASE Scroll
    <2>1. HintsTyped'
      BY <1>0, <1>3 DEF Scroll, HintsTyped, hintVars
    <2>2. Core(cmds', events, life, web, dark)
      <3> DEFINE c == Evaluation(life, "scroll")
      <3>1. c \in Commands /\ Sendable(c, life) /\ c.dark = dark
        BY <1>0, EvaluationIsSendable
      <3>2. cmds' = Append(cmds, c)
        BY <1>3 DEF Scroll
      <3> HIDE DEF c
      <3> QED
        BY <1>0, <3>1, <3>2, SendsOne
    <2>3. dark' = dark /\ events' = events /\ life' = life /\ web' = web
      BY <1>3 DEF Scroll
    <2> QED
      BY <1>0, <2>1, <2>2, <2>3 DEF HtmlKept
  <1>4. CASE \E y \in 1..2 : RestoreFraction(y)
    <2>1. PICK y \in 1..2 : RestoreFraction(y)
      BY <1>4
    <2>2. HintsTyped' /\ dark' = dark /\ events' = events /\ web' = web
      BY <1>0, <2>1 DEF RestoreFraction, HintsTyped, hintVars
    <2> DEFINE l == [life EXCEPT !.pend = y]
    <2>3. life' = Dispatched(l) /\ cmds' = cmds \o DispatchCommand(l)
      BY <2>1 DEF RestoreFraction
    <2>4. y \in 0..2
      OBVIOUS
    <2>5. Core(cmds, events, l, web, dark)
      BY <1>0, <2>4, Waits
    <2> HIDE DEF l
    <2>6. Core(cmds', events, life', web, dark) /\ Served(life')
      BY <1>0, <2>3, <2>5, Dispatches
    <2> QED
      BY <1>0, <2>2, <2>6 DEF HtmlKept
  <1> QED
    BY <1>1, <1>2, <1>3, <1>4

LEMMA HintStep ==
  ASSUME HtmlInv, StartHints \/ ResetHints \/ (\E c \in 0..1 : TypeHint(c)) \/ Backspace
                  \/ (\E g \in timers : RetryTimer(g))
  PROVE  HtmlKept
  <1>0. /\ HintsTyped /\ dark \in BOOLEAN /\ Core(cmds, events, life, web, dark) /\ Served(life) /\ life \in Lives
        /\ busy \in BOOLEAN /\ hints \in Hints /\ timers \subseteq Nat /\ hints.gen \in Nat
    BY HintsTypedIs DEF HtmlInv, Core, Held, Typed, Hints
  <1>1. life' = life /\ dark' = dark /\ web' = web /\ events' = events /\ busy' = busy
    BY DEF StartHints, ResetHints, TypeHint, Backspace, RetryTimer
  <1>2. hints' \in Hints /\ timers' \subseteq Nat
    <2>1. CASE StartHints
      <3>1. hints' = [IdleHints(hints.gen + 1) EXCEPT !.phase = "awaiting"]
            \/ hints' = [IdleHints(hints.gen + 1) EXCEPT !.phase = "collecting"]
        BY <2>1 DEF StartHints
      <3> QED
        BY <2>1, <3>1, <1>0, IdleIsHints DEF StartHints
    <2>2. CASE ResetHints
      BY <2>2, <1>0, IdleIsHints DEF ResetHints
    <2>3. CASE \E c \in 0..1 : TypeHint(c)
      <3>1. PICK c \in 0..1 : TypeHint(c)
        BY <2>3
      <3> DEFINE p == Append(hints.prefix, c)
      <3>2. timers' = timers /\ (hints' = IdleHints(hints.gen + 1) \/ hints' = [hints EXCEPT !.prefix = p])
        BY <3>1 DEF TypeHint
      <3>3. p \in Seq({0, 1})
        <4>1. hints.prefix \in Seq({0, 1}) /\ c \in {0, 1}
          BY <1>0 DEF Hints
        <4> QED
          BY <4>1
      <3> HIDE DEF p
      <3>4. [hints EXCEPT !.prefix = p] \in Hints
        BY <1>0, <3>3 DEF Hints
      <3> QED
        BY <1>0, <3>2, <3>4, IdleIsHints
    <2>4. CASE Backspace
      <3> DEFINE s == hints.prefix
                 p == SubSeq(s, 1, Len(s) - 1)
      <3>1. s \in Seq({0, 1}) /\ s # <<>>
        BY <2>4, <1>0 DEF Backspace, Hints
      <3>2. p \in Seq({0, 1})
        <4>1. Len(s) \in Nat /\ Len(s) - 1 \in Nat
          BY <3>1
        <4>2. \A i \in 1..(Len(s) - 1) : s[i] \in {0, 1}
          BY <3>1, <4>1
        <4> QED
          BY <3>1, <4>1, <4>2
      <3>3. hints' = [hints EXCEPT !.prefix = p] /\ timers' = timers
        BY <2>4, <1>0 DEF Backspace, Hints
      <3> HIDE DEF p
      <3> QED
        BY <1>0, <3>2, <3>3 DEF Hints
    <2>5. CASE \E g \in timers : RetryTimer(g)
      BY <2>5, <1>0 DEF RetryTimer
    <2> QED
      BY <2>1, <2>2, <2>3, <2>4, <2>5
  <1>3. cmds' = cmds \/ \E g \in Nat : cmds' = Append(cmds, Collect(g))
    <2>1. CASE StartHints
      <3>1. hints.gen + 1 \in Nat
        BY <1>0
      <3> QED
        BY <2>1, <3>1 DEF StartHints
    <2>2. CASE \E g \in timers : RetryTimer(g)
      BY <2>2, <1>0 DEF RetryTimer
    <2> QED
      BY <2>1, <2>2 DEF ResetHints, TypeHint, Backspace
  <1>4. Core(cmds', events, life, web, dark)
    <2>1. CASE cmds' = cmds
      BY <2>1, <1>0
    <2>2. CASE \E g \in Nat : cmds' = Append(cmds, Collect(g))
      <3>1. PICK g \in Nat : cmds' = Append(cmds, Collect(g))
        BY <2>2
      <3>2. Collect(g) \in Commands /\ Sendable(Collect(g), life) /\ Collect(g).op # "eval"
        BY CollectIsSendable
      <3> QED
        BY <1>0, <3>1, <3>2, SendsOne
    <2> QED
      BY <2>1, <2>2, <1>3
  <1>5. HintsTyped'
    BY <1>0, <1>1, <1>2 DEF HintsTyped, Hints
  <1> QED
    BY <1>0, <1>1, <1>4, <1>5 DEF HtmlKept

LEMMA EventStep ==
  ASSUME HtmlInv, HandleEvent
  PROVE  HtmlKept
  <1> DEFINE e == Head(events)
  <1>0. /\ HintsTyped /\ dark \in BOOLEAN /\ Core(cmds, events, life, web, dark) /\ Served(life) /\ life \in Lives
        /\ busy \in BOOLEAN /\ hints \in Hints /\ timers \subseteq Nat /\ hints.gen \in Nat
        /\ events \in Seq(Happenings) /\ cmds \in Seq(Commands)
    BY HintsTypedIs DEF HtmlInv, Core, Held, Typed, Hints
  <1>1. events # <<>> /\ events' = Tail(events)
    BY DEF HandleEvent
  <1>2. e \in Happenings
    BY <1>0, <1>1, TailPositions
  <1>3. CASE HandleReport(e)
    <2>1. e.op = "report" /\ HintsTyped' /\ dark' = dark /\ web' = web
      BY <1>0, <1>3 DEF HandleReport, HintsTyped, hintVars
    <2> DEFINE l == Recorded(life, e)
    <2>2. Core(cmds, events', l, web, dark)
      BY <1>0, <1>1, <2>1, HearsReport
    <2>3. CASE e.doc = life.gen
      <3>1. life' = Dispatched(l) /\ cmds' = cmds \o DispatchCommand(l)
        BY <2>3, <1>3 DEF HandleReport
      <3> HIDE DEF l
      <3>2. Core(cmds', events', life', web, dark) /\ Served(life')
        BY <1>0, <2>2, <3>1, Dispatches
      <3> QED
        BY <1>0, <2>1, <3>2 DEF HtmlKept
    <2>4. CASE e.doc # life.gen
      <3>1. life' = life /\ cmds' = cmds /\ l = life
        BY <2>4, <1>3 DEF HandleReport, Recorded
      <3> QED
        BY <1>0, <2>1, <2>2, <3>1 DEF HtmlKept
    <2> QED
      BY <2>3, <2>4
  <1>4. CASE HandleAnswer(e)
    <2>1. e.op = "answer" /\ HintsTyped' /\ dark' = dark /\ web' = web
      BY <1>0, <1>4 DEF HandleAnswer, HintsTyped, hintVars
    <2> DEFINE l == Completed(life, e)
    <2>2. Core(cmds, events', l, web, dark) /\ (~GoesOn(life, e) => Served(l))
      BY <1>0, <1>1, <2>1, HearsAnswer
    <2>3. CASE GoesOn(life, e)
      <3>1. life' = Dispatched(l) /\ cmds' = cmds \o DispatchCommand(l)
        BY <2>3, <1>4 DEF HandleAnswer
      <3> HIDE DEF l
      <3>2. Core(cmds', events', life', web, dark) /\ Served(life')
        BY <1>0, <2>2, <3>1, Dispatches
      <3> QED
        BY <1>0, <2>1, <3>2 DEF HtmlKept
    <2>4. CASE ~GoesOn(life, e)
      <3>1. life' = l /\ cmds' = cmds
        BY <2>4, <1>4 DEF HandleAnswer
      <3> HIDE DEF l
      <3> QED
        BY <1>0, <2>1, <2>2, <2>4, <3>1 DEF HtmlKept
    <2> QED
      BY <2>3, <2>4
  <1>5. CASE HandleStarted(e) \/ HandleRendered(e)
    <2>1. /\ e.op \in {"started", "rendered"} /\ life' = life /\ dark' = dark /\ web' = web /\ cmds' = cmds
          /\ busy' = busy /\ timers' = timers
      BY <1>5 DEF HandleStarted, HandleRendered
    <2>2. hints' \in Hints
      <3>1. CASE HandleStarted(e)
        BY <3>1, <1>0, IdleIsHints DEF HandleStarted, HintsAfterStarted
      <3>2. CASE HandleRendered(e)
        <4>1. hints' \in {hints, IdleHints(hints.gen + 1), [hints EXCEPT !.phase = "active"]}
          BY <3>2 DEF HandleRendered, Rendered
        <4>2. [hints EXCEPT !.phase = "active"] \in Hints
          BY <1>0 DEF Hints
        <4> QED
          BY <4>1, <4>2, <1>0, IdleIsHints
      <3> QED
        BY <1>5, <3>1, <3>2
    <2>3. Core(cmds, events', life, web, dark)
      BY <1>0, <1>1, <2>1, HearsOther
    <2>4. HintsTyped'
      BY <1>0, <2>1, <2>2 DEF HintsTyped, Hints
    <2> QED
      BY <1>0, <2>1, <2>3, <2>4 DEF HtmlKept
  <1>6. CASE HandleFinished(e)
    <2>1. e.op = "finished" /\ life' = life /\ dark' = dark /\ web' = web /\ timers' = timers
      BY <1>6 DEF HandleFinished
    <2>2. HintsTyped'
      <3>1. busy' \in BOOLEAN
        BY <1>6, <1>0 DEF HandleFinished
      <3>2. hints' \in Hints
        <4>1. [hints EXCEPT !.phase = "collecting"] \in Hints
          BY <1>0 DEF Hints, Loading
        <4> QED
          BY <4>1, <1>0, <1>6 DEF HandleFinished
      <3> QED
        BY <1>0, <2>1, <3>1, <3>2 DEF HintsTyped, Hints
    <2> DEFINE c == Evaluation(life, "probe")
               p == Append(cmds, c)
    <2>3. c \in Commands /\ Sendable(c, life) /\ c.dark = dark /\ Paints(c, life)
      BY <1>0, EvaluationIsSendable
    <2> HIDE DEF c
    <2>5. Core(p, events, life, web, dark)
      BY <1>0, <2>3, SendsOne
    <2>6. p \in Seq(Commands) /\ \E i \in DOMAIN p : Painted(p, life, dark, i)
      <3>1. p = cmds \o <<c>> /\ <<c>> \in Seq(Commands) /\ DOMAIN <<c>> = {1} /\ <<c>>[1] = c
        BY <1>0, <2>3, AppendIsConcat
      <3>2. Painted(cmds \o <<c>>, life, dark, Len(cmds) + 1) /\ Len(cmds) + 1 \in DOMAIN (cmds \o <<c>>)
        BY <1>0, <2>3, <3>1, Paint
      <3>3. p \in Seq(Commands)
        BY <1>0, <2>3
      <3> QED
        BY <3>1, <3>2, <3>3
    <2> HIDE DEF p
    <2>7. Core(p, events', life, web, dark)
      BY <1>1, <2>1, <2>5, <2>6, HearsOther
    <2>8. Core(cmds', events', life, web, dark)
      <3>1. CASE hints.phase = "awaiting"
        <4> DEFINE h == Collect(hints.gen)
        <4>1. h \in Commands /\ Sendable(h, life) /\ h.op # "eval"
          BY <1>0, CollectIsSendable
        <4>2. cmds' = p \o <<h>>
          BY <1>6, <3>1 DEF HandleFinished, p, c
        <4> HIDE DEF h
        <4>3. cmds' = Append(p, h)
          BY <4>1, <4>2, <2>6, AppendIsConcat
        <4> QED
          BY <4>1, <4>3, <2>7, SendsOne
      <3>2. CASE hints.phase # "awaiting"
        <4>1. cmds' = p \o <<>>
          BY <1>6, <3>2 DEF HandleFinished, p, c
        <4>2. cmds' = p
          BY <4>1, <2>6
        <4> QED
          BY <4>2, <2>7
      <3> QED
        BY <3>1, <3>2
    <2> QED
      BY <1>0, <2>1, <2>2, <2>8 DEF HtmlKept
  <1>7. CASE HandleCollected(e)
    <2>1. e.op = "collected" /\ life' = life /\ dark' = dark /\ web' = web /\ busy' = busy
      BY <1>7 DEF HandleCollected
    <2>2. e.gen \in Nat /\ e.doc \in 0..MaxLoads
      BY <1>2, <2>1, HappeningFields
    <2>3. HintsTyped'
      <3>1. timers' \subseteq Nat
        BY <1>0, <1>7, <2>2 DEF HandleCollected
      <3>2. hints' \in Hints
        <4>1. hints.tries + 1 \in Nat
          BY <1>0 DEF Hints
        <4>2. NoTargets(hints, e) \in {hints, IdleHints(hints.gen + 1), [hints EXCEPT !.tries = hints.tries + 1]}
          BY <1>0 DEF NoTargets, Hints
        <4>3. [hints EXCEPT !.tries = hints.tries + 1] \in Hints
          BY <1>0, <4>1 DEF Hints
        <4>4. [hints EXCEPT !.phase = "rendering", !.doc = e.doc] \in Hints
          BY <1>0, <2>2 DEF Hints, Loading
        <4>5. NoTargets(hints, e) \in Hints
          BY <1>0, <4>2, <4>3, IdleIsHints
        <4> QED
          BY <1>0, <1>7, <4>4, <4>5 DEF HandleCollected, Collected
      <3> QED
        BY <1>0, <2>1, <3>1, <3>2 DEF HintsTyped, Hints
    <2>4. Core(cmds, events', life, web, dark)
      BY <1>0, <1>1, <2>1, HearsOther
    <2>5. Core(cmds', events', life, web, dark)
      <3>1. CASE Accepted(hints, e)
        <4> DEFINE r == [op |-> "render", gen |-> e.gen, doc |-> e.doc]
        <4>1. r \in Commands /\ Sendable(r, life) /\ r.op # "eval"
          BY <2>2 DEF Commands, Sendable
        <4>2. cmds' = Append(cmds, r)
          BY <1>7, <3>1 DEF HandleCollected
        <4> HIDE DEF r
        <4> QED
          BY <4>1, <4>2, <2>4, SendsOne
      <3>2. CASE ~Accepted(hints, e)
        BY <1>7, <3>2, <2>4 DEF HandleCollected
      <3> QED
        BY <3>1, <3>2
    <2> QED
      BY <1>0, <2>1, <2>3, <2>5 DEF HtmlKept
  <1> QED
    BY <1>3, <1>4, <1>5, <1>6, <1>7 DEF HandleEvent

LEMMA WebStep ==
  ASSUME HtmlInv, WebNext
  PROVE  HtmlKept
  <1>1. life' = life /\ dark' = dark /\ busy' = busy /\ hints' = hints /\ timers' = timers
    BY DEF WebNext, WebStops, WebStarts, WebCommits, WebCompletes, WebEvaluates, WebCollects, WebRenders,
           NextCommand, Ui
  <1>2. Kept
    BY DEF Kept, HtmlInv
  <1>3. Core(cmds', events', life, web', dark)
    BY <1>1, <1>2, WebStopsKeeps, WebStartsKeeps, WebCommitsKeeps, WebCompletesKeeps, WebEvaluatesKeeps,
       WebCollectsKeeps DEF WebNext
  <1>4. HintsTyped'
    BY <1>1 DEF HtmlInv, HintsTyped
  <1> QED
    BY <1>1, <1>3, <1>4 DEF HtmlInv, HtmlKept

(* The queues and the lifecycle of a document keep what is stated above (html_view_lifecycle.rs),
   however loads, changes, scripts and the web process's answers are interleaved. *)
THEOREM HtmlInvariant == HtmlSpec => []HtmlInv
  <1>1. HtmlInit => HtmlInv
    <2> SUFFICES ASSUME HtmlInit
                 PROVE  HtmlInv
      OBVIOUS
    <2>0. 0 \in 0..MaxLoads /\ 0 \in 0..2 /\ <<>> \in Seq({0, 1}) /\ <<>> \in Seq(Commands) /\ <<>> \in Seq(Happenings)
      BY HtmlAssumption
    <2>1. cmds = <<>> /\ events = <<>> /\ DOMAIN cmds = {} /\ DOMAIN events = {}
      BY DEF HtmlInit
    <2>2. life \in Lives /\ life.gen = 0 /\ life.ready = FALSE /\ life.pend = 0 /\ life.flight = FALSE
      BY <2>0 DEF HtmlInit, Lives, NoFraction
    <2>3. web \in Webs /\ web.doc = 0 /\ web.complete = FALSE /\ web.prov = 0
      BY <2>0 DEF HtmlInit, Webs, NoFraction
    <2>4. HintsTyped /\ dark \in BOOLEAN
      BY <2>0 DEF HtmlInit, HintsTyped, IdleHints
    <2>5. Typed(cmds, events, life, web)
      BY <2>0, <2>1, <2>2, <2>3 DEF Typed
    <2>6. Ordered(cmds, life, web)
      BY <2>1, <2>2, <2>3 DEF Ordered
    <2>7. ~IsLast(life, web)
      BY <2>3 DEF IsLast
    <2>8. Heard(events, life, web) /\ Shown(events, life, web) /\ Flying(cmds, events, life, web)
          /\ Follows(cmds, events, life, web, dark) /\ Served(life)
      BY <2>1, <2>2, <2>7 DEF Heard, Shown, Flying, Follows, Served
    <2> QED
      BY <2>4, <2>5, <2>6, <2>8 DEF HtmlInv, Core, Held
  <1>2. HtmlInv /\ [HtmlNext]_htmlVars => HtmlInv'
    <2> SUFFICES ASSUME HtmlInv, [HtmlNext]_htmlVars
                 PROVE  HtmlInv'
      OBVIOUS
    <2>1. CASE UNCHANGED htmlVars
      BY <2>1 DEF HtmlInv, HintsTyped, Core, Held, Typed, Ordered, Heard, Shown, Follows, Flying, Served, IsLast,
                  Speaks, Announced, Paints, Painted, Restores, Restored, htmlVars
    <2>2. CASE HtmlNext
      <3>1. HtmlKept
        BY <2>2, LifeStep, HintStep, EventStep, WebStep DEF HtmlNext
      <3> QED
        BY <3>1 DEF HtmlKept, HtmlInv, Core, Held, Typed, Ordered, Heard, Shown, Follows, Flying, Served, IsLast,
                    Speaks, Announced, Paints, Painted, Restores, Restored
    <2> QED
      BY <2>1, <2>2
  <1> QED
    BY <1>1, <1>2, PTL DEF HtmlSpec

(* The state of the view has its type. *)
THEOREM HtmlTypeCorrect == HtmlSpec => []HtmlTypeOK
  <1>1. HtmlInv => HtmlTypeOK
    BY DEF HtmlInv, Core, Held, Typed, HtmlTypeOK, HintsTyped, Lives, Webs
  <1> QED
    BY <1>1, HtmlInvariant, PTL

(* The view is ready only for the document that was loaded last, complete in the web process
   (record_report, complete_evaluation). *)
THEOREM ViewReadyMeansShown == HtmlSpec => []ReadyMeansShown
  <1>1. HtmlInv => ReadyMeansShown
    BY DEF HtmlInv, Core, Held, Heard, IsLast, ReadyMeansShown
  <1> QED
    BY <1>1, HtmlInvariant, PTL

(* When nothing is on its way and the last document is complete, it has the background chosen
   last and no restore waits (begin_load, set_dark_background, dispatch_ready_restore). *)
THEOREM ViewFollows == HtmlSpec => []QuietViewFollows
  <1>1. HtmlInv => QuietViewFollows
    <2> SUFFICES ASSUME HtmlInv, Quiet
                 PROVE  web.dark = dark /\ life.pend = NoFraction /\ life.ready
      BY DEF QuietViewFollows
    <2>1. DOMAIN cmds = {} /\ DOMAIN events = {} /\ IsLast(life, web)
      BY DEF Quiet, IsLast
    <2>2. life.ready
      BY <2>1 DEF HtmlInv, Core, Held, Shown
    <2>3. web.dark = dark
      BY <2>1 DEF HtmlInv, Core, Follows
    <2>4. ~life.flight
      BY <2>1 DEF HtmlInv, Core, Held, Flying
    <2> QED
      BY <2>2, <2>3, <2>4 DEF HtmlInv, Served
  <1> QED
    BY <1>1, HtmlInvariant, PTL
=============================================================================
