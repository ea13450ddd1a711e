---------------------------- MODULE ServerProofs ----------------------------
(***************************************************************************)
(* Proofs about the server, for any requests and any number of ranks: its  *)
(* variables keep their types, the lock is held by the one thread that     *)
(* uses the engine, the server implements RequestService, its ranks run    *)
(* the same batches, an answer is complete on all of them, and a request   *)
(* fails for a reason.                                                     *)
(***************************************************************************)
EXTENDS ServerProperties, TLAPS

(* The inductive invariant: types, the meaning of the lock, and that a rank *)
(* that has received a part of a work knows the request: generate() would   *)
(* otherwise add what is no request to the scheduler.                       *)
WorkKnown == \A r \in workers : got[r] # 0 => work[r] \in Requests

ServerInv == ServerTypeOK /\ OneInference /\ WorkKnown

LEMMA ServerInitial == ServerInit => ServerInv
<1> SUFFICES ASSUME ServerInit PROVE ServerInv
  OBVIOUS
<1>1. OneInference
  BY ServerAssumption DEF ServerInit, OneInference, Inside
<1>2. /\ sent \in 0 .. 4
      /\ got \in [Ranks -> 0 .. 4]
  BY DEF ServerInit
<1>3. ran \in [Ranks -> [Requests -> Nat]]
  <2>1. [q \in Requests |-> 0] \in [Requests -> Nat]
    OBVIOUS
  <2> QED
    BY <2>1 DEF ServerInit
<1>4. ServerTypeOK
  BY <1>2, <1>3 DEF ServerInit, ServerTypeOK
<1> QED
  BY <1>1, <1>4 DEF ServerInit, ServerInv, WorkKnown

Raises(r) == OutOfMemory(r) \/ EngineRaises(r)

(* A step that raises loses nothing but sequences of rank 0's scheduler.   *)
LEMMA WhatRaises ==
  ASSUME ServerTypeOK, NEW r \in Ranks, Raises(r)
  PROVE  /\ StepRaises(r)
         /\ faults \subseteq faults' /\ faults' \subseteq Faults
         /\ live' \in [Ranks -> SUBSET Requests]
         /\ live'[0] \subseteq live[0]
         /\ \A p \in Ranks \ {0} : live'[p] = live[p]
<1>1. 0 \in Ranks
  BY ServerAssumption DEF Ranks
<1>2. CASE OutOfMemory(r)
  BY <1>2 DEF OutOfMemory, ServerTypeOK
<1>3. CASE EngineRaises(r)
  <2>1. CASE r = 0
    BY <1>1, <1>3, <2>1 DEF EngineRaises, ServerTypeOK
  <2>2. CASE r # 0
    BY <1>3, <2>2 DEF EngineRaises, ServerTypeOK
  <2> QED
    BY <2>1, <2>2
<1> QED
  BY <1>2, <1>3 DEF Raises

(* Every step but those of the ranks changes few variables; each action    *)
(* has a step of its own.                                                  *)
LEMMA TypePreserved == ServerInv /\ [ServerNext]_vars => ServerTypeOK'
<1> SUFFICES ASSUME ServerInv, [ServerNext]_vars PROVE ServerTypeOK'
  OBVIOUS
<1> USE DEF ServerInv
<1> USE DEF threadVars, workerVars, engineVars, exitVars
<1>1. ASSUME NEW q \in Requests, Arrive(q) PROVE ServerTypeOK'
  BY <1>1 DEF Arrive, ServerTypeOK, Outcomes
<1>2. ASSUME NEW q \in Requests, Acquire(q) PROVE ServerTypeOK'
  BY <1>2 DEF Acquire, ServerTypeOK, Outcomes
<1>3. ASSUME NEW q \in Requests, Broadcast(q) PROVE ServerTypeOK'
  <2>1. sent' \in 0 .. 4
    BY <1>3 DEF Broadcast, BroadcastMeets, ServerTypeOK
  <2>2. got' \in [Ranks -> 0 .. 4]
    <3>1. \A r \in workers : got[r] + 1 \in 0 .. 4
      BY <1>3 DEF Broadcast, BroadcastMeets, ServerTypeOK
    <3> QED
      BY <1>3, <3>1 DEF Broadcast, ServerTypeOK
  <2>3. work' \in [Ranks -> Requests \cup {Nobody}]
    BY <1>3 DEF Broadcast, ServerTypeOK
  <2> QED
    BY <1>3, <2>1, <2>2, <2>3 DEF Broadcast, ServerTypeOK
<1>4. ASSUME NEW q \in Requests, Add(q) PROVE ServerTypeOK'
  <2>1. live' \in [Ranks -> SUBSET Requests]
    BY <1>4 DEF Add, ServerTypeOK
  <2>2. /\ thread' \in [Requests -> {"absent", "waiting", "work", "generate", "reading"} \cup Outcomes]
        /\ infer_lock' \in Requests \cup {Nobody}
    BY <1>4 DEF Add, LeaveLock, ServerTypeOK, Outcomes
  <2> QED
    BY <1>4, <2>1, <2>2 DEF Add, ServerTypeOK
<1>5. ASSUME NEW q \in Requests, Pass(q) PROVE ServerTypeOK'
  <2>1. live' \in [Ranks -> SUBSET Requests]
    BY <1>5 DEF Pass, ServerTypeOK
  <2>2. ran' \in [Ranks -> [Requests -> Nat]]
    <3>1. \A r \in Ranks : Counts(r) \in [Requests -> Nat]
      BY DEF Counts, ServerTypeOK
    <3> QED
      BY <1>5, <3>1 DEF Pass, ServerTypeOK
  <2>3. /\ thread' \in [Requests -> {"absent", "waiting", "work", "generate", "reading"} \cup Outcomes]
        /\ infer_lock' \in Requests \cup {Nobody}
    BY <1>5 DEF Pass, AfterPass, LeaveLock, ServerTypeOK, Outcomes
  <2> QED
    BY <1>5, <2>1, <2>2, <2>3 DEF Pass, ServerTypeOK
<1>6. ASSUME NEW q \in Requests, Answer(q) PROVE ServerTypeOK'
  BY <1>6 DEF Answer, LeaveLock, ServerTypeOK, Outcomes
<1>7. ASSUME NEW q \in Requests, ClientReads(q) PROVE ServerTypeOK'
  BY <1>7 DEF ClientReads, ServerTypeOK
<1>8. ASSUME NEW q \in Requests, ClientGone(q) PROVE ServerTypeOK'
  BY <1>8 DEF ClientGone, LeaveLock, ServerTypeOK, Outcomes
<1>9. ASSUME NEW r \in Ranks, WorkerAdds(r) PROVE ServerTypeOK'
  <2>1. worker' \in [Ranks -> {"loop", "generate", "exited", "died"}]
    BY <1>9 DEF WorkerAdds, ServerTypeOK
  <2>2. got' \in [Ranks -> 0 .. 4]
    BY <1>9 DEF WorkerAdds, ServerTypeOK
  <2>3. live' \in [Ranks -> SUBSET Requests]
    <3>1. work[r] \in Requests
      BY <1>9 DEF WorkerAdds, WorkKnown
    <3> QED
      BY <1>9, <3>1 DEF WorkerAdds, ServerTypeOK
  <2> QED
    BY <1>9, <2>1, <2>2, <2>3 DEF WorkerAdds, ServerTypeOK
<1>10. ASSUME NEW r \in Ranks, WorkerReturns(r) PROVE ServerTypeOK'
  BY <1>10 DEF WorkerReturns, ServerTypeOK
<1>11. ASSUME NEW r \in Ranks, Raises(r) PROVE ServerTypeOK'
  <2>1. StepRaises(r) /\ faults' \subseteq Faults /\ live' \in [Ranks -> SUBSET Requests]
    BY <1>11, WhatRaises
  <2> QED
    BY <2>1 DEF StepRaises, LeaveLock, ServerTypeOK, Outcomes
<1>12. CutAll => thread' \in [Requests -> {"absent", "waiting", "work", "generate", "reading"}
                                            \cup Outcomes] /\ down' \in BOOLEAN
  BY DEF CutAll, ServerTypeOK, Outcomes
<1>13. CASE Interrupt
  BY <1>12, <1>13 DEF Interrupt, ServerTypeOK
<1>14. CASE ExitBroadcast
  BY <1>12, <1>14 DEF ExitBroadcast, ServerTypeOK
<1>15. CASE LauncherEnds
  BY <1>12, <1>15 DEF LauncherEnds, ServerTypeOK
<1>16. CASE TimeOut
  BY <1>12, <1>16 DEF TimeOut, ServerTypeOK
<1>17. CASE Rest \/ UNCHANGED vars
  BY <1>17 DEF Rest, vars, ServerTypeOK
<1> QED
  BY <1>1, <1>2, <1>3, <1>4, <1>5, <1>6, <1>7, <1>8, <1>9, <1>10, <1>11, <1>13, <1>14,
     <1>15, <1>16, <1>17 DEF ServerNext, ThreadStep, WorkerStep, Raises

LEMMA LockPreserved == ServerInv /\ [ServerNext]_vars => OneInference'
<1> SUFFICES ASSUME ServerInv, [ServerNext]_vars PROVE OneInference'
  OBVIOUS
<1> USE ServerAssumption DEF ServerInv, Inside, threadVars, workerVars, engineVars, exitVars
<1>1. ASSUME NEW q \in Requests, Arrive(q) PROVE OneInference'
  BY <1>1 DEF Arrive, OneInference, ServerTypeOK
<1>2. ASSUME NEW q \in Requests, Acquire(q) PROVE OneInference'
  BY <1>2 DEF Acquire, OneInference, ServerTypeOK
<1>3. ASSUME NEW q \in Requests, Broadcast(q) PROVE OneInference'
  BY <1>3 DEF Broadcast, OneInference
<1>4. ASSUME NEW q \in Requests, Add(q) PROVE OneInference'
  BY <1>4 DEF Add, LeaveLock, OneInference, ServerTypeOK
<1>5. ASSUME NEW q \in Requests, Pass(q) PROVE OneInference'
  BY <1>5 DEF Pass, AfterPass, LeaveLock, OneInference, ServerTypeOK
<1>6. ASSUME NEW q \in Requests, Answer(q) PROVE OneInference'
  BY <1>6 DEF Answer, LeaveLock, OneInference, ServerTypeOK
<1>7. ASSUME NEW q \in Requests, ClientReads(q) PROVE OneInference'
  BY <1>7 DEF ClientReads, OneInference, ServerTypeOK
<1>8. ASSUME NEW q \in Requests, ClientGone(q) PROVE OneInference'
  BY <1>8 DEF ClientGone, LeaveLock, OneInference, ServerTypeOK
<1>9. ASSUME NEW r \in Ranks, WorkerStep(r) PROVE OneInference'
  BY <1>9 DEF WorkerStep, WorkerAdds, WorkerReturns, OneInference
<1>10. ASSUME NEW r \in Ranks, Raises(r) PROVE OneInference'
  BY <1>10, WhatRaises DEF StepRaises, LeaveLock, OneInference, ServerTypeOK
<1>11. CASE Interrupt
  BY <1>11 DEF Interrupt, CutAll, OneInference, ServerTypeOK
<1>12. CASE ExitBroadcast \/ LauncherEnds \/ TimeOut
  BY <1>12 DEF ExitBroadcast, LauncherEnds, TimeOut, CutAll, OneInference
<1>13. CASE Rest \/ UNCHANGED vars
  BY <1>13 DEF Rest, vars, OneInference
<1> QED
  BY <1>1, <1>2, <1>3, <1>4, <1>5, <1>6, <1>7, <1>8, <1>9, <1>10, <1>11, <1>12, <1>13
  DEF ServerNext, ThreadStep, Raises

LEMMA WorkPreserved == ServerInv /\ [ServerNext]_vars => WorkKnown'
<1> SUFFICES ASSUME ServerInv, [ServerNext]_vars PROVE WorkKnown'
  OBVIOUS
<1> USE DEF ServerInv, threadVars, workerVars, engineVars, exitVars
<1>1. ASSUME NEW q \in Requests, Broadcast(q) PROVE WorkKnown'
  BY <1>1 DEF Broadcast, WorkKnown, ServerTypeOK, Ranks
<1>2. ASSUME NEW r \in Ranks, WorkerAdds(r) PROVE WorkKnown'
  BY <1>2 DEF WorkerAdds, WorkKnown, ServerTypeOK
<1>3. UNCHANGED <<workers, got, work>> => WorkKnown'
  BY DEF WorkKnown
<1>4. ASSUME NEW q \in Requests, ThreadStep(q) \/ Arrive(q) \/ ClientReads(q) \/ ClientGone(q)
      PROVE  Broadcast(q) \/ UNCHANGED <<workers, got, work>>
  BY <1>4 DEF ThreadStep, Arrive, Acquire, Add, Pass, Answer, ClientReads, ClientGone
<1>5. ASSUME NEW r \in Ranks, WorkerReturns(r) \/ Raises(r)
      PROVE  UNCHANGED <<workers, got, work>>
  BY <1>5, WhatRaises DEF WorkerReturns, StepRaises
<1>6. Interrupt \/ ExitBroadcast \/ LauncherEnds \/ TimeOut => UNCHANGED <<workers, got, work>>
  BY DEF Interrupt, ExitBroadcast, LauncherEnds, TimeOut
<1>7. Rest \/ UNCHANGED vars => UNCHANGED <<workers, got, work>>
  BY DEF Rest, vars
<1> QED
  BY <1>1, <1>2, <1>3, <1>4, <1>5, <1>6, <1>7 DEF ServerNext, WorkerStep, Raises

(* The inductive invariant holds in every reachable state. *)
THEOREM ServerInvariant == ServerSpec => []ServerInv
<1>1. ServerInit => ServerInv
  BY ServerInitial
<1>2. ServerInv /\ [ServerNext]_vars => ServerInv'
  BY TypePreserved, LockPreserved, WorkPreserved DEF ServerInv
<1> QED
  BY <1>1, <1>2, PTL DEF ServerSpec

(* Types (worker_loop, run_inference and their messages). *)
THEOREM ServerTypeCorrect == ServerSpec => []ServerTypeOK
  BY ServerInvariant, PTL DEF ServerInv

(* infer_lock serialises inference, and no thread ends with the lock held  *)
(* (run_inference, run_inference_stream: with infer_lock).                 *)
THEOREM ServerOneInference == ServerSpec => []OneInference
  BY ServerInvariant, PTL DEF ServerInv

-----------------------------------------------------------------------------
(* Refinement: every step of the server is a step of the service. *)

Statuses == [q \in Requests |-> Phase(q)]

(* The phase of a thread that is at the given place. *)
PhaseAt(at) ==
    IF at = "absent" THEN "absent"
    ELSE IF at = "waiting" THEN "queued"
    ELSE IF at \in {"work", "generate", "reading"} THEN "served"
    ELSE "ended"

LEMMA PhaseIsPlace == \A q \in Requests : Phase(q) = PhaseAt(thread[q])
  BY DEF Phase, PhaseAt, Inside

(* A step that moves one thread moves its phase. *)
LEMMA PhaseOfThread ==
  ASSUME ServerTypeOK, NEW q \in Requests, NEW to, thread' = [thread EXCEPT ![q] = to]
  PROVE  Statuses' = [Statuses EXCEPT ![q] = PhaseAt(to)]
<1>1. \A r \in Requests : Phase(r)' = PhaseAt(thread'[r])
  BY DEF Phase, PhaseAt, Inside
<1>2. \A r \in Requests : thread'[r] = IF r = q THEN to ELSE thread[r]
  BY DEF ServerTypeOK
<1>3. \A r \in Requests : Phase(r)' = IF r = q THEN PhaseAt(to) ELSE Phase(r)
  BY <1>1, <1>2, PhaseIsPlace
<1> QED
  BY <1>3 DEF Statuses

LEMMA PhaseUnchanged == UNCHANGED thread => Statuses' = Statuses
  BY DEF Statuses, Phase, Inside

LEMMA CutIsShutdown == CutAll => Service!Shutdown
  BY DEF CutAll, Service!Shutdown, Phase, Inside, Ended, Outcomes

LEMMA StepImplemented == ServerInv /\ [ServerNext]_vars => [Service!ServiceNext]_Statuses
<1> SUFFICES ASSUME ServerInv, [ServerNext]_vars
             PROVE  [Service!ServiceNext]_Statuses
  OBVIOUS
<1> USE DEF ServerInv, threadVars, workerVars, engineVars, exitVars
<1>e. ASSUME NEW q \in Requests, Inside(q), NEW to \in Outcomes,
             thread' = [thread EXCEPT ![q] = to]
      PROVE  Service!End(q)
  <2>1. Phase(q) = "served"
    BY <1>e DEF Phase, Inside
  <2>2. Statuses' = [Statuses EXCEPT ![q] = "ended"]
    BY <1>e, PhaseOfThread DEF PhaseAt, Outcomes
  <2> QED
    BY <2>1, <2>2 DEF Service!End, Statuses
<1>s. ASSUME NEW q \in Requests, Inside(q), NEW to \in {"work", "generate", "reading"},
             thread' = [thread EXCEPT ![q] = to]
      PROVE  UNCHANGED Statuses
  <2>1. Phase(q) = "served"
    BY <1>s DEF Phase, Inside
  <2>2. Statuses' = [Statuses EXCEPT ![q] = "served"]
    BY <1>s, PhaseOfThread DEF PhaseAt
  <2> QED
    BY <2>1, <2>2 DEF Statuses
<1>1. ASSUME NEW q \in Requests, Arrive(q) PROVE Service!Submit(q) \/ Service!Refuse(q)
  <2>1. Phase(q) = "absent"
    BY <1>1 DEF Arrive, Phase
  <2>2. CASE q \in Malformed
    <3>1. thread' = [thread EXCEPT ![q] = "refused"]
      BY <1>1, <2>2 DEF Arrive
    <3>2. PhaseAt("refused") = "ended"
      BY DEF PhaseAt
    <3>3. Statuses' = [Statuses EXCEPT ![q] = "ended"]
      BY <3>1, <3>2, PhaseOfThread
    <3> QED
      BY <2>1, <3>3 DEF Service!Refuse, Statuses
  <2>3. CASE q \notin Malformed
    <3>1. Statuses' = [Statuses EXCEPT ![q] = "queued"]
      BY <1>1, <2>3, PhaseOfThread DEF Arrive, PhaseAt
    <3> QED
      BY <2>1, <3>1 DEF Service!Submit, Statuses
  <2> QED
    BY <2>2, <2>3
<1>2. ASSUME NEW q \in Requests, Acquire(q) PROVE Service!Serve(q)
  <2>1. Phase(q) = "queued"
    BY <1>2 DEF Acquire, Phase
  <2>2. \A r \in Requests : Phase(r) # "served"
    BY <1>2, ServerAssumption DEF Acquire, OneInference, Phase
  <2>3. Statuses' = [Statuses EXCEPT ![q] = "served"]
    BY <1>2, PhaseOfThread DEF Acquire, PhaseAt
  <2> QED
    BY <2>1, <2>2, <2>3 DEF Service!Serve, Statuses
<1>3. ASSUME NEW q \in Requests, Broadcast(q) PROVE UNCHANGED Statuses
  BY <1>3, PhaseUnchanged DEF Broadcast
<1>4. ASSUME NEW q \in Requests, Add(q) PROVE Service!End(q) \/ UNCHANGED Statuses
  BY <1>4, <1>e, <1>s DEF Add, LeaveLock, Inside, Outcomes
<1>5. ASSUME NEW q \in Requests, Pass(q) PROVE Service!End(q) \/ UNCHANGED Statuses
  BY <1>5, <1>e, <1>s DEF Pass, AfterPass, LeaveLock, Inside, Outcomes
<1>6. ASSUME NEW q \in Requests, Answer(q) PROVE Service!End(q)
  BY <1>6, <1>e DEF Answer, LeaveLock, Inside, Outcomes
<1>7. ASSUME NEW q \in Requests, ClientReads(q) PROVE UNCHANGED Statuses
  BY <1>7, <1>s DEF ClientReads, Inside
<1>8. ASSUME NEW q \in Requests, ClientGone(q) PROVE Service!End(q)
  BY <1>8, <1>e DEF ClientGone, LeaveLock, Inside, Outcomes
<1>9. ASSUME NEW r \in Ranks, WorkerStep(r) PROVE UNCHANGED Statuses
  BY <1>9, PhaseUnchanged DEF WorkerStep, WorkerAdds, WorkerReturns
<1>10. ASSUME NEW r \in Ranks, Raises(r)
       PROVE  UNCHANGED Statuses \/ \E q \in Requests : Service!End(q)
  <2>1. CASE r = 0
    <3>1. PICK q \in Requests : thread[q] = "generate" /\ LeaveLock(q, "failed")
      BY <1>10, <2>1, WhatRaises DEF StepRaises
    <3> QED
      BY <3>1, <1>e DEF LeaveLock, Inside, Outcomes
  <2>2. CASE r # 0
    BY <1>10, <2>2, PhaseUnchanged, WhatRaises DEF StepRaises
  <2> QED
    BY <2>1, <2>2
<1>11. CASE Interrupt
  BY <1>11, CutIsShutdown, PhaseUnchanged DEF Interrupt, Service!ServiceNext
<1>12. CASE ExitBroadcast \/ LauncherEnds \/ TimeOut
  BY <1>12, CutIsShutdown DEF ExitBroadcast, LauncherEnds, TimeOut, Service!ServiceNext
<1>13. CASE Rest \/ UNCHANGED vars
  BY <1>13, PhaseUnchanged DEF Rest, vars
<1> QED
  BY <1>1, <1>2, <1>3, <1>4, <1>5, <1>6, <1>7, <1>8, <1>9, <1>10, <1>11, <1>12, <1>13
  DEF ServerNext, ThreadStep, Service!ServiceNext, Raises

(* The server implements the service, on any number of ranks and through   *)
(* every fault: requests are served one at a time and each ends once.      *)
THEOREM ServerRefinesService == ServerSpec => ImplementsService
<1>1. ServerInit => Service!ServiceInit
  BY DEF ServerInit, Service!ServiceInit, Phase
<1>2. ServerInv /\ [ServerNext]_vars => [Service!ServiceNext]_Statuses
  BY StepImplemented
<1> QED
  BY <1>1, <1>2, ServerInvariant, PTL
  DEF ServerSpec, ImplementsService, Service!ServiceSpec, Statuses

-----------------------------------------------------------------------------
(* The ranks: what they take, run and answer together. *)

(* The ranks' part of the inductive invariant.  Taken(r) is what rank r    *)
(* has in its scheduler or is about to add to it: the ranks add a request  *)
(* one by one, but they take it together, in its last broadcast.           *)
Taken(r) ==
    IF r = 0
    THEN live[0] \cup {q \in Requests \ Rejected : thread[q] = "work" /\ sent = 4}
    ELSE live[r] \cup {q \in Requests \ Rejected :
                          worker[r] = "loop" /\ got[r] = 4 /\ work[r] = q}

TakenAlike == ~down => \A r \in workers : Taken(r) = Taken(0)

(* An exception on rank 0 alone may lose what the workers still have: but  *)
(* then they wait in a pass in which it never meets them, or are dead, and *)
(* no work is heard any more.                                              *)
Busy(r) ==
    \/ worker[r] \in {"died", "exited"}
    \/ got[r] = 4
    \/ worker[r] = "generate" /\ live[r] # {}

Stalled ==
    /\ \E r \in workers : Busy(r)
    /\ \A q \in Requests : thread[q] \notin {"generate", "reading"} /\ ~(thread[q] = "work" /\ sent = 4)

SameTaken == ~Stalled => TakenAlike

LoopEmpty == \A r \in workers : worker[r] = "loop" => live[r] = {}

(* No worker is about to add what has been answered. *)
AnsweredUntaken ==
    \A q \in Requests : thread[q] = "answered" => \A r \in workers : q \notin Taken(r)

SameRan == \A r \in workers : ran[r] = ran[0]

(* A worker that generates hears nothing; one that has received a part of  *)
(* a work hears the rest from the holder of the lock.                      *)
HearsHolder ==
    /\ \A r \in workers : worker[r] = "generate" => got[r] = 0
    /\ ~down => \A r \in workers : got[r] \in 1 .. 3 =>
                    /\ work[r] = infer_lock /\ infer_lock \in Requests
                    /\ thread[infer_lock] = "work" /\ sent = got[r]

(* What is still in the scheduler of rank 0 has passes to go; a request    *)
(* not added yet has had none, one being generated is there until it has   *)
(* had them all.                                                           *)
Owed ==
    /\ \A q \in live[0] : ran[0][q] < Passes[q]
    /\ \A q \in Requests :
          /\ thread[q] \in {"absent", "waiting", "work"} => q \notin live[0] /\ ran[0][q] = 0
          /\ thread[q] \in {"generate", "reading"} => q \in live[0] \/ ran[0][q] = Passes[q]

NoneInsideAtEnd == down => \A q \in Requests : ~Inside(q)

(* Only a client that leaves, a lack of memory and a request that makes a  *)
(* step raise leave sequences behind: what needs two of them to raise      *)
(* comes later.                                                            *)
NoneLeftBehind ==
    ~down /\ ~LeftBehind /\ "memory" \notin faults =>
        \A q \in live[0] : thread[q] \in {"generate", "reading"}

RanksInv ==
    /\ SameTaken /\ LoopEmpty /\ AnsweredUntaken /\ SameRan /\ HearsHolder
    /\ Owed /\ NoneInsideAtEnd /\ NoneLeftBehind
    /\ AnsweredInFull /\ FailedForReason

LEMMA WorkersAreOthers == ServerTypeOK => workers \subseteq Ranks /\ 0 \in Ranks /\ 0 \notin workers
  BY ServerAssumption DEF ServerTypeOK, Ranks

LEMMA RanksInitial == ServerInit => RanksInv
<1> SUFFICES ASSUME ServerInit PROVE RanksInv
  OBVIOUS
<1>0. workers \subseteq Ranks /\ 0 \in Ranks /\ 0 \notin workers
  BY ServerInitial, WorkersAreOthers DEF ServerInv
<1>1. SameTaken /\ LoopEmpty /\ AnsweredUntaken
  BY <1>0 DEF ServerInit, SameTaken, TakenAlike, Taken, LoopEmpty, AnsweredUntaken
<1>2. SameRan /\ HearsHolder
  BY <1>0 DEF ServerInit, SameRan, HearsHolder
<1>3. Owed
  BY <1>0 DEF ServerInit, Owed
<1>4. NoneInsideAtEnd /\ NoneLeftBehind /\ AnsweredInFull /\ FailedForReason
  BY <1>0 DEF ServerInit, NoneInsideAtEnd, NoneLeftBehind, AnsweredInFull, FailedForReason, Inside
<1> QED
  BY <1>1, <1>2, <1>3, <1>4 DEF RanksInv

(* While a thread generates none is about to add: the ranks that generate  *)
(* with it have the same batch.                                            *)
LEMMA NoneAddsMeanwhile ==
  ASSUME ServerInv, ~down, NEW q \in Requests, thread[q] \in {"generate", "reading"}
  PROVE  Taken(0) = live[0] /\ infer_lock = q
<1>1. infer_lock = q
  BY DEF ServerInv, OneInference, Inside
<1>2. \A p \in Requests : thread[p] # "work"
  <2> SUFFICES ASSUME NEW p \in Requests, thread[p] = "work" PROVE FALSE
    OBVIOUS
  <2>1. infer_lock = p
    BY DEF ServerInv, OneInference, Inside
  <2> QED
    BY <1>1, <2>1
<1> QED
  BY <1>1, <1>2 DEF Taken

LEMMA MeetInStep ==
  ASSUME ServerInv, RanksInv, ~down, Meet
  PROVE  \A r \in workers : live[r] = live[0] /\ ran[r] = ran[0] /\ got[r] = 0
<1> SUFFICES ASSUME NEW r \in workers PROVE live[r] = live[0] /\ ran[r] = ran[0] /\ got[r] = 0
  OBVIOUS
<1>1. r # 0 /\ worker[r] = "generate"
  BY WorkersAreOthers DEF ServerInv, Meet, InPass, Generating
<1>2. ran[r] = ran[0] /\ got[r] = 0
  BY <1>1 DEF RanksInv, SameRan, HearsHolder
<1>3. PICK q \in Requests : thread[q] = "generate"
  BY DEF Meet, InPass, Generating
<1>4. Taken(0) = live[0]
  BY <1>3, NoneAddsMeanwhile
<1>5. Taken(r) = live[r]
  BY <1>1 DEF Taken
<1>6. Taken(r) = Taken(0)
  BY <1>3 DEF RanksInv, SameTaken, TakenAlike, Stalled
<1> QED
  BY <1>2, <1>4, <1>5, <1>6

(* A pass takes every rank to the same batch and the same counts.          *)
LEMMA PassTogether ==
  ASSUME ServerInv, RanksInv, NEW q \in Requests, Pass(q)
  PROVE  \A r \in {0} \cup workers : live'[r] = live[0] \ Over(0) /\ ran'[r] = Counts(0)
<1> SUFFICES ASSUME NEW r \in {0} \cup workers
             PROVE  live'[r] = live[0] \ Over(0) /\ ran'[r] = Counts(0)
  OBVIOUS
<1>0. r \in Ranks
  BY WorkersAreOthers DEF ServerInv
<1>1. live[r] = live[0] /\ ran[r] = ran[0]
  BY MeetInStep DEF Pass
<1>2. Over(r) = Over(0)
  BY <1>1 DEF Over
<1>3. Counts(r) = Counts(0)
  BY <1>1 DEF Counts
<1>4. live'[r] = live[r] \ Over(r) /\ ran'[r] = Counts(r)
  BY <1>0 DEF Pass
<1> QED
  BY <1>1, <1>2, <1>3, <1>4

LEMMA SameRanPreserved ==
  ASSUME ServerInv, RanksInv, [ServerNext]_vars
  PROVE  SameRan'
<1> USE DEF threadVars, workerVars, engineVars, exitVars
<1>1. ASSUME NEW q \in Requests, Pass(q) PROVE SameRan'
  BY <1>1, PassTogether DEF SameRan, Pass
<1>2. UNCHANGED <<workers, ran>> => SameRan'
  BY DEF SameRan, RanksInv
<1>3. ASSUME NEW q \in Requests, Arrive(q) \/ ThreadStep(q) \/ ClientReads(q) \/ ClientGone(q)
      PROVE  Pass(q) \/ UNCHANGED <<workers, ran>>
  BY <1>3 DEF ThreadStep, Arrive, Acquire, Broadcast, Add, Answer, ClientReads, ClientGone
<1>4. ASSUME NEW r \in Ranks, WorkerStep(r) \/ Raises(r)
      PROVE  UNCHANGED <<workers, ran>>
  BY <1>4, WhatRaises DEF WorkerStep, WorkerAdds, WorkerReturns, StepRaises, ServerInv
<1>5. Interrupt \/ ExitBroadcast \/ LauncherEnds \/ TimeOut => UNCHANGED <<workers, ran>>
  BY DEF Interrupt, ExitBroadcast, LauncherEnds, TimeOut
<1>6. Rest \/ UNCHANGED vars => UNCHANGED <<workers, ran>>
  BY DEF Rest, vars
<1> QED
  BY <1>1, <1>2, <1>3, <1>4, <1>5, <1>6 DEF ServerNext, Raises

LEMMA OwedPreserved ==
  ASSUME ServerInv, RanksInv, [ServerNext]_vars
  PROVE  Owed'
<1> USE DEF threadVars, workerVars, engineVars, exitVars
<1>0. ServerTypeOK /\ Owed /\ 0 \in Ranks /\ 0 \notin workers
  BY WorkersAreOthers DEF ServerInv, RanksInv
<1>1. ASSUME NEW q \in Requests, Arrive(q) PROVE Owed'
  BY <1>0, <1>1 DEF Arrive, Owed, ServerTypeOK
<1>2. ASSUME NEW q \in Requests, Acquire(q) PROVE Owed'
  BY <1>0, <1>2 DEF Acquire, Owed, ServerTypeOK
<1>3. ASSUME NEW q \in Requests, Add(q) PROVE Owed'
  <2>1. Passes[q] \in Nat \ {0} /\ thread[q] = "work"
    BY <1>3, ServerAssumption DEF Add
  <2>2. q \notin live[0] /\ ran[0][q] = 0
    BY <1>0, <2>1 DEF Owed
  <2>3. CASE q \in Rejected
    BY <1>0, <1>3, <2>2, <2>3 DEF Add, LeaveLock, Owed, ServerTypeOK
  <2>4. CASE q \notin Rejected
    <3>1. live'[0] = live[0] \cup {q} /\ UNCHANGED ran
      BY <1>0, <1>3, <2>4 DEF Add, ServerTypeOK
    <3>2. \A p \in Requests : thread'[p] = IF p = q THEN "generate" ELSE thread[p]
      BY <1>0, <1>3, <2>4 DEF Add, ServerTypeOK
    <3>3. \A p \in live'[0] : ran[0][p] < Passes[p]
      BY <1>0, <2>1, <2>2, <3>1 DEF Owed
    <3> QED
      BY <1>0, <2>2, <3>1, <3>2, <3>3 DEF Owed
  <2> QED
    BY <2>3, <2>4
<1>4. ASSUME NEW q \in Requests, Pass(q) PROVE Owed'
  <2>1. live'[0] = live[0] \ Over(0) /\ ran'[0] = Counts(0)
    BY <1>4, PassTogether
  <2>2. \A p \in live[0] : p \in Requests /\ ran[0][p] \in Nat /\ Passes[p] \in Nat
    BY <1>0, ServerAssumption DEF ServerTypeOK
  <2>3. \A p \in live'[0] : ran'[0][p] < Passes[p]
    <3> SUFFICES ASSUME NEW p \in live'[0] PROVE ran'[0][p] < Passes[p]
      OBVIOUS
    <3>1. p \in live[0] /\ ran[0][p] + 1 # Passes[p]
      BY <2>1 DEF Over
    <3>2. ran'[0][p] = ran[0][p] + 1
      BY <2>1, <2>2, <3>1 DEF Counts
    <3>3. ran[0][p] < Passes[p]
      BY <1>0, <3>1 DEF Owed
    <3> QED
      BY <2>2, <3>1, <3>2, <3>3
  <2>4. ASSUME NEW p \in Requests, thread'[p] \in {"absent", "waiting", "work"}
        PROVE  p \notin live'[0] /\ ran'[0][p] = 0
    <3>1. thread[p] = thread'[p]
      BY <1>0, <1>4, <2>4 DEF Pass, AfterPass, LeaveLock, ServerTypeOK
    <3> QED
      BY <1>0, <2>1, <2>4, <3>1 DEF Owed, Counts
  <2>5. ASSUME NEW p \in Requests, thread'[p] \in {"generate", "reading"}
        PROVE  p \in live'[0] \/ ran'[0][p] = Passes[p]
    <3>1. thread[p] \in {"generate", "reading"}
      BY <1>0, <1>4, <2>5 DEF Pass, AfterPass, LeaveLock, ServerTypeOK
    <3>2. p \in live[0] \/ ran[0][p] = Passes[p]
      BY <1>0, <3>1 DEF Owed
    <3>3. ran'[0][p] = IF p \in live[0] THEN ran[0][p] + 1 ELSE ran[0][p]
      BY <2>1 DEF Counts
    <3> QED
      BY <2>1, <3>2, <3>3 DEF Over
  <2> QED
    BY <2>3, <2>4, <2>5 DEF Owed
<1>5. ASSUME NEW q \in Requests, Answer(q) \/ ClientReads(q) \/ ClientGone(q) PROVE Owed'
  BY <1>0, <1>5 DEF Answer, ClientReads, ClientGone, LeaveLock, Owed, ServerTypeOK
<1>6. ASSUME NEW r \in Ranks, Raises(r) PROVE Owed'
  <2>1. StepRaises(r) /\ live'[0] \subseteq live[0] /\ (r # 0 => live'[0] = live[0])
    BY <1>0, <1>6, WhatRaises DEF Raises, OutOfMemory, EngineRaises
  <2>2. CASE r # 0
    BY <1>0, <2>1, <2>2 DEF StepRaises, Owed
  <2>3. CASE r = 0
    <3>1. PICK q \in Requests : thread[q] = "generate" /\ LeaveLock(q, "failed")
      BY <2>1, <2>3 DEF StepRaises
    <3>2. ~down /\ UNCHANGED ran
      BY <2>1 DEF StepRaises
    <3>3. \A p \in Requests : p # q => thread[p] \notin {"generate", "reading"}
      BY <3>1, <3>2 DEF ServerInv, OneInference, Inside
    <3>4. \A p \in Requests : thread'[p] = IF p = q THEN "failed" ELSE thread[p]
      BY <1>0, <3>1 DEF LeaveLock, ServerTypeOK
    <3> QED
      BY <1>0, <2>1, <3>2, <3>3, <3>4 DEF Owed
  <2> QED
    BY <2>2, <2>3
<1>7. ASSUME NEW r \in Ranks, WorkerAdds(r) PROVE Owed'
  <2>1. live'[0] = live[0] /\ UNCHANGED <<thread, ran>>
    BY <1>0, <1>7 DEF WorkerAdds, ServerTypeOK
  <2> QED
    BY <1>0, <2>1 DEF Owed
<1>8. CutAll /\ UNCHANGED <<live, ran>> => Owed'
  BY <1>0 DEF CutAll, Owed, Ended, Outcomes
<1>9. UNCHANGED <<thread, live, ran>> => Owed'
  BY <1>0 DEF Owed
<1>10. ASSUME NEW q \in Requests, Broadcast(q) PROVE UNCHANGED <<thread, live, ran>>
  BY <1>10 DEF Broadcast
<1>11. ASSUME NEW r \in Ranks, WorkerReturns(r) PROVE UNCHANGED <<thread, live, ran>>
  BY <1>11 DEF WorkerReturns
<1>12. Interrupt \/ ExitBroadcast \/ LauncherEnds \/ TimeOut => Owed'
  BY <1>8, <1>9 DEF Interrupt, ExitBroadcast, LauncherEnds, TimeOut
<1>13. Rest \/ UNCHANGED vars => UNCHANGED <<thread, live, ran>>
  BY DEF Rest, vars
<1> QED
  BY <1>1, <1>2, <1>3, <1>4, <1>5, <1>6, <1>7, <1>9, <1>10, <1>11, <1>12, <1>13
  DEF ServerNext, ThreadStep, WorkerStep, Raises

(* When rank 0 raises alone, no worker gets past the pass it is in, or is  *)
(* about to begin.                                                         *)
LEMMA RaisingStalls ==
  ASSUME ServerInv, RanksInv, TakenAlike, ~Stalled', StepRaises(0),
         \A p \in Ranks \ {0} : live'[p] = live[p]
  PROVE  workers = {}
<1> SUFFICES ASSUME NEW r \in workers PROVE FALSE
  OBVIOUS
<1>0. ServerTypeOK /\ OneInference /\ r \in Ranks /\ r # 0 /\ 0 \in Ranks
  BY WorkersAreOthers DEF ServerInv
<1>1. PICK q \in Requests : thread[q] = "generate" /\ LeaveLock(q, "failed")
  BY DEF StepRaises
<1>2. ~down /\ live[0] # {} /\ UNCHANGED <<workers, worker, got, sent>> /\ live'[r] = live[r]
  BY <1>0 DEF StepRaises, InPass
<1>3. Taken(r) # {}
  BY <1>1, <1>2, NoneAddsMeanwhile DEF TakenAlike
<1>4. Busy(r)
  <2>1. CASE worker[r] = "loop"
    <3>1. live[r] = {}
      BY <2>1 DEF RanksInv, LoopEmpty
    <3> QED
      BY <1>0, <1>3, <3>1 DEF Taken, Busy
  <2>2. CASE worker[r] = "generate"
    BY <1>0, <1>3, <2>2 DEF Taken, Busy
  <2> QED
    BY <1>0, <2>1, <2>2 DEF ServerTypeOK, Busy
<1>5. Busy(r)'
  BY <1>2, <1>4 DEF Busy
<1>6. \A p \in Requests : thread'[p] \notin {"work", "generate", "reading"}
  BY <1>0, <1>1, <1>2 DEF LeaveLock, OneInference, Inside, ServerTypeOK
<1> QED
  BY <1>2, <1>5, <1>6 DEF Stalled

(* A request is in no rank's scheduler, and about to be in none, before    *)
(* its last broadcast: every worker takes it then.                         *)
LEMMA TakenAlikePreserved ==
  ASSUME ServerInv, RanksInv, TakenAlike, ~Stalled', [ServerNext]_vars
  PROVE  TakenAlike'
<1> USE DEF threadVars, workerVars, engineVars, exitVars
<1>0. /\ ServerTypeOK /\ OneInference /\ TakenAlike /\ HearsHolder
      /\ workers \subseteq Ranks /\ 0 \in Ranks /\ 0 \notin workers
  BY WorkersAreOthers DEF ServerInv, RanksInv
<1>1. ASSUME NEW q \in Requests, Arrive(q) PROVE TakenAlike'
  <2>1. \A p \in Requests : thread'[p] = "work" <=> thread[p] = "work"
    BY <1>0, <1>1 DEF Arrive, ServerTypeOK
  <2> QED
    BY <1>0, <1>1, <2>1 DEF Arrive, TakenAlike, Taken
<1>2. ASSUME NEW q \in Requests, Acquire(q) PROVE TakenAlike'
  <2>1. CASE workers = {}
    BY <1>2, <2>1 DEF Acquire, TakenAlike
  <2>2. CASE workers # {}
    <3>1. \A p \in Requests : thread[p] # "work"
      BY <1>0, <1>2, ServerAssumption DEF Acquire, OneInference, Inside
    <3>2. Taken(0)' = live[0] /\ Taken(0) = live[0]
      BY <1>2, <2>2, <3>1 DEF Acquire, Taken, tp_active
    <3>3. \A r \in workers : Taken(r)' = Taken(r)
      BY <1>0, <1>2 DEF Acquire, Taken
    <3> QED
      BY <1>0, <1>2, <3>2, <3>3 DEF Acquire, TakenAlike
  <2> QED
    BY <2>1, <2>2
<1>3. ASSUME NEW q \in Requests, Broadcast(q) PROVE TakenAlike'
  <2>1. /\ thread[q] = "work" /\ sent \in 0 .. 3 /\ sent' = sent + 1
        /\ infer_lock = q
    BY <1>0, <1>3 DEF Broadcast, BroadcastMeets, ServerTypeOK, OneInference, Inside
  <2>2. \A p \in Requests : thread[p] = "work" <=> p = q
    BY <1>0, <1>3, <2>1 DEF Broadcast, OneInference, Inside
  <2>3. Taken(0) = live[0]
    BY <2>1 DEF Taken
  <2>4. Taken(0)' = live[0] \cup {p \in Requests \ Rejected : p = q /\ sent + 1 = 4}
    BY <1>3, <2>1, <2>2 DEF Broadcast, Taken
  <2>5. ASSUME NEW r \in workers PROVE Taken(r)' = Taken(0)'
    <3>1. worker[r] = "loop" /\ got[r] = sent /\ got'[r] = sent + 1 /\ work'[r] = q
      BY <1>0, <1>3, <2>5 DEF Broadcast, BroadcastMeets
    <3>2. Taken(r) = live[r]
      <4>1. r # 0 /\ got[r] # 4
        BY <1>0, <2>1, <2>5, <3>1
      <4> QED
        BY <4>1 DEF Taken
    <3>3. Taken(r)' = live[r] \cup {p \in Requests \ Rejected : p = q /\ sent + 1 = 4}
      BY <1>0, <1>3, <2>5, <3>1 DEF Broadcast, Taken
    <3>4. live[r] = live[0]
      BY <1>0, <1>3, <2>3, <2>5, <3>2 DEF Broadcast, TakenAlike
    <3> QED
      BY <2>4, <3>3, <3>4
  <2> QED
    BY <1>3, <2>5 DEF Broadcast, TakenAlike
<1>4. ASSUME NEW q \in Requests, Add(q) PROVE TakenAlike'
  <2>1. infer_lock = q /\ thread[q] = "work" /\ sent = 4
    BY <1>0, <1>4 DEF Add, OneInference, Inside
  <2>2. \A p \in Requests : thread[p] = "work" <=> p = q
    BY <1>0, <1>4, <2>1 DEF Add, OneInference, Inside
  <2>3. \A p \in Requests : thread'[p] # "work"
    BY <1>0, <1>4, <2>2 DEF Add, LeaveLock, ServerTypeOK
  <2>4. Taken(0)' = live'[0]
    BY <2>3 DEF Taken
  <2>5. live'[0] = live[0] \cup {p \in Requests \ Rejected : p = q}
    BY <1>0, <1>4 DEF Add, ServerTypeOK
  <2>6. Taken(0) = live[0] \cup {p \in Requests \ Rejected : p = q}
    BY <2>1, <2>2 DEF Taken
  <2>7. \A r \in workers : Taken(r)' = Taken(r)
    BY <1>0, <1>4 DEF Add, Taken, ServerTypeOK
  <2> QED
    BY <1>0, <1>4, <2>4, <2>5, <2>6, <2>7 DEF Add, TakenAlike
<1>5. ASSUME NEW q \in Requests, Pass(q) PROVE TakenAlike'
  <2>1. \A p \in Requests : thread[p] = "work" => FALSE
    BY <1>0, <1>5 DEF Pass, OneInference, Inside
  <2>2. \A p \in Requests : thread'[p] # "work"
    BY <1>0, <1>5, <2>1 DEF Pass, AfterPass, LeaveLock, ServerTypeOK
  <2>3. Taken(0)' = live'[0]
    BY <2>2 DEF Taken
  <2>4. \A r \in workers : worker'[r] = "generate"
    BY <1>0, <1>5 DEF Pass, Meet, InPass, Generating
  <2>5. \A r \in workers : Taken(r)' = live'[r]
    BY <1>0, <1>5, <2>4 DEF Pass, Taken
  <2>6. \A r \in workers : live'[r] = live'[0]
    BY <1>5, PassTogether
  <2> QED
    BY <1>5, <2>3, <2>5, <2>6 DEF Pass, TakenAlike
<1>6. ASSUME NEW q \in Requests, Answer(q) \/ ClientReads(q) \/ ClientGone(q) PROVE TakenAlike'
  <2>1. \A p \in Requests : thread'[p] = "work" <=> thread[p] = "work"
    BY <1>0, <1>6 DEF Answer, ClientReads, ClientGone, LeaveLock, ServerTypeOK
  <2>2. ~down /\ UNCHANGED <<workers, sent, worker, got, work, live, down>>
    BY <1>6 DEF Answer, ClientReads, ClientGone
  <2> QED
    BY <1>0, <2>1, <2>2 DEF TakenAlike, Taken
<1>7. ASSUME NEW r \in Ranks, WorkerAdds(r) PROVE TakenAlike'
  <2>1. r # 0 /\ r \in workers /\ worker[r] = "loop" /\ got[r] = 4 /\ work[r] \in Requests
    BY <1>0, <1>7 DEF WorkerAdds, ServerInv, WorkKnown
  <2>2. Taken(r)' = live'[r]
    BY <1>0, <1>7, <2>1 DEF WorkerAdds, Taken, ServerTypeOK
  <2>3. live'[r] = Taken(r)
    BY <1>0, <1>7, <2>1 DEF WorkerAdds, Taken, ServerTypeOK
  <2>4. \A p \in workers \ {r} : Taken(p)' = Taken(p)
    BY <1>0, <1>7, <2>1 DEF WorkerAdds, Taken, ServerTypeOK
  <2>5. Taken(0)' = Taken(0)
    BY <1>0, <1>7, <2>1 DEF WorkerAdds, Taken, ServerTypeOK
  <2> QED
    BY <1>0, <1>7, <2>2, <2>3, <2>4, <2>5 DEF WorkerAdds, TakenAlike
<1>8. ASSUME NEW r \in Ranks, WorkerReturns(r) PROVE TakenAlike'
  <2>1. r # 0 /\ r \in workers /\ got[r] # 4
    BY <1>0, <1>8 DEF WorkerReturns, HearsHolder
  <2>2. ASSUME NEW p \in workers PROVE Taken(p)' = Taken(p)
    <3>1. /\ p # r => worker'[p] = worker[p]
          /\ UNCHANGED <<live, got, work>>
      BY <1>0, <1>8 DEF WorkerReturns, ServerTypeOK
    <3>2. CASE p = r
      BY <1>0, <2>1, <3>1, <3>2 DEF Taken
    <3>3. CASE p # r
      BY <1>0, <2>2, <3>1, <3>3 DEF Taken
    <3> QED
      BY <3>2, <3>3
  <2>3. Taken(0)' = Taken(0)
    BY <1>8 DEF WorkerReturns, Taken
  <2> QED
    BY <1>0, <1>8, <2>2, <2>3 DEF WorkerReturns, TakenAlike
<1>9. ASSUME NEW r \in Ranks, Raises(r) PROVE TakenAlike'
  <2>0. StepRaises(r) /\ (\A p \in Ranks \ {0} : live'[p] = live[p]) /\ (r # 0 => live'[0] = live[0])
    BY <1>0, <1>9, WhatRaises DEF Raises, OutOfMemory, EngineRaises
  <2>1. CASE r = 0
    <3>1. workers = {}
      BY <1>0, <2>0, <2>1, RaisingStalls
    <3> QED
      BY <2>0, <3>1 DEF StepRaises, TakenAlike
  <2>2. CASE r # 0
    <3>1. r \in workers /\ got[r] # 4 /\ UNCHANGED <<workers, thread, sent, got, work, down>>
      BY <1>0, <2>0, <2>2 DEF StepRaises, InPass, Generating, HearsHolder
    <3>2. \A p \in workers : p # r => worker'[p] = worker[p]
      BY <1>0, <2>0, <2>2 DEF StepRaises, ServerTypeOK
    <3>3. ASSUME NEW p \in workers PROVE Taken(p)' = Taken(p)
      <4>1. p # 0 /\ live'[p] = live[p] /\ UNCHANGED <<got, work>>
        BY <1>0, <2>0, <3>1
      <4>2. worker'[p] = "loop" /\ got[p] = 4 <=> worker[p] = "loop" /\ got[p] = 4
        BY <1>0, <2>0, <2>2, <3>1, <3>2 DEF StepRaises, ServerTypeOK
      <4> QED
        BY <4>1, <4>2 DEF Taken
    <3>4. Taken(0)' = Taken(0)
      BY <2>0, <2>2, <3>1 DEF Taken
    <3> QED
      BY <1>0, <3>1, <3>3, <3>4 DEF TakenAlike
  <2> QED
    BY <2>1, <2>2
<1>10. CutAll => TakenAlike'
  BY DEF CutAll, TakenAlike
<1>11. UNCHANGED <<workers, thread, sent, worker, got, work, live, down>> => TakenAlike'
  BY <1>0 DEF TakenAlike, Taken
<1>12. Interrupt \/ ExitBroadcast \/ LauncherEnds \/ TimeOut => TakenAlike'
  BY <1>10, <1>11 DEF Interrupt, ExitBroadcast, LauncherEnds, TimeOut
<1>13. Rest \/ UNCHANGED vars => TakenAlike'
  BY <1>11 DEF Rest, vars
<1> QED
  BY <1>1, <1>2, <1>3, <1>4, <1>5, <1>6, <1>7, <1>8, <1>9, <1>12, <1>13
  DEF ServerNext, ThreadStep, WorkerStep, Raises

LEMMA LoopEmptyPreserved ==
  ASSUME ServerInv, RanksInv, [ServerNext]_vars
  PROVE  LoopEmpty'
<1> USE DEF threadVars, workerVars, engineVars, exitVars
<1>0. /\ ServerTypeOK /\ LoopEmpty
      /\ workers \subseteq Ranks /\ 0 \in Ranks /\ 0 \notin workers
  BY WorkersAreOthers DEF ServerInv, RanksInv
<1>1. UNCHANGED <<workers, worker>> /\ (\A r \in workers : live'[r] = live[r]) => LoopEmpty'
  BY <1>0 DEF LoopEmpty
<1>2. ASSUME NEW q \in Requests, Arrive(q) \/ Acquire(q) \/ Broadcast(q) \/ Answer(q)
                                    \/ ClientReads(q) \/ ClientGone(q)
      PROVE  UNCHANGED <<workers, worker, live>>
  BY <1>2 DEF Arrive, Acquire, Broadcast, Answer, ClientReads, ClientGone
<1>3. ASSUME NEW q \in Requests, Add(q) PROVE LoopEmpty'
  BY <1>0, <1>1, <1>3 DEF Add, ServerTypeOK
<1>4. ASSUME NEW q \in Requests, Pass(q) PROVE LoopEmpty'
  BY <1>0, <1>4 DEF Pass, Meet, InPass, Generating, LoopEmpty
<1>5. ASSUME NEW r \in Ranks, WorkerAdds(r) PROVE LoopEmpty'
  BY <1>0, <1>5 DEF WorkerAdds, LoopEmpty, ServerTypeOK
<1>6. ASSUME NEW r \in Ranks, WorkerReturns(r) PROVE LoopEmpty'
  BY <1>0, <1>6 DEF WorkerReturns, LoopEmpty, ServerTypeOK
<1>7. ASSUME NEW r \in Ranks, Raises(r) PROVE LoopEmpty'
  <2>1. StepRaises(r) /\ \A p \in Ranks \ {0} : live'[p] = live[p]
    BY <1>0, <1>7, WhatRaises
  <2>2. \A p \in workers : worker'[p] = "loop" => worker[p] = "loop"
    BY <1>0, <2>1 DEF StepRaises, ServerTypeOK
  <2> QED
    BY <1>0, <2>1, <2>2 DEF StepRaises, LoopEmpty
<1>8. Interrupt \/ LauncherEnds \/ TimeOut => UNCHANGED <<workers, worker, live>>
  BY DEF Interrupt, LauncherEnds, TimeOut
<1>9. CASE ExitBroadcast
  BY <1>0, <1>9 DEF ExitBroadcast, LoopEmpty
<1>10. Rest \/ UNCHANGED vars => UNCHANGED <<workers, worker, live>>
  BY DEF Rest, vars
<1> QED
  BY <1>1, <1>2, <1>3, <1>4, <1>5, <1>6, <1>7, <1>8, <1>9, <1>10
  DEF ServerNext, ThreadStep, WorkerStep, Raises

(* What is stalled stays so to the end of the processes.                   *)
LEMMA StalledStays ==
  ASSUME ServerInv, RanksInv, Stalled, ~down', [ServerNext]_vars
  PROVE  Stalled'
<1> USE DEF threadVars, workerVars, engineVars, exitVars
<1>0. /\ ServerTypeOK /\ HearsHolder
      /\ workers \subseteq Ranks /\ 0 \in Ranks /\ 0 \notin workers
      /\ \A q \in Requests : thread[q] \notin {"generate", "reading"} /\ ~(thread[q] = "work" /\ sent = 4)
  BY WorkersAreOthers DEF ServerInv, RanksInv, Stalled
<1>b. PICK b \in workers : Busy(b)
  BY DEF Stalled
<1>1. ASSUME NEW q \in Requests, Arrive(q) PROVE Stalled'
  BY <1>0, <1>1, <1>b DEF Arrive, Stalled, Busy, ServerTypeOK
<1>2. ASSUME NEW q \in Requests, Acquire(q) PROVE Stalled'
  <2>1. sent' = 0
    BY <1>2, <1>b DEF Acquire, tp_active
  <2> QED
    BY <1>0, <1>2, <1>b, <2>1 DEF Acquire, Stalled, Busy, ServerTypeOK
<1>3. ASSUME NEW q \in Requests, Broadcast(q) PROVE FALSE
  BY <1>0, <1>3, <1>b DEF Broadcast, BroadcastMeets, Busy, ServerTypeOK
<1>4. ASSUME NEW q \in Requests, Add(q) \/ Pass(q) \/ Answer(q) \/ ClientReads(q) \/ ClientGone(q)
      PROVE  FALSE
  BY <1>0, <1>4 DEF Add, Pass, Answer, ClientReads, ClientGone
<1>5. ASSUME NEW r \in Ranks, WorkerAdds(r) PROVE Stalled'
  <2>1. worker'[r] = "died" \/ (worker'[r] = "generate" /\ live'[r] # {})
    <3>0. DOMAIN worker = Ranks /\ DOMAIN live = Ranks
      BY <1>0 DEF ServerTypeOK
    <3>1. CASE work[r] \in Rejected
      BY <1>5, <3>0, <3>1 DEF WorkerAdds
    <3>2. CASE work[r] \notin Rejected
      <4>1. worker'[r] = "generate" /\ live'[r] = live[r] \cup {work[r]}
        BY <1>5, <3>0, <3>2 DEF WorkerAdds
      <4>2. work[r] \in live'[r]
        BY <4>1
      <4> QED
        BY <4>1, <4>2
    <3> QED
      BY <3>1, <3>2
  <2>2. b # r => worker'[b] = worker[b] /\ got'[b] = got[b] /\ live'[b] = live[b]
    BY <1>0, <1>5, <1>b DEF WorkerAdds, ServerTypeOK
  <2>3. Busy(b)'
    BY <1>b, <2>1, <2>2 DEF Busy
  <2> QED
    BY <1>0, <1>5, <1>b, <2>3 DEF WorkerAdds, Stalled
<1>6. ASSUME NEW r \in Ranks, WorkerReturns(r) PROVE Stalled'
  <2>1. Busy(b)'
    BY <1>0, <1>6, <1>b DEF WorkerReturns, Busy, ServerTypeOK, HearsHolder
  <2> QED
    BY <1>0, <1>6, <2>1 DEF WorkerReturns, Stalled
<1>7. ASSUME NEW r \in Ranks, Raises(r) PROVE Stalled'
  <2>1. StepRaises(r) /\ \A p \in Ranks \ {0} : live'[p] = live[p]
    BY <1>0, <1>7, WhatRaises
  <2>2. r # 0
    BY <1>0, <2>1 DEF StepRaises
  <2>3. Busy(b)'
    BY <1>0, <1>b, <2>1, <2>2 DEF StepRaises, Busy, ServerTypeOK
  <2> QED
    BY <1>0, <2>1, <2>2, <2>3 DEF StepRaises, Stalled
<1>8. UNCHANGED <<workers, thread, sent, worker, got, live>> => Stalled'
  BY DEF Stalled, Busy
<1>9. Interrupt \/ ExitBroadcast \/ LauncherEnds \/ TimeOut
        => UNCHANGED <<workers, thread, sent, worker, got, live>>
  BY DEF Interrupt, ExitBroadcast, LauncherEnds, TimeOut, CutAll
<1>10. Rest \/ UNCHANGED vars => UNCHANGED <<workers, thread, sent, worker, got, live>>
  BY DEF Rest, vars
<1> QED
  BY <1>1, <1>2, <1>3, <1>4, <1>5, <1>6, <1>7, <1>8, <1>9, <1>10
  DEF ServerNext, ThreadStep, WorkerStep, Raises

LEMMA SameTakenPreserved ==
  ASSUME ServerInv, RanksInv, [ServerNext]_vars
  PROVE  SameTaken'
<1> SUFFICES ASSUME ~Stalled', ~down' PROVE TakenAlike'
  BY DEF SameTaken, TakenAlike
<1>1. TakenAlike
  BY StalledStays DEF RanksInv, SameTaken
<1> QED
  BY <1>1, TakenAlikePreserved

LEMMA HearsHolderPreserved ==
  ASSUME ServerInv, RanksInv, [ServerNext]_vars
  PROVE  HearsHolder'
<1> USE DEF threadVars, workerVars, engineVars, exitVars
<1>0. /\ ServerTypeOK /\ OneInference /\ HearsHolder
      /\ workers \subseteq Ranks /\ 0 \in Ranks /\ 0 \notin workers
  BY WorkersAreOthers DEF ServerInv, RanksInv
<1>q. ASSUME NEW q \in Requests, ~down, Inside(q), thread[q] # "work" \/ sent = 4
      PROVE  \A r \in workers : got[r] \notin 1 .. 3
  BY <1>0, <1>q DEF OneInference, HearsHolder
<1>1. ASSUME NEW q \in Requests, Arrive(q) PROVE HearsHolder'
  BY <1>0, <1>1 DEF Arrive, HearsHolder, ServerTypeOK
<1>2. ASSUME NEW q \in Requests, Acquire(q) PROVE HearsHolder'
  <2>1. \A r \in workers : got[r] \notin 1 .. 3
    BY <1>0, <1>2, ServerAssumption DEF Acquire, HearsHolder
  <2> QED
    BY <1>0, <1>2, <2>1 DEF Acquire, HearsHolder
<1>3. ASSUME NEW q \in Requests, Broadcast(q) PROVE HearsHolder'
  <2>1. thread[q] = "work" /\ sent' = sent + 1 /\ infer_lock = q
    BY <1>0, <1>3 DEF Broadcast, BroadcastMeets, OneInference, Inside
  <2>2. \A r \in workers : worker'[r] = "loop" /\ got'[r] = sent' /\ work'[r] = q
    BY <1>0, <1>3 DEF Broadcast, BroadcastMeets
  <2> QED
    BY <1>3, <2>1, <2>2 DEF Broadcast, HearsHolder
<1>4. ASSUME NEW q \in Requests, Add(q) PROVE HearsHolder'
  <2>1. \A r \in workers : got[r] \notin 1 .. 3
    BY <1>4, <1>q DEF Add, Inside
  <2> QED
    BY <1>0, <1>4, <2>1 DEF Add, HearsHolder
<1>5. ASSUME NEW q \in Requests, Pass(q) \/ Answer(q) \/ ClientReads(q) \/ ClientGone(q)
      PROVE  HearsHolder'
  <2>1. \A r \in workers : got[r] \notin 1 .. 3
    BY <1>5, <1>q DEF Pass, Answer, ClientReads, ClientGone, Inside
  <2>2. UNCHANGED <<workers, worker, got, down>>
    BY <1>5 DEF Pass, Answer, ClientReads, ClientGone
  <2> QED
    BY <1>0, <2>1, <2>2 DEF HearsHolder
<1>6. ASSUME NEW r \in Ranks, WorkerStep(r) PROVE HearsHolder'
  BY <1>0, <1>6 DEF WorkerStep, WorkerAdds, WorkerReturns, HearsHolder, ServerTypeOK
<1>7. ASSUME NEW r \in Ranks, Raises(r) PROVE HearsHolder'
  <2>0. StepRaises(r)
    BY <1>0, <1>7, WhatRaises
  <2>1. CASE r = 0
    <3>1. PICK q \in Requests : thread[q] = "generate"
      BY <2>0, <2>1 DEF StepRaises
    <3>2. \A p \in workers : got[p] \notin 1 .. 3
      BY <2>0, <1>q, <3>1 DEF StepRaises, Inside
    <3> QED
      BY <1>0, <2>0, <2>1, <3>2 DEF StepRaises, HearsHolder
  <2>2. CASE r # 0
    BY <1>0, <2>0, <2>2 DEF StepRaises, HearsHolder, ServerTypeOK
  <2> QED
    BY <2>1, <2>2
<1>8. CutAll /\ UNCHANGED <<workers, worker, got>> => HearsHolder'
  BY <1>0 DEF CutAll, HearsHolder
<1>9. UNCHANGED <<workers, thread, infer_lock, sent, worker, got, work, down>> => HearsHolder'
  BY <1>0 DEF HearsHolder
<1>10. CASE ExitBroadcast
  BY <1>0, <1>10 DEF ExitBroadcast, CutAll, HearsHolder
<1>11. Interrupt \/ LauncherEnds \/ TimeOut => HearsHolder'
  BY <1>8, <1>9 DEF Interrupt, LauncherEnds, TimeOut
<1>12. Rest \/ UNCHANGED vars => HearsHolder'
  BY <1>9 DEF Rest, vars
<1> QED
  BY <1>1, <1>2, <1>3, <1>4, <1>5, <1>6, <1>7, <1>10, <1>11, <1>12
  DEF ServerNext, ThreadStep, Raises

LEMMA NoneInsidePreserved ==
  ASSUME ServerInv, RanksInv, [ServerNext]_vars
  PROVE  NoneInsideAtEnd'
<1> USE DEF threadVars, workerVars, engineVars, exitVars
<1>1. CutAll => NoneInsideAtEnd'
  BY DEF CutAll, NoneInsideAtEnd, Inside, Ended, Outcomes, ServerInv, ServerTypeOK
<1>2. UNCHANGED <<thread, down>> => NoneInsideAtEnd'
  BY DEF NoneInsideAtEnd, Inside, RanksInv
<1>3. ~down' => NoneInsideAtEnd'
  BY DEF NoneInsideAtEnd
<1>4. ASSUME NEW q \in Requests, Arrive(q) \/ ThreadStep(q) \/ ClientReads(q) \/ ClientGone(q)
      PROVE  ~down'
  BY <1>4 DEF ThreadStep, Arrive, Acquire, Broadcast, Add, Pass, Answer, ClientReads, ClientGone
<1>5. ASSUME NEW r \in Ranks, WorkerStep(r) \/ Raises(r) PROVE ~down'
  BY <1>5, WhatRaises DEF WorkerStep, WorkerAdds, WorkerReturns, StepRaises, ServerInv
<1>6. Interrupt \/ ExitBroadcast \/ LauncherEnds \/ TimeOut => CutAll \/ UNCHANGED <<thread, down>>
  BY DEF Interrupt, ExitBroadcast, LauncherEnds, TimeOut
<1>7. Rest \/ UNCHANGED vars => UNCHANGED <<thread, down>>
  BY DEF Rest, vars
<1> QED
  BY <1>1, <1>2, <1>3, <1>4, <1>5, <1>6, <1>7 DEF ServerNext, Raises

(* A fault is never forgotten, nor a request that failed.                  *)
LEMMA FaultsStay == ServerInv /\ [ServerNext]_vars => faults \subseteq faults'
<1> SUFFICES ASSUME ServerInv, [ServerNext]_vars PROVE faults \subseteq faults'
  OBVIOUS
<1> USE DEF threadVars, workerVars, engineVars, exitVars
<1>1. ASSUME NEW q \in Requests, Arrive(q) \/ ThreadStep(q) \/ ClientReads(q) \/ ClientGone(q)
      PROVE  faults \subseteq faults'
  BY <1>1 DEF ThreadStep, Arrive, Acquire, Broadcast, Add, Pass, Answer, ClientReads, ClientGone
<1>2. ASSUME NEW r \in Ranks, WorkerStep(r) \/ Raises(r) PROVE faults \subseteq faults'
  BY <1>2, WhatRaises DEF WorkerStep, WorkerAdds, WorkerReturns, ServerInv
<1>3. Interrupt \/ ExitBroadcast \/ LauncherEnds \/ TimeOut => faults \subseteq faults'
  BY DEF Interrupt, ExitBroadcast, LauncherEnds, TimeOut
<1> QED
  BY <1>1, <1>2, <1>3 DEF ServerNext, Rest, vars, Raises

LEMMA FailuresStay ==
  ASSUME ServerInv, [ServerNext]_vars
  PROVE  \A q \in Requests : thread[q] = "failed" => thread'[q] = "failed"
<1> SUFFICES ASSUME NEW f \in Requests, thread[f] = "failed" PROVE thread'[f] = "failed"
  OBVIOUS
<1> USE DEF threadVars, workerVars, engineVars, exitVars
<1>0. ServerTypeOK
  BY DEF ServerInv
<1>1. ASSUME NEW q \in Requests, Arrive(q) \/ ThreadStep(q) \/ ClientReads(q) \/ ClientGone(q)
      PROVE  thread'[f] = "failed"
  BY <1>0, <1>1 DEF ThreadStep, Arrive, Acquire, Broadcast, Add, Pass, AfterPass, Answer, ClientReads,
                    ClientGone, LeaveLock, ServerTypeOK
<1>2. ASSUME NEW r \in Ranks, WorkerStep(r) PROVE thread'[f] = "failed"
  BY <1>2 DEF WorkerStep, WorkerAdds, WorkerReturns
<1>3. ASSUME NEW r \in Ranks, Raises(r) PROVE thread'[f] = "failed"
  BY <1>0, <1>3, WhatRaises DEF StepRaises, LeaveLock, ServerTypeOK
<1>4. Interrupt \/ ExitBroadcast \/ LauncherEnds \/ TimeOut => thread'[f] = "failed"
  BY DEF Interrupt, ExitBroadcast, LauncherEnds, TimeOut, CutAll, Ended, Outcomes
<1>5. Rest \/ UNCHANGED vars => thread'[f] = "failed"
  BY DEF Rest, vars
<1> QED
  BY <1>1, <1>2, <1>3, <1>4, <1>5 DEF ServerNext, Raises

LEMMA LeftBehindStays == ServerInv /\ [ServerNext]_vars /\ LeftBehind => LeftBehind'
  BY FaultsStay, FailuresStay, ServerAssumption DEF LeftBehind

(* Without such a fault whatever the scheduler holds is the caller's.      *)
LEMMA OwnBatch ==
  ASSUME ServerInv, RanksInv, ~down, ~LeftBehind, "memory" \notin faults,
         NEW q \in Requests, thread[q] = "generate"
  PROVE  live[0] \subseteq {q}
<1> SUFFICES ASSUME NEW p \in live[0] PROVE p = q
  OBVIOUS
<1>1. p \in Requests /\ thread[p] \in {"generate", "reading"}
  BY WorkersAreOthers DEF RanksInv, NoneLeftBehind, ServerInv, ServerTypeOK
<1> QED
  BY <1>1, NoneAddsMeanwhile

(* The first exception is brought along by the request that fails of it.   *)
LEMMA RaisedByItself ==
  ASSUME ServerInv, RanksInv, ~LeftBehind, "memory" \notin faults, EngineRaises(0)
  PROVE  LeftBehind'
<1>1. StepRaises(0)
  BY DEF EngineRaises
<1>2. PICK q \in Requests : thread[q] = "generate" /\ LeaveLock(q, "failed")
  BY <1>1 DEF StepRaises
<1>3. live[0] \subseteq {q}
  BY <1>1, <1>2, OwnBatch DEF StepRaises
<1>4. q \in Faulty
  BY <1>3 DEF EngineRaises
<1>5. thread'[q] = "failed"
  BY <1>2 DEF LeaveLock, ServerInv, ServerTypeOK
<1> QED
  BY <1>4, <1>5 DEF LeftBehind

LEMMA NoneLeftBehindPreserved ==
  ASSUME ServerInv, RanksInv, [ServerNext]_vars
  PROVE  NoneLeftBehind'
<1> USE DEF threadVars, workerVars, engineVars, exitVars
<1> SUFFICES ASSUME ~down', ~LeftBehind', "memory" \notin faults'
             PROVE  \A q \in live'[0] : thread'[q] \in {"generate", "reading"}
  BY DEF NoneLeftBehind
<1>0. /\ ServerTypeOK /\ Owed /\ 0 \in Ranks /\ 0 \notin workers
      /\ ~LeftBehind /\ "memory" \notin faults
      /\ \A q \in live[0] : q \in Requests
      /\ ~down => \A q \in live[0] : thread[q] \in {"generate", "reading"}
  BY FaultsStay, LeftBehindStays, WorkersAreOthers DEF ServerInv, RanksInv, NoneLeftBehind, ServerTypeOK
<1> DEFINE Stays == \A q \in live'[0] : thread'[q] \in {"generate", "reading"}
<1>1. ASSUME NEW q \in Requests, Arrive(q) \/ Acquire(q) PROVE Stays
  BY <1>0, <1>1 DEF Arrive, Acquire, Owed, ServerTypeOK
<1>2. ASSUME NEW q \in Requests, Add(q) PROVE Stays
  BY <1>0, <1>2 DEF Add, LeaveLock, Owed, ServerTypeOK
<1>3. ASSUME NEW q \in Requests, Pass(q) PROVE Stays
  <2>1. live'[0] = live[0] \ Over(0)
    BY <1>3, PassTogether
  <2>2. live[0] \subseteq {q}
    BY <1>0, <1>3, OwnBatch DEF Pass
  <2>3. thread'[q] \in {"generate", "reading"}
    <3>1. Over(0) \subseteq {q}
      BY <2>2 DEF Over
    <3> QED
      BY <1>0, <1>3, <3>1 DEF Pass, AfterPass, ServerTypeOK
  <2> QED
    BY <2>1, <2>2, <2>3
<1>4. ASSUME NEW q \in Requests, Answer(q) PROVE Stays
  BY <1>0, <1>4 DEF Answer
<1>5. ASSUME NEW q \in Requests, ClientReads(q) PROVE Stays
  BY <1>0, <1>5 DEF ClientReads, ServerTypeOK
<1>6. ASSUME NEW q \in Requests, ClientGone(q) PROVE FALSE
  BY <1>6 DEF ClientGone, LeftBehind
<1>7. ASSUME NEW r \in Ranks, Raises(r) PROVE Stays
  <2>1. ~OutOfMemory(r)
    BY DEF OutOfMemory
  <2>2. EngineRaises(r) /\ StepRaises(r)
    BY <1>7, <2>1 DEF Raises, EngineRaises
  <2>3. CASE r = 0
    BY <1>0, <2>2, <2>3, RaisedByItself
  <2>4. CASE r # 0
    BY <1>0, <2>2, <2>4 DEF EngineRaises, StepRaises
  <2> QED
    BY <2>3, <2>4
<1>8. ASSUME NEW r \in Ranks, WorkerStep(r) PROVE Stays
  BY <1>0, <1>8 DEF WorkerStep, WorkerAdds, WorkerReturns, ServerTypeOK
<1>9. ASSUME NEW q \in Requests, Broadcast(q) PROVE Stays
  BY <1>0, <1>9 DEF Broadcast
<1>10. Interrupt \/ ExitBroadcast \/ LauncherEnds \/ TimeOut => Stays
  BY <1>0 DEF Interrupt, ExitBroadcast, LauncherEnds, TimeOut, CutAll
<1>11. Rest \/ UNCHANGED vars => Stays
  BY <1>0 DEF Rest, vars
<1> QED
  BY <1>1, <1>2, <1>3, <1>4, <1>5, <1>6, <1>7, <1>8, <1>9, <1>10, <1>11
  DEF ServerNext, ThreadStep, Raises

LEMMA AnsweredUntakenPreserved ==
  ASSUME ServerInv, RanksInv, [ServerNext]_vars
  PROVE  AnsweredUntaken'
<1> USE DEF threadVars, workerVars, engineVars, exitVars
<1>0. /\ ServerTypeOK /\ AnsweredUntaken
      /\ workers \subseteq Ranks /\ 0 \in Ranks /\ 0 \notin workers
  BY WorkersAreOthers DEF ServerInv, RanksInv
<1> SUFFICES ASSUME NEW a \in Requests, thread'[a] = "answered", NEW r \in workers'
             PROVE  a \notin Taken(r)'
  BY DEF AnsweredUntaken
<1>w. r \in workers /\ r \in Ranks /\ r # 0
  <2>1. workers' = workers
    BY DEF ServerNext, ThreadStep, Arrive, Acquire, Broadcast, Add, Pass, Answer, ClientReads, ClientGone,
           WorkerStep, WorkerAdds, WorkerReturns, OutOfMemory, EngineRaises, StepRaises, Interrupt,
           ExitBroadcast, LauncherEnds, TimeOut, Rest, vars
  <2> QED
    BY <1>0, <2>1
<1>f. ASSUME thread[a] = "answered", Taken(r)' \subseteq Taken(r) PROVE a \notin Taken(r)'
  BY <1>0, <1>w, <1>f DEF AnsweredUntaken
<1>s. UNCHANGED <<worker, got, work, live>> => Taken(r)' = Taken(r)
  BY <1>w DEF Taken
<1>1. ASSUME NEW q \in Requests, Arrive(q) \/ Acquire(q) \/ ClientReads(q) \/ ClientGone(q)
      PROVE  a \notin Taken(r)'
  <2>1. thread[a] = "answered"
    BY <1>0, <1>1 DEF Arrive, Acquire, ClientReads, ClientGone, LeaveLock, ServerTypeOK
  <2>2. UNCHANGED <<worker, got, work, live>>
    BY <1>1 DEF Arrive, Acquire, ClientReads, ClientGone
  <2> QED
    BY <1>f, <1>s, <2>1, <2>2
<1>2. ASSUME NEW q \in Requests, Broadcast(q) PROVE a \notin Taken(r)'
  <2>1. thread[a] = "answered" /\ a # q
    BY <1>2 DEF Broadcast, BroadcastMeets
  <2>2. Taken(r)' \subseteq live[r] \cup {q}
    BY <1>0, <1>2, <1>w DEF Broadcast, Taken
  <2>3. a \notin live[r]
    BY <1>0, <1>w, <2>1 DEF AnsweredUntaken, Taken
  <2> QED
    BY <2>1, <2>2, <2>3
<1>3. ASSUME NEW q \in Requests, Add(q) PROVE a \notin Taken(r)'
  <2>1. thread[a] = "answered"
    BY <1>0, <1>3 DEF Add, LeaveLock, ServerTypeOK
  <2>2. Taken(r)' = Taken(r)
    BY <1>0, <1>3, <1>w DEF Add, Taken, ServerTypeOK
  <2> QED
    BY <1>f, <2>1, <2>2
<1>4. ASSUME NEW q \in Requests, Pass(q) PROVE a \notin Taken(r)'
  <2>1. thread[a] = "answered"
    BY <1>0, <1>4 DEF Pass, AfterPass, LeaveLock, ServerTypeOK
  <2>2. Taken(r)' \subseteq Taken(r)
    BY <1>0, <1>4, <1>w DEF Pass, Taken
  <2> QED
    BY <1>f, <2>1, <2>2
<1>5. ASSUME NEW q \in Requests, Answer(q) PROVE a \notin Taken(r)'
  <2>1. Taken(r)' = Taken(r)
    BY <1>5, <1>s DEF Answer
  <2>2. CASE a # q
    BY <1>0, <1>5, <1>f, <2>1, <2>2 DEF Answer, LeaveLock, ServerTypeOK
  <2>3. CASE a = q
    <3>1. ~down /\ thread[q] = "generate" /\ live[0] = {}
      BY <1>5 DEF Answer
    <3>2. Taken(0) = {}
      BY <3>1, NoneAddsMeanwhile
    <3> QED
      BY <1>w, <2>1, <3>1, <3>2 DEF RanksInv, SameTaken, TakenAlike, Stalled
  <2> QED
    BY <2>2, <2>3
<1>6. ASSUME NEW p \in Ranks, WorkerAdds(p) PROVE a \notin Taken(r)'
  <2>1. thread[a] = "answered"
    BY <1>6 DEF WorkerAdds
  <2>2. Taken(r)' \subseteq Taken(r)
    <3>1. CASE p = r
      BY <1>0, <1>6, <1>w, <3>1 DEF WorkerAdds, Taken, ServerTypeOK, ServerInv, WorkKnown
    <3>2. CASE p # r
      BY <1>0, <1>6, <1>w, <3>2 DEF WorkerAdds, Taken, ServerTypeOK
    <3> QED
      BY <3>1, <3>2
  <2> QED
    BY <1>f, <2>1, <2>2
<1>7. ASSUME NEW p \in Ranks, WorkerReturns(p) PROVE a \notin Taken(r)'
  <2>1. p \in workers /\ got[p] # 4 /\ thread[a] = "answered"
    BY <1>0, <1>7 DEF WorkerReturns, RanksInv, HearsHolder
  <2>2. Taken(r)' \subseteq Taken(r)
    BY <1>0, <1>7, <1>w, <2>1 DEF WorkerReturns, Taken, ServerTypeOK
  <2> QED
    BY <1>f, <2>1, <2>2
<1>8. ASSUME NEW p \in Ranks, Raises(p) PROVE a \notin Taken(r)'
  <2>1. StepRaises(p) /\ live'[r] = live[r]
    BY <1>0, <1>8, <1>w, WhatRaises
  <2>2. thread[a] = "answered"
    BY <1>0, <2>1 DEF StepRaises, LeaveLock, ServerTypeOK
  <2>3. Taken(r)' \subseteq Taken(r)
    BY <1>0, <1>w, <2>1 DEF StepRaises, Taken, ServerTypeOK
  <2> QED
    BY <1>f, <2>2, <2>3
<1>9. CutAll => thread[a] = "answered"
  BY DEF CutAll
<1>10. Interrupt \/ LauncherEnds \/ TimeOut => a \notin Taken(r)'
  BY <1>9, <1>f, <1>s DEF Interrupt, LauncherEnds, TimeOut
<1>11. CASE ExitBroadcast
  <2>1. Taken(r)' \subseteq Taken(r)
    BY <1>0, <1>11, <1>w DEF ExitBroadcast, Taken
  <2> QED
    BY <1>9, <1>11, <1>f, <2>1 DEF ExitBroadcast
<1>12. Rest \/ UNCHANGED vars => a \notin Taken(r)'
  BY <1>f, <1>s DEF Rest, vars
<1> QED
  BY <1>1, <1>2, <1>3, <1>4, <1>5, <1>6, <1>7, <1>8, <1>10, <1>11, <1>12
  DEF ServerNext, ThreadStep, WorkerStep, Raises

(* What is answered stays complete: no rank takes the request again.       *)
LEMMA AnsweredPreserved ==
  ASSUME ServerInv, RanksInv, [ServerNext]_vars
  PROVE  AnsweredInFull'
<1> USE DEF threadVars, workerVars, engineVars, exitVars
<1>0. /\ ServerTypeOK /\ AnsweredInFull
      /\ workers \subseteq Ranks /\ 0 \in Ranks /\ 0 \notin workers
  BY WorkersAreOthers DEF ServerInv, RanksInv
<1> DEFINE Complete(q) == \A r \in {0} \cup workers' : ran'[r][q] = Passes[q] /\ q \notin live'[r]
<1> SUFFICES ASSUME NEW a \in Requests, thread'[a] = "answered" PROVE Complete(a)
  BY DEF AnsweredInFull
<1>f. ASSUME thread[a] = "answered", UNCHANGED <<workers, live, ran>> PROVE Complete(a)
  BY <1>0, <1>f DEF AnsweredInFull
<1>1. ASSUME NEW q \in Requests, Arrive(q) \/ Acquire(q) PROVE Complete(a)
  <2>1. thread[a] = "answered"
    BY <1>0, <1>1 DEF Arrive, Acquire, ServerTypeOK
  <2> QED
    BY <1>1, <1>f, <2>1 DEF Arrive, Acquire
<1>2. ASSUME NEW q \in Requests, Broadcast(q) PROVE Complete(a)
  BY <1>2, <1>f DEF Broadcast
<1>3. ASSUME NEW q \in Requests, Add(q) PROVE Complete(a)
  <2>1. thread[a] = "answered" /\ a # q
    BY <1>0, <1>3 DEF Add, LeaveLock, ServerTypeOK
  <2>2. \A r \in Ranks : live'[r] \subseteq live[r] \cup {q}
    BY <1>0, <1>3 DEF Add, ServerTypeOK
  <2> QED
    BY <1>0, <1>3, <2>1, <2>2 DEF Add, AnsweredInFull
<1>4. ASSUME NEW q \in Requests, Pass(q) PROVE Complete(a)
  <2>1. thread[a] = "answered"
    BY <1>0, <1>4 DEF Pass, AfterPass, LeaveLock, ServerTypeOK
  <2>2. ran[0][a] = Passes[a] /\ a \notin live[0]
    BY <1>0, <2>1 DEF AnsweredInFull
  <2>3. Counts(0)[a] = Passes[a] /\ a \notin live[0] \ Over(0)
    BY <2>2 DEF Counts
  <2> QED
    BY <1>4, <2>3, PassTogether DEF Pass
<1>5. ASSUME NEW q \in Requests, Answer(q) PROVE Complete(a)
  <2>1. UNCHANGED <<workers, live, ran>> /\ ~down /\ thread[q] = "generate" /\ live[0] = {}
    BY <1>5 DEF Answer
  <2>2. CASE a # q
    BY <1>0, <1>5, <1>f, <2>1, <2>2 DEF Answer, LeaveLock, ServerTypeOK
  <2>3. CASE a = q
    <3>1. Taken(0) = {}
      BY <2>1, NoneAddsMeanwhile
    <3>2. \A r \in workers : live[r] \subseteq Taken(r)
      BY <1>0 DEF Taken
    <3>3. \A r \in {0} \cup workers : live[r] = {}
      BY <2>1, <3>1, <3>2 DEF RanksInv, SameTaken, TakenAlike, Stalled
    <3>4. ran[0][q] = Passes[q]
      BY <2>1 DEF RanksInv, Owed
    <3>5. \A r \in {0} \cup workers : ran[r][q] = Passes[q]
      BY <3>4 DEF RanksInv, SameRan
    <3> QED
      BY <2>1, <2>3, <3>3, <3>5
  <2> QED
    BY <2>2, <2>3
<1>6. ASSUME NEW q \in Requests, ClientReads(q) \/ ClientGone(q) PROVE Complete(a)
  <2>1. thread[a] = "answered"
    BY <1>0, <1>6 DEF ClientReads, ClientGone, LeaveLock, ServerTypeOK
  <2> QED
    BY <1>6, <1>f, <2>1 DEF ClientReads, ClientGone
<1>7. ASSUME NEW r \in Ranks, WorkerAdds(r) PROVE Complete(a)
  <2>1. thread[a] = "answered" /\ UNCHANGED <<workers, ran>>
    BY <1>7 DEF WorkerAdds
  <2>3. r \in workers /\ a \notin Taken(r)
    BY <1>7, <2>1 DEF WorkerAdds, RanksInv, AnsweredUntaken
  <2>4. work[r] \notin Rejected => work[r] # a
    BY <1>0, <1>7, <2>3 DEF WorkerAdds, Taken
  <2>5. \A p \in {0} \cup workers : a \notin live[p] => a \notin live'[p]
    BY <1>0, <1>7, <2>4 DEF WorkerAdds, ServerTypeOK
  <2> QED
    BY <1>0, <2>1, <2>5 DEF AnsweredInFull
<1>8. ASSUME NEW r \in Ranks, WorkerReturns(r) PROVE Complete(a)
  BY <1>8, <1>f DEF WorkerReturns
<1>9. ASSUME NEW r \in Ranks, Raises(r) PROVE Complete(a)
  <2>1. StepRaises(r) /\ \A p \in Ranks : live'[p] \subseteq live[p]
    BY <1>0, <1>9, WhatRaises
  <2>2. thread[a] = "answered" /\ UNCHANGED <<workers, ran>>
    BY <1>0, <2>1 DEF StepRaises, LeaveLock, ServerTypeOK
  <2> QED
    BY <1>0, <2>1, <2>2 DEF AnsweredInFull
<1>10. CutAll => thread[a] = "answered"
  BY DEF CutAll
<1>11. Interrupt \/ ExitBroadcast \/ LauncherEnds \/ TimeOut => Complete(a)
  BY <1>10, <1>f DEF Interrupt, ExitBroadcast, LauncherEnds, TimeOut
<1>12. Rest \/ UNCHANGED vars => Complete(a)
  BY <1>f DEF Rest, vars
<1> QED
  BY <1>1, <1>2, <1>3, <1>4, <1>5, <1>6, <1>7, <1>8, <1>9, <1>11, <1>12
  DEF ServerNext, ThreadStep, WorkerStep, Raises

LEMMA FailedPreserved ==
  ASSUME ServerInv, RanksInv, [ServerNext]_vars
  PROVE  FailedForReason'
<1> USE DEF threadVars, workerVars, engineVars, exitVars
<1>0. ServerTypeOK /\ FailedForReason /\ faults \subseteq faults' /\ (LeftBehind => LeftBehind')
  BY FaultsStay, LeftBehindStays DEF ServerInv, RanksInv
<1> DEFINE Reason(q) == \/ q \in Rejected
                        \/ "memory" \in faults'
                        \/ "error" \in faults' /\ LeftBehind'
                        \/ q \in Streams /\ "gone" \in faults'
<1> SUFFICES ASSUME NEW f \in Requests, thread'[f] = "failed" PROVE Reason(f)
  BY DEF FailedForReason
<1>f. thread[f] = "failed" => Reason(f)
  BY <1>0 DEF FailedForReason
<1>e. (\E q \in Faulty : thread[q] = "failed") => "memory" \in faults \/ "error" \in faults \/ "gone" \in faults
  BY <1>0, ServerAssumption DEF FailedForReason
<1>1. ASSUME NEW q \in Requests, Add(q) PROVE Reason(f)
  BY <1>0, <1>1, <1>f DEF Add, LeaveLock, ServerTypeOK
<1>2. ASSUME NEW q \in Requests, Pass(q), thread[f] # "failed" PROVE Reason(f)
  <2>1. f = q /\ q \in Streams /\ ~(Over(0) \subseteq {q})
    BY <1>0, <1>2 DEF Pass, AfterPass, LeaveLock, ServerTypeOK
  <2>2. ~(live[0] \subseteq {q})
    BY <2>1 DEF Over
  <2>3. LeftBehind \/ "memory" \in faults
    BY <1>2, <2>2, OwnBatch DEF Pass
  <2> QED
    BY <1>0, <1>e, <2>1, <2>3 DEF LeftBehind
<1>3. ASSUME NEW q \in Requests,
             Arrive(q) \/ Acquire(q) \/ Broadcast(q) \/ Answer(q) \/ ClientReads(q) \/ ClientGone(q)
      PROVE  thread[f] = "failed"
  BY <1>0, <1>3 DEF Arrive, Acquire, Broadcast, Answer, ClientReads, ClientGone, LeaveLock, ServerTypeOK
<1>4. ASSUME NEW r \in Ranks, Raises(r) PROVE Reason(f)
  <2>1. CASE OutOfMemory(r)
    BY <2>1 DEF OutOfMemory
  <2>2. CASE EngineRaises(0)
    BY <1>0, <2>2, RaisedByItself DEF EngineRaises
  <2>3. CASE EngineRaises(r) /\ r # 0
    BY <1>f, <2>3 DEF EngineRaises, StepRaises
  <2> QED
    BY <1>4, <2>1, <2>2, <2>3 DEF Raises
<1>5. ASSUME NEW r \in Ranks, WorkerStep(r) PROVE thread[f] = "failed"
  BY <1>5 DEF WorkerStep, WorkerAdds, WorkerReturns
<1>6. Interrupt \/ ExitBroadcast \/ LauncherEnds \/ TimeOut => thread[f] = "failed"
  BY DEF Interrupt, ExitBroadcast, LauncherEnds, TimeOut, CutAll
<1>7. Rest \/ UNCHANGED vars => thread[f] = "failed"
  BY DEF Rest, vars
<1> QED
  BY <1>1, <1>2, <1>3, <1>4, <1>5, <1>6, <1>7, <1>f DEF ServerNext, ThreadStep, Raises

THEOREM RanksInvariant == ServerSpec => [](ServerInv /\ RanksInv)
<1>1. ServerInit => ServerInv /\ RanksInv
  BY ServerInitial, RanksInitial
<1>2. ServerInv /\ RanksInv /\ [ServerNext]_vars => ServerInv' /\ RanksInv'
  <2> SUFFICES ASSUME ServerInv, RanksInv, [ServerNext]_vars PROVE ServerInv' /\ RanksInv'
    OBVIOUS
  <2>1. ServerInv'
    BY TypePreserved, LockPreserved, WorkPreserved DEF ServerInv
  <2>2. SameTaken' /\ LoopEmpty' /\ AnsweredUntaken' /\ SameRan' /\ HearsHolder' /\ Owed'
    BY SameTakenPreserved, LoopEmptyPreserved, AnsweredUntakenPreserved, SameRanPreserved,
       HearsHolderPreserved, OwedPreserved
  <2>3. NoneInsideAtEnd' /\ NoneLeftBehind' /\ AnsweredInFull' /\ FailedForReason'
    BY NoneInsidePreserved, NoneLeftBehindPreserved, AnsweredPreserved, FailedPreserved
  <2> QED
    BY <2>1, <2>2, <2>3 DEF RanksInv
<1> QED
  BY <1>1, <1>2, PTL DEF ServerSpec

(* Ranks that meet in a pass run the same batch at the same token, and a   *)
(* rank that has a part of a work hears the rest from the thread that      *)
(* began it, for any number of ranks (broadcast_work, worker_loop,         *)
(* generate).                                                              *)
THEOREM ServerRanksInStep == ServerSpec => []RanksInStep
<1>1. ServerInv /\ RanksInv => RanksInStep
  <2> SUFFICES ASSUME ServerInv, RanksInv PROVE RanksInStep
    OBVIOUS
  <2>1. Meet => ~down
    BY DEF Meet, InPass, Generating, RanksInv, NoneInsideAtEnd, Inside
  <2>2. Meet => \A r \in workers : live[r] = live[0] /\ ran[r] = ran[0]
    BY <2>1, MeetInStep
  <2> QED
    BY <2>2 DEF RanksInStep, RanksInv, HearsHolder
<1> QED
  BY <1>1, RanksInvariant, PTL

(* A reply is complete on every rank, whatever faults happened before it   *)
(* (run_inference, run_inference_stream, generate).                        *)
THEOREM ServerAnswersInFull == ServerSpec => []AnsweredInFull
  BY RanksInvariant, PTL DEF RanksInv

(* A request that is admitted and raises nothing by itself fails for lack  *)
(* of memory or of what an earlier call left behind: as a stream that      *)
(* finds it finished (generate_stream), or by an exception of step() for   *)
(* the two of them (generate).                                             *)
THEOREM ServerFailsForReason == ServerSpec => []FailedForReason
  BY RanksInvariant, PTL DEF RanksInv

=============================================================================
