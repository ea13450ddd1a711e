------------------------------- MODULE Server -------------------------------
(***************************************************************************)
(* The HTTP server (api_server.py) and its tensor-parallel ranks.  Rank 0  *)
(* runs one thread per request and the main thread; every other rank runs  *)
(* worker_loop.  All of them run the same generate() and meet in           *)
(* collectives, which complete when every rank has come to the same one.   *)
(*                                                                         *)
(* Of the engine the model keeps what ties ranks and requests together:    *)
(* the sequences that a rank's scheduler still has to finish, and the      *)
(* passes each has had.  A pass is one collective: the ranks meet in every *)
(* layer, so none ends it before all have begun it.                        *)
(***************************************************************************)
EXTENDS Naturals, FiniteSets

CONSTANTS
    Requests,    \* POSTs; each has a thread of its own
    Nobody,      \* the holder of a lock that is free
    Malformed,   \* requests whose body or parameters do not parse
    Rejected,    \* requests that add_request() raises for (length, regex)
    Streams,     \* requests with "stream": true
    Faulty,      \* requests that can make a step raise without others' help
    Passes,      \* Passes[q]: passes until q is finished, on any rank
    TpSize,      \* --tp-size when tensor parallelism is on
    Faults       \* faults of the environment: subset of FaultKinds

FaultKinds == {"gone", "memory", "error", "interrupt", "slow"}

ASSUME ServerAssumption ==
    /\ Nobody \notin Requests
    /\ Malformed \cup Rejected \cup Streams \cup Faulty \subseteq Requests
    /\ Faulty \cap Rejected = {}
    /\ Passes \in [Requests -> Nat \ {0}]
    /\ TpSize \in Nat \ {0, 1}
    /\ Faults \subseteq FaultKinds

Ranks == 0 .. (TpSize - 1)

VARIABLES
    workers,    \* the ranks of worker_loop, none without tensor parallelism
    thread,     \* thread[q]: where the handler of q is
    infer_lock, \* the request that holds the lock, or Nobody
    sent,       \* collectives of broadcast_work() done by the lock's holder
    worker,     \* worker[r]: "loop", "generate", "exited" or "died"
    got,        \* got[r]: collectives of the current work received
    work,       \* work[r]: the request they describe
    live,       \* live[r]: sequences the scheduler of rank r has not finished
    ran,        \* ran[r][q]: passes of q on rank r
    exiting,    \* the exit broadcast: "no", "posted" or "done"
    down,       \* all processes have ended
    faults      \* history: the faults that have happened

threadVars == <<thread, infer_lock, sent>>
workerVars == <<worker, got, work>>
engineVars == <<live, ran>>
exitVars == <<exiting, down>>
vars == <<workers, threadVars, workerVars, engineVars, exitVars, faults>>

tp_active == workers # {}

ServerInit ==
    /\ workers \in {{}, Ranks \ {0}}
    /\ thread = [q \in Requests |-> "absent"]
    /\ infer_lock = Nobody /\ sent = 0
    /\ worker = [r \in Ranks |-> "loop"]
    /\ got = [r \in Ranks |-> 0]
    /\ work = [r \in Ranks |-> Nobody]
    /\ live = [r \in Ranks |-> {}]
    /\ ran = [r \in Ranks |-> [q \in Requests |-> 0]]
    /\ exiting = "no" /\ down = FALSE
    /\ faults = {}

(* Mutant: a request that was not answered is tried again. *)
LeaveToRetry(q, outcome) ==
    /\ thread' = [thread EXCEPT ![q] = IF outcome = "failed" THEN "waiting" ELSE outcome]
    /\ infer_lock' = Nobody

(* The thread of q leaves the lock's block with the given outcome. *)
LeaveLock(q, outcome) ==
    /\ thread' = [thread EXCEPT ![q] = outcome]
    /\ infer_lock' = Nobody

Outcomes == {"refused", "answered", "failed", "left", "cut"}
Ended(q) == thread[q] \in Outcomes
Inside(q) == thread[q] \in {"work", "generate", "reading"}

-----------------------------------------------------------------------------
(* Handler threads. *)

(* do_POST: a request that parses goes on to the lock. *)
Arrive(q) ==
    /\ ~down /\ exiting = "no"
    /\ thread[q] = "absent"
    /\ thread' = [thread EXCEPT ![q] = IF q \in Malformed THEN "refused" ELSE "waiting"]
    /\ UNCHANGED <<workers, infer_lock, sent, workerVars, engineVars, exitVars, faults>>

(* Mutant: the lock is not asked for. *)
AcquireAnyway(q) ==
    /\ ~down /\ thread[q] = "waiting"
    /\ infer_lock' = q
    /\ thread' = [thread EXCEPT ![q] = "work"]
    /\ sent' = IF tp_active THEN 0 ELSE 4
    /\ UNCHANGED <<workers, workerVars, engineVars, exitVars, faults>>

Acquire(q) ==
    /\ ~down /\ thread[q] = "waiting" /\ infer_lock = Nobody
    /\ infer_lock' = q
    /\ thread' = [thread EXCEPT ![q] = "work"]
    /\ sent' = IF tp_active THEN 0 ELSE 4
    /\ UNCHANGED <<workers, workerVars, engineVars, exitVars, faults>>

(* add_request() on rank 0, once the work is broadcast. *)
Add(q) ==
    /\ ~down /\ thread[q] = "work" /\ sent = 4
    /\ IF q \in Rejected
       THEN LeaveLock(q, "failed") /\ UNCHANGED live
       ELSE /\ thread' = [thread EXCEPT ![q] = "generate"]
            /\ live' = [live EXCEPT ![0] = @ \cup {q}]
            /\ UNCHANGED infer_lock
    /\ UNCHANGED <<workers, sent, workerVars, ran, exitVars, faults>>

(* Mutant: generate() returns after any step. *)
AnswerEarly(q) ==
    /\ ~down /\ thread[q] = "generate"
    /\ LeaveLock(q, "answered")
    /\ UNCHANGED <<workers, sent, workerVars, engineVars, exitVars, faults>>

(* The loop of generate() ends when the scheduler has nothing left. *)
Answer(q) ==
    /\ ~down /\ thread[q] = "generate" /\ live[0] = {}
    /\ LeaveLock(q, "answered")
    /\ UNCHANGED <<workers, sent, workerVars, engineVars, exitVars, faults>>

(* A stream waits for its client in every yield, the lock held.  A client  *)
(* that is gone makes send() raise: the generators are closed, the lock is *)
(* released, and the scheduler keeps the sequence.                         *)
ClientReads(q) ==
    /\ ~down /\ thread[q] = "reading"
    /\ thread' = [thread EXCEPT ![q] = "generate"]
    /\ UNCHANGED <<workers, infer_lock, sent, workerVars, engineVars, exitVars, faults>>

(* Mutant: the generator is not closed and keeps the lock. *)
ClientGoneUnseen(q) ==
    /\ ~down /\ thread[q] = "reading" /\ "gone" \in Faults
    /\ thread' = [thread EXCEPT ![q] = "left"]
    /\ faults' = faults \cup {"gone"}
    /\ UNCHANGED <<workers, infer_lock, sent, workerVars, engineVars, exitVars>>

ClientGone(q) ==
    /\ ~down /\ thread[q] = "reading" /\ "gone" \in Faults
    /\ LeaveLock(q, "left")
    /\ faults' = faults \cup {"gone"}
    /\ UNCHANGED <<workers, sent, workerVars, engineVars, exitVars>>

-----------------------------------------------------------------------------
(* Collectives.  exiting = "posted" keeps those of rank 0 behind it.       *)

(* Mutant: a broadcast more than there are. *)
BroadcastMeetsAgain(q) ==
    /\ thread[q] = "work" /\ sent <= 4
    /\ \A r \in workers : worker[r] = "loop" /\ got[r] = sent

(* One of the four broadcasts of broadcast_work(): a length and a body for *)
(* the prompt, then for the parameters.                                    *)
BroadcastMeets(q) ==
    /\ thread[q] = "work" /\ sent < 4
    /\ \A r \in workers : worker[r] = "loop" /\ got[r] = sent

Broadcast(q) ==
    /\ ~down /\ exiting = "no" /\ BroadcastMeets(q)
    /\ sent' = sent + 1
    /\ got' = [r \in Ranks |-> IF r \in workers THEN got[r] + 1 ELSE got[r]]
    /\ work' = [r \in Ranks |-> IF r \in workers THEN q ELSE work[r]]
    /\ UNCHANGED <<workers, thread, infer_lock, worker, engineVars, exitVars, faults>>

Generating(r) ==
    IF r = 0 THEN \E q \in Requests : thread[q] = "generate" ELSE worker[r] = "generate"

InPass(r) == Generating(r) /\ live[r] # {}

(* The ranks meet in a pass when their batches have the same shape.        *)
Meet ==
    /\ InPass(0)
    /\ \A r \in workers : InPass(r) /\ Cardinality(live[r]) = Cardinality(live[0])

Over(r) == {q \in live[r] : ran[r][q] + 1 = Passes[q]}

(* Mutant: a pass is recorded on rank 0 only. *)
CountsOnMaster(r) ==
    [q \in Requests |-> IF r = 0 /\ q \in live[r] THEN ran[r][q] + 1 ELSE ran[r][q]]

Counts(r) == [q \in Requests |-> IF q \in live[r] THEN ran[r][q] + 1 ELSE ran[r][q]]

(* Mutant: a plain call looks a finished sequence up as well. *)
AfterPassOfAny(q) ==
    IF ~(Over(0) \subseteq {q}) THEN {"failed"}
    ELSE IF q \in Streams THEN {"generate", "reading"}
    ELSE {"generate"}

(* After a pass a stream may have text to yield, and may find a finished   *)
(* sequence that is not its own (left by a call that ended early): then    *)
(* seqs.index() raises.  (What raises within a pass is StepRaises below.)  *)
AfterPass(q) ==
    IF q \notin Streams THEN {"generate"}
    ELSE IF Over(0) \subseteq {q} THEN {"generate", "reading"}
    ELSE {"failed"}

Pass(q) ==
    /\ ~down /\ exiting = "no" /\ thread[q] = "generate" /\ Meet
    /\ LET taking == {0} \cup workers
       IN  /\ live' = [r \in Ranks |-> IF r \in taking THEN live[r] \ Over(r) ELSE live[r]]
           /\ ran' = [r \in Ranks |-> IF r \in taking THEN Counts(r) ELSE ran[r]]
    /\ \E next \in AfterPass(q) :
         IF next = "failed" THEN LeaveLock(q, next)
         ELSE thread' = [thread EXCEPT ![q] = next] /\ UNCHANGED infer_lock
    /\ UNCHANGED <<workers, sent, workerVars, exitVars, faults>>

-----------------------------------------------------------------------------
(* worker_loop(). *)

(* generate() begins: an exception of add_request() ends the worker.       *)
WorkerAdds(r) ==
    /\ ~down /\ r \in workers /\ worker[r] = "loop" /\ got[r] = 4
    /\ IF work[r] \in Rejected
       THEN worker' = [worker EXCEPT ![r] = "died"] /\ UNCHANGED live
       ELSE /\ worker' = [worker EXCEPT ![r] = "generate"]
            /\ live' = [live EXCEPT ![r] = @ \cup {work[r]}]
    /\ got' = [got EXCEPT ![r] = 0]
    /\ UNCHANGED <<workers, threadVars, work, ran, exitVars, faults>>

(* Mutant: the worker serves one request and leaves. *)
WorkerLeaves(r) ==
    /\ ~down /\ r \in workers /\ worker[r] = "generate" /\ live[r] = {}
    /\ worker' = [worker EXCEPT ![r] = "exited"]
    /\ UNCHANGED <<workers, threadVars, got, work, engineVars, exitVars, faults>>

WorkerReturns(r) ==
    /\ ~down /\ r \in workers /\ worker[r] = "generate" /\ live[r] = {}
    /\ worker' = [worker EXCEPT ![r] = "loop"]
    /\ UNCHANGED <<workers, threadVars, got, work, engineVars, exitVars, faults>>

-----------------------------------------------------------------------------
(* An exception of step() leaves generate() on one rank: rank 0 reports it, *)
(* a worker dies of it.  The pass is not counted.                          *)
StepRaises(r) ==
    /\ ~down /\ r \in {0} \cup workers /\ InPass(r)
    /\ IF r = 0
       THEN /\ \E q \in Requests : thread[q] = "generate" /\ LeaveLock(q, "failed")
            /\ UNCHANGED worker
       ELSE /\ worker' = [worker EXCEPT ![r] = "died"]
            /\ UNCHANGED <<thread, infer_lock>>
    /\ UNCHANGED <<workers, sent, got, work, ran, exitVars>>

(* Out of memory in the last retry of a pass. *)
OutOfMemory(r) ==
    /\ "memory" \in Faults /\ StepRaises(r)
    /\ faults' = faults \cup {"memory"}
    /\ UNCHANGED live

(* An error of the engine: a sequence that schedule() preempts and meets   *)
(* again, a table that is too short, a guide on a dead state, a batch of   *)
(* masked logits.  A request may bring it along (Faulty), or two may be    *)
(* needed, say to fill the pool.  schedule() loses the sequences that it   *)
(* had taken out of running.                                               *)
EngineRaises(r) ==
    /\ "error" \in Faults /\ StepRaises(r)
    /\ \E q \in live[r] : q \in Faulty \/ live[r] # {q}
    /\ IF r = 0
       THEN \E kept \in (SUBSET live[0]) \ {{}} : live' = [live EXCEPT ![0] = kept]
       ELSE UNCHANGED live
    /\ faults' = faults \cup {"error"}

-----------------------------------------------------------------------------
(* The end: ctrl-C in serve_forever().  The main thread broadcasts -1 and  *)
(* returns; it does not ask for the lock.  Handlers are daemon threads and *)
(* end with it.                                                            *)

CutAll ==
    /\ down' = TRUE
    /\ thread' = [q \in Requests |->
                    IF Ended(q) \/ thread[q] = "absent" THEN thread[q] ELSE "cut"]

Interrupt ==
    /\ ~down /\ "interrupt" \in Faults /\ exiting = "no"
    /\ exiting' = IF tp_active THEN "posted" ELSE "done"
    /\ IF tp_active THEN UNCHANGED <<thread, down>> ELSE CutAll
    /\ faults' = faults \cup {"interrupt"}
    /\ UNCHANGED <<workers, infer_lock, sent, workerVars, engineVars>>

(* A worker that waits for a length takes the -1 for it: the first length  *)
(* ends the loop, the second ends in an exception (no parameters).         *)
ExitMeets == \A r \in workers : worker[r] = "loop" /\ got[r] \in {0, 2}

ExitBroadcast ==
    /\ ~down /\ exiting = "posted" /\ ExitMeets
    /\ worker' = [r \in Ranks |->
                    IF r \notin workers THEN worker[r]
                    ELSE IF got[r] = 0 THEN "exited" ELSE "died"]
    /\ exiting' = "done"
    /\ CutAll
    /\ UNCHANGED <<workers, infer_lock, sent, got, work, engineVars, faults>>

(* External: torchrun ends all ranks when one has died. *)
LauncherEnds ==
    /\ ~down /\ \E r \in workers : worker[r] = "died"
    /\ CutAll
    /\ UNCHANGED <<workers, infer_lock, sent, workerVars, engineVars, exiting, faults>>

(* A rank waits in a collective. *)
WaitsIn(r) ==
    IF r = 0
    THEN \/ exiting = "posted"
         \/ InPass(0)
         \/ \E q \in Requests : thread[q] = "work" /\ sent < 4
    ELSE InPass(r) \/ (worker[r] = "loop" /\ got[r] < 4)

(* All ranks wait, and not in the same collective: none ever completes.    *)
Wedged ==
    /\ tp_active /\ \A r \in {0} \cup workers : WaitsIn(r)
    /\ IF exiting = "posted" THEN ~ExitMeets
       ELSE ~Meet /\ ~\E q \in Requests : BroadcastMeets(q)

(* External: the process group gives up a collective that has waited for   *)
(* `timeout` seconds and ends the process: one that is wedged, or one that *)
(* waits for a slow client, or for the next request of an idle server.     *)
TimeOut ==
    /\ ~down /\ tp_active
    /\ \/ Wedged /\ UNCHANGED faults
       \/ /\ "slow" \in Faults /\ ~Wedged
          /\ \E r \in {0} \cup workers : WaitsIn(r)
          /\ faults' = faults \cup {"slow"}
    /\ CutAll
    /\ UNCHANGED <<workers, infer_lock, sent, workerVars, engineVars, exiting>>

-----------------------------------------------------------------------------
(* No request is left, or the processes have ended. *)
Rest ==
    /\ down \/ \A q \in Requests : Ended(q)
    /\ UNCHANGED vars

ThreadStep(q) == Acquire(q) \/ Broadcast(q) \/ Add(q) \/ Pass(q) \/ Answer(q)
WorkerStep(r) == WorkerAdds(r) \/ WorkerReturns(r)

ServerNext ==
    \/ \E q \in Requests : Arrive(q) \/ ThreadStep(q) \/ ClientReads(q) \/ ClientGone(q)
    \/ \E r \in Ranks : WorkerStep(r) \/ OutOfMemory(r) \/ EngineRaises(r)
    \/ Interrupt \/ ExitBroadcast \/ LauncherEnds \/ TimeOut \/ Rest

ServerSpec == ServerInit /\ [][ServerNext]_vars

=============================================================================
