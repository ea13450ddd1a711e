-------------------------- MODULE ServerProperties --------------------------
(***************************************************************************)
(* What the server and its ranks promise, stated over Server.              *)
(***************************************************************************)
EXTENDS Server

(* Type invariant of the server's variables.                               *)
ServerTypeOK ==
    /\ workers \in {{}, Ranks \ {0}}
    /\ thread \in [Requests -> {"absent", "waiting", "work", "generate", "reading"} \cup Outcomes]
    /\ infer_lock \in Requests \cup {Nobody}
    /\ sent \in 0 .. 4
    /\ worker \in [Ranks -> {"loop", "generate", "exited", "died"}]
    /\ got \in [Ranks -> 0 .. 4]
    /\ work \in [Ranks -> Requests \cup {Nobody}]
    /\ live \in [Ranks -> SUBSET Requests]
    /\ ran \in [Ranks -> [Requests -> Nat]]
    /\ exiting \in {"no", "posted", "done"}
    /\ down \in BOOLEAN
    /\ faults \subseteq Faults

(* "Serialise inference (required under TP)": the threads between the      *)
(* broadcast and the reply are exactly the one that holds infer_lock - two *)
(* would interleave their broadcasts - and a lock is never held by a       *)
(* thread that has ended, whatever way it ended.                           *)
OneInference ==
    ~down => \A q \in Requests : Inside(q) <=> infer_lock = q

(* A reply is complete on every rank: when a request is answered, each     *)
(* rank has run all its passes, and none has it left in its scheduler to   *)
(* fall out of step with later.                                            *)
AnsweredInFull ==
    \A q \in Requests : thread[q] = "answered" =>
        \A r \in {0} \cup workers : ran[r][q] = Passes[q] /\ q \notin live[r]

(* Ranks that meet in a pass run the same batch, each sequence at the same *)
(* token - equal shapes alone would let a pass mix two requests - and a    *)
(* rank that has received a part of a work hears the rest from the thread  *)
(* that began it.                                                          *)
RanksInStep ==
    /\ Meet => \A r \in workers :
                 /\ live[r] = live[0]
                 /\ \A q \in live[0] : ran[r][q] = ran[0][q]
    /\ ~down => \A r \in workers : got[r] \in 1 .. 3 =>
                    /\ work[r] = infer_lock
                    /\ thread[infer_lock] = "work" /\ sent = got[r]

(* A call that ends early leaves its sequence in the scheduler.            *)
LeftBehind ==
    \/ "gone" \in faults
    \/ \E q \in Faulty : thread[q] = "failed"

(* A request that is admitted and raises nothing by itself fails for lack  *)
(* of memory or of what an earlier call left behind in the scheduler: a    *)
(* stream already when that finishes (generate_stream looks every finished *)
(* sequence up in its own), a plain call only when the engine raises for   *)
(* the two of them.                                                        *)
FailedForReason ==
    \A q \in Requests : thread[q] = "failed" =>
        \/ q \in Rejected
        \/ "memory" \in faults
        \/ "error" \in faults /\ LeftBehind
        \/ q \in Streams /\ "gone" \in faults

(* A pass waits for all ranks, the lock for its holder's client: still     *)
(* every request that is taken on ends, by a reply, by its client leaving  *)
(* or by the end of the processes - which the launcher and the timeout of  *)
(* the process group bring about when the ranks are wedged.                *)
EveryRequestEnds == \A q \in Requests : thread[q] = "waiting" ~> Ended(q)

(* While no fault has happened every request gets its answer, and an       *)
(* inadmissible one its error; with several ranks an inadmissible request  *)
(* is such a fault, for it ends the workers.                               *)
RejectedOnWorkers == tp_active /\ \E q \in Rejected : thread[q] = "failed"

AnsweredUnlessDisturbed ==
    \A q \in Requests : thread[q] = "waiting" ~>
        \/ thread[q] = IF q \in Rejected THEN "failed" ELSE "answered"
        \/ faults # {}
        \/ RejectedOnWorkers \/ \E r \in workers : worker[r] = "died"

(* The server implements the service it offers, on one rank and on many,   *)
(* through every fault: one request is served at a time and each ends      *)
(* once.                                                                   *)
Phase(q) ==
    IF thread[q] = "absent" THEN "absent"
    ELSE IF thread[q] = "waiting" THEN "queued"
    ELSE IF Inside(q) THEN "served"
    ELSE "ended"

Service == INSTANCE RequestService WITH status <- [q \in Requests |-> Phase(q)]

ImplementsService == Service!ServiceSpec

(* Every thread and every rank goes on when it can; a client that stays    *)
(* reads; a dead worker is noticed and a wedged collective times out.      *)
(* threading.Lock is not fair, but a lock asked for by finitely many       *)
(* threads is free for good until the last of them takes it.               *)
Fairness ==
    /\ \A q \in Requests :
         /\ WF_vars(ThreadStep(q))
         /\ WF_vars(ClientReads(q) \/ ClientGone(q))
    /\ \A r \in Ranks : WF_vars(WorkerStep(r))
    /\ WF_vars(ExitBroadcast) /\ WF_vars(LauncherEnds) /\ WF_vars(Wedged /\ TimeOut)

FairServerSpec == ServerSpec /\ Fairness

-----------------------------------------------------------------------------
(* A promise that the code does not keep.                                  *)

(* worker_loop: "loop receiving broadcasts and taking part in inference",  *)
(* left on the "exit signal" only: no request ends a worker.               *)
WorkersStay == faults = {} => \A r \in workers : worker[r] \in {"loop", "generate"}

=============================================================================
