--------------------------- MODULE RequestService ---------------------------
(***************************************************************************)
(* What the HTTP server promises its clients, whatever number of ranks     *)
(* stands behind it: requests are served one at a time ("serialise         *)
(* inference", api_server.py 17), each ends once, and the end is final.    *)
(***************************************************************************)
CONSTANT Requests

VARIABLE status   \* status[q]: "absent", "queued", "served" or "ended"

ServiceInit == status = [q \in Requests |-> "absent"]

Submit(q) ==
    /\ status[q] = "absent"
    /\ status' = [status EXCEPT ![q] = "queued"]

(* A malformed request is answered at once. *)
Refuse(q) ==
    /\ status[q] = "absent"
    /\ status' = [status EXCEPT ![q] = "ended"]

Serve(q) ==
    /\ status[q] = "queued"
    /\ \A r \in Requests : status[r] # "served"
    /\ status' = [status EXCEPT ![q] = "served"]

End(q) ==
    /\ status[q] = "served"
    /\ status' = [status EXCEPT ![q] = "ended"]

(* The process ends and its connections with it. *)
Shutdown ==
    status' = [q \in Requests |-> IF status[q] = "absent" THEN "absent" ELSE "ended"]

ServiceNext ==
    \/ \E q \in Requests : Submit(q) \/ Refuse(q) \/ Serve(q) \/ End(q)
    \/ Shutdown

ServiceSpec == ServiceInit /\ [][ServiceNext]_status

=============================================================================
