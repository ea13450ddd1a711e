------------------------------ MODULE MCServer ------------------------------
(***************************************************************************)
(* Requests for the model-checking runs of the server.                     *)
(***************************************************************************)
EXTENDS ServerProperties, TLC

CONSTANTS p, s, t, x, m

(* Two plain requests and two streams, one of them inadmissible. *)
MCPasses == p :> 2 @@ s :> 2 @@ t :> 2 @@ x :> 1 @@ m :> 1
OneEach == [q \in Requests |-> MCPasses[q]]
=============================================================================
