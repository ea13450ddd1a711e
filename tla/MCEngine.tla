------------------------------ MODULE MCEngine ------------------------------
(***************************************************************************)
(* Requests for the model-checking runs of the engine.  Blocks hold two    *)
(* tokens, in MCEngine.cfg four.                                           *)
(***************************************************************************)
EXTENDS EngineProperties

CONSTANTS a, b, c, d, z

(* a and b share their first block. *)
SharedPrompt == (a :> <<1, 1, 2>> @@ b :> <<1, 1, 1>> @@ c :> <<2, 2, 2>>)
SharedMax == (a :> 3 @@ b :> 3 @@ c :> 3)

(* a and b share their first block; they decode together, then both need  *)
(* a third block in the same step: b preempts a, and a waits.              *)
TightPrompt == (a :> <<1, 1, 1, 1, 2>> @@ b :> <<1, 1, 1, 1, 1, 1>> @@ c :> <<2, 2>>)
TightMax == (a :> 4 @@ b :> 3 @@ c :> 2)

(* Long decodes; a sequence that is prefilled again may find c's prefix.   *)
DecodePrompt == (a :> <<1>> @@ b :> <<2>> @@ c :> <<1, 1, 1>>)
DecodeMax == (a :> 6 @@ b :> 6 @@ c :> 4)

(* Of eight places two are used: b preempts a, and a, next in the same     *)
(* loop, preempts itself again.                                            *)
TwicePrompt == (a :> <<1>> @@ b :> <<1, 1, 1>>)
TwiceMax == (a :> 4 @@ b :> 3)

(* a stays while b registers its first block again and leaves, c takes the *)
(* block over, and d asks for a's first block.                             *)
StalePrompt ==
    (a :> <<1, 1, 2, 2, 3>> @@ b :> <<1, 1, 3, 3, 3>> @@ c :> <<2, 2, 3>> @@ d :> <<1, 1, 4>>)
StaleMax == (a :> 8 @@ b :> 1 @@ c :> 2 @@ d :> 1)

(* b is a full block that a has in the cache. *)
WholePrompt == (a :> <<1, 1, 2>> @@ b :> <<1, 1>>)
WholeMax == (a :> 3 @@ b :> 1)

(* A prompt of exactly one block. *)
BlockPrompt == (a :> <<1, 1>>)
BlockMax == (a :> 2)

(* A prompt of two chunks, the second of one token. *)
ChunkPrompt == (a :> <<1, 2, 3>>)
ChunkMax == (a :> 2)

(* a waits behind b while calls for the other three fail one by one. *)
KeptPrompt == [s \in {a, b, c, d, z} |-> IF s = a THEN <<2, 2, 2>> ELSE <<1>>]
KeptMax == [s \in {a, b, c, d, z} |-> IF s = b THEN 2 ELSE 1]

(* Three prompts with three blocks in common, of which b is the longest. *)
StuckPrompt ==
    (a :> <<1, 1, 1, 1, 1, 1, 2>> @@ b :> <<1, 1, 1, 1, 1, 1, 1, 1, 1>> @@
     c :> <<1, 1, 1, 1, 1, 1, 3>>)
StuckMax == (a :> 3 @@ b :> 1 @@ c :> 3)
=============================================================================
