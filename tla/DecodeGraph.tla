---------------------------- MODULE DecodeGraph -----------------------------
(***************************************************************************)
(* Decoding through captured CUDA graphs (model_runner.py).  The host      *)
(* writes the rows of a batch into pinned buffers that all graphs share,   *)
(* queues copies of them into the static buffers of one graph, and queues  *)
(* its replay.  The device takes the queue in order, at its own pace: a    *)
(* copy reads the pinned buffer when it runs, not when it was queued.      *)
(*                                                                         *)
(* The graph's batch size may be larger than the batch; the rows left over *)
(* must touch nothing that belongs to a sequence.                          *)
(***************************************************************************)
EXTENDS Integers, Sequences, SequencesExt, FiniteSets, FiniteSetsExt

CONSTANTS
    DecodeSeqs,      \* sequences that decode
    SlotOf,          \* SlotOf[s]: its slot in the DeltaNet pools (seq_to_slot)
    TableOf,         \* TableOf[s]: its block table, long enough for MaxTokens
    StartTokens,     \* StartTokens[s]: its tokens at the first pass
    GraphSeqs,       \* max_num_seqs
    GraphMax,        \* values of cuda_graph_max_batch_size
    PageSize,        \* block_size
    TableWidth,      \* max_blocks_per_seq
    TokenBound,      \* bound: tokens of a sequence
    OomBound         \* bound: passes that run out of memory while sampling

ASSUME GraphAssumption ==
    /\ SlotOf \in [DecodeSeqs -> 0 .. GraphSeqs - 1]
    /\ IsFiniteSet(DecodeSeqs) /\ GraphSeqs \in Nat \ {0}
    /\ Cardinality(DecodeSeqs) <= GraphSeqs
    /\ GraphMax \subseteq Nat \ {0}
    /\ PageSize \in Nat \ {0}
    /\ \A s \in DecodeSeqs : Len(TableOf[s]) <= TableWidth

VARIABLES
    max_batch,   \* cuda_graph_max_batch_size
    num_tokens,  \* num_tokens[s]
    host,        \* "idle", "fill", "launch", "sample"
    batch,       \* the batch of the pass, a sequence of DecodeSeqs
    filled,      \* rows of it written to the pinned buffers
    pinned,      \* pinned[i][field]
    static,      \* static[b][i][field]: the buffers that graph b was captured with
    stream,      \* operations queued on the device
    replay,      \* what the last replay read
    ooms

graphVars == <<max_batch, num_tokens, host, batch, filled, pinned, static, stream, replay, ooms>>

(* Powers of two up to the configured limit, and their search.             *)
GraphBuckets == {b \in 1 .. Min({GraphSeqs, max_batch}) : \E n \in 0 .. GraphSeqs : b = 2 ^ n}
SelectBucket(n) == Min({b \in GraphBuckets : b >= n})
HasBucket(n) == \E b \in GraphBuckets : b >= n

padding_deltanet_slot == GraphSeqs

(* Row of a sequence, as prepare_decode builds it: its last token and      *)
(* position, the cache slot of that position, and its tables.              *)
Position(s) == num_tokens[s] - 1
DecodeRow(s) ==
    [input |-> <<s, Position(s)>>,
     slot_mapping |-> TableOf[s][Position(s) \div PageSize + 1] * PageSize + (Position(s) % PageSize),
     context_lens |-> num_tokens[s],
     deltanet_slots |-> SlotOf[s],
     block_tables |-> [p \in 1 .. TableWidth |-> IF p <= Len(TableOf[s]) THEN TableOf[s][p] ELSE -1]]

NoBlocks == [p \in 1 .. TableWidth |-> -1]
(* Padding of each field; input ids and positions keep what they held.     *)
PadRow(row) ==
    [row EXCEPT !.slot_mapping = -1, !.context_lens = 1,
                !.deltanet_slots = padding_deltanet_slot, !.block_tables = NoBlocks]

(* A row as it was captured.                                               *)
EmptyRow ==
    [input |-> <<>>, slot_mapping |-> -1, context_lens |-> 1,
     deltanet_slots |-> padding_deltanet_slot, block_tables |-> [p \in 1 .. TableWidth |-> 0]]
Bucket == SelectBucket(Len(batch))

GraphInit ==
    /\ max_batch \in GraphMax
    /\ num_tokens = StartTokens
    /\ host = "idle" /\ batch = <<>> /\ filled = 0
    /\ pinned = [i \in 1 .. Max(GraphBuckets) |-> EmptyRow]
    /\ static = [b \in GraphBuckets |-> [i \in 1 .. b |-> EmptyRow]]
    /\ stream = <<>> /\ replay = <<>> /\ ooms = 0

(* run(): a batch with no graph for its size takes the eager path.         *)
BeginPass ==
    /\ host = "idle"
    /\ \E S \in SUBSET {s \in DecodeSeqs : num_tokens[s] < TokenBound} :
          /\ S # {}
          /\ \E q \in SetToSeqs(S) :
                IF HasBucket(Len(q))
                THEN /\ batch' = q /\ host' = "fill"
                     /\ UNCHANGED num_tokens
                ELSE /\ num_tokens' = [s \in DecodeSeqs |->
                                          num_tokens[s] + IF s \in S THEN 1 ELSE 0]
                     /\ UNCHANGED <<batch, host>>
    /\ filled' = 0 /\ replay' = <<>>
    /\ UNCHANGED <<max_batch, pinned, static, stream, ooms>>

(* _prepare_decode_into_graph, row by row on the host.                     *)
FillRow ==
    /\ host = "fill" /\ filled < Len(batch)
    /\ pinned' = [pinned EXCEPT ![filled + 1] = DecodeRow(batch[filled + 1])]
    /\ filled' = filled + 1
    /\ UNCHANGED <<max_batch, num_tokens, host, batch, static, stream, replay, ooms>>

(* Copies of the n rows, the whole table, the padding and the replay.      *)
Operations(n) ==
    LET Copy(f) == [op |-> "copy", field |-> f, bucket |-> Bucket,
                    rows |-> IF f = "block_tables" THEN Bucket ELSE n]
        pad == [op |-> "pad", bucket |-> Bucket, rows |-> n]
        run == [op |-> "replay", bucket |-> Bucket, rows |-> n]
    IN  IF n < Bucket
        THEN <<Copy("input"), Copy("slot_mapping"), Copy("context_lens"),
               Copy("deltanet_slots"), Copy("block_tables"), pad, run>>
        ELSE <<Copy("input"), Copy("slot_mapping"), Copy("context_lens"),
               Copy("deltanet_slots"), Copy("block_tables"), run>>

Launch ==
    LET n == Len(batch)
    IN  /\ host = "fill" /\ filled = n
        /\ pinned' = [i \in DOMAIN pinned |->
                         IF n < i /\ i <= Bucket THEN [pinned[i] EXCEPT !.block_tables = NoBlocks]
                         ELSE pinned[i]]
        /\ stream' = stream \o Operations(n)
        /\ host' = "sample"
        /\ UNCHANGED <<max_batch, num_tokens, batch, filled, static, replay, ooms>>

(* The device takes the next operation.                                    *)
Device ==
    LET o == Head(stream)
        b == o.bucket
    IN  /\ stream # <<>>
        /\ stream' = Tail(stream)
        /\ CASE o.op = "copy" ->
                  /\ static' = [static EXCEPT ![b] = [i \in 1 .. b |->
                        IF i <= o.rows THEN [@[i] EXCEPT ![o.field] = pinned[i][o.field]] ELSE @[i]]]
                  /\ UNCHANGED replay
             [] o.op = "pad" ->
                  /\ static' = [static EXCEPT ![b] = [i \in 1 .. b |->
                        IF i > o.rows THEN PadRow(@[i]) ELSE @[i]]]
                  /\ UNCHANGED replay
             [] o.op = "replay" -> replay' = static[b] /\ UNCHANGED static
        /\ UNCHANGED <<max_batch, num_tokens, host, batch, filled, pinned, ooms>>

(* Mutant: the host does not wait. *)
SynchronisedNever == TRUE

(* tolist() waits for the device; only then do the tokens exist.           *)
Synchronised == stream = <<>>

EndPass ==
    /\ host = "sample" /\ Synchronised
    /\ num_tokens' = [s \in DecodeSeqs |-> num_tokens[s] + IF s \in ToSet(batch) THEN 1 ELSE 0]
    /\ host' = "idle"
    /\ UNCHANGED <<max_batch, batch, filled, pinned, static, stream, replay, ooms>>

(* Out of memory after the replay was queued: run() drops the last         *)
(* sequence and prepares the rest again, without waiting for the device.   *)
SampleOom ==
    /\ host = "sample" /\ Len(batch) > 1 /\ ooms < OomBound
    /\ ooms' = ooms + 1
    /\ batch' = Front(batch) /\ filled' = 0 /\ host' = "fill"
    /\ UNCHANGED <<max_batch, num_tokens, pinned, static, stream, replay>>

GraphNext == BeginPass \/ FillRow \/ Launch \/ Device \/ EndPass \/ SampleOom

GraphSpec == GraphInit /\ [][GraphNext]_graphVars

GraphOver == host = "idle" /\ \A s \in DecodeSeqs : num_tokens[s] = TokenBound

-----------------------------------------------------------------------------
(* The replay whose tokens are taken has read, in the first rows, what the *)
(* eager path would have given the model for this pass, not the rows of a  *)
(* pass before or after it; and its other rows write to no cache slot, no  *)
(* block and no sequence's recurrent state.                                *)
OfThisPass ==
    /\ 1 .. Len(batch) \subseteq DOMAIN replay
    /\ \A i \in DOMAIN replay :
          IF i <= Len(batch) THEN replay[i] = DecodeRow(batch[i])
          ELSE /\ replay[i].slot_mapping = -1
               /\ \A s \in DecodeSeqs : replay[i].deltanet_slots # SlotOf[s]
               /\ \A p \in 1 .. TableWidth : replay[i].block_tables[p] = -1

ReplayIsOfThisPass == [][host = "sample" /\ host' = "idle" => OfThisPass]_graphVars
=============================================================================
