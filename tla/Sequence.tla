------------------------------ MODULE Sequence ------------------------------
(***************************************************************************)
(* A request as the engine keeps it (engine/sequence.py): its tokens and   *)
(* the counters that the scheduler and the model runner read and write.    *)
(* seq_id is the element of Seqs itself; block_table is in BlockManager.   *)
(***************************************************************************)
EXTENDS BlockManager

CONSTANTS
    Prompt,      \* Prompt[s]: the prompt's tokens, never empty
    MaxTokens,   \* MaxTokens[s]: sampling_params.max_tokens
    Vocab        \* tokens the sampler may return

ASSUME SequenceAssumption ==
    /\ \A s \in Seqs : /\ Prompt[s] \in Seq(Nat \ {0}) \ {<<>>}
                       /\ MaxTokens[s] \in Nat \ {0}
                       /\ Len(Prompt[s]) + MaxTokens[s] <= MaxLen
    /\ Vocab \subseteq Nat \ {0}

VARIABLES
    seq,        \* seq[s]: status and counters
    token_ids   \* token_ids[s]: prompt and completion

seqVars == <<seq, token_ids>>

None == <<>>   \* prefix_restore_blocks = None; a chain is never empty

NumTokens(s) == Len(token_ids[s])
NumCompletion(s) == NumTokens(s) - Len(Prompt[s])

(* The first n tokens: what the state of a model that has read them is.    *)
Read(s, n) == SubSeq(token_ids[s], 1, n)

Fields ==
    [status : {"WAITING", "RUNNING", "FINISHED"},
     num_cached_tokens : 0 .. MaxLen,
     num_scheduled_tokens : 0 .. MaxLen,
     is_prefill : BOOLEAN,
     prefix_restore_blocks : Seq(Blocks)]

NewSequence ==
    [status |-> "WAITING", num_cached_tokens |-> 0, num_scheduled_tokens |-> 0,
     is_prefill |-> TRUE, prefix_restore_blocks |-> None]

SequenceInit ==
    /\ seq = [s \in Seqs |-> NewSequence]
    /\ token_ids = [s \in Seqs |-> Prompt[s]]

(* What preemption does to the fields: the sequence is to be prefilled     *)
(* again from its first token.                                             *)
Recomputed(fields) ==
    [fields EXCEPT !.status = "WAITING", !.is_prefill = TRUE,
                   !.num_cached_tokens = 0, !.prefix_restore_blocks = None]

=============================================================================
