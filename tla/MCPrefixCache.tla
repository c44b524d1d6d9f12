--------------------------- MODULE MCPrefixCache ---------------------------
(***************************************************************************)
(* PrefixCache for TLC, for the two kinds of models that do not stream: a  *)
(* behaviour is one of the attention model of the constants, or one of a   *)
(* model with recurrent blocks, which has no micro-batches and no chunks.  *)
(***************************************************************************)
EXTENDS PrefixCache

CONSTANT RecurrentMinPrompt

VARIABLES part,
          rec_cached, rec_kv, rec_recurrent, rec_pc, rec_tokens, rec_prompt_len, rec_start_pos, rec_out

Rec == INSTANCE PrefixCache WITH
  Ubatch <- Context + 1, ChunkSize <- 1, Recurrent <- TRUE, MinPrompt <- RecurrentMinPrompt,
  cached <- rec_cached, kv <- rec_kv, recurrent <- rec_recurrent, pc <- rec_pc,
  tokens <- rec_tokens, prompt_len <- rec_prompt_len, start_pos <- rec_start_pos, out <- rec_out

ASSUME MCAssumption == Rec!TokenAssumption /\ Rec!ContextAssumption /\ Rec!ModelAssumption

rec_vars == <<rec_cached, rec_kv, rec_recurrent, rec_pc, rec_tokens, rec_prompt_len, rec_start_pos, rec_out>>

MCInit == part \in {"attention", "recurrent"} /\ Init /\ Rec!Init

MCNext ==
  \/ part = "attention" /\ Next /\ UNCHANGED <<part, rec_vars>>
  \/ part = "recurrent" /\ Rec!Next /\ UNCHANGED <<part, vars>>

\* Fair to the iterations of the attention model; in the other part there are none.
MCSpec == MCInit /\ [][MCNext]_<<part, vars, rec_vars>> /\ WF_vars(Iterate)

-----------------------------------------------------------------------------
\* What recurrent blocks consumed is the text a generation skips, whatever was generated,
\* cleared and warmed up before: a state that ran past it is not reused (model.py:791-794).
RecurrentReuseIsValid == Rec!ReuseIsValid
=============================================================================
