---------------------------- MODULE PrefixCache ----------------------------
(***************************************************************************)
(* Token generation with a reusable key/value cache: Transformer.generate  *)
(* of tinygrad/llm/model.py and what calls it between two generations.     *)
(*                                                                         *)
(* One generation runs at a time.  A new one does not start at position 0  *)
(* but after the longest prefix it shares with _cached_tokens; it feeds    *)
(* the rest of the prompt in chunks, then token after token.  What counts  *)
(* is whether the state the model keeps on the device (kv, one slot per    *)
(* position, and the state of recurrent blocks) is the state of the text   *)
(* that the generation believes it continues.  So a slot of kv holds the   *)
(* text (a sequence of tokens) whose last position it is the entry of, and *)
(* <<>> when it is the entry of no text; recurrent holds the text that the *)
(* recurrent blocks consumed.                                              *)
(*                                                                         *)
(* The consumer of the tokens may stop after any of them (end token,       *)
(* max_tokens, cancellation, a client that went away): the generator is    *)
(* suspended in its yield then.  Faulty generations may also raise inside  *)
(* a call of the model.                                                    *)
(*                                                                         *)
(* A definition whose name ends in Mutant is the one that follows it with  *)
(* a plausible bug; nothing refers to it.                                  *)
(***************************************************************************)
EXTENDS Integers, Sequences

CONSTANTS
  Token,       \* the vocabulary
  WarmToken,   \* the token of the warm-up prompt [0]
  Context,     \* max_context: slots of kv
  Ubatch,      \* prefill_ubatch; above Context when prefill_v2 is off
  ChunkSize,   \* chunk_size of the symbolic prefill
  SplitSize,   \* FLASH_DECODE_CANDIDATE.split_size
  Sinks,       \* 4: positions that the streaming ring never evicts
  Ring,        \* streaming: the logical context is not bounded by Context
  Recurrent,   \* the model has a recurrent block
  MinPrompt,   \* length of the shortest prompt
  Faulty,      \* a call of the model may raise
  MaxTokens    \* bound on the text of a streaming generation

ASSUME TokenAssumption   == WarmToken \in Token
ASSUME ContextAssumption ==
  /\ Context \in Nat /\ Context >= 2
  /\ Ubatch \in Nat \ {0} /\ ChunkSize \in Nat \ {0}
  /\ SplitSize \in Nat /\ SplitSize >= 2
  /\ Sinks \in 0..(Context - 1)
  /\ MinPrompt \in Nat /\ MaxTokens \in Nat
ASSUME ModelAssumption   ==
  /\ Ring \in BOOLEAN /\ Recurrent \in BOOLEAN /\ Faulty \in BOOLEAN
  /\ Recurrent => ~Ring /\ ChunkSize = 1 /\ Ubatch > Context

Slot == 0..(Context - 1)

\* _guard_context lets a prompt through that leaves room for one token.
Prompts == UNION {[1..n -> Token] : n \in MinPrompt..(Context - 1)}

VARIABLES
  cached,      \* _cached_tokens
  kv,          \* [Slot -> texts]
  recurrent,   \* conv_state and recurrent_state
  pc,          \* "idle", "feed" (in the loop) or "yield"
  tokens,      \* the text of the generation
  prompt_len,
  start_pos,   \* its positions before this one were fed
  out          \* the text the last call of the model computed a token from

modelVars == <<cached, kv, recurrent>>
genVars   == <<pc, tokens, prompt_len, start_pos, out>>
vars      == <<modelVars, genVars>>

Prefix(n) == SubSeq(tokens, 1, n)

-----------------------------------------------------------------------------
(* The cache. *)

\* The window does not start after the sinks.
RingSlotMutant(pos) == IF pos < Context THEN pos ELSE Sinks + (pos % (Context - Sinks))
\* _ring_slot
RingSlot(pos) == IF pos < Context THEN pos ELSE Sinks + ((pos - Sinks) % (Context - Sinks))

\* The positions that are still in the cache once n positions were fed, and
\* those that the position pos attends to besides itself.
Live(n)      == {q \in 0..(n - 1) : q < Sinks \/ n <= Context \/ q >= n - (Context - Sinks)}
Attends(pos) == Live(pos + 1) \ {pos}

\* The state on the device is that of the text before pos.
Continues(pos) ==
  /\ \A q \in Attends(pos) : kv[RingSlot(q)] = Prefix(q + 1)
  /\ Recurrent => recurrent = Prefix(pos)

\* The model is called on positions pos..pos+n-1 of tokens.
Write(pos, n) ==
  /\ kv' = [s \in Slot |->
       IF \E q \in pos..(pos + n - 1) : s = RingSlot(q)
       THEN IF Continues(pos)
            THEN Prefix(1 + CHOOSE q \in pos..(pos + n - 1) : s = RingSlot(q))
            ELSE <<>>
       ELSE kv[s]]
  /\ recurrent' = IF Recurrent THEN recurrent \o SubSeq(tokens, pos + 1, pos + n)
                               ELSE recurrent

\* k is how many leading tokens the prompt, without its last one, shares with
\* _cached_tokens.
Shared(prompt, k) ==
  /\ k <= Len(cached) /\ (k < Len(prompt) \/ k = 0)
  /\ \A i \in 1..k : prompt[i] = cached[i]
  /\ (k < Len(cached) /\ k + 1 < Len(prompt)) => prompt[k + 1] # cached[k + 1]

\* Recurrent state is reused although it ran past the shared prefix.
ReusableMutant(k) == k
\* get_start_pos: the minimum of _reusable_prefix_len over the blocks.
Reusable(k) == IF Recurrent /\ k # Len(cached) THEN 0 ELSE k

-----------------------------------------------------------------------------
(* A generation. *)

Idle == /\ pc' = "idle" /\ tokens' = <<>> /\ prompt_len' = 0
        /\ start_pos' = 0 /\ out' = <<>>

\* The part of generate before its loop.  An empty prompt raises when toks is
\* bound to 0 tokens, with the recurrent state already reset.
Generate(prompt) ==
  /\ pc = "idle"
  /\ \E k \in 0..Len(cached) :
       /\ Shared(prompt, k)
       /\ recurrent' = IF Recurrent /\ Reusable(k) < Len(cached) THEN <<>> ELSE recurrent
       /\ \/ /\ prompt = <<>>
             /\ Idle
          \/ /\ prompt # <<>>
             /\ pc' = "feed" /\ tokens' = prompt /\ prompt_len' = Len(prompt)
             /\ start_pos' = Reusable(k) /\ out' = <<>>
  /\ UNCHANGED <<cached, kv>>

\* The token just sampled is recorded as cached, although it was not fed yet.
EmitMutant(next) ==
  IF next < Len(tokens)
  THEN UNCHANGED <<tokens, cached, pc>>
  ELSE \E tok \in Token : /\ tokens' = Append(tokens, tok)
                          /\ cached' = Append(tokens, tok)
                          /\ pc' = "yield"
\* The end of an iteration: the text up to next was fed.
Emit(next) ==
  IF next < Len(tokens)
  THEN UNCHANGED <<tokens, cached, pc>>
  ELSE \E tok \in Token : /\ tokens' = Append(tokens, tok)
                          /\ cached' = tokens
                          /\ pc' = "yield"

\* One iteration, which calls the model on n positions from pos on.  A call
\* that raises may have run its kernels or not.
Feed(pos, n, next) ==
  \/ /\ Write(pos, n)
     /\ out' = IF Continues(pos) THEN Prefix(pos + n) ELSE <<>>
     /\ start_pos' = next
     /\ Emit(next)
     /\ UNCHANGED prompt_len
  \/ /\ Faulty
     /\ Write(pos, n) \/ UNCHANGED <<kv, recurrent>>
     /\ Idle
     /\ UNCHANGED cached

Remaining == prompt_len - start_pos

\* A whole micro-batch of prompt tokens.
FeedBatch ==
  /\ pc = "feed" /\ Remaining >= Ubatch
  /\ Feed(start_pos, Ubatch, start_pos + Ubatch)

\* The rest of a long prompt: the last micro-batch that fits, which overlaps
\* the one before.
FeedTail ==
  /\ pc = "feed" /\ Remaining < Ubatch
  /\ start_pos < prompt_len /\ prompt_len >= Ubatch
  /\ Feed(prompt_len - Ubatch, Ubatch, prompt_len)

\* Streaming: the slot of the oldest position after the sinks is reused.
FeedRing ==
  /\ pc = "feed" /\ Ring /\ start_pos >= prompt_len
  /\ Feed(start_pos, 1, start_pos + 1)

\* The chunk is cut at the end of the prompt instead of that of the text.
ChunkLenMutant == IF ChunkSize < Remaining THEN ChunkSize ELSE Remaining
ChunkLen == IF ChunkSize < Len(tokens) - start_pos THEN ChunkSize ELSE Len(tokens) - start_pos

\* A chunk of a short prompt, or one decoded token.
FeedChunk ==
  /\ pc = "feed"
  /\ start_pos < prompt_len => prompt_len < Ubatch
  /\ Ring => start_pos < prompt_len
  /\ Feed(start_pos, ChunkLen, start_pos + ChunkLen)

\* The consumer asks for another token.
Resume ==
  /\ pc = "yield"
  /\ IF Ring THEN Len(tokens) < MaxTokens ELSE Len(tokens) < Context
  /\ pc' = "feed"
  /\ UNCHANGED <<modelVars, tokens, prompt_len, start_pos, out>>

\* It does not, or there is no room for another one.
Finish ==
  /\ pc = "yield"
  /\ Idle
  /\ UNCHANGED modelVars

-----------------------------------------------------------------------------
(* Between generations. *)

\* RuntimeState.clear_prefix_cache, Transformer.reset_generation_state
ClearCache ==
  /\ pc = "idle" /\ cached # <<>>
  /\ cached' = <<>> /\ recurrent' = <<>>
  /\ UNCHANGED <<kv, genVars>>

\* The warm-up leaves _cached_tokens as it found it.
WarmupMutant ==
  /\ pc = "idle"
  /\ kv' = [kv EXCEPT ![0] = <<WarmToken>>]
  /\ UNCHANGED <<cached, recurrent, genVars>>
\* RuntimeState._do_warmup: two generations of the prompt [0], each of two
\* tokens when there is room, then the flash decode kernel on one slot.
Warmup ==
  /\ pc = "idle"
  /\ \E tok \in Token : cached' = IF Context > 2 THEN <<WarmToken, tok>> ELSE <<WarmToken>>
  /\ recurrent' = IF Recurrent THEN cached' ELSE recurrent
  /\ \E flash \in BOOLEAN :
       LET last == IF SplitSize < Context - 1 THEN SplitSize ELSE Context - 1
       IN  /\ flash => ~Recurrent
           /\ kv' = [s \in Slot |-> IF flash /\ s = last THEN <<>>
                                    ELSE IF s < Len(cached') THEN SubSeq(cached', 1, s + 1)
                                    ELSE kv[s]]
  /\ UNCHANGED genVars

-----------------------------------------------------------------------------
Init ==
  /\ cached = <<>> /\ kv = [s \in Slot |-> <<>>] /\ recurrent = <<>>
  /\ pc = "idle" /\ tokens = <<>> /\ prompt_len = 0 /\ start_pos = 0 /\ out = <<>>

Iterate == FeedBatch \/ FeedTail \/ FeedRing \/ FeedChunk

Next ==
  \/ \E prompt \in Prompts : Generate(prompt)
  \/ Iterate
  \/ Resume
  \/ Finish
  \/ ClearCache
  \/ Warmup

\* The loop runs to its next yield without waiting for anybody.
Spec == Init /\ [][Next]_vars /\ WF_vars(Iterate)

-----------------------------------------------------------------------------
(* Properties. *)

Text == Seq(Token)

\* The shapes of the variables; without streaming, no text outgrows the cache
\* and no position past it is ever fed, so that start_pos can be bound.
TypeOK ==
  /\ cached \in Text /\ tokens \in Text /\ recurrent \in Text /\ out \in Text
  /\ kv \in [Slot -> Text]
  /\ pc \in {"idle", "feed", "yield"}
  /\ prompt_len \in 0..(Context - 1)
  /\ start_pos \in 0..Len(tokens)
  /\ ~Ring => Len(tokens) <= Context /\ Len(cached) < Context
  /\ pc = "feed" => start_pos < Len(tokens) /\ (Ring \/ Len(tokens) < Context)

\* "recompute start_pos from what's currently valid in the caches": whatever
\* generations, clears and warm-ups came before, everything that a generation
\* skips or fed is in the cache as the entry of its own text.
ReuseIsValid == pc = "feed" => Continues(start_pos)

\* While a generation goes on, a window that is that of its text stays so, also
\* when the ring wraps and evicts: the sinks and the last positions are kept and
\* the next token is computed from them.
WindowKept ==
  [][pc = "feed" /\ pc' # "idle" /\ Continues(start_pos)
       => /\ \A q \in Live(start_pos') : kv'[RingSlot(q)] = SubSeq(tokens', 1, q + 1)
          /\ out' = SubSeq(tokens', 1, start_pos')]_vars

\* Reuse cannot be told from recomputing: every token a consumer gets was
\* computed from the whole text before it.
Fresh == INSTANCE FreshGeneration WITH seen <- IF pc = "yield" THEN out ELSE <<>>
GeneratesFresh == Fresh!Spec

\* The loop reaches its next token (or raises): no iteration makes no progress.
TokenComes == pc = "feed" ~> pc # "feed"
=============================================================================
