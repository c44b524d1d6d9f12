------------------------- MODULE PrefixCache_proofs -------------------------
(***************************************************************************)
(* Proofs about PrefixCache, for every vocabulary, size of the cache and   *)
(* of the chunks, with and without recurrent blocks, streaming and calls   *)
(* that raise.                                                             *)
(***************************************************************************)
EXTENDS PrefixCache, SequenceTheorems, TLAPS

\* The prefixes of a text.
LEMMA PrefixText ==
  ASSUME NEW s \in Text, NEW n \in 0..Len(s)
  PROVE  /\ SubSeq(s, 1, n) \in Text
         /\ Len(SubSeq(s, 1, n)) = n
         /\ \A i \in 1..n : SubSeq(s, 1, n)[i] = s[i]
<1>1. \A i \in 1..n : s[i] \in Token
  BY ElementOfSeq, LenProperties DEF Text
<1> QED
  BY <1>1, SubSeqProperties, LenProperties DEF Text

\* A stretch of a text.
LEMMA StretchText ==
  ASSUME NEW s \in Text, NEW a \in Nat, NEW n \in Nat, a + n <= Len(s)
  PROVE  SubSeq(s, a + 1, a + n) \in Text
<1>1. \A i \in (a + 1)..(a + n) : s[i] \in Token
  BY ElementOfSeq, LenProperties DEF Text
<1> QED
  BY <1>1, SubSeqProperties DEF Text

-----------------------------------------------------------------------------
(* Types. *)

\* How far a generation is: after a yield exactly the last token is not fed, and
\* no token comes before the whole prompt was fed.
Progress ==
  /\ pc = "idle" => tokens = <<>>
  /\ prompt_len <= Len(tokens)
  /\ pc = "yield" => start_pos = Len(tokens) - 1 /\ prompt_len <= start_pos
  /\ pc = "feed" /\ start_pos < prompt_len => Len(tokens) = prompt_len

TypeInv == TypeOK /\ Progress

LEMMA EmptyText == <<>> \in Text /\ Len(<<>>) = 0
  BY EmptySeq DEF Text

LEMMA LenText == ASSUME NEW s \in Text PROVE Len(s) \in Nat
  BY LenProperties DEF Text

LEMMA TypeInit == Init => TypeInv
  BY EmptyText, ContextAssumption DEF Init, TypeInv, TypeOK, Progress, Slot

LEMMA WriteType ==
  ASSUME TypeOK, NEW pos \in Nat, NEW n \in Nat, pos + n <= Len(tokens), Write(pos, n)
  PROVE  kv' \in [Slot -> Text] /\ recurrent' \in Text
<1> DEFINE Fed(s) == \E q \in pos..(pos + n - 1) : s = RingSlot(q)
           Of(s)  == CHOOSE q \in pos..(pos + n - 1) : s = RingSlot(q)
<1>1. ASSUME NEW s \in Slot, Fed(s)
      PROVE  Prefix(1 + Of(s)) \in Text
  <2>1. Of(s) \in pos..(pos + n - 1)
    BY <1>1
  <2>2. tokens \in Text /\ 1 + Of(s) \in 0..Len(tokens)
    BY <2>1, LenText DEF TypeOK
  <2> QED
    BY <2>2, PrefixText DEF Prefix
<1>2. kv' \in [Slot -> Text]
  BY <1>1, EmptyText DEF Write, TypeOK
<1>3. recurrent' \in Text
  BY StretchText, ConcatProperties DEF Write, TypeOK, Text
<1> QED
  BY <1>2, <1>3

LEMMA IdleType == ASSUME Idle, cached' \in Text, kv' \in [Slot -> Text], recurrent' \in Text,
                         ~Ring => Len(cached') < Context
                  PROVE  TypeInv'
  BY EmptyText, ContextAssumption DEF Idle, TypeInv, TypeOK, Progress

\* An iteration that feeds up to next, not past the end of the text.
LEMMA FeedType ==
  ASSUME TypeInv, pc = "feed", NEW pos \in Nat, NEW n \in Nat, NEW next \in start_pos..Len(tokens),
         pos + n <= Len(tokens), Feed(pos, n, next)
  PROVE  TypeInv'
<1>0. /\ tokens \in Text /\ cached \in Text /\ kv \in [Slot -> Text] /\ recurrent \in Text
      /\ Len(tokens) \in Nat /\ start_pos \in Nat /\ prompt_len \in 0..(Context - 1)
      /\ Context \in Nat /\ prompt_len <= Len(tokens)
      /\ (~Ring => Len(cached) < Context) /\ (Ring \/ Len(tokens) < Context)
  BY LenText, ContextAssumption DEF TypeInv, TypeOK, Progress
<1>1. CASE /\ Write(pos, n) /\ start_pos' = next
           /\ out' = IF Continues(pos) THEN Prefix(pos + n) ELSE <<>>
           /\ Emit(next) /\ prompt_len' = prompt_len
  <2>1. kv' \in [Slot -> Text] /\ recurrent' \in Text
    BY <1>1, WriteType DEF TypeInv
  <2>2. out' \in Text
    BY <1>0, <1>1, PrefixText, EmptyText DEF Prefix
  <2>3. CASE next < Len(tokens)
    <3>1. tokens' = tokens /\ cached' = cached /\ pc' = pc
      BY <1>1, <2>3 DEF Emit
    <3> QED
      BY <1>0, <1>1, <2>1, <2>2, <2>3, <3>1 DEF TypeInv, TypeOK, Progress
  <2>4. CASE next = Len(tokens)
    <3>1. PICK tok \in Token : /\ tokens' = Append(tokens, tok) /\ cached' = tokens
                               /\ pc' = "yield"
      BY <1>1, <2>4 DEF Emit
    <3>2. tokens' \in Text /\ Len(tokens') = Len(tokens) + 1
      BY <1>0, <3>1, AppendProperties DEF Text
    <3> QED
      BY <1>0, <1>1, <2>1, <2>2, <2>4, <3>1, <3>2 DEF TypeInv, TypeOK, Progress
  <2> QED
    BY <1>0, <2>3, <2>4
<1>2. CASE /\ Write(pos, n) \/ UNCHANGED <<kv, recurrent>>
           /\ Idle /\ UNCHANGED cached
  <2>1. kv' \in [Slot -> Text] /\ recurrent' \in Text
    BY <1>0, <1>2, WriteType DEF TypeInv
  <2> QED
    BY <1>0, <1>2, <2>1, IdleType
<1> QED
  BY <1>1, <1>2 DEF Feed

LEMMA TypeIterate == ASSUME TypeInv, Iterate PROVE TypeInv'
<1>0. /\ pc = "feed" => start_pos < Len(tokens)
      /\ Len(tokens) \in Nat /\ start_pos \in Nat /\ prompt_len \in Nat
      /\ prompt_len <= Len(tokens) /\ Ubatch \in Nat /\ ChunkSize \in Nat
  BY LenText, ContextAssumption DEF TypeInv, TypeOK, Progress
<1>1. CASE FeedBatch
  BY <1>0, <1>1, FeedType DEF FeedBatch, Remaining
<1>2. CASE FeedTail
  BY <1>0, <1>2, FeedType DEF FeedTail, Remaining
<1>3. CASE FeedRing
  BY <1>0, <1>3, FeedType DEF FeedRing
<1>4. CASE FeedChunk
  BY <1>0, <1>4, FeedType DEF FeedChunk, ChunkLen
<1> QED
  BY <1>1, <1>2, <1>3, <1>4 DEF Iterate

LEMMA PromptText == ASSUME NEW prompt \in Prompts PROVE prompt \in Text /\ Len(prompt) < Context
  BY ContextAssumption, SeqDef DEF Prompts, Text

LEMMA TypeGenerate ==
  ASSUME TypeInv, NEW prompt \in Prompts, Generate(prompt) PROVE TypeInv'
<1>0. /\ cached \in Text /\ kv \in [Slot -> Text] /\ recurrent \in Text
      /\ (~Ring => Len(cached) < Context) /\ Len(cached) \in Nat /\ Context \in Nat
  BY LenText, ContextAssumption DEF TypeInv, TypeOK
<1>1. prompt \in Text /\ Len(prompt) < Context /\ Len(prompt) \in Nat
      /\ (prompt # <<>> => Len(prompt) > 0)
  BY PromptText, LenText, EmptySeq DEF Text
<1>2. PICK k \in 0..Len(cached) :
        /\ Shared(prompt, k)
        /\ recurrent' = IF Recurrent /\ Reusable(k) < Len(cached) THEN <<>> ELSE recurrent
        /\ \/ prompt = <<>> /\ Idle
           \/ /\ prompt # <<>>
              /\ pc' = "feed" /\ tokens' = prompt /\ prompt_len' = Len(prompt)
              /\ start_pos' = Reusable(k) /\ out' = <<>>
  BY DEF Generate
<1>3. kv' = kv /\ cached' = cached /\ recurrent' \in Text
  BY <1>0, <1>2, EmptyText DEF Generate
<1>4. CASE prompt = <<>>
  BY <1>0, <1>2, <1>3, <1>4, IdleType
<1>5. CASE prompt # <<>>
  <2>1. Reusable(k) \in 0..(Len(prompt) - 1)
    BY <1>0, <1>1, <1>2, <1>5 DEF Reusable, Shared
  <2> QED
    BY <1>0, <1>1, <1>2, <1>3, <1>5, <2>1, EmptyText DEF TypeInv, TypeOK, Progress
<1> QED
  BY <1>4, <1>5

LEMMA TypeWarmup == ASSUME TypeInv, Warmup PROVE TypeInv'
<1>1. PICK tok \in Token :
        cached' = IF Context > 2 THEN <<WarmToken, tok>> ELSE <<WarmToken>>
  BY DEF Warmup
<1>2. cached' \in Text /\ Len(cached') \in 1..(Context - 1)
  BY <1>1, TokenAssumption, ContextAssumption DEF Text
<1>3. \A s \in Slot : s < Len(cached') => SubSeq(cached', 1, s + 1) \in Text
  BY <1>2, PrefixText, ContextAssumption DEF Slot
<1>4. kv' \in [Slot -> Text]
  BY <1>3, EmptyText DEF Warmup, TypeInv, TypeOK
<1>5. recurrent' \in Text
  BY <1>2 DEF Warmup, TypeInv, TypeOK
<1> QED
  BY <1>2, <1>4, <1>5, ContextAssumption DEF Warmup, genVars, TypeInv, TypeOK, Progress

LEMMA TypeStep == ASSUME TypeInv, [Next]_vars PROVE TypeInv'
<1>1. CASE \E prompt \in Prompts : Generate(prompt)
  BY <1>1, TypeGenerate
<1>2. CASE Iterate
  BY <1>2, TypeIterate
<1>3. CASE Resume
  <2>1. /\ Len(tokens) \in Nat /\ start_pos = Len(tokens) - 1
        /\ pc' = "feed" /\ (Ring \/ Len(tokens) < Context)
    BY <1>3, LenText DEF Resume, TypeInv, TypeOK, Progress
  <2> QED
    BY <1>3, <2>1 DEF Resume, modelVars, TypeInv, TypeOK, Progress
<1>4. CASE Finish
  BY <1>4, IdleType DEF Finish, modelVars, TypeInv, TypeOK
<1>5. CASE ClearCache
  BY <1>5, EmptyText, ContextAssumption DEF ClearCache, genVars, TypeInv, TypeOK, Progress
<1>6. CASE Warmup
  BY <1>6, TypeWarmup
<1>7. CASE UNCHANGED vars
  BY <1>7 DEF vars, modelVars, genVars, TypeInv, TypeOK, Progress
<1> QED
  BY <1>1, <1>2, <1>3, <1>4, <1>5, <1>6, <1>7 DEF Next

\* The text never outgrows the cache unless it streams, and the loop never feeds
\* a position past the end of the text.
THEOREM TypeCorrect == Spec => []TypeOK
<1>1. Init => TypeInv
  BY TypeInit
<1>2. TypeInv /\ [Next]_vars => TypeInv'
  BY TypeStep
<1>3. TypeInv => TypeOK
  BY DEF TypeInv
<1> QED
  BY <1>1, <1>2, <1>3, PTL DEF Spec

-----------------------------------------------------------------------------
(* Without streaming, calls that raise, and empty prompts of recurrent      *)
(* models, the cache always holds what _cached_tokens says.                 *)

Lossless == ~Ring /\ ~Faulty /\ (Recurrent => MinPrompt # 0)

\* The state on the device is that of the first n tokens of text.
Holds(text, n) ==
  /\ \A q \in 0..(n - 1) : kv[q] = SubSeq(text, 1, q + 1)
  /\ Recurrent => recurrent = SubSeq(text, 1, n)

\* _cached_tokens is stale only inside the loop, where the text of the generation
\* takes its place.
CacheInv ==
  /\ pc # "feed" => Holds(cached, Len(cached))
  /\ pc = "feed" => Holds(tokens, start_pos)
  /\ pc = "yield" => cached = SubSeq(tokens, 1, start_pos) /\ out = cached

\* Texts that agree on their first n tokens have the same prefixes.
LEMMA SamePrefix ==
  ASSUME NEW s \in Text, NEW t \in Text, NEW n \in Nat, n <= Len(s), n <= Len(t),
         \A i \in 1..n : s[i] = t[i]
  PROVE  \A m \in 0..n : SubSeq(s, 1, m) = SubSeq(t, 1, m)
<1> TAKE m \in 0..n
<1>1. /\ SubSeq(s, 1, m) \in Text /\ SubSeq(t, 1, m) \in Text
      /\ Len(SubSeq(s, 1, m)) = m /\ Len(SubSeq(t, 1, m)) = m
      /\ \A i \in 1..m : SubSeq(s, 1, m)[i] = s[i] /\ SubSeq(t, 1, m)[i] = t[i]
  BY PrefixText, LenText
<1> QED
  BY <1>1, SeqEqual DEF Text

LEMMA WholeText == ASSUME NEW s \in Text PROVE SubSeq(s, 1, Len(s)) = s
  BY SubSeqFull DEF Text

LEMMA NoText == ASSUME NEW s PROVE SubSeq(s, 1, 0) = <<>>
  BY SubSeqEmpty

\* Appending a token keeps the prefixes.
LEMMA AppendPrefix ==
  ASSUME NEW s \in Text, NEW tok \in Token
  PROVE  /\ Append(s, tok) \in Text
         /\ \A m \in 0..Len(s) : SubSeq(Append(s, tok), 1, m) = SubSeq(s, 1, m)
<1>1. /\ Append(s, tok) \in Text /\ Len(Append(s, tok)) = Len(s) + 1
      /\ \A i \in 1..Len(s) : Append(s, tok)[i] = s[i]
  BY AppendProperties DEF Text
<1> QED
  BY <1>1, SamePrefix, LenText

LEMMA PrefixOfPrefix ==
  ASSUME NEW s \in Text, NEW n \in 0..Len(s)
  PROVE  \A m \in 0..n : SubSeq(SubSeq(s, 1, n), 1, m) = SubSeq(s, 1, m)
  BY PrefixText, SamePrefix, LenText

\* Below the size of the cache a position is its own slot and attends to all
\* positions before it.
LEMMA NoEviction ==
  ASSUME NEW pos \in 0..(Context - 1)
  PROVE  /\ RingSlot(pos) = pos /\ Attends(pos) = 0..(pos - 1)
         /\ \A q \in 0..(pos - 1) : RingSlot(q) = q
  BY ContextAssumption DEF RingSlot, Attends, Live

LEMMA ContinuesIsHolds ==
  ASSUME NEW pos \in 0..(Context - 1) PROVE Continues(pos) <=> Holds(tokens, pos)
  BY NoEviction DEF Continues, Holds, Prefix

LEMMA WriteHolds ==
  ASSUME TypeInv, NEW pos \in Nat, NEW n \in Nat, pos + n <= Len(tokens), pos + n < Context,
         Holds(tokens, pos), Write(pos, n)
  PROVE  /\ \A q \in 0..(pos + n - 1) : kv'[q] = SubSeq(tokens, 1, q + 1)
         /\ Recurrent => recurrent' = SubSeq(tokens, 1, pos + n)
<1>0. Context \in Nat /\ tokens \in Text /\ Len(tokens) \in Nat /\ pos \in 0..(Context - 1)
  BY ContextAssumption, LenText DEF TypeInv, TypeOK
<1>1. Continues(pos)
  BY <1>0, ContinuesIsHolds
<1>2. ASSUME NEW q \in 0..(pos + n - 1)
      PROVE  kv'[q] = SubSeq(tokens, 1, q + 1)
  <2>0. q \in Slot
    BY <1>0 DEF Slot
  <2>1. \A r \in pos..(pos + n - 1) : RingSlot(r) = r
    BY <1>0, NoEviction
  <2>2. CASE q >= pos
    <3>1. q \in pos..(pos + n - 1)
      BY <2>2
    <3> DEFINE fed == CHOOSE r \in pos..(pos + n - 1) : q = RingSlot(r)
    <3>2. fed = q
      BY <2>1, <3>1
    <3>3. \E r \in pos..(pos + n - 1) : q = RingSlot(r)
      BY <2>1, <3>1
    <3>4. kv'[q] = SubSeq(tokens, 1, 1 + fed)
      BY <1>1, <2>0, <3>3 DEF Write, Prefix
    <3> HIDE DEF fed
    <3> QED
      BY <3>1, <3>2, <3>4
  <2>3. CASE q < pos
    <3>1. ~\E r \in pos..(pos + n - 1) : q = RingSlot(r)
      BY <2>1, <2>3
    <3>2. kv'[q] = kv[q]
      BY <2>0, <3>1 DEF Write
    <3>3. q \in 0..(pos - 1)
      BY <1>0, <2>3
    <3> QED
      BY <3>2, <3>3 DEF Holds
  <2> QED
    BY <2>2, <2>3
<1>3. ASSUME Recurrent PROVE recurrent' = SubSeq(tokens, 1, pos + n)
  <2>1. recurrent' = SubSeq(tokens, 1, pos) \o SubSeq(tokens, pos + 1, pos + n)
    BY <1>3 DEF Write, Holds
  <2> QED
    BY <1>0, <2>1, ConcatAdjacentSubSeq DEF Text
<1> QED
  BY <1>2, <1>3

\* An iteration of a generation whose state is that of its text.
LEMMA FeedHolds ==
  ASSUME Lossless, TypeInv, CacheInv, pc = "feed",
         NEW pos \in 0..start_pos, Recurrent => pos = start_pos,
         NEW next \in start_pos..Len(tokens), Feed(pos, next - pos, next)
  PROVE  /\ CacheInv'
         /\ \/ pc' = "feed" /\ tokens' = tokens
            \/ /\ pc' = "yield" /\ out' = tokens
               /\ \E tok \in Token : tokens' = Append(tokens, tok)
<1>0. /\ tokens \in Text /\ Len(tokens) \in Nat /\ Len(tokens) < Context
      /\ start_pos \in Nat /\ Context \in Nat /\ next \in Nat /\ next - pos \in Nat
      /\ pos + (next - pos) = next /\ pos \in 0..(Context - 1)
  BY LenText, ContextAssumption DEF TypeInv, TypeOK, Lossless
<1>1. Holds(tokens, pos)
  BY <1>0 DEF CacheInv, Holds
<1>2. /\ Write(pos, next - pos) /\ start_pos' = next /\ Emit(next)
      /\ out' = IF Continues(pos) THEN Prefix(pos + (next - pos)) ELSE <<>>
  BY DEF Feed, Lossless
<1>3. /\ \A q \in 0..(next - 1) : kv'[q] = SubSeq(tokens, 1, q + 1)
      /\ Recurrent => recurrent' = SubSeq(tokens, 1, next)
  BY <1>0, <1>1, <1>2, WriteHolds
<1>4. CASE next < Len(tokens)
  <2>1. tokens' = tokens /\ pc' = "feed" /\ start_pos' = next
    BY <1>2, <1>4 DEF Emit
  <2>2. \A q \in 0..(start_pos' - 1) : kv'[q] = SubSeq(tokens', 1, q + 1)
    BY <1>3, <2>1
  <2>3. Holds(tokens, start_pos)'
    BY <1>3, <2>1, <2>2 DEF Holds
  <2> QED
    BY <2>1, <2>3 DEF CacheInv
<1>5. CASE next = Len(tokens)
  <2>1. PICK tok \in Token : /\ tokens' = Append(tokens, tok) /\ cached' = tokens
                             /\ pc' = "yield"
    BY <1>2, <1>5 DEF Emit
  <2>2. out' = tokens /\ SubSeq(tokens, 1, next) = tokens
    BY <1>0, <1>1, <1>2, <1>5, ContinuesIsHolds, WholeText DEF Prefix
  <2>3. SubSeq(tokens', 1, start_pos') = tokens
    BY <1>0, <1>2, <1>5, <2>1, <2>2, AppendPrefix
  <2> QED
    BY <1>2, <1>3, <1>5, <2>1, <2>2, <2>3 DEF CacheInv, Holds
<1> QED
  BY <1>0, <1>4, <1>5

LEMMA IterateHolds ==
  ASSUME Lossless, TypeInv, CacheInv, Iterate
  PROVE  /\ CacheInv' /\ pc = "feed"
         /\ \/ pc' = "feed" /\ tokens' = tokens
            \/ /\ pc' = "yield" /\ out' = tokens
               /\ \E tok \in Token : tokens' = Append(tokens, tok)
<1>0. /\ pc = "feed" /\ start_pos < Len(tokens)
      /\ Len(tokens) \in Nat /\ start_pos \in Nat /\ prompt_len \in 0..(Context - 1)
      /\ prompt_len <= Len(tokens) /\ Ubatch \in Nat \ {0} /\ ChunkSize \in Nat /\ Context \in Nat
      /\ (Recurrent => Ubatch > Context)
  BY LenText, ContextAssumption, ModelAssumption
     DEF TypeInv, TypeOK, Progress, Iterate, FeedBatch, FeedTail, FeedRing, FeedChunk
<1>1. CASE FeedBatch
  <2>1. (start_pos + Ubatch) - start_pos = Ubatch
        /\ start_pos + Ubatch \in start_pos..Len(tokens)
    BY <1>0, <1>1 DEF FeedBatch, Remaining
  <2> QED
    BY <1>0, <1>1, <2>1, FeedHolds DEF FeedBatch
<1>2. CASE FeedTail
  <2>1. /\ prompt_len - (prompt_len - Ubatch) = Ubatch
        /\ prompt_len \in start_pos..Len(tokens)
        /\ prompt_len - Ubatch \in 0..start_pos
        /\ ~Recurrent
    BY <1>0, <1>2 DEF FeedTail, Remaining
  <2> QED
    BY <1>0, <1>2, <2>1, FeedHolds DEF FeedTail
<1>3. CASE FeedRing
  BY <1>3 DEF FeedRing, Lossless
<1>4. CASE FeedChunk
  <2>1. /\ (start_pos + ChunkLen) - start_pos = ChunkLen
        /\ start_pos + ChunkLen \in start_pos..Len(tokens)
    BY <1>0 DEF ChunkLen
  <2> QED
    BY <1>0, <1>4, <2>1, FeedHolds DEF FeedChunk
<1> QED
  BY <1>0, <1>1, <1>2, <1>3, <1>4 DEF Iterate

LEMMA InitHolds == ASSUME Init PROVE CacheInv
  BY EmptyText, NoText DEF Init, CacheInv, Holds

LEMMA GenerateHolds ==
  ASSUME Lossless, TypeInv, CacheInv, NEW prompt \in Prompts, Generate(prompt)
  PROVE  CacheInv'
<1>0. /\ cached \in Text /\ Len(cached) \in Nat
      /\ prompt \in Text /\ Len(prompt) \in Nat /\ Holds(cached, Len(cached))
  BY LenText, PromptText DEF TypeInv, TypeOK, CacheInv, Generate
<1>1. PICK k \in 0..Len(cached) :
        /\ Shared(prompt, k)
        /\ recurrent' = IF Recurrent /\ Reusable(k) < Len(cached) THEN <<>> ELSE recurrent
        /\ \/ prompt = <<>> /\ Idle
           \/ /\ prompt # <<>>
              /\ pc' = "feed" /\ tokens' = prompt /\ start_pos' = Reusable(k)
  BY DEF Generate
<1>2. kv' = kv /\ cached' = cached
  BY DEF Generate
<1>3. CASE prompt = <<>>
  <2>1. ~Recurrent
    BY <1>3, ContextAssumption DEF Lossless, Prompts
  <2> QED
    BY <1>0, <1>1, <1>2, <1>3, <2>1 DEF CacheInv, Holds, Idle
<1>4. CASE prompt # <<>>
  <2>1. Len(prompt) > 0
    BY <1>0, <1>4, EmptySeq DEF Text
  <2>2. k <= Len(prompt) /\ \A i \in 1..k : prompt[i] = cached[i]
    BY <1>0, <1>1, <2>1 DEF Shared
  <2>3. \A m \in 0..k : SubSeq(prompt, 1, m) = SubSeq(cached, 1, m)
    BY <1>0, <2>2, SamePrefix
  <2>4. Reusable(k) \in 0..k
    BY DEF Reusable
  <2>5. ASSUME NEW q \in 0..(Reusable(k) - 1)
        PROVE  kv'[q] = SubSeq(prompt, 1, q + 1)
    <3>1. q \in 0..(Len(cached) - 1) /\ q + 1 \in 0..k
      BY <1>0, <2>4
    <3>2. kv[q] = SubSeq(cached, 1, q + 1)
      BY <1>0, <3>1 DEF Holds
    <3> QED
      BY <1>2, <2>3, <3>1, <3>2
  <2>6. ASSUME Recurrent PROVE recurrent' = SubSeq(prompt, 1, Reusable(k))
    <3>1. CASE k = Len(cached)
      BY <1>0, <1>1, <2>3, <2>6, <3>1 DEF Reusable, Holds
    <3>2. CASE k # Len(cached)
      <4>1. Reusable(k) = 0 /\ 0 < Len(cached)
        BY <1>0, <2>6, <3>2 DEF Reusable
      <4> QED
        BY <1>1, <2>6, <4>1, NoText
    <3> QED
      BY <3>1, <3>2
  <2> QED
    BY <1>1, <1>4, <2>5, <2>6 DEF CacheInv, Holds
<1> QED
  BY <1>3, <1>4

LEMMA WarmupHolds == ASSUME TypeInv, CacheInv, Warmup PROVE CacheInv'
<1>1. PICK tok \in Token :
        cached' = IF Context > 2 THEN <<WarmToken, tok>> ELSE <<WarmToken>>
  BY DEF Warmup
<1>2. /\ cached' \in Text /\ SubSeq(cached', 1, Len(cached')) = cached'
      /\ Len(cached') = IF Context > 2 THEN 2 ELSE 1
  BY <1>1, TokenAssumption, WholeText DEF Text
<1>3. PICK flash \in BOOLEAN :
        kv' = [s \in Slot |->
                IF flash /\ s = IF SplitSize < Context - 1 THEN SplitSize ELSE Context - 1
                THEN <<>>
                ELSE IF s < Len(cached') THEN SubSeq(cached', 1, s + 1)
                ELSE kv[s]]
  BY DEF Warmup
<1>4. ASSUME NEW q \in 0..(Len(cached') - 1)
      PROVE  kv'[q] = SubSeq(cached', 1, q + 1)
  <2>1. q \in Slot /\ q < Len(cached') /\ q < SplitSize /\ q < Context - 1
    BY <1>2, ContextAssumption DEF Slot
  <2> QED
    BY <1>3, <2>1, ContextAssumption
<1>5. pc' = "idle" /\ (Recurrent => recurrent' = cached')
  BY DEF Warmup, genVars
<1> QED
  BY <1>2, <1>4, <1>5 DEF CacheInv, Holds

LEMMA HoldsStep == ASSUME Lossless, TypeInv, CacheInv, [Next]_vars PROVE CacheInv'
<1>1. CASE \E prompt \in Prompts : Generate(prompt)
  BY <1>1, GenerateHolds
<1>2. CASE Iterate
  BY <1>2, IterateHolds
<1>3. CASE Resume
  <2>0. /\ tokens \in Text /\ start_pos \in 0..Len(tokens) /\ Len(tokens) \in Nat
        /\ Holds(cached, Len(cached)) /\ cached = SubSeq(tokens, 1, start_pos)
    BY <1>3, LenText DEF Resume, CacheInv, TypeInv, TypeOK
  <2>1. Len(cached) = start_pos
    BY <2>0, PrefixText
  <2>2. Holds(tokens, start_pos)
    BY <2>0, <2>1, PrefixOfPrefix DEF Holds
  <2> QED
    BY <1>3, <2>2 DEF Resume, modelVars, CacheInv, Holds
<1>4. CASE Finish
  BY <1>4 DEF Finish, Idle, modelVars, CacheInv, Holds
<1>5. CASE ClearCache
  BY <1>5, EmptyText, NoText DEF ClearCache, genVars, CacheInv, Holds
<1>6. CASE Warmup
  BY <1>6, WarmupHolds
<1>7. CASE UNCHANGED vars
  BY <1>7 DEF vars, modelVars, genVars, CacheInv, Holds
<1> QED
  BY <1>1, <1>2, <1>3, <1>4, <1>5, <1>6, <1>7 DEF Next

LEMMA Invariants == Spec => [](TypeInv /\ (Lossless => CacheInv))
<1>1. Init => TypeInv /\ (Lossless => CacheInv)
  BY TypeInit, InitHolds
<1>2. TypeInv /\ (Lossless => CacheInv) /\ [Next]_vars
        => (TypeInv /\ (Lossless => CacheInv))'
  <2>1. Lossless' = Lossless
    BY DEF Lossless
  <2> QED
    BY <2>1, TypeStep, HoldsStep
<1> QED
  BY <1>1, <1>2, PTL DEF Spec

\* get_start_pos and _cached_tokens: whatever was generated, cleared and warmed up
\* before, a generation skips only positions whose state on the device is that of
\* its own text.
THEOREM ReuseIsSound == Spec => [](Lossless => ReuseIsValid)
<1>1. TypeInv /\ (Lossless => CacheInv) => (Lossless => ReuseIsValid)
  <2> SUFFICES ASSUME Lossless, TypeInv, CacheInv, pc = "feed"
               PROVE  Continues(start_pos)
    BY DEF ReuseIsValid
  <2>1. start_pos \in 0..(Context - 1) /\ Holds(tokens, start_pos)
    BY LenText, ContextAssumption DEF TypeInv, TypeOK, Lossless, CacheInv
  <2> QED
    BY <2>1, ContinuesIsHolds
<1> QED
  BY <1>1, Invariants, PTL

\* The tokens of a generation that reuses the cache are those of one that
\* recomputes the whole text for every token.
THEOREM ReuseIsInvisible == ASSUME Lossless PROVE Spec => GeneratesFresh
<1> DEFINE seen == IF pc = "yield" THEN out ELSE <<>>
<1>1. Init => Fresh!Init
  BY DEF Init, Fresh!Init
<1>2. ASSUME TypeInv, TypeInv', CacheInv, [Next]_vars
      PROVE  [Fresh!Next]_<<tokens, seen>>
  <2>1. CASE \E prompt \in Prompts : Generate(prompt)
    BY <1>2, <2>1 DEF Generate, Idle, Fresh!Next, Fresh!Begin, Fresh!End, TypeInv, TypeOK, Progress, Text
  <2>2. CASE Iterate
    BY <1>2, <2>2, IterateHolds DEF Fresh!Next, Fresh!Sample
  <2>3. CASE Resume
    BY <1>2, <2>3 DEF Resume, Fresh!Next, Fresh!Ask
  <2>4. CASE Finish
    BY <2>4 DEF Finish, Idle, Fresh!Next, Fresh!End
  <2>5. CASE ClearCache \/ Warmup \/ UNCHANGED vars
    BY <2>5 DEF ClearCache, Warmup, vars, genVars
  <2> QED
    BY <1>2, <2>1, <2>2, <2>3, <2>4, <2>5 DEF Next
<1>3. (TypeInv /\ (Lossless => CacheInv)) /\ (TypeInv /\ (Lossless => CacheInv))'
        /\ [Next]_vars => [Fresh!Next]_<<tokens, seen>>
  BY <1>2
<1> QED
  BY <1>1, <1>3, Invariants, PTL DEF Spec, GeneratesFresh, Fresh!Spec

-----------------------------------------------------------------------------
(* A generation keeps its window, also when the ring wraps and calls raise. *)

\* Two numbers less than w apart do not have the same remainder modulo w.
LEMMA ModDistinct ==
  ASSUME NEW w \in Nat \ {0}, NEW a \in Nat, NEW b \in Nat, a < b, b - a < w
  PROVE  a % w # b % w
<1> DEFINE x == a \div w
           y == b \div w
<1>1. /\ x \in Int /\ y \in Int
      /\ a = w * x + (a % w) /\ b = w * y + (b % w)
  OBVIOUS
<1> HIDE DEF x, y
<1> SUFFICES ASSUME a % w = b % w PROVE FALSE
  OBVIOUS
<1>2. b - a = w * (y - x)
  BY <1>1
<1> DEFINE z == y - x
<1>3. z \in Int /\ b - a = w * z
  BY <1>1, <1>2
<1> HIDE DEF z
<1>4. CASE z <= 0
  <2>1. w * z <= 0
    BY <1>3, <1>4
  <2> QED
    BY <1>3, <2>1
<1>5. CASE z >= 1
  <2>1. w * z >= w
    BY <1>3, <1>5
  <2> QED
    BY <1>3, <2>1
<1> QED
  BY <1>3, <1>4, <1>5

LEMMA RingSlotType == ASSUME NEW pos \in Nat PROVE RingSlot(pos) \in Slot
<1> DEFINE w == Context - Sinks
<1>0. w \in Nat \ {0} /\ Context = Sinks + w /\ Sinks \in Nat /\ Context \in Nat
  BY ContextAssumption
<1>1. RingSlot(pos) = IF pos < Context THEN pos ELSE Sinks + ((pos - Sinks) % w)
  BY DEF RingSlot
<1> HIDE DEF w
<1>2. \A a \in Nat : a % w \in 0..(w - 1)
  BY <1>0
<1>3. CASE pos < Context
  BY <1>0, <1>1, <1>3 DEF Slot
<1>4. CASE pos >= Context
  <2>1. pos - Sinks \in Nat
    BY <1>0, <1>4
  <2>2. (pos - Sinks) % w \in 0..(w - 1)
    BY <1>2, <2>1
  <2> QED
    BY <1>0, <1>1, <1>4, <2>2 DEF Slot
<1> QED
  BY <1>0, <1>3, <1>4

\* The slot that a position takes is not that of a position it attends to.
LEMMA RingDistinct ==
  ASSUME NEW pos \in Nat, NEW q \in Attends(pos)
  PROVE  q \in 0..(pos - 1) /\ RingSlot(q) # RingSlot(pos)
<1> DEFINE w == Context - Sinks
<1>0. /\ q \in 0..(pos - 1) /\ (q < Sinks \/ pos < Context \/ q >= pos + 1 - w)
      /\ w \in Nat \ {0} /\ Context \in Nat /\ Sinks \in 0..(Context - 1)
  BY ContextAssumption DEF Attends, Live
<1>1. CASE pos < Context
  BY <1>0, <1>1 DEF RingSlot
<1>2. CASE pos >= Context
  <2>1. RingSlot(pos) = Sinks + ((pos - Sinks) % w) /\ RingSlot(pos) >= Sinks
    <3>1. \A a \in Nat : a % w \in Nat
      BY <1>0
    <3>2. RingSlot(pos) = Sinks + ((pos - Sinks) % w)
      BY <1>0, <1>2 DEF RingSlot
    <3>3. pos - Sinks \in Nat
      BY <1>0, <1>2
    <3> HIDE DEF w
    <3> QED
      BY <1>0, <3>1, <3>2, <3>3
  <2>2. CASE q < Sinks
    BY <1>0, <2>1, <2>2 DEF RingSlot
  <2>3. CASE q >= Sinks
    <3>1. RingSlot(q) = Sinks + ((q - Sinks) % w)
      <4>1. CASE q < Context
        <5>1. (q - Sinks) % w = q - Sinks
          BY <1>0, <2>3, <4>1
        <5> QED
          BY <1>0, <4>1, <5>1 DEF RingSlot
      <4> QED
        BY <1>0, <4>1 DEF RingSlot
    <3>2. (q - Sinks) % w # (pos - Sinks) % w
      <4>1. /\ q - Sinks \in Nat /\ pos - Sinks \in Nat /\ q - Sinks < pos - Sinks
            /\ (pos - Sinks) - (q - Sinks) < w
        BY <1>0, <1>2, <2>3
      <4> HIDE DEF w
      <4> QED
        BY <1>0, <4>1, ModDistinct
    <3>3. (q - Sinks) % w \in Int /\ (pos - Sinks) % w \in Int
      BY <1>0, <1>2, <2>3
    <3> HIDE DEF w
    <3> QED
      BY <1>0, <2>1, <3>1, <3>2, <3>3
  <2> QED
    BY <1>0, <2>2, <2>3
<1> QED
  BY <1>0, <1>1, <1>2

\* A generation whose text up to pos is in the cache feeds n more positions:
\* either none of them is evicted, or it is a single one.
LEMMA WriteWindow ==
  ASSUME TypeInv, NEW pos \in Nat, NEW n \in Nat \ {0}, pos + n <= Len(tokens),
         n = 1 \/ pos + n <= Context,
         Continues(pos), Write(pos, n)
  PROVE  \A q \in Live(pos + n) : kv'[RingSlot(q)] = SubSeq(tokens, 1, q + 1)
<1>0. Context \in Nat /\ tokens \in Text /\ Len(tokens) \in Nat
  BY ContextAssumption, LenText DEF TypeInv, TypeOK
<1>1. ASSUME NEW q \in pos..(pos + n - 1), NEW r \in pos..(pos + n - 1), RingSlot(q) = RingSlot(r)
      PROVE  q = r
  <2>1. CASE n = 1
    BY <2>1
  <2>2. CASE pos + n <= Context
    BY <1>0, <1>1, <2>2 DEF RingSlot
  <2> QED
    BY <2>1, <2>2
<1>2. ASSUME NEW q \in pos..(pos + n - 1)
      PROVE  kv'[RingSlot(q)] = SubSeq(tokens, 1, q + 1)
  <2> DEFINE fed == CHOOSE r \in pos..(pos + n - 1) : RingSlot(q) = RingSlot(r)
  <2>1. fed = q
    BY <1>1
  <2>2. RingSlot(q) \in Slot
    BY RingSlotType
  <2>3. kv'[RingSlot(q)] = SubSeq(tokens, 1, 1 + fed)
    BY <2>2 DEF Write, Prefix
  <2> HIDE DEF fed
  <2> QED
    BY <2>1, <2>3
<1>3. ASSUME NEW q \in Live(pos + n), q < pos
      PROVE  kv'[RingSlot(q)] = SubSeq(tokens, 1, q + 1)
  <2>1. /\ q \in Nat /\ q \in Attends(pos)
        /\ \A r \in pos..(pos + n - 1) : RingSlot(q) # RingSlot(r)
    <3>1. CASE n = 1
      <4>1. q \in Attends(pos) /\ q \in Nat
        BY <1>3, <3>1 DEF Attends, Live
      <4> QED
        BY <3>1, <4>1, RingDistinct
    <3>2. CASE pos + n <= Context
      <4>1. q \in Attends(pos) /\ q \in Nat
        BY <1>0, <1>3, <3>2 DEF Attends, Live
      <4> QED
        BY <1>0, <1>3, <3>2, <4>1 DEF RingSlot
    <3> QED
      BY <3>1, <3>2
  <2>2. RingSlot(q) \in Slot
    BY <2>1, RingSlotType
  <2>3. kv'[RingSlot(q)] = kv[RingSlot(q)]
    BY <2>1, <2>2 DEF Write
  <2> QED
    BY <2>1, <2>3 DEF Continues, Prefix
<1> QED
  BY <1>2, <1>3 DEF Live

LEMMA FeedWindow ==
  ASSUME TypeInv, pc = "feed", NEW pos \in 0..start_pos,
         Continues(pos), pc' # "idle",
         NEW next \in (start_pos + 1)..Len(tokens), next - pos = 1 \/ next <= Context,
         Feed(pos, next - pos, next)
  PROVE  /\ \A q \in Live(start_pos') : kv'[RingSlot(q)] = SubSeq(tokens', 1, q + 1)
         /\ out' = SubSeq(tokens', 1, start_pos')
<1>0. /\ tokens \in Text /\ Len(tokens) \in Nat
      /\ start_pos \in Nat /\ next \in Nat /\ next - pos \in Nat \ {0}
      /\ pos + (next - pos) = next
  <2>1. tokens \in Text /\ start_pos \in 0..Len(tokens)
    BY DEF TypeInv, TypeOK
  <2>2. PICK n : n = Len(tokens)
    OBVIOUS
  <2>3. n \in Nat /\ start_pos \in 0..n /\ next \in (start_pos + 1)..n
    BY <2>1, <2>2, LenText
  <2> QED
    BY <2>1, <2>2, <2>3
<1>1. /\ Write(pos, next - pos) /\ start_pos' = next /\ Emit(next)
      /\ out' = Prefix(pos + (next - pos))
  BY DEF Feed, Idle
<1>2. \A q \in Live(next) : kv'[RingSlot(q)] = SubSeq(tokens, 1, q + 1)
  BY <1>0, <1>1, WriteWindow
<1>3. \A m \in 0..next : SubSeq(tokens', 1, m) = SubSeq(tokens, 1, m)
  <2>1. CASE next < Len(tokens)
    BY <1>1, <2>1 DEF Emit
  <2>2. CASE next = Len(tokens)
    <3>1. PICK t \in Token : tokens' = Append(tokens, t)
      BY <1>1, <2>2 DEF Emit
    <3>2. \A m \in 0..Len(tokens) : SubSeq(Append(tokens, t), 1, m) = SubSeq(tokens, 1, m)
      BY <1>0, AppendPrefix
    <3> QED
      BY <2>2, <3>1, <3>2
  <2> QED
    BY <1>0, <2>1, <2>2
<1>4. ASSUME NEW q \in Live(next) PROVE kv'[RingSlot(q)] = SubSeq(tokens', 1, q + 1)
  <2>1. q + 1 \in 0..next
    BY <1>0, <1>4 DEF Live
  <2> QED
    BY <1>2, <1>3, <2>1
<1>5. out' = SubSeq(tokens', 1, next)
  BY <1>0, <1>1, <1>3 DEF Prefix
<1> QED
  BY <1>1, <1>4, <1>5

\* The tail of the prompt starts before start_pos, where the cache holds the text
\* as well.
LEMMA ContinuesEarlier ==
  ASSUME NEW m \in 0..(Context - 1), NEW pos \in 0..m, Continues(m), ~Recurrent
  PROVE  Continues(pos)
<1>1. pos \in 0..(Context - 1)
  BY ContextAssumption
<1>2. Holds(tokens, m)
  BY ContinuesIsHolds
<1>3. Holds(tokens, pos)
  BY <1>2 DEF Holds
<1> QED
  BY <1>1, <1>3, ContinuesIsHolds

LEMMA IterateWindow ==
  ASSUME TypeInv, Iterate, pc' # "idle", Continues(start_pos)
  PROVE  /\ \A q \in Live(start_pos') : kv'[RingSlot(q)] = SubSeq(tokens', 1, q + 1)
         /\ out' = SubSeq(tokens', 1, start_pos')
<1>0. /\ pc = "feed" /\ start_pos < Len(tokens)
      /\ Len(tokens) \in Nat /\ start_pos \in Nat /\ prompt_len \in 0..(Context - 1)
      /\ prompt_len <= Len(tokens) /\ Ubatch \in Nat \ {0} /\ ChunkSize \in Nat \ {0}
      /\ Context \in Nat /\ (Recurrent => Ubatch > Context)
      /\ (Ring \/ Len(tokens) < Context)
      /\ (start_pos < prompt_len => Len(tokens) = prompt_len)
  BY LenText, ContextAssumption, ModelAssumption
     DEF TypeInv, TypeOK, Progress, Iterate, FeedBatch, FeedTail, FeedRing, FeedChunk
<1>1. CASE FeedBatch
  <2>1. /\ (start_pos + Ubatch) - start_pos = Ubatch /\ start_pos + Ubatch <= Context
        /\ start_pos + Ubatch \in (start_pos + 1)..Len(tokens)
    BY <1>0, <1>1 DEF FeedBatch, Remaining
  <2> QED
    BY <1>0, <1>1, <2>1, FeedWindow DEF FeedBatch
<1>2. CASE FeedTail
  <2>1. /\ prompt_len - (prompt_len - Ubatch) = Ubatch /\ prompt_len <= Context
        /\ prompt_len \in (start_pos + 1)..Len(tokens)
        /\ prompt_len - Ubatch \in 0..start_pos /\ start_pos \in 0..(Context - 1)
        /\ ~Recurrent
    BY <1>0, <1>2 DEF FeedTail, Remaining
  <2>2. Continues(prompt_len - Ubatch)
    BY <2>1, ContinuesEarlier
  <2> QED
    BY <1>0, <1>2, <2>1, <2>2, FeedWindow DEF FeedTail
<1>3. CASE FeedRing
  <2>1. (start_pos + 1) - start_pos = 1 /\ start_pos + 1 \in (start_pos + 1)..Len(tokens)
    BY <1>0
  <2> QED
    BY <1>0, <1>3, <2>1, FeedWindow DEF FeedRing
<1>4. CASE FeedChunk
  <2>1. /\ (start_pos + ChunkLen) - start_pos = ChunkLen
        /\ start_pos + ChunkLen \in (start_pos + 1)..Len(tokens)
    BY <1>0 DEF ChunkLen
  <2>2. start_pos + ChunkLen <= Context
    BY <1>0, <1>4, <2>1 DEF FeedChunk
  <2> QED
    BY <1>0, <1>4, <2>1, <2>2, FeedWindow DEF FeedChunk
<1> QED
  BY <1>0, <1>1, <1>2, <1>3, <1>4 DEF Iterate

\* _ring_slot: eviction never takes a sink or a position that the next token
\* attends to, and overlapping chunks rewrite what they overlap as it was.
THEOREM WindowIsKept == Spec => WindowKept
<1>1. TypeInv /\ [Next]_vars =>
        [pc = "feed" /\ pc' # "idle" /\ Continues(start_pos)
           => /\ \A q \in Live(start_pos') : kv'[RingSlot(q)] = SubSeq(tokens', 1, q + 1)
              /\ out' = SubSeq(tokens', 1, start_pos')]_vars
  BY IterateWindow DEF Next, Generate, Resume, Finish, ClearCache, Warmup
<1>2. TypeInv /\ [Next]_vars => TypeInv'
  BY TypeStep
<1> QED
  BY <1>1, <1>2, TypeInit, PTL DEF Spec, WindowKept
=============================================================================
