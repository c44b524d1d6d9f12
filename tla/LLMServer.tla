----------------------------- MODULE LLMServer -----------------------------
(***************************************************************************)
(* The threaded LLM server: Handler of tinygrad/llm/cli.py over the        *)
(* RuntimeState of tinygrad/llm/runtime_state.py.                          *)
(*                                                                         *)
(* Every request has a thread.  A chat checks that a model is loaded,      *)
(* encodes its prompt and compares it with max_context before it takes     *)
(* gen_lock; load, unload, warm-up and the clearing of the prefix cache    *)
(* take gen_lock first; a cancellation does not take it.  gen_lock is      *)
(* never waited for: a request that does not get it is refused.            *)
(*                                                                         *)
(* Threads switch between any two accesses to shared state.  pc[t] is what *)
(* thread t does next: "check", "encode", "guard", "acquire", "clear",     *)
(* "stream" and "gen" are the steps of a chat, "mutate" takes the lock for *)
(* the others, "unload", "forget", "load", "adopt", "context", "register"  *)
(* and "maintain" are what they do with it, "set" and "busy" are those of  *)
(* a cancellation.  A request that succeeded answers ("reply") before the  *)
(* finally clause releases the lock ("release"); one that raised releases  *)
(* it ("fail") before it answers ("error").                                *)
(*                                                                         *)
(* A definition whose name ends in Mutant is the one that follows it with  *)
(* a plausible bug; nothing refers to it.                                  *)
(***************************************************************************)
EXTENDS Integers

CONSTANTS
  Thread,      \* as many requests are served at the same time
  NoThread,    \* not a thread
  Model,       \* the registry
  NoModel,     \* not a model: None
  Limit,       \* [Model -> Nat]: the max_context of each model
  PromptLen,   \* lengths of encoded prompts
  MaxNew       \* max_tokens of a chat

ServerAssumption ==
  /\ NoThread \notin Thread /\ NoModel \notin Model
  /\ Limit \in [Model -> Nat]
  /\ PromptLen \subseteq Nat /\ MaxNew \in Nat \ {0}

VARIABLES
  model, tok,    \* s.model and s.tok: the loaded model, its tokenizer
  max_context,   \* s.max_context: of the model whose context it is
  status,        \* [Model -> the "status" of its registry row]
  gen_lock,      \* the thread that holds it
  cancel_event,
  pc,            \* [Thread -> what it does next]
  want,          \* [Thread -> the model it loads, NoModel for an unload]
  len,           \* [Thread -> length of its encoded prompt]
  gen,           \* [Thread -> the model that generates for it]
  out,           \* [Thread -> number of tokens passed on]
  asked          \* the threads whose generation a cancellation was meant for

stateVars == <<model, tok, max_context, status>>
reqVars   == <<want, len, gen, out>>
vars      == <<stateVars, gen_lock, cancel_event, pc, reqVars, asked>>

Critical == {"clear", "stream", "gen", "unload", "forget", "load", "adopt", "context",
             "register", "maintain", "reply", "release", "fail"}
Control  == Critical \cup {"idle", "check", "encode", "guard", "acquire", "mutate", "set",
                           "busy", "error"}

Goto(t, next) == pc' = [pc EXCEPT ![t] = next]

-----------------------------------------------------------------------------
(* A chat or a completion. *)

Chat(t) ==
  /\ pc[t] = "idle"
  /\ Goto(t, "check")
  /\ UNCHANGED <<stateVars, gen_lock, cancel_event, reqVars, asked>>

Check(t) ==
  /\ pc[t] = "check"
  /\ Goto(t, IF model = NoModel THEN "error" ELSE "encode")
  /\ UNCHANGED <<stateVars, gen_lock, cancel_event, reqVars, asked>>

\* Without a tokenizer, because the model was unloaded meanwhile, it raises.
Encode(t) ==
  /\ pc[t] = "encode"
  /\ IF tok = NoModel
     THEN Goto(t, "error") /\ UNCHANGED len
     ELSE \E n \in PromptLen : Goto(t, "guard") /\ len' = [len EXCEPT ![t] = n]
  /\ UNCHANGED <<stateVars, gen_lock, cancel_event, want, gen, out, asked>>

\* _guard_context; comparing with None raises.
Guard(t) ==
  /\ pc[t] = "guard"
  /\ Goto(t, IF max_context = NoModel \/ len[t] >= Limit[max_context]
             THEN "error" ELSE "acquire")
  /\ UNCHANGED <<stateVars, gen_lock, cancel_event, reqVars, asked>>

\* The refused request enters the try block whose finally releases the lock.
TakeMutant(t, next) ==
  /\ IF gen_lock = NoThread THEN gen_lock' = t /\ Goto(t, next)
                            ELSE Goto(t, "fail") /\ UNCHANGED gen_lock
  /\ asked' = asked \ {t}
\* gen_lock.acquire(blocking=False)
Take(t, next) ==
  /\ IF gen_lock = NoThread THEN gen_lock' = t /\ Goto(t, next)
                            ELSE Goto(t, "error") /\ UNCHANGED gen_lock
  /\ asked' = asked \ {t}

Acquire(t) ==
  /\ pc[t] = "acquire"
  /\ Take(t, "clear")
  /\ UNCHANGED <<stateVars, cancel_event, reqVars>>

\* The cancellation of an earlier generation stays.
ClearMutant(t) ==
  /\ pc[t] = "clear"
  /\ Goto(t, "stream")
  /\ UNCHANGED <<stateVars, gen_lock, cancel_event, reqVars, asked>>
\* _acquire_gen, cancel_event.clear()
Clear(t) ==
  /\ pc[t] = "clear"
  /\ cancel_event' = FALSE
  /\ Goto(t, "stream")
  /\ UNCHANGED <<stateVars, gen_lock, reqVars, asked>>

\* _stream_tokens up to its loop: reads s.model and s.tok.  A prompt that is
\* longer than the context of the model raises.
Stream(t) ==
  /\ pc[t] = "stream"
  /\ IF model = NoModel \/ len[t] > Limit[model]
     THEN Goto(t, "fail") /\ UNCHANGED <<gen, out>>
     ELSE Goto(t, "gen") /\ gen' = [gen EXCEPT ![t] = model] /\ out' = [out EXCEPT ![t] = 0]
  /\ UNCHANGED <<stateVars, gen_lock, cancel_event, want, len, asked>>

\* One token of the loop, which may be the last one asked for; or the end of the
\* loop, because no room is left or the token is an end token; or generate
\* raises, or the client went away.
Token(t) ==
  /\ pc[t] = "gen"
  /\ \/ /\ len[t] + out[t] < Limit[gen[t]] /\ ~cancel_event
        /\ out' = [out EXCEPT ![t] = @ + 1]
        /\ Goto(t, IF out[t] + 1 >= MaxNew THEN "reply" ELSE "gen")
     \/ /\ len[t] + out[t] >= Limit[gen[t]] \/ ~cancel_event
        /\ Goto(t, "reply") /\ UNCHANGED out
     \/ Goto(t, "fail") /\ UNCHANGED out
  /\ UNCHANGED <<stateVars, gen_lock, cancel_event, want, len, gen, asked>>

\* finish_reason = "cancelled"
Cancelled(t) ==
  /\ pc[t] = "gen" /\ cancel_event
  /\ len[t] + out[t] < Limit[gen[t]]
  /\ Goto(t, "reply")
  /\ UNCHANGED <<stateVars, gen_lock, cancel_event, reqVars, asked>>

-----------------------------------------------------------------------------
(* Answers. *)

Reply(t) ==
  /\ pc[t] = "reply"
  /\ Goto(t, "release")
  /\ UNCHANGED <<stateVars, gen_lock, cancel_event, reqVars, asked>>

\* A request that raised keeps the lock.
ReleaseMutant(t) ==
  /\ pc[t] \in {"release", "fail"}
  /\ gen_lock' = IF pc[t] = "release" THEN NoThread ELSE gen_lock
  /\ Goto(t, IF pc[t] = "release" THEN "idle" ELSE "error")
  /\ gen' = [gen EXCEPT ![t] = NoModel] /\ out' = [out EXCEPT ![t] = 0]
  /\ len' = [len EXCEPT ![t] = 0]
  /\ UNCHANGED <<stateVars, cancel_event, want, asked>>
Release(t) ==
  /\ pc[t] \in {"release", "fail"}
  /\ gen_lock' = NoThread
  /\ Goto(t, IF pc[t] = "release" THEN "idle" ELSE "error")
  /\ gen' = [gen EXCEPT ![t] = NoModel] /\ out' = [out EXCEPT ![t] = 0]
  /\ len' = [len EXCEPT ![t] = 0]
  /\ UNCHANGED <<stateVars, cancel_event, want, asked>>

Refuse(t) ==
  /\ pc[t] = "error"
  /\ Goto(t, "idle")
  /\ len' = [len EXCEPT ![t] = 0]
  /\ UNCHANGED <<stateVars, gen_lock, cancel_event, want, gen, out, asked>>

-----------------------------------------------------------------------------
(* Load, unload, warm-up, cache clear: _runtime_mutation. *)

Mutation(t) ==
  /\ pc[t] = "idle"
  /\ Goto(t, "mutate")
  /\ UNCHANGED <<stateVars, gen_lock, cancel_event, reqVars, asked>>

Mutate(t) ==
  /\ pc[t] = "mutate"
  /\ \/ Take(t, "unload") /\ want' \in {[want EXCEPT ![t] = m] : m \in Model \cup {NoModel}}
     \/ Take(t, "maintain") /\ UNCHANGED want
  /\ UNCHANGED <<stateVars, cancel_event, len, gen, out>>

\* warmup and clear_prefix_cache leave the runtime state alone; a warm-up raises
\* without a model, or in the model, and a load of an unknown model at once.
Maintain(t) ==
  /\ pc[t] = "maintain"
  /\ \E next \in {"reply", "fail"} : Goto(t, next)
  /\ UNCHANGED <<stateVars, gen_lock, cancel_event, reqVars, asked>>

\* The registry row stays "loaded".
UnloadMutant(t) ==
  /\ pc[t] = "unload"
  /\ model' = NoModel /\ tok' = NoModel
  /\ Goto(t, "forget")
  /\ UNCHANGED <<max_context, status, gen_lock, cancel_event, reqVars, asked>>
\* unload, which load calls when a model is loaded.
Unload(t) ==
  /\ pc[t] = "unload"
  /\ status' = IF model = NoModel \/ status[model] # "loaded"
               THEN status ELSE [status EXCEPT ![model] = "available"]
  /\ model' = NoModel /\ tok' = NoModel
  /\ Goto(t, "forget")
  /\ UNCHANGED <<max_context, gen_lock, cancel_event, reqVars, asked>>

Forget(t) ==
  /\ pc[t] = "forget"
  /\ max_context' = NoModel
  /\ Goto(t, IF want[t] = NoModel THEN "reply" ELSE "load")
  /\ UNCHANGED <<model, tok, status, gen_lock, cancel_event, reqVars, asked>>

\* load: fetch, from_gguf and the warm-up, any of which may raise.
Load(t) ==
  /\ pc[t] = "load"
  /\ status' = [status EXCEPT ![want[t]] = "loading"]
  /\ Goto(t, "adopt")
  /\ UNCHANGED <<model, tok, max_context, gen_lock, cancel_event, reqVars, asked>>

Adopt(t) ==
  /\ pc[t] = "adopt"
  /\ \/ /\ model' = want[t] /\ tok' = want[t]
        /\ Goto(t, "context") /\ UNCHANGED status
     \/ /\ status' = [status EXCEPT ![want[t]] = "error"]
        /\ Goto(t, "fail") /\ UNCHANGED <<model, tok>>
  /\ UNCHANGED <<max_context, gen_lock, cancel_event, reqVars, asked>>

AdoptContext(t) ==
  /\ pc[t] = "context"
  /\ max_context' = model
  /\ Goto(t, "register")
  /\ UNCHANGED <<model, tok, status, gen_lock, cancel_event, reqVars, asked>>

\* _register_loaded
Register(t) ==
  /\ pc[t] = "register"
  /\ status' = [status EXCEPT ![want[t]] = "loaded"]
  /\ Goto(t, "reply")
  /\ UNCHANGED <<model, tok, max_context, gen_lock, cancel_event, reqVars, asked>>

-----------------------------------------------------------------------------
(* Cancellation. *)

Cancel(t) ==
  /\ pc[t] = "idle"
  /\ Goto(t, "set")
  /\ UNCHANGED <<stateVars, gen_lock, cancel_event, reqVars, asked>>

\* cancel_event.set(); whoever generates now is the one that should stop.
CancelSet(t) ==
  /\ pc[t] = "set"
  /\ cancel_event' = TRUE
  /\ asked' = asked \cup {u \in Thread : gen_lock = u /\ pc[u] \in {"clear", "stream", "gen"}}
  /\ Goto(t, "busy")
  /\ UNCHANGED <<stateVars, gen_lock, reqVars>>

\* The answer tells whether the lock is held.
CancelReply(t) ==
  /\ pc[t] = "busy"
  /\ Goto(t, "idle")
  /\ UNCHANGED <<stateVars, gen_lock, cancel_event, reqVars, asked>>

-----------------------------------------------------------------------------
\* The server may be started with a model or without.
Init ==
  /\ model \in Model \cup {NoModel} /\ tok = model /\ max_context = model
  /\ status = [m \in Model |-> IF m = model THEN "loaded" ELSE "available"]
  /\ gen_lock = NoThread /\ cancel_event = FALSE
  /\ pc = [t \in Thread |-> "idle"]
  /\ want = [t \in Thread |-> NoModel] /\ len = [t \in Thread |-> 0]
  /\ gen = [t \in Thread |-> NoModel] /\ out = [t \in Thread |-> 0]
  /\ asked = {}

Arrive(t) == Chat(t) \/ Mutation(t) \/ Cancel(t)

Work(t) ==
  \/ Check(t) \/ Encode(t) \/ Guard(t) \/ Acquire(t) \/ Clear(t) \/ Stream(t)
  \/ Token(t) \/ Cancelled(t)
  \/ Mutate(t) \/ Maintain(t) \/ Unload(t) \/ Forget(t) \/ Load(t) \/ Adopt(t)
  \/ AdoptContext(t) \/ Register(t)
  \/ Reply(t) \/ Release(t) \/ Refuse(t)
  \/ CancelSet(t) \/ CancelReply(t)

Next == \E t \in Thread : Arrive(t) \/ Work(t)

\* Requests come or do not; a thread that serves one is scheduled.
Spec == Init /\ [][Next]_vars /\ \A t \in Thread : WF_vars(Work(t))

-----------------------------------------------------------------------------
(* Properties. *)

TypeOK ==
  /\ {model, tok, max_context} \subseteq Model \cup {NoModel}
  /\ status \in [Model -> {"available", "loading", "loaded", "error"}]
  /\ gen_lock \in Thread \cup {NoThread}
  /\ cancel_event \in BOOLEAN
  /\ pc \in [Thread -> Control]
  /\ want \in [Thread -> Model \cup {NoModel}]
  /\ len \in [Thread -> PromptLen \cup {0}]
  /\ gen \in [Thread -> Model \cup {NoModel}]
  /\ out \in [Thread -> 0..MaxNew]
  /\ asked \subseteq Thread

\* "a single shared model/KV cache must never be touched by two requests at once":
\* whoever uses the model or changes it holds gen_lock, and the model of a
\* generation stays loaded, with its tokenizer and registry row, until it ends.
ModelIsMine ==
  \A t \in Thread :
    /\ pc[t] \in Critical => gen_lock = t
    /\ pc[t] = "gen" => /\ gen[t] # NoModel /\ gen[t] = model /\ tok = model
                        /\ status[model] = "loaded"

\* Between two requests the registry, the model, its tokenizer and its context
\* tell the same, whatever loads failed before.
RegistryTellsLoaded ==
  gen_lock = NoThread =>
    /\ tok = model /\ max_context = model
    /\ \A m \in Model : /\ status[m] = "loaded" <=> m = model
                        /\ status[m] # "loading"

\* A cancellation stops only the generation it was meant for: one that arrived
\* before a generation began never cuts that generation short.
CancelledWasAsked == [][\A t \in Thread : Cancelled(t) => t \in asked]_vars

\* No request keeps gen_lock for ever, however it ends.
LockComesBack == \A t \in Thread : gen_lock = t ~> gen_lock # t

\* "explicit prompt-token overflow guard BEFORE Transformer.generate": a prompt that
\* a thread hands to generate leaves room for one token in the model that runs it.  A
\* load in between makes it fail (README, section 4).
PromptFits == \A t \in Thread : pc[t] = "stream" /\ model # NoModel => len[t] < Limit[model]
=============================================================================
