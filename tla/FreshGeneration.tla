-------------------------- MODULE FreshGeneration --------------------------
(***************************************************************************)
(* What a generation promises whoever reads its tokens: every token was    *)
(* computed from the whole text before it, as a generation that recomputes *)
(* everything for every token would.  `seen' is the text that the last     *)
(* token was computed from, <<>> before there is one.                      *)
(***************************************************************************)
EXTENDS Sequences

CONSTANT Token

VARIABLES tokens, seen

Init == tokens = <<>> /\ seen = <<>>

\* A generation begins with its prompt.
Begin  == tokens = <<>> /\ tokens' \in Seq(Token) /\ seen' = <<>>
\* The consumer took the token and asks for another one.
Ask    == UNCHANGED tokens /\ seen' = <<>>
Sample == /\ \E tok \in Token : tokens' = Append(tokens, tok)
          /\ seen' = tokens
End    == tokens' = <<>> /\ seen' = <<>>

Next == Begin \/ Ask \/ Sample \/ End

Spec == Init /\ [][Next]_<<tokens, seen>>
=============================================================================
