---------------------------- MODULE ProgramOrder ----------------------------
(***************************************************************************)
(* What the queues of all devices together promise to the program: a       *)
(* submission takes effect only after every earlier submission that        *)
(* involves one of its devices.  Submissions are numbered in program       *)
(* order; `touch' is the set of devices one involves (two for a transfer). *)
(***************************************************************************)
EXTENDS Naturals

CONSTANT Device

VARIABLES outstanding, issued

TypeOK ==
  /\ issued \in Nat
  /\ outstanding \subseteq [no : Nat, touch : SUBSET Device]

Init == outstanding = {} /\ issued = 0

Submit(touch) ==
  /\ outstanding' = outstanding \cup {[no |-> issued, touch |-> touch]}
  /\ issued' = issued + 1

Earlier(v, w) == v.no < w.no /\ v.touch \cap w.touch # {}

Retire(w) ==
  /\ w \in outstanding
  /\ ~\E v \in outstanding : Earlier(v, w)
  /\ outstanding' = outstanding \ {w}
  /\ UNCHANGED issued

Next == \/ \E touch \in SUBSET Device : Submit(touch)
        \/ \E w \in outstanding : Retire(w)

Spec == Init /\ [][Next]_<<outstanding, issued>>
=============================================================================
