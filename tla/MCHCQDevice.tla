---------------------------- MODULE MCHCQDevice ----------------------------
(***************************************************************************)
(* A group of devices for TLC: its buffers are interchangeable.              *)
(***************************************************************************)
EXTENDS HCQDevice, TLC

BufferSymmetry == Permutations(Buffer)
=============================================================================
