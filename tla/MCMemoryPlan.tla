---------------------------- MODULE MCMemoryPlan ----------------------------
(* The planner for TLC: buffers are interchangeable.                       *)
EXTENDS MemoryPlan, TLC

BufferSymmetry == Permutations(Buffer)
=============================================================================
