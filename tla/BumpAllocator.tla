--------------------------- MODULE BumpAllocator ---------------------------
(***************************************************************************)
(* BumpAllocator of tinygrad/runtime/support/memory.py as operators on its *)
(* only mutable field that decides an address, ptr.  The base offset is    *)
(* added by the caller and the counter `wraps' is only ever compared before *)
(* and after one alloc, which is what BumpWraps says.                      *)
(***************************************************************************)
EXTENDS Naturals

\* helpers.round_up: the first multiple of align that is not below n.
RoundUp(n, align) == ((n + align - 1) \div align) * align

\* The test of alloc that sends it back to offset 0 (`wraps' is incremented).
BumpWraps(ptr, size, align, cap) == RoundUp(ptr, align) + size > cap

\* The offset alloc returns.
BumpOffset(ptr, size, align, cap) ==
  IF BumpWraps(ptr, size, align, cap) THEN RoundUp(0, align) ELSE RoundUp(ptr, align)

\* The value alloc leaves in ptr.
BumpPtr(ptr, size, align, cap) == BumpOffset(ptr, size, align, cap) + size
=============================================================================
