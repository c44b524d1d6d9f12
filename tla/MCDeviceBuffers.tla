-------------------------- MODULE MCDeviceBuffers ---------------------------
(***************************************************************************)
(* Buffers for TLC: bases, views, memory and JITs are interchangeable.       *)
(***************************************************************************)
EXTENDS DeviceBuffers, TLC

BufferSymmetry ==
  Permutations(Base) \cup Permutations(View) \cup Permutations(Memory) \cup Permutations(Jit)

\* Memory of the device has one owner, or is cached once, and is mapped for peers only
\* while it has an owner (device.py:175-178, 537-550).
EachHasOneOwner == MemoryHasOneOwner /\ OnlyOwnersAreMapped

\* An initialized view lies where its base is now, and bases count such views
\* (device.py:129, 151-153).
ViewsFollowBases == ViewsAreFresh /\ ViewsAreCounted
=============================================================================
