--------------------------- MODULE MCDeviceGraph ----------------------------
(* Instances of DeviceGraph for TLC. *)
EXTENDS DeviceGraph

CONSTANTS gpu1, gpu2, gpu3

Whole(d) == [dev |-> d, base |-> 0, from |-> 0, to |-> 2]
Other(d) == [Whole(d) EXCEPT !.base = 1]

MCLane == [d \in Device |-> 0]

\* two allocations on one of the devices
TwoOnOne == {Whole(gpu1), Whole(gpu2), Whole(gpu3), Other(gpu3)}
=============================================================================
