--------------------------- MODULE MCSimdHashMap ---------------------------
(* Instances of SimdHashMap for TLC, with the keys of MCSimdHashCore.      *)
EXTENDS SimdHashMap, MCSimdHashCore

\* The probes and the limits of these instances are as those of the source in
\* Mode::Fast, where 4096 slots and more leave room for a vector of 16.
ASSUME InstanceAssumption == ProbesCover /\ RoomLeft

\* As View, with what the client knows.
MapView == <<View, fresh>>
=============================================================================
