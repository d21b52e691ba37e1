----------------------------- MODULE MCEventBus -----------------------------
(* Instances of EventBus for TLC. *)
EXTENDS EventBus, TLC
CONSTANTS s1, s2, p1, p2

(* s1 asks for one type, s2 for all. *)
MCFilter == [s \in Subs |-> IF s = s1 THEN {"progress"} ELSE {}]
=============================================================================
