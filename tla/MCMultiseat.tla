---------------------------- MODULE MCMultiseat ----------------------------
(* Seats for TLC: p1 uses the desktop's devices, p2 has its own. *)
EXTENDS Multiseat

OneDevice == [p1 |-> {}, p2 |-> {"keyboard"}]
TwoDevices == [p1 |-> {}, p2 |-> {"keyboard", "mouse"}]
=============================================================================
