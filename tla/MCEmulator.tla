----------------------------- MODULE MCEmulator -----------------------------
(* Regimes for TLC. *)
EXTENDS Emulator

Clean == {"kept", "uncreated", "stuck"}

(* Every operation in any order on either platform; updates only of an     *)
(* unpatched game.                                                         *)
Careful == [platforms |-> Platforms, client |-> FALSE, modes |-> AllModes,
            faults |-> Clean, patched |-> FALSE]

(* Portable mode over and over, across updates, with torn copies.          *)
Portable == [platforms |-> {"linux"}, client |-> TRUE, modes |-> {"portable"},
             faults |-> Clean \cup {"torn"}, patched |-> TRUE]

Usual == {Careful, Portable}

(* Regimes in which what the code's comments promise does not hold.        *)
Upgrade == {[platforms |-> Platforms, client |-> FALSE, modes |-> {"portable", "revert"},
             faults |-> {}, patched |-> TRUE]}
TornCopies == {[platforms |-> Platforms, client |-> FALSE, modes |-> {"portable", "revert"},
                faults |-> {"torn"}, patched |-> FALSE]}
LoaderUpdate == {[platforms |-> Platforms, client |-> FALSE, modes |-> {"portable", "loader"},
                  faults |-> {}, patched |-> TRUE]}
ClientOnWindows == {[platforms |-> {"windows"}, client |-> TRUE, modes |-> AllModes,
                     faults |-> {}, patched |-> FALSE]}
=============================================================================
