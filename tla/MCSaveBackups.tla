---------------------------- MODULE MCSaveBackups ----------------------------
(* Locations for TLC. *)
EXTENDS SaveBackups, TLC

Symmetric == Permutations(Callers)

(* A portable save directory, and one that only the database names. *)
Own == {[area |-> "game", dir |-> "", base |-> "saves", source |-> "disk"],
        [area |-> "documents", dir |-> "My Games", base |-> "Game", source |-> "database"]}

(* The two directories of the emulator for one application. *)
Emulated == {[area |-> "gse", dir |-> "", base |-> "remote", source |-> "disk"],
             [area |-> "gse", dir |-> "", base |-> "stats", source |-> "disk"]}

(* Two directories of the same name. *)
Namesakes == {[area |-> "game", dir |-> "", base |-> "saves", source |-> "disk"],
              [area |-> "documents", dir |-> "Game", base |-> "saves", source |-> "database"]}
=============================================================================
