---------------------------- MODULE MCGameRunner ----------------------------
(* Instances of GameRunner for TLC. *)
EXTENDS GameRunner, TLC
CONSTANTS l1, l2

(* One game, of two profiles. *)
OneGame == [l \in Launches |-> "g1"]
TwoProfiles == [l \in Launches |-> IF l = l2 THEN "p2" ELSE "main"]

(* Two games of one profile. *)
TwoGames == [l \in Launches |-> IF l = l1 THEN "g1" ELSE "g2"]
OneProfile == [l \in Launches |-> "main"]
=============================================================================
