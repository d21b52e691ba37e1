-------------------------- MODULE MCDepotDownload --------------------------
(* Depots for TLC. *)
EXTENDS DepotDownload, TLC
CONSTANTS a, b, v1, v2, v3, A, B, C, X

(* One version with two files. *)
OneVersion == (v1 :> (a :> <<A, B>> @@ b :> <<C>>))
OneGid == (v1 :> 1)
OneMove == {<<NoVersion, v1>>, <<v1, v1>>}

(* Two updates: v2 changes one chunk of a, makes it longer and empties b; v3 *)
(* cuts a and drops b.                                                       *)
Update == (v1 :> (a :> <<A, B>> @@ b :> <<C>>))
       @@ (v2 :> (a :> <<A, C, X>> @@ b :> <<>>))
       @@ (v3 :> (a :> <<X>> @@ b :> NoFile))
UpdateGids == (v1 :> 1) @@ (v2 :> 2) @@ (v3 :> 3)
Forward == {<<NoVersion, v1>>, <<v1, v1>>, <<v1, v2>>, <<v2, v2>>}
Fork == Forward \cup {<<v1, v3>>, <<v3, v3>>}
Both == Forward \cup {<<v2, v1>>}

TwoGids == (v1 :> 1) @@ (v2 :> 2)

(* An update after which a has the same chunk twice. *)
Twice == (v1 :> (a :> <<A, B>> @@ b :> <<C>>)) @@ (v2 :> (a :> <<A, A>> @@ b :> <<C>>))

(* An update that changes one chunk of each file. *)
Switch == (v1 :> (a :> <<A>> @@ b :> <<B>>)) @@ (v2 :> (a :> <<X>> @@ b :> <<C>>))
=============================================================================
