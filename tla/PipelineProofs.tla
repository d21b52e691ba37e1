--------------------------- MODULE PipelineProofs ---------------------------
(***************************************************************************)
(* Proofs about the pipeline, for any number of runs: a run that fails or   *)
(* is cancelled puts back what it changed, and a finished run tells what is  *)
(* on the disk.                                                              *)
(***************************************************************************)
EXTENDS Pipeline, SequenceTheorems, TLAPS

Errors == {"fatal", "unpacker", "killed", "emulator"}

Shape ==
  /\ disk \in [Dirs -> Directories] /\ before \in [Dirs -> Directories] /\ cached \in [Dirs -> Directories]
  /\ pc \in {"idle", "run", "rollback", "done"} /\ cancelled \in BOOLEAN
  /\ executed \in Seq(Rollbackable)
  /\ opts \in [path : Dirs \cup {None}, dry : BOOLEAN, normalize : BOOLEAN, steamless : BOOLEAN, emulate : BOOLEAN]
  /\ game \in [dir : Dirs \cup {None}, profile : Dirs \cup {None}, touched : BOOLEAN]
  /\ results \in [normalized : BOOLEAN, orig : Dirs \cup {None}, renamed : Dirs \cup {None}, acf : BOOLEAN,
                  unpacked : BOOLEAN, patched : BOOLEAN, errors : SUBSET Errors, undoErrors : Nat]
  /\ private \in [acf : Dirs \cup {None}, orig : Dirs \cup {None}, renamed : Dirs \cup {None}]

Started == pc # "idle"
Early == Started /\ next <= Len(stages)
Clean == results.undoErrors = 0

(* The recipe and how far it is. *)
Recipe ==
  {<<"scan", "manifest", "normalize", "steamless", "gbe">>, <<"scan", "manifest", "verify">>,
   <<"scan", "update", "normalize", "steamless", "gbe">>, <<"scan", "revert">>, <<"scan", "normalize">>, <<"scan">>}

PlaceInv ==
  /\ ~Started => stages = <<>> /\ next = 1 /\ executed = <<>> /\ game.dir = None
  /\ Started => stages \in Recipe /\ opts.path \in Dirs /\ game.dir \in Dirs /\ before[opts.path].is # None
  /\ next \in 1 .. Len(stages) + 1
  /\ Len(executed) < next
  /\ pc = "rollback" => next <= Len(stages)
  /\ pc = "done" /\ next <= Len(stages) => executed = <<>>

(* The order of the stages in every recipe. *)
Rank(s) ==
  CASE s = "scan" -> 0 [] s = "update" -> 1 [] s = "manifest" -> 1 [] s = "normalize" -> 2 [] s = "steamless" -> 3
    [] s = "gbe" -> 4 [] OTHER -> 5

Has(s) == \E j \in DOMAIN executed : executed[j] = s

TrailInv ==
  /\ \A j \in DOMAIN executed : \E i \in 1..next - 1 : i <= Len(stages) /\ executed[j] = stages[i]
  /\ \A i, j \in DOMAIN executed : i < j => Rank(executed[i]) < Rank(executed[j])

Alike(r, is, man, profile, exe, bak) ==
  r.is = is /\ r.man = man /\ r.profile = profile /\ r.exe = exe /\ r.bak = bak

Nothing(r) == Alike(r, None, None, None, [e \in Exes |-> "packed"], {})

(* A profile is stored under the directory's own name, and there is nothing where no directory is. *)
DirectoryInv ==
  \A d \in Dirs :
    /\ disk[d].profile \in {None, d} /\ before[d].profile \in {None, d}
    /\ disk[d].is = None => Nothing(disk[d])
    /\ before[d].is = None => Nothing(before[d])

(* What a run has done and not undone is in its list of completed stages. *)
Moved == game.dir # opts.path
Made == results.acf /\ ~opts.dry

ListedInv ==
  Started /\ Clean =>
    /\ (Moved => Has("normalize")) /\ (Made => Has("manifest")) /\ (results.unpacked => Has("steamless"))
    /\ pc = "run" \/ Has("normalize") => (Moved <=> private.renamed # None)
    /\ pc = "run" \/ Has("manifest") => private.acf = IF Made THEN opts.path ELSE None

RunInv ==
  pc = "run" => Clean /\ disk[game.dir].is # None /\ (next > 1 => game.profile = opts.path)

(* The directory's name, and what was there at the new one. *)
MoveInv ==
  /\ private.renamed # None => private.orig = "raw" /\ private.renamed = "clean"
  /\ Started /\ Clean =>
       /\ ~opts.dry => (results.normalized <=> Moved)
       /\ Moved => /\ ~opts.dry /\ opts.path = "raw" /\ game.dir = "clean"
                   /\ private.orig = "raw" /\ private.renamed = "clean" /\ before["clean"].is = None

(* The ACF. *)
ManifestInv ==
  Started /\ Clean =>
    /\ disk[game.dir].man = IF Made THEN "synth" ELSE before[opts.path].man
    /\ Made => before[opts.path].man = None

(* Everything else, until the last stage has run. *)
Same(d) ==
  /\ disk[d].is = before[d].is /\ disk[d].man = before[d].man /\ disk[d].profile = before[d].profile
  /\ disk[d].exe = before[d].exe /\ disk[d].bak = before[d].bak

OthersInv == Early /\ Clean => \A d \in Dirs \ {opts.path, game.dir} : Same(d)

PlainInv ==
  Early /\ Clean =>
    /\ disk[game.dir].is = before[opts.path].is
    /\ ~Moved => disk[opts.path].profile \in {before[opts.path].profile, opts.path}

ExecutablesInv ==
  Early /\ Clean /\ "killed" \notin results.errors =>
    \A e \in Exes \ before[opts.path].bak :
      /\ e \in disk[game.dir].bak => results.unpacked
      /\ stages # Recipes["update"] =>
           IF e \in disk[game.dir].bak THEN before[opts.path].exe[e] = "packed"
           ELSE disk[game.dir].exe[e] = before[opts.path].exe[e]

UnpackedInv == Started /\ Clean /\ results.unpacked /\ opts.emulate => disk[game.dir].bak # {}

PipeInv ==
  /\ Shape /\ PlaceInv /\ TrailInv /\ DirectoryInv /\ ListedInv /\ RunInv /\ MoveInv /\ ManifestInv
  /\ OthersInv /\ PlainInv /\ ExecutablesInv /\ UnpackedInv /\ CacheFresh

-----------------------------------------------------------------------------
(* What the changes of a directory leave alone. *)

LEMMA MissingIs ==
  Missing \in Directories /\ Alike(Missing, None, None, None, [e \in Exes |-> "packed"], {})
BY DEF Missing, Directories, Alike, None

LEMMA FetchedIs ==
  ASSUME NEW r \in Directories, NEW v \in BOOLEAN
  PROVE  LET s == [r EXCEPT !.fetched = v] IN s \in Directories /\ Alike(s, r.is, r.man, r.profile, r.exe, r.bak)
BY DEF Directories, Alike

LEMMA ManifestIs ==
  ASSUME NEW r \in Directories, NEW m \in {None, "foreign", "inside", "synth"}
  PROVE  LET s == [r EXCEPT !.man = m] IN s \in Directories /\ Alike(s, r.is, m, r.profile, r.exe, r.bak)
BY DEF Directories, Alike

LEMMA EmuIs ==
  ASSUME NEW r \in Directories
  PROVE  LET s == [r EXCEPT !.emu = TRUE] IN s \in Directories /\ Alike(s, r.is, r.man, r.profile, r.exe, r.bak)
BY DEF Directories, Alike

LEMMA ExeIs ==
  ASSUME NEW r \in Directories, NEW x \in [Exes -> {"packed", "unpacked"}]
  PROVE  LET s == [r EXCEPT !.exe = x] IN s \in Directories /\ Alike(s, r.is, r.man, r.profile, x, r.bak)
BY DEF Directories, Alike

LEMMA BakIs ==
  ASSUME NEW r \in Directories, NEW b \in SUBSET Exes
  PROVE  LET s == [r EXCEPT !.bak = b] IN s \in Directories /\ Alike(s, r.is, r.man, r.profile, r.exe, b)
BY DEF Directories, Alike

LEMMA RevertedIs ==
  ASSUME NEW r \in Directories
  PROVE  /\ Reverted(r) \in Directories
         /\ Alike(Reverted(r), r.is, r.man, r.profile, [e \in Exes |-> IF e \in r.bak THEN "packed" ELSE r.exe[e]], {})
BY DEF Directories, Alike, Reverted, None

(* What a step makes of one directory; the others stay as they are. *)
Touch(d, is, man, profile, exe, bak) ==
  /\ disk' \in [Dirs -> Directories]
  /\ \A x \in Dirs \ {d} : disk'[x] = disk[x]
  /\ Alike(disk'[d], is, man, profile, exe, bak)

LEMMA SaveIs ==
  ASSUME NEW dk \in [Dirs -> Directories], NEW d \in Dirs
  PROVE  LET s == SaveProfileDirect(dk, d)
         IN /\ s \in [Dirs -> Directories]
            /\ \A x \in Dirs \ {d} : s[x] = dk[x]
            /\ Alike(s[d], IF dk[d].is = None THEN "stub" ELSE dk[d].is, dk[d].man, d, dk[d].exe, dk[d].bak)
BY DEF SaveProfileDirect, Directories, Alike, None

-----------------------------------------------------------------------------
(* What each stage does to the directories. *)

AsIs(d) == Touch(d, disk[d].is, disk[d].man, disk[d].profile, disk[d].exe, disk[d].bak)
G == game.dir

LEMMA HereIs ==
  ASSUME Shape, NEW d \in Dirs
  PROVE  /\ disk[d] \in Directories /\ disk[d].is \in {None, "stub", "game"}
         /\ disk[d].man \in {None, "foreign", "inside", "synth"} /\ disk[d].fetched \in BOOLEAN
         /\ disk[d].profile \in Dirs \cup {None} /\ disk[d].exe \in [Exes -> {"packed", "unpacked"}] /\ disk[d].bak \in SUBSET Exes
BY DEF Shape, Directories

(* The outcomes of ManifestStage. *)
LEMMA ManifestDisk ==
  ASSUME Shape, G \in Dirs, Manifest
  PROVE  \/ /\ Here.man = None /\ ~opts.dry /\ Succeed("manifest")
            /\ Touch(G, Here.is, "synth", Here.profile, Here.exe, Here.bak)
            /\ private' = [private EXCEPT !.acf = G] /\ results' = [results EXCEPT !.acf = TRUE]
         \/ /\ Here.man = None => opts.dry
            /\ AsIs(G) /\ Succeed("manifest") /\ UNCHANGED private
            /\ results' = [results EXCEPT !.acf = (Here.man = None)]
         \/ AsIs(G) /\ Fail /\ UNCHANGED private
<1> DEFINE missing == Here.man = None
           fetches == IF missing /\ ~Here.fetched /\ ~opts.dry THEN BOOLEAN ELSE {FALSE}
           kept(fetch) == [disk EXCEPT ![G].fetched = @ \/ fetch]
<1>1. PICK fetch \in fetches :
         \/ /\ missing /\ ~opts.dry
            /\ disk' = [kept(fetch) EXCEPT ![G].man = "synth"]
            /\ private' = [private EXCEPT !.acf = G]
            /\ results' = [results EXCEPT !.acf = TRUE]
            /\ Succeed("manifest")
         \/ /\ missing => opts.dry
            /\ disk' = kept(fetch)
            /\ results' = [results EXCEPT !.acf = missing]
            /\ Succeed("manifest")
            /\ UNCHANGED private
         \/ /\ disk' = kept(fetch)
            /\ Fail
            /\ UNCHANGED private
  BY DEF Manifest, G
<1>2. fetch \in BOOLEAN
  OBVIOUS
<1>3. disk[G] \in Directories /\ disk[G].fetched \in BOOLEAN
  BY HereIs
<1> DEFINE r == [disk[G] EXCEPT !.fetched = disk[G].fetched \/ fetch]
<1>4. r \in Directories /\ Alike(r, Here.is, Here.man, Here.profile, Here.exe, Here.bak)
  BY <1>2, <1>3, FetchedIs DEF Here, G
<1>5. kept(fetch) = [disk EXCEPT ![G] = r] /\ disk \in [Dirs -> Directories]
  BY DEF Shape
<1>6. ASSUME disk' = [kept(fetch) EXCEPT ![G].man = "synth"]
      PROVE  Touch(G, Here.is, "synth", Here.profile, Here.exe, Here.bak)
  <2> DEFINE s == [r EXCEPT !.man = "synth"]
  <2>1. s \in Directories /\ Alike(s, Here.is, "synth", Here.profile, Here.exe, Here.bak)
    <3> HIDE DEF r
    <3> QED BY <1>4, ManifestIs DEF Alike
  <2>2. disk' = [disk EXCEPT ![G] = s]
    <3> HIDE DEF r, kept
    <3> QED BY <1>5, <1>6
  <2> HIDE DEF r, s
  <2>3. Touch(G, Here.is, "synth", Here.profile, Here.exe, Here.bak)
    BY <1>5, <2>1, <2>2 DEF Touch
  <2> QED BY <2>3
<1>7. ASSUME disk' = kept(fetch)
      PROVE  AsIs(G)
  <2> HIDE DEF r
  <2> QED BY <1>4, <1>5, <1>7 DEF Touch, AsIs, Here, G
<1> HIDE DEF kept
<1> QED BY <1>1, <1>6, <1>7

(* The rename of NormalizeStage and its saving of the profile. *)
LEMMA NormalizeDisk ==
  ASSUME Shape, G \in Dirs, Normalize, Here.is # None
  PROVE  \/ /\ Succeed("normalize") /\ UNCHANGED <<disk, game, private>>
            /\ \E b \in BOOLEAN : results' = [results EXCEPT !.normalized = b] /\ (~opts.dry => ~b)
         \/ /\ Succeed("normalize") /\ ~opts.dry /\ G = "raw" /\ disk["clean"].is = None
            /\ disk' \in [Dirs -> Directories] /\ disk'["raw"] = Missing
            /\ Alike(disk'["clean"], Here.is, Here.man, "clean", Here.exe, Here.bak)
            /\ game' = [game EXCEPT !.dir = "clean"]
            /\ private' = [private EXCEPT !.orig = "raw", !.renamed = "clean"]
            /\ results' = [results EXCEPT !.normalized = TRUE, !.orig = "raw", !.renamed = "clean"]
         \/ Fail /\ UNCHANGED <<disk, game, private>>
<1> DEFINE skip == ~opts.normalize \/ G = "clean" \/ disk["clean"].is # None
           moved == [disk EXCEPT !["clean"] = Here, ![G] = Missing]
<1>1. CASE (skip \/ opts.dry) /\ results' = [results EXCEPT !.normalized = ~skip] /\ Succeed("normalize") /\ UNCHANGED <<disk, game, private>>
  <2> DEFINE b == ~skip
  <2>1. b \in BOOLEAN /\ (~opts.dry => ~b) /\ results' = [results EXCEPT !.normalized = b]
    BY <1>1
  <2> HIDE DEF b
  <2> QED BY <1>1, <2>1
<1>2. CASE /\ ~skip /\ ~opts.dry
           /\ disk' = SaveProfileDirect(moved, "clean")
           /\ game' = [game EXCEPT !.dir = "clean"]
           /\ private' = [private EXCEPT !.orig = G, !.renamed = "clean"]
           /\ results' = [results EXCEPT !.normalized = TRUE, !.orig = G, !.renamed = "clean"]
           /\ Succeed("normalize")
  <2>1. G = "raw" /\ disk["clean"].is = None
    BY <1>2 DEF Dirs
  <2>2. Here \in Directories /\ Here = disk["raw"] /\ "raw" \in Dirs /\ "clean" \in Dirs
    BY <2>1, HereIs DEF Here, G, Dirs
  <2>3. moved \in [Dirs -> Directories] /\ moved["clean"] = Here /\ moved["raw"] = Missing
    BY <2>1, <2>2, MissingIs DEF Shape
  <2> HIDE DEF moved
  <2>4. /\ disk' \in [Dirs -> Directories] /\ disk'["raw"] = moved["raw"]
        /\ Alike(disk'["clean"], IF Here.is = None THEN "stub" ELSE Here.is, Here.man, "clean", Here.exe, Here.bak)
    BY <1>2, <2>2, <2>3, SaveIs
  <2> QED BY <1>2, <2>1, <2>3, <2>4
<1>3. CASE Fail /\ UNCHANGED <<disk, game, private>>
  BY <1>3
<1> QED BY <1>1, <1>2, <1>3 DEF Normalize, G

LEMMA UnpackedIs ==
  ASSUME Shape, NEW d \in Dirs, NEW es \in SUBSET Exes, disk' = Unpacked(d, es)
  PROVE  Touch(d, disk[d].is, disk[d].man, disk[d].profile, [e \in Exes |-> IF e \in es THEN "unpacked" ELSE disk[d].exe[e]],
               disk[d].bak \cup es)
<1> DEFINE r == disk[d]
           x == [e \in Exes |-> IF e \in es THEN "unpacked" ELSE r.exe[e]]
           s == [r EXCEPT !.exe = x]
           t == [s EXCEPT !.bak = r.bak \cup es]
<1>1. r \in Directories /\ x \in [Exes -> {"packed", "unpacked"}] /\ r.bak \cup es \in SUBSET Exes
  BY HereIs
<1>2. s \in Directories /\ Alike(s, r.is, r.man, r.profile, x, r.bak)
  <2> HIDE DEF r, x
  <2> QED BY <1>1, ExeIs
<1>3. t \in Directories /\ Alike(t, r.is, r.man, r.profile, x, r.bak \cup es)
  <2> HIDE DEF r, x, s
  <2> QED BY <1>1, <1>2, BakIs DEF Alike
<1>4. disk' = [disk EXCEPT ![d] = t]
  <2>1. s.bak = r.bak
    BY <1>2 DEF Alike
  <2>2. disk' = [[disk EXCEPT ![d] = s] EXCEPT ![d].bak = [disk EXCEPT ![d] = s][d].bak \cup es]
    BY DEF Unpacked
  <2>3. [disk EXCEPT ![d] = s][d] = s
    BY DEF Shape
  <2> HIDE DEF s, r
  <2> QED BY <2>1, <2>2, <2>3
<1> HIDE DEF t, x
<1>5. Touch(d, r.is, r.man, r.profile, x, r.bak \cup es)
  BY <1>3, <1>4 DEF Touch, Shape
<1> QED BY <1>5 DEF x

(* SteamlessStage: what it unpacked, and what it says of it. *)
Unpacks(es) ==
  Touch(G, Here.is, Here.man, Here.profile, [e \in Exes |-> IF e \in es THEN "unpacked" ELSE Here.exe[e]], Here.bak \cup es)

LEMMA SteamlessDisk ==
  ASSUME Shape, G \in Dirs, Steamless
  PROVE  /\ Succeed("steamless") /\ UNCHANGED <<game, private>>
         /\ \/ disk' = disk /\ results' = [results EXCEPT !.unpacked = FALSE]
            \/ disk' = disk /\ results' = [results EXCEPT !.unpacked = FALSE, !.errors = results.errors \cup {"unpacker"}]
            \/ \E es \in SUBSET Exes :
                 /\ \A e \in es : Here.exe[e] = "packed"
                 /\ Unpacks(es)
                 /\ results' = [results EXCEPT !.unpacked = (es # {})]
            \/ \E es \in SUBSET Exes :
                 /\ Unpacks(es)
                 /\ results' = [results EXCEPT !.unpacked = FALSE, !.errors = results.errors \cup {"killed"}]
<1> DEFINE P(target) == {e \in target : Here.exe[e] = "packed"}
           act == opts.steamless /\ ~opts.dry
<1>1. PICK target \in {{"main"}, Exes} :
           \/ /\ disk' = IF act THEN Unpacked(G, P(target)) ELSE disk
              /\ results' = [results EXCEPT !.unpacked = act /\ P(target) # {}]
           \/ /\ results' = [results EXCEPT !.unpacked = FALSE, !.errors = @ \cup {"unpacker"}]
              /\ disk' = disk
           \/ /\ \E es \in SUBSET P(target) : disk' = Unpacked(G, es)
              /\ results' = [results EXCEPT !.unpacked = FALSE, !.errors = @ \cup {"killed"}]
  BY DEF Steamless, G
<1>2. Succeed("steamless") /\ UNCHANGED <<game, private>>
  BY DEF Steamless
<1>3. P(target) \in SUBSET Exes /\ \A e \in P(target) : Here.exe[e] = "packed"
  BY DEF Exes
<1> DEFINE es == P(target)
<1>4. es \in SUBSET Exes /\ \A e \in es : Here.exe[e] = "packed"
  BY <1>3
<1>5. ASSUME NEW x \in SUBSET Exes, disk' = Unpacked(G, x)
      PROVE  Unpacks(x)
  BY <1>5, UnpackedIs DEF Unpacks, Here, G
<1>6. CASE act /\ disk' = Unpacked(G, es) /\ results' = [results EXCEPT !.unpacked = act /\ es # {}]
  <2>1. Unpacks(es) /\ results' = [results EXCEPT !.unpacked = (es # {})]
    <3> HIDE DEF es
    <3> QED BY <1>4, <1>5, <1>6
  <2> HIDE DEF es
  <2> QED BY <1>2, <1>4, <2>1
<1>7. CASE ~act /\ disk' = disk /\ results' = [results EXCEPT !.unpacked = act /\ es # {}]
  <2>1. results' = [results EXCEPT !.unpacked = FALSE]
    <3> HIDE DEF es
    <3> QED BY <1>7
  <2> QED BY <1>2, <1>7, <2>1
<1>8. CASE disk' = disk /\ results' = [results EXCEPT !.unpacked = FALSE, !.errors = @ \cup {"unpacker"}]
  BY <1>2, <1>8
<1>9. CASE /\ \E x \in SUBSET es : disk' = Unpacked(G, x)
           /\ results' = [results EXCEPT !.unpacked = FALSE, !.errors = @ \cup {"killed"}]
  <2>1. PICK x \in SUBSET Exes : disk' = Unpacked(G, x)
    BY <1>4, <1>9
  <2>2. Unpacks(x)
    BY <1>5, <2>1
  <2> QED BY <1>2, <1>9, <2>2
<1> HIDE DEF P
<1> QED BY <1>1, <1>6, <1>7, <1>8, <1>9

-----------------------------------------------------------------------------
(* What the last stages and the undoing of a stage do to the directories. *)

(* Saving the profile, setting the emulator up and reverting it. *)
LastTouch ==
  /\ disk' \in [Dirs -> Directories]
  /\ \A d \in Dirs :
       /\ disk'[d].man = disk[d].man
       /\ disk'[d].profile \in {disk[d].profile, d}
       /\ disk[d].is # None => disk'[d].is # None
       /\ disk'[d].is = None => Alike(disk'[d], disk[d].is, disk[d].man, disk[d].profile, disk[d].exe, disk[d].bak)

LEMMA GBEDisk ==
  ASSUME Shape, G \in Dirs, GBE, game.profile \in Dirs, Here.is # None
  PROVE  /\ Succeed("gbe") /\ UNCHANGED <<game, private>> /\ LastTouch
         /\ opts.emulate => \A d \in Dirs : disk'[d].bak = disk[d].bak
         /\ \E b \in BOOLEAN, er \in SUBSET Errors : results' = [results EXCEPT !.patched = b, !.errors = er]
<1> DEFINE P == game.profile
<1>1. Succeed("gbe") /\ UNCHANGED <<game, private>>
  BY DEF GBE
<1>2. disk \in [Dirs -> Directories] /\ results.errors \in SUBSET Errors /\ results.patched \in BOOLEAN /\ opts.emulate \in BOOLEAN /\ opts.dry \in BOOLEAN
  BY DEF Shape
<1>3. CASE disk' = disk /\ results' = [results EXCEPT !.patched = opts.emulate]
  <2>1. LastTouch /\ \A d \in Dirs : disk'[d].bak = disk[d].bak
    BY <1>2, <1>3 DEF LastTouch, Alike
  <2>2. results' = [results EXCEPT !.patched = opts.emulate, !.errors = results.errors]
    BY <1>3 DEF Shape
  <2> QED BY <1>1, <1>2, <2>1, <2>2
<1>4. CASE \E ok \in BOOLEAN : disk' = Applied(disk, P, ok) /\ results' = [results EXCEPT !.patched = ok, !.errors = IF ok THEN @ ELSE @ \cup {"emulator"}]
  <2>1. PICK ok \in BOOLEAN : disk' = Applied(disk, P, ok) /\ results' = [results EXCEPT !.patched = ok, !.errors = IF ok THEN @ ELSE @ \cup {"emulator"}]
    BY <1>4
  <2> DEFINE s == SaveProfileDirect(disk, P)
  <2>2. /\ s \in [Dirs -> Directories] /\ \A x \in Dirs \ {P} : s[x] = disk[x]
        /\ Alike(s[P], IF disk[P].is = None THEN "stub" ELSE disk[P].is, disk[P].man, P, disk[P].exe, disk[P].bak)
    BY <1>2, SaveIs
  <2> DEFINE t == [s[P] EXCEPT !.emu = TRUE]
  <2>3. t \in Directories /\ Alike(t, s[P].is, s[P].man, s[P].profile, s[P].exe, s[P].bak)
    <3> HIDE DEF s
    <3> QED BY <2>2, EmuIs
  <2>4. disk' = IF ok THEN [s EXCEPT ![P] = t] ELSE s
    BY <2>1 DEF Applied
  <2> HIDE DEF s, t
  <2>5. /\ disk' \in [Dirs -> Directories] /\ \A x \in Dirs \ {P} : disk'[x] = disk[x]
        /\ Alike(disk'[P], IF disk[P].is = None THEN "stub" ELSE disk[P].is, disk[P].man, P, disk[P].exe, disk[P].bak)
    BY <2>2, <2>3, <2>4 DEF Alike
  <2>6. LastTouch /\ \A d \in Dirs : disk'[d].bak = disk[d].bak
    BY <2>5 DEF LastTouch, Alike, None
  <2> DEFINE er == IF ok THEN results.errors ELSE results.errors \cup {"emulator"}
  <2>7. er \in SUBSET Errors /\ results' = [results EXCEPT !.patched = ok, !.errors = er]
    BY <1>2, <2>1 DEF Errors
  <2> HIDE DEF er
  <2> QED BY <1>1, <2>6, <2>7
<1>5. CASE /\ ~opts.emulate
           /\ disk' = SaveProfileDirect(IF game.touched THEN [disk EXCEPT ![G] = Reverted(@)] ELSE disk, P)
           /\ results' = results
  <2> DEFINE q == IF game.touched THEN [disk EXCEPT ![G] = Reverted(@)] ELSE disk
  <2>1. /\ q \in [Dirs -> Directories] /\ \A x \in Dirs \ {G} : q[x] = disk[x]
        /\ q[G].is = disk[G].is /\ q[G].man = disk[G].man /\ q[G].profile = disk[G].profile
    BY <1>2, RevertedIs DEF Alike
  <2> HIDE DEF q
  <2>2. /\ disk' \in [Dirs -> Directories] /\ \A x \in Dirs \ {P} : disk'[x] = q[x]
        /\ Alike(disk'[P], IF q[P].is = None THEN "stub" ELSE q[P].is, q[P].man, P, q[P].exe, q[P].bak)
    BY <1>5, <2>1, SaveIs DEF q
  <2>3. LastTouch
    BY <2>1, <2>2 DEF LastTouch, Alike, Here, G, None
  <2>4. results' = [results EXCEPT !.patched = results.patched, !.errors = results.errors]
    BY <1>5 DEF Shape
  <2> QED BY <1>1, <1>2, <1>5, <2>3, <2>4
<1> QED BY <1>3, <1>4, <1>5 DEF GBE, G

LEMMA RevertDisk ==
  ASSUME Shape, G \in Dirs, RevertDRM, Here.is # None
  PROVE  /\ Succeed("revert") /\ UNCHANGED <<game, private>> /\ LastTouch
         /\ results' = [results EXCEPT !.patched = FALSE]
<1>1. Succeed("revert") /\ UNCHANGED <<game, private>> /\ results' = [results EXCEPT !.patched = FALSE]
  BY DEF RevertDRM
<1>2. disk \in [Dirs -> Directories]
  BY DEF Shape
<1>3. CASE disk' = disk
  BY <1>1, <1>2, <1>3 DEF LastTouch, Alike
<1>4. CASE disk' = [disk EXCEPT ![G] = Reverted(@)]
  <2>1. LastTouch
    BY <1>2, <1>4, RevertedIs DEF LastTouch, Alike, Here, G
  <2> QED BY <1>1, <2>1
<1> QED BY <1>3, <1>4 DEF RevertDRM, G

LEMMA UpdateDisk ==
  ASSUME Shape, G \in Dirs, Update
  PROVE  /\ UNCHANGED <<game, private>>
         /\ \E x \in [Exes -> {"packed", "unpacked"}] : Touch(G, Here.is, Here.man, Here.profile, x, Here.bak)
         /\ \/ Succeed("update") /\ UNCHANGED results
            \/ Fail
<1>1. PICK es \in SUBSET Exes : disk' = [disk EXCEPT ![G].exe = [e \in Exes |-> IF e \in es THEN "packed" ELSE @[e]]]
  BY DEF Update, G
<1> DEFINE r == disk[G]
           x == [e \in Exes |-> IF e \in es THEN "packed" ELSE r.exe[e]]
           s == [r EXCEPT !.exe = x]
<1>2. r \in Directories /\ x \in [Exes -> {"packed", "unpacked"}] /\ r.bak \in SUBSET Exes /\ disk \in [Dirs -> Directories]
  BY HereIs DEF Shape
<1>3. s \in Directories /\ Alike(s, r.is, r.man, r.profile, x, r.bak)
  <2> HIDE DEF r, x
  <2> QED BY <1>2, ExeIs
<1>4. disk' = [disk EXCEPT ![G] = s]
  BY <1>1
<1> HIDE DEF s, x
<1>5. Touch(G, Here.is, Here.man, Here.profile, x, Here.bak)
  BY <1>2, <1>3, <1>4 DEF Touch, Here, G
<1> QED BY <1>2, <1>5 DEF Update

LEMMA UndoManifestDisk ==
  ASSUME Shape, UndoManifest
  PROVE  /\ UNCHANGED <<game, cached>>
         /\ \/ /\ private.acf \in Dirs /\ disk[private.acf].man = "synth"
               /\ LET r == disk[private.acf] IN Touch(private.acf, r.is, None, r.profile, r.exe, r.bak)
               /\ results' = [results EXCEPT !.acf = FALSE]
            \/ /\ private.acf = None \/ disk[private.acf].man # "synth"
               /\ UNCHANGED <<disk, results>>
<1>1. UNCHANGED <<game, cached>>
  BY DEF UndoManifest
<1> DEFINE a == private.acf
<1>2. CASE a # None /\ disk[a].man = "synth"
  <2>1. a \in Dirs /\ disk \in [Dirs -> Directories] /\ disk[a] \in Directories
    BY <1>2 DEF Shape
  <2> DEFINE s == [disk[a] EXCEPT !.man = None]
  <2>2. disk' = [disk EXCEPT ![a] = s] /\ results' = [results EXCEPT !.acf = FALSE]
    BY <1>2 DEF UndoManifest
  <2>3. s \in Directories /\ Alike(s, disk[a].is, None, disk[a].profile, disk[a].exe, disk[a].bak)
    BY <2>1, ManifestIs
  <2> HIDE DEF s
  <2>4. Touch(a, disk[a].is, None, disk[a].profile, disk[a].exe, disk[a].bak)
    BY <2>1, <2>2, <2>3 DEF Touch
  <2> QED BY <1>1, <1>2, <2>1, <2>2, <2>4
<1>3. CASE ~(a # None /\ disk[a].man = "synth")
  BY <1>1, <1>3 DEF UndoManifest
<1> QED BY <1>2, <1>3

LEMMA UndoNormalizeDisk ==
  ASSUME Shape, UndoNormalize, private.renamed \in Dirs => private.orig \in Dirs /\ private.orig # private.renamed
  PROVE  \/ /\ private.renamed \in Dirs /\ disk[private.renamed].is # None /\ disk[private.orig].is = None
            /\ LET r == disk[private.renamed]
               IN Alike(disk'[private.orig], r.is, r.man, private.orig, r.exe, r.bak)
            /\ disk' \in [Dirs -> Directories] /\ disk'[private.renamed] = Missing
            /\ game' = [game EXCEPT !.dir = private.orig]
            /\ results' = [results EXCEPT !.normalized = FALSE, !.orig = None, !.renamed = None]
            /\ cached' = Invalidated(cached, {private.orig})
         \/ /\ private.renamed \in Dirs /\ results' = [results EXCEPT !.undoErrors = @ + 1]
            /\ UNCHANGED <<disk, cached, game>>
         \/ /\ private.renamed = None \/ disk[private.renamed].is = None
            /\ UNCHANGED <<disk, cached, game, results>>
<1> DEFINE from == private.renamed
           to == private.orig
<1>1. CASE /\ from \in Dirs /\ disk[from].is # None
           /\ disk[to].is = None
           /\ disk' = SaveProfileDirect([disk EXCEPT ![to] = disk[from], ![from] = Missing], to)
           /\ cached' = Invalidated(cached, {to})
           /\ game' = [game EXCEPT !.dir = to]
           /\ results' = [results EXCEPT !.normalized = FALSE, !.orig = None, !.renamed = None]
  <2>1. to \in Dirs /\ to # from /\ disk \in [Dirs -> Directories]
    BY <1>1 DEF Shape
  <2> DEFINE q == [disk EXCEPT ![to] = disk[from], ![from] = Missing]
  <2>2. q \in [Dirs -> Directories] /\ q[to] = disk[from] /\ q[from] = Missing
    BY <1>1, <2>1, MissingIs
  <2>3. disk' = SaveProfileDirect(q, to)
    BY <1>1
  <2> HIDE DEF q
  <2>4. /\ disk' \in [Dirs -> Directories] /\ \A x \in Dirs \ {to} : disk'[x] = q[x]
        /\ Alike(disk'[to], IF q[to].is = None THEN "stub" ELSE q[to].is, q[to].man, to, q[to].exe, q[to].bak)
    BY <2>1, <2>2, <2>3, SaveIs
  <2>5. from \in Dirs \ {to} /\ q[to].is # None
    BY <1>1, <2>1, <2>2
  <2>6. disk'[from] = Missing
    BY <2>2, <2>4, <2>5
  <2>7. Alike(disk'[to], disk[from].is, disk[from].man, to, disk[from].exe, disk[from].bak)
    BY <2>2, <2>4, <2>5 DEF Alike
  <2> QED BY <1>1, <2>4, <2>6, <2>7
<1>2. CASE from \in Dirs /\ results' = [results EXCEPT !.undoErrors = @ + 1] /\ UNCHANGED <<disk, cached, game>>
  BY <1>2
<1>3. CASE ~(from \in Dirs /\ disk[from].is # None) /\ UNCHANGED <<disk, cached, game, results>>
  BY <1>3 DEF Shape
<1> QED BY <1>1, <1>2, <1>3 DEF UndoNormalize

LEMMA UndoSteamlessDisk ==
  ASSUME Shape, G \in Dirs, UndoSteamless
  PROVE  /\ UNCHANGED <<game, cached>> /\ results' = [results EXCEPT !.unpacked = FALSE]
         /\ \/ ~results.unpacked /\ disk' = disk
            \/ /\ results.unpacked
               /\ Touch(G, Here.is, Here.man, Here.profile, [e \in Exes |-> IF e \in Here.bak THEN "packed" ELSE Here.exe[e]], {})
<1>1. UNCHANGED <<game, cached>> /\ results' = [results EXCEPT !.unpacked = FALSE]
  BY DEF UndoSteamless
<1>2. CASE ~results.unpacked
  BY <1>1, <1>2 DEF UndoSteamless
<1>3. CASE results.unpacked
  <2> DEFINE r == disk[G]
             x == [e \in Exes |-> IF e \in r.bak THEN "packed" ELSE r.exe[e]]
             s == [r EXCEPT !.exe = x]
             t == [s EXCEPT !.bak = {}]
  <2>1. r \in Directories /\ x \in [Exes -> {"packed", "unpacked"}] /\ r.bak \in SUBSET Exes /\ disk \in [Dirs -> Directories]
    BY HereIs DEF Shape
  <2>2. s \in Directories /\ Alike(s, r.is, r.man, r.profile, x, r.bak)
    <3> HIDE DEF r, x
    <3> QED BY <2>1, ExeIs
  <2>3. t \in Directories /\ Alike(t, r.is, r.man, r.profile, x, {})
    <3> HIDE DEF r, x, s
    <3> QED BY <2>1, <2>2, BakIs DEF Alike
  <2>4. disk' = [[disk EXCEPT ![G] = s] EXCEPT ![G].bak = {}]
    BY <1>3 DEF UndoSteamless, Here, G
  <2>5. disk' = [disk EXCEPT ![G] = t]
    <3> HIDE DEF s
    <3> QED BY <2>1, <2>4
  <2> HIDE DEF t, x
  <2>6. Touch(G, r.is, r.man, r.profile, x, {})
    BY <2>1, <2>3, <2>5 DEF Touch
  <2> QED BY <1>1, <1>3, <2>6 DEF Here, G, x
<1> QED BY <1>2, <1>3

-----------------------------------------------------------------------------
(* Recipes and the list of completed stages. *)

LEMMA RecipeIs ==
  /\ \A n \in DOMAIN Recipes : Recipes[n] \in Recipe
  /\ Recipes["update"] = <<"scan", "update", "normalize", "steamless", "gbe">>
BY DEF Recipes, Recipe

LEMMA StageFacts ==
  ASSUME NEW st \in Recipe
  PROVE  /\ Len(st) \in Nat /\ st[1] = "scan" /\ 1 <= Len(st)
         /\ \A i \in 1 .. Len(st) : \A j \in 1 .. Len(st) : i < j => Rank(st[i]) < Rank(st[j])
         /\ \A i \in 1 .. Len(st) : Rank(st[i]) \in Int /\ (st[i] = "scan" => i = 1)
         /\ \A i \in 1 .. Len(st) : st[i] \in {"gbe", "revert"} => i = Len(st)
         /\ (\E i \in 1 .. Len(st) : st[i] = "revert") => \A i \in 1 .. Len(st) : st[i] # "steamless"
         /\ (\E i \in 1 .. Len(st) : st[i] = "update") => st = Recipes["update"]
<1>1. CASE st = <<"scan", "manifest", "normalize", "steamless", "gbe">>
  BY <1>1 DEF Rank
<1>2. CASE st = <<"scan", "manifest", "verify">>
  BY <1>2 DEF Rank
<1>3. CASE st = <<"scan", "update", "normalize", "steamless", "gbe">>
  BY <1>3, RecipeIs DEF Rank
<1>4. CASE st = <<"scan", "revert">>
  BY <1>4 DEF Rank
<1>5. CASE st = <<"scan", "normalize">>
  BY <1>5 DEF Rank
<1>6. CASE st = <<"scan">>
  BY <1>6 DEF Rank
<1> QED BY <1>1, <1>2, <1>3, <1>4, <1>5, <1>6 DEF Recipe

LEMMA RankIs ==
  \A s : Rank(s) \in 0 .. 5
BY DEF Rank

(* A completed stage comes before the one to execute. *)
LEMMA NotYet ==
  ASSUME PlaceInv, TrailInv, Shape, NEW s, At(s), NEW t, Rank(s) <= Rank(t)
  PROVE  ~Has(t)
<1>1. stages \in Recipe /\ next \in 1 .. Len(stages) /\ stages[next] = s /\ Len(stages) \in Nat
  <2>1. Started
    BY DEF At, Started
  <2>2. stages \in Recipe /\ next \in 1 .. Len(stages) + 1
    BY <2>1 DEF PlaceInv
  <2> QED BY <2>2, StageFacts DEF At
<1> SUFFICES ASSUME Has(t)
             PROVE  FALSE
  OBVIOUS
<1>2. PICK i \in 1 .. next - 1 : i <= Len(stages) /\ stages[i] = t
  BY DEF Has, TrailInv
<1>3. i \in 1 .. Len(stages) /\ i < next
  BY <1>1, <1>2
<1>4. Rank(stages[i]) < Rank(stages[next])
  BY <1>1, <1>3, StageFacts
<1> QED BY <1>1, <1>2, <1>4, RankIs

(* A stage succeeds. *)
LEMMA OnSucceed ==
  ASSUME Shape, PlaceInv, TrailInv, NEW s, At(s), Succeed(s), game'.dir \in Dirs
  PROVE  /\ PlaceInv' /\ TrailInv' /\ executed' \in Seq(Rollbackable)
         /\ \A t : Has(t)' <=> Has(t) \/ (t = s /\ s \in Rollbackable)
         /\ pc' = "run" /\ pc = "run" /\ next' = next + 1 /\ next \in Nat /\ Len(stages) \in Nat /\ next <= Len(stages)
         /\ stages \in Recipe /\ stages[next] = s /\ next \in 1 .. Len(stages)
         /\ UNCHANGED <<stages, opts, before>>
<1>1. Started /\ pc = "run" /\ pc' = "run" /\ next' = next + 1 /\ UNCHANGED <<stages, opts, before>>
  BY DEF At, Started, Succeed
<1>2. stages \in Recipe /\ next \in 1 .. Len(stages) /\ Len(stages) \in Nat /\ stages[next] = s /\ opts.path \in Dirs
  BY <1>1, StageFacts DEF PlaceInv, At
<1>3. executed \in Seq(Rollbackable)
  BY DEF Shape
<1>4. CASE s \in Rollbackable
  <2>1. executed' = Append(executed, s)
    BY <1>4 DEF Succeed
  <2>2. /\ executed' \in Seq(Rollbackable) /\ Len(executed') = Len(executed) + 1 /\ Len(executed) \in Nat
        /\ DOMAIN executed' = 1 .. Len(executed) + 1 /\ DOMAIN executed = 1 .. Len(executed)
        /\ \A j \in DOMAIN executed : executed'[j] = executed[j]
        /\ executed'[Len(executed) + 1] = s
    BY <1>3, <1>4, <2>1
  <2>3. PlaceInv'
    BY <1>1, <1>2, <2>2 DEF PlaceInv, Started
  <2>4. \A t : Has(t)' <=> Has(t) \/ t = s
    BY <2>2 DEF Has
  <2>5. \A j \in DOMAIN executed' : \E i \in 1 .. next' - 1 : i <= Len(stages') /\ executed'[j] = stages'[i]
    <3>1. ASSUME NEW j \in DOMAIN executed
          PROVE  \E i \in 1 .. next' - 1 : i <= Len(stages') /\ executed'[j] = stages'[i]
      <4>1. PICK i \in 1 .. next - 1 : i <= Len(stages) /\ executed[j] = stages[i]
        BY DEF TrailInv
      <4> QED BY <1>1, <1>2, <2>2, <4>1
    <3> QED BY <1>1, <1>2, <2>2, <3>1
  <2>6. ASSUME NEW j \in DOMAIN executed
        PROVE  Rank(executed[j]) < Rank(s)
    <3>1. Has(executed[j])
      BY DEF Has
    <3> QED BY <3>1, NotYet, RankIs
  <2>7. \A i, j \in DOMAIN executed' : i < j => Rank(executed'[i]) < Rank(executed'[j])
    BY <2>2, <2>6 DEF TrailInv
  <2> QED BY <1>1, <1>2, <1>4, <2>2, <2>3, <2>4, <2>5, <2>7 DEF TrailInv
<1>5. CASE s \notin Rollbackable
  <2>1. executed' = executed
    BY <1>5 DEF Succeed
  <2>2. PlaceInv'
    BY <1>1, <1>2, <1>3, <2>1 DEF PlaceInv, Started
  <2>3. \A t : Has(t)' <=> Has(t)
    BY <2>1 DEF Has
  <2>4. TrailInv'
    <3>1. ASSUME NEW j \in DOMAIN executed
          PROVE  \E i \in 1 .. next' - 1 : i <= Len(stages') /\ executed'[j] = stages'[i]
      <4>1. PICK i \in 1 .. next - 1 : i <= Len(stages) /\ executed[j] = stages[i]
        BY DEF TrailInv
      <4> QED BY <1>1, <1>2, <2>1, <4>1
    <3> QED BY <2>1, <3>1 DEF TrailInv
  <2> QED BY <1>1, <1>2, <1>3, <1>5, <2>1, <2>2, <2>3, <2>4
<1> QED BY <1>4, <1>5

(* A stage fails. *)
LEMMA OnFail ==
  ASSUME Shape, PlaceInv, TrailInv, NEW s, At(s), Fail, game' = game
  PROVE  /\ PlaceInv' /\ TrailInv'
         /\ \A t : Has(t)' <=> Has(t)
         /\ pc' = "rollback" /\ pc = "run"
         /\ UNCHANGED <<next, executed, stages, opts, before>>
         /\ results' = [results EXCEPT !.errors = results.errors \cup {"fatal"}]
<1>1. pc' = "rollback" /\ pc = "run" /\ UNCHANGED <<next, executed, stages, opts, before>> /\ next <= Len(stages)
  BY DEF At, Fail
<1> QED BY <1>1 DEF PlaceInv, TrailInv, Has, Fail, Started

(* The stage undone leaves the list. *)
LEMMA OnUndo ==
  ASSUME Shape, PlaceInv, TrailInv, Rollback, game'.dir \in Dirs
  PROVE  LET s == executed[Len(executed)]
         IN /\ PlaceInv' /\ TrailInv' /\ executed' \in Seq(Rollbackable)
            /\ Has(s)
            /\ \A t : Has(t)' <=> Has(t) /\ t # s
            /\ \A t : Has(t) => Rank(t) <= Rank(s)
            /\ pc' = "rollback" /\ pc = "rollback" /\ next <= Len(stages)
            /\ UNCHANGED <<next, stages, opts, private, before, cancelled>>
<1> DEFINE n == Len(executed)
           s == executed[n]
<1>1. /\ pc = "rollback" /\ pc' = "rollback" /\ executed # <<>> /\ UNCHANGED <<next, stages, opts, private, before, cancelled>>
      /\ executed' = SubSeq(executed, 1, n - 1) \o SubSeq(executed, n + 1, Len(executed))
  BY DEF Rollback, ToUndo
<1>2. executed \in Seq(Rollbackable) /\ n \in Nat \ {0} /\ DOMAIN executed = 1 .. n
  BY <1>1, EmptySeq DEF Shape
<1>3. /\ executed' \in Seq(Rollbackable) /\ Len(executed') = n - 1
      /\ \A j \in 1 .. n - 1 : executed'[j] = executed[j]
  <2> HIDE DEF s
  <2> DEFINE a == SubSeq(executed, 1, n - 1)
             b == SubSeq(executed, n + 1, n)
  <2>1. a \in Seq(Rollbackable) /\ Len(a) = n - 1 /\ \A j \in 1 .. n - 1 : a[j] = executed[j]
    BY <1>2, SubSeqProperties
  <2>2. b \in Seq(Rollbackable) /\ Len(b) = 0
    BY <1>2, SubSeqProperties
  <2>3. executed' = a \o b
    BY <1>1
  <2> HIDE DEF a, b, n
  <2> QED BY <1>2, <2>1, <2>2, <2>3, ConcatProperties
<1>4. Started /\ Started' /\ next \in 1 .. Len(stages) + 1 /\ next <= Len(stages)
  BY <1>1 DEF PlaceInv, Started
<1>5. PlaceInv'
  BY <1>1, <1>2, <1>3, <1>4 DEF PlaceInv
<1>6. DOMAIN executed' = 1 .. n - 1
  BY <1>3, <1>2
<1>7. TrailInv'
  <2>1. ASSUME NEW j \in DOMAIN executed'
        PROVE  \E i \in 1 .. next' - 1 : i <= Len(stages') /\ executed'[j] = stages'[i]
    <3>1. PICK i \in 1 .. next - 1 : i <= Len(stages) /\ executed[j] = stages[i]
      BY <1>2, <1>6 DEF TrailInv
    <3> QED BY <1>1, <1>3, <1>6, <3>1
  <2>2. \A i, j \in DOMAIN executed' : i < j => Rank(executed'[i]) < Rank(executed'[j])
    BY <1>2, <1>3, <1>6 DEF TrailInv
  <2> QED BY <2>1, <2>2 DEF TrailInv
<1>8. Has(s)
  BY <1>2 DEF Has
<1>9. \A j \in 1 .. n - 1 : Rank(executed[j]) < Rank(s)
  BY <1>2 DEF TrailInv
<1>10. \A t : Has(t) => Rank(t) <= Rank(s)
  BY <1>2, <1>9, RankIs DEF Has
<1>11. ASSUME NEW t
       PROVE  Has(t)' <=> Has(t) /\ t # s
  <2>1. ASSUME Has(t)'
        PROVE  Has(t) /\ t # s
    <3>1. PICK j \in 1 .. n - 1 : executed'[j] = t
      BY <1>6, <2>1 DEF Has
    <3>2. executed[j] = t /\ Rank(t) < Rank(s)
      BY <1>3, <1>9, <3>1
    <3> QED BY <1>2, <3>1, <3>2, RankIs DEF Has
  <2>2. ASSUME Has(t), t # s
        PROVE  Has(t)'
    <3>1. PICK j \in 1 .. n : executed[j] = t
      BY <1>2, <2>2 DEF Has
    <3>2. j \in 1 .. n - 1
      BY <1>2, <2>2, <3>1
    <3> QED BY <1>3, <1>6, <3>1, <3>2 DEF Has
  <2> QED BY <2>1, <2>2
<1> HIDE DEF n
<1> QED BY <1>1, <1>3, <1>4, <1>5, <1>7, <1>8, <1>10, <1>11 DEF n

-----------------------------------------------------------------------------
(* The steps that leave the directories alone. *)

LEMMA QuietStep ==
  ASSUME PipeInv, Started, pc' # "idle", pc' = "run" => pc = "run", next' \in Nat, next <= next',
         UNCHANGED <<disk, before, opts, private, stages>>, game'.dir = game.dir,
         \A t : Has(t)' <=> Has(t),
         results'.normalized = results.normalized, results'.acf = results.acf, results'.unpacked = results.unpacked,
         results'.undoErrors = results.undoErrors, "killed" \in results.errors => "killed" \in results'.errors
  PROVE  DirectoryInv' /\ ListedInv' /\ MoveInv' /\ ManifestInv' /\ OthersInv' /\ PlainInv' /\ ExecutablesInv' /\ UnpackedInv'
<1>1. (Clean' <=> Clean) /\ (Early' => Early) /\ Started' /\ (Moved' <=> Moved) /\ (Made' <=> Made)
  <2>1. next \in Nat /\ Len(stages) \in Nat
    BY StageFacts DEF PipeInv, PlaceInv
  <2> QED BY <2>1 DEF Clean, Early, Started, Moved, Made
<1>2. DirectoryInv'
  BY DEF PipeInv, DirectoryInv, Nothing, Alike
<1>3. ListedInv'
  BY <1>1 DEF PipeInv, ListedInv
<1>4. MoveInv'
  BY <1>1 DEF PipeInv, MoveInv
<1>5. ManifestInv'
  BY <1>1 DEF PipeInv, ManifestInv
<1>6. OthersInv'
  BY <1>1 DEF PipeInv, OthersInv, Same
<1>7. PlainInv'
  BY <1>1 DEF PipeInv, PlainInv
<1>8. ExecutablesInv'
  BY <1>1 DEF PipeInv, ExecutablesInv
<1>9. UnpackedInv'
  BY <1>1 DEF PipeInv, UnpackedInv
<1> QED BY <1>2, <1>3, <1>4, <1>5, <1>6, <1>7, <1>8, <1>9

LEMMA NotFinished ==
  ASSUME pc' # "done"
  PROVE  CacheFresh'
BY DEF CacheFresh, Succeeded

(* What a stage may rely on. *)
LEMMA InRun ==
  ASSUME PipeInv, NEW s, At(s)
  PROVE  /\ Started /\ Early /\ Clean /\ pc = "run" /\ G \in Dirs /\ opts.path \in Dirs /\ Here.is # None
         /\ stages \in Recipe /\ next \in 1 .. Len(stages) /\ stages[next] = s /\ Len(stages) \in Nat
         /\ s # "scan" => next > 1 /\ game.profile = opts.path
         /\ Shape /\ PlaceInv /\ TrailInv /\ G' = game'.dir
<1>1. Started /\ Early /\ pc = "run"
  BY DEF At, Started, Early
<1>2. stages \in Recipe /\ next \in 1 .. Len(stages) /\ stages[next] = s /\ Len(stages) \in Nat
  BY <1>1, StageFacts DEF PipeInv, PlaceInv, At
<1>3. s # "scan" => next > 1
  BY <1>2, StageFacts
<1> QED BY <1>1, <1>2, <1>3 DEF PipeInv, PlaceInv, RunInv, Here, G

(* A stage that fails without a trace. *)
LEMMA FailStep ==
  ASSUME PipeInv, NEW s, At(s), Fail, UNCHANGED <<disk, private, game, cached>>, cancelled' \in BOOLEAN
  PROVE  PipeInv'
<1>1. /\ PlaceInv' /\ TrailInv' /\ \A t : Has(t)' <=> Has(t)
      /\ pc' = "rollback" /\ pc = "run" /\ UNCHANGED <<next, executed, stages, opts, before>>
      /\ results' = [results EXCEPT !.errors = results.errors \cup {"fatal"}]
  BY OnFail DEF PipeInv
<1>2. Shape'
  BY <1>1 DEF PipeInv, Shape, Errors
<1>3. /\ results'.normalized = results.normalized /\ results'.acf = results.acf /\ results'.unpacked = results.unpacked
      /\ results'.undoErrors = results.undoErrors /\ results.errors \subseteq results'.errors
  BY <1>1 DEF PipeInv, Shape
<1>4. Started /\ next \in Nat
  BY <1>1, InRun DEF PipeInv
<1>5. DirectoryInv' /\ ListedInv' /\ MoveInv' /\ ManifestInv' /\ OthersInv' /\ PlainInv' /\ ExecutablesInv' /\ UnpackedInv'
  BY <1>1, <1>3, <1>4, QuietStep
<1>6. RunInv' /\ CacheFresh'
  BY <1>1, NotFinished DEF RunInv
<1> QED BY <1>1, <1>2, <1>5, <1>6 DEF PipeInv

LEMMA ScanStep ==
  ASSUME PipeInv, Scan
  PROVE  PipeInv'
<1>1. At("scan") /\ UNCHANGED <<disk, cancelled, private>>
  BY DEF Scan
<1>2. /\ Started /\ Early /\ Clean /\ pc = "run" /\ G \in Dirs /\ opts.path \in Dirs /\ Shape /\ PlaceInv /\ TrailInv
      /\ disk[G] \in Directories
  BY <1>1, InRun, HereIs
<1>3. CASE Fail /\ UNCHANGED <<cached, game>>
  BY <1>1, <1>3, FailStep DEF PipeInv, Shape
<1>4. CASE /\ game' = [dir |-> G, profile |-> LoadProfile(Here, G), touched |-> Here.bak # {} \/ Here.emu]
           /\ cached' = [cached EXCEPT ![G] = Here]
           /\ Succeed("scan") /\ UNCHANGED results
  <2>1. LoadProfile(Here, G) = G
    BY <1>2 DEF PipeInv, DirectoryInv, LoadProfile, Here, G
  <2>2. game'.dir = G /\ game'.profile = G /\ game' \in [dir : Dirs \cup {None}, profile : Dirs \cup {None}, touched : BOOLEAN]
    BY <1>2, <1>4, <2>1
  <2>3. game'.dir \in Dirs
    BY <1>2, <2>2
  <2>4. /\ PlaceInv' /\ TrailInv' /\ executed' \in Seq(Rollbackable) /\ \A t : Has(t)' <=> Has(t) \/ (t = "scan" /\ "scan" \in Rollbackable)
        /\ pc' = "run" /\ pc = "run" /\ next' = next + 1 /\ next \in Nat /\ UNCHANGED <<stages, opts, before>>
    BY <1>1, <1>2, <1>4, <2>3, OnSucceed
  <2>5. \A t : Has(t)' <=> Has(t)
    BY <2>4 DEF Rollbackable
  <2>6. Shape'
    BY <1>1, <1>2, <1>4, <2>2, <2>4 DEF Shape, Here, G
  <2>7. DirectoryInv' /\ ListedInv' /\ MoveInv' /\ ManifestInv' /\ OthersInv' /\ PlainInv' /\ ExecutablesInv' /\ UnpackedInv'
    BY <1>1, <1>2, <1>4, <2>2, <2>4, <2>5, QuietStep DEF G
  <2>8. G = opts.path
    <3>1. ~Has("normalize")
      BY <1>1, <1>2, NotYet DEF Rank
    <3> QED BY <1>2, <3>1 DEF PipeInv, ListedInv, Moved, G
  <2>9. RunInv'
    BY <1>1, <1>2, <1>4, <2>2, <2>4, <2>8 DEF PipeInv, RunInv, Clean, G
  <2> QED BY <2>4, <2>6, <2>7, <2>9, NotFinished DEF PipeInv
<1> QED BY <1>3, <1>4 DEF Scan, G

LEMMA VerifyStep ==
  ASSUME PipeInv, Verify
  PROVE  PipeInv'
<1>1. At("verify") /\ UNCHANGED <<disk, cached, cancelled, game, private>>
  BY DEF Verify
<1>2. /\ Started /\ Early /\ Clean /\ pc = "run" /\ G \in Dirs /\ opts.path \in Dirs /\ Shape /\ PlaceInv /\ TrailInv
      /\ game.profile = opts.path
  BY <1>1, InRun
<1>3. CASE Fail
  BY <1>1, <1>3, FailStep DEF PipeInv, Shape
<1>4. CASE Succeed("verify") /\ UNCHANGED results
  <2>1. game'.dir \in Dirs
    BY <1>1, <1>2 DEF G
  <2>2. /\ PlaceInv' /\ TrailInv' /\ executed' \in Seq(Rollbackable) /\ \A t : Has(t)' <=> Has(t) \/ (t = "verify" /\ "verify" \in Rollbackable)
        /\ pc' = "run" /\ pc = "run" /\ next' = next + 1 /\ next \in Nat /\ UNCHANGED <<stages, opts, before>>
    BY <1>1, <1>2, <1>4, <2>1, OnSucceed
  <2>3. \A t : Has(t)' <=> Has(t)
    BY <2>2 DEF Rollbackable
  <2>4. Shape'
    BY <1>1, <1>2, <1>4, <2>2 DEF Shape
  <2>5. DirectoryInv' /\ ListedInv' /\ MoveInv' /\ ManifestInv' /\ OthersInv' /\ PlainInv' /\ ExecutablesInv' /\ UnpackedInv'
    BY <1>1, <1>2, <1>4, <2>2, <2>3, QuietStep
  <2>6. RunInv'
    BY <1>1, <1>2, <1>4, <2>2 DEF PipeInv, RunInv, Clean
  <2> QED BY <2>2, <2>4, <2>5, <2>6, NotFinished DEF PipeInv
<1> QED BY <1>3, <1>4 DEF Verify

LEMMA ControlStep ==
  ASSUME PipeInv, Cancel \/ Stop \/ Finish \/ RolledOut
  PROVE  PipeInv'
<1>1. /\ Started /\ pc' \in {"run", "rollback", "done"} /\ (pc' = "run" => pc = "run")
      /\ UNCHANGED <<disk, before, opts, private, stages, next, executed, game, results, runs>>
      /\ (pc' = "rollback" => next <= Len(stages)) /\ (pc' = "done" /\ next <= Len(stages) => executed = <<>>)
  <2>2. next \in Int /\ (pc # "idle" => Len(stages) \in Int)
    BY StageFacts DEF PipeInv, PlaceInv, Started
  <2>3. CASE Cancel
    BY <2>3 DEF Cancel, Started
  <2>4. CASE Stop
    BY <2>4 DEF Stop, Started
  <2>5. CASE Finish
    BY <2>2, <2>5 DEF Finish, Started
  <2>6. CASE RolledOut
    BY <2>6 DEF RolledOut, Started
  <2> QED BY <2>3, <2>4, <2>5, <2>6
<1>2. \A t : Has(t)' <=> Has(t)
  BY <1>1 DEF Has
<1>3. Shape' 
  <2>1. cached' \in [Dirs -> Directories]
    <3>1. CASE cached' = cached
      BY <3>1 DEF PipeInv, Shape
    <3>2. CASE Finish
      BY <3>2, MissingIs DEF PipeInv, Shape, Finish, Invalidated
    <3> QED BY <3>1, <3>2 DEF Cancel, Stop, RolledOut
  <2>2. cancelled' \in BOOLEAN
    BY DEF Cancel, Stop, Finish, RolledOut, PipeInv, Shape
  <2> QED BY <1>1, <2>1, <2>2 DEF PipeInv, Shape
<1>4. PlaceInv' /\ TrailInv' /\ next \in Nat
  BY <1>1 DEF PipeInv, PlaceInv, TrailInv, Started
<1>5. DirectoryInv' /\ ListedInv' /\ MoveInv' /\ ManifestInv' /\ OthersInv' /\ PlainInv' /\ ExecutablesInv' /\ UnpackedInv'
  BY <1>1, <1>2, <1>4, QuietStep
<1>6. RunInv'
  BY <1>1 DEF PipeInv, RunInv, Clean
<1>7. CacheFresh'
  <2>1. CASE pc' # "done"
    BY <2>1, NotFinished
  <2>2. CASE Finish
    <3>1. opts.path \in Dirs /\ game.dir \in Dirs
      BY <1>1 DEF PipeInv, PlaceInv
    <3> QED BY <1>1, <2>2, <3>1 DEF Finish, CacheFresh, Invalidated
  <2>3. CASE RolledOut
    <3>1. next <= Len(stages) /\ stages \in Recipe
      BY <1>1, <2>3 DEF PipeInv, PlaceInv, RolledOut
    <3>2. ~(next' > Len(stages'))
      BY <1>1, <1>4, <3>1, StageFacts
    <3> QED BY <3>2 DEF CacheFresh, Succeeded
  <2> QED BY <2>1, <2>2, <2>3 DEF Cancel, Stop
<1> QED BY <1>3, <1>4, <1>5, <1>6, <1>7 DEF PipeInv

LEMMA BackgroundStep ==
  ASSUME PipeInv, NEW d \in Dirs, BackgroundScan(d)
  PROVE  PipeInv'
<1>1. /\ cached' = [cached EXCEPT ![d] = disk[d]]
      /\ UNCHANGED <<disk, pc, stages, next, executed, cancelled, opts, game, results, private, before>>
  BY DEF BackgroundScan
<1>2. Shape'
  BY <1>1 DEF PipeInv, Shape
<1>3. PlaceInv' /\ TrailInv' /\ DirectoryInv' /\ RunInv'
  BY <1>1 DEF PipeInv, PlaceInv, TrailInv, DirectoryInv, RunInv, Started, Nothing, Alike, Clean
<1>4. ListedInv' /\ MoveInv' /\ ManifestInv' /\ OthersInv' /\ PlainInv' /\ ExecutablesInv' /\ UnpackedInv'
  BY <1>1 DEF PipeInv, ListedInv, MoveInv, ManifestInv, OthersInv, PlainInv, ExecutablesInv, UnpackedInv, Started, Early, Clean,
              Moved, Made, Has, Same
<1>5. CacheFresh'
  BY <1>1 DEF PipeInv, Shape, CacheFresh, Succeeded
<1> QED BY <1>2, <1>3, <1>4, <1>5 DEF PipeInv

LEMMA StartStep ==
  ASSUME PipeInv, NEW name \in DOMAIN Recipes, NEW path \in Dirs, NEW dry \in BOOLEAN, NEW normalize \in BOOLEAN,
         NEW steamless \in BOOLEAN, NEW emulate \in BOOLEAN, Start(name, path, dry, normalize, steamless, emulate)
  PROVE  PipeInv'
<1>1. /\ pc' = "run" /\ stages' = Recipes[name] /\ next' = 1 /\ executed' = <<>> /\ cancelled' = FALSE
      /\ opts' = [path |-> path, dry |-> dry, normalize |-> normalize, steamless |-> steamless, emulate |-> emulate]
      /\ game' = [NoGame EXCEPT !.dir = path] /\ results' = NoResults /\ private' = NoPrivate /\ before' = disk
      /\ disk[path].is # None /\ UNCHANGED <<disk, cached>>
  BY DEF Start
<1>2. stages' \in Recipe
  BY <1>1, RecipeIs
<1>3. Len(stages') \in Nat /\ 1 <= Len(stages')
  BY <1>2, StageFacts
<1>4. opts'.path = path /\ game'.dir = path /\ opts'.dry = dry
  BY <1>1 DEF NoGame
<1>5. /\ results'.normalized = FALSE /\ results'.acf = FALSE /\ results'.unpacked = FALSE /\ results'.undoErrors = 0 /\ results'.errors = {}
      /\ private'.acf = None /\ private'.renamed = None
  BY <1>1 DEF NoResults, NoPrivate
<1>6. executed' \in Seq(Rollbackable) /\ Len(executed') = 0 /\ DOMAIN executed' = {}
  BY <1>1
<1>7. Shape'
  <2>1. results' \in [normalized : BOOLEAN, orig : Dirs \cup {None}, renamed : Dirs \cup {None}, acf : BOOLEAN,
                  unpacked : BOOLEAN, patched : BOOLEAN, errors : SUBSET Errors, undoErrors : Nat]
    BY <1>1 DEF NoResults
  <2>2. private' \in [acf : Dirs \cup {None}, orig : Dirs \cup {None}, renamed : Dirs \cup {None}]
    BY <1>1 DEF NoPrivate
  <2>3. game' \in [dir : Dirs \cup {None}, profile : Dirs \cup {None}, touched : BOOLEAN]
    BY <1>1 DEF NoGame
  <2>4. opts' \in [path : Dirs \cup {None}, dry : BOOLEAN, normalize : BOOLEAN, steamless : BOOLEAN, emulate : BOOLEAN]
    BY <1>1
  <2> QED BY <1>1, <1>6, <2>1, <2>2, <2>3, <2>4 DEF PipeInv, Shape
<1>8. PlaceInv'
  BY <1>1, <1>2, <1>3, <1>4, <1>6 DEF PlaceInv, Started
<1>9. TrailInv'
  BY <1>6 DEF TrailInv
<1>10. DirectoryInv'
  BY <1>1 DEF PipeInv, DirectoryInv, Nothing, Alike
<1>11. Started' /\ Clean' /\ ~Moved' /\ ~Made'
  BY <1>1, <1>4, <1>5 DEF Started, Clean, Moved, Made
<1>12. ListedInv' /\ MoveInv'
  BY <1>4, <1>5, <1>11 DEF ListedInv, MoveInv
<1>13. RunInv'
  BY <1>1, <1>4, <1>11 DEF RunInv
<1>14. ManifestInv' /\ OthersInv' /\ PlainInv' /\ UnpackedInv'
  BY <1>1, <1>4, <1>5, <1>11 DEF ManifestInv, OthersInv, PlainInv, UnpackedInv, Same
<1>15. ExecutablesInv'
  BY <1>1, <1>4, <1>5 DEF ExecutablesInv
<1> QED BY <1>1, <1>7, <1>8, <1>9, <1>10, <1>12, <1>13, <1>14, <1>15, NotFinished DEF PipeInv

-----------------------------------------------------------------------------
(* The stages that change directories. *)

LEMMA ManifestStep ==
  ASSUME PipeInv, Manifest
  PROVE  PipeInv'
<1>1. At("manifest") /\ UNCHANGED <<cached, cancelled, game>>
  BY DEF Manifest
<1>2. /\ Started /\ Early /\ Clean /\ pc = "run" /\ G \in Dirs /\ opts.path \in Dirs /\ Shape /\ PlaceInv /\ TrailInv
      /\ game.profile = opts.path /\ Here.is # None /\ Here \in Directories /\ next > 1
  BY <1>1, InRun, HereIs DEF Here, G
<1>3. ~Has("manifest") /\ ~Has("normalize") /\ ~Has("steamless")
  BY <1>1, <1>2, NotYet DEF Rank
<1>4. ~Moved /\ ~Made /\ ~results.unpacked /\ game.dir = opts.path /\ private.acf = None /\ private.renamed = None
  BY <1>2, <1>3 DEF PipeInv, ListedInv, Moved
<1>5. game'.dir \in Dirs /\ game'.dir = game.dir
  BY <1>1, <1>2 DEF G
<1>6. Here.man = before[opts.path].man
  BY <1>2, <1>4 DEF PipeInv, ManifestInv, Here
<1>7. CASE AsIs(G) /\ Fail /\ UNCHANGED private
  <2>1. /\ PlaceInv' /\ TrailInv' /\ \A t : Has(t)' <=> Has(t)
        /\ pc' = "rollback" /\ pc = "run" /\ UNCHANGED <<next, executed, stages, opts, before>>
        /\ results' = [results EXCEPT !.errors = results.errors \cup {"fatal"}]
    BY <1>1, <1>2, <1>7, OnFail
  <2>2. /\ results'.normalized = results.normalized /\ results'.acf = results.acf /\ results'.unpacked = results.unpacked
        /\ results'.undoErrors = results.undoErrors /\ results.errors \subseteq results'.errors
    BY <1>2, <2>1 DEF Shape
  <2>3. /\ disk' \in [Dirs -> Directories]
        /\ \A d \in Dirs : Alike(disk'[d], disk[d].is, disk[d].man, disk[d].profile, disk[d].exe, disk[d].bak)
    BY <1>7 DEF AsIs, Touch, Alike
  <2>4. Shape'
    BY <1>1, <1>2, <1>7, <2>1, <2>3 DEF Shape, Errors
  <2>5. Started' /\ Clean' /\ (Early' <=> Early) /\ ~Moved' /\ ~Made' /\ ~results'.unpacked
    BY <1>1, <1>2, <1>4, <2>1, <2>2 DEF Started, Clean, Early, Moved, Made
  <2>6. DirectoryInv'
    BY <2>1, <2>3 DEF PipeInv, DirectoryInv, Nothing, Alike
  <2>7. ListedInv' /\ MoveInv'
    BY <1>2, <1>4, <1>7, <2>1, <2>2, <2>5 DEF PipeInv, ListedInv, MoveInv
  <2>8. ManifestInv' /\ OthersInv' /\ PlainInv' /\ UnpackedInv' /\ RunInv'
    BY <1>1, <1>2, <1>4, <1>5, <2>1, <2>2, <2>3, <2>5 DEF PipeInv, ManifestInv, OthersInv, PlainInv, UnpackedInv, RunInv, Same, Alike
  <2>9. ExecutablesInv'
    BY <1>1, <1>2, <1>4, <1>5, <2>1, <2>2, <2>3, <2>5 DEF PipeInv, ExecutablesInv, Alike
  <2> QED BY <2>1, <2>4, <2>6, <2>7, <2>8, <2>9, NotFinished DEF PipeInv
<1>8. ASSUME NEW m, NEW b, disk' \in [Dirs -> Directories], Succeed("manifest"), b \in BOOLEAN,
             \A d \in Dirs \ {G} : Alike(disk'[d], disk[d].is, disk[d].man, disk[d].profile, disk[d].exe, disk[d].bak),
             Alike(disk'[G], Here.is, m, Here.profile, Here.exe, Here.bak),
             results' = [results EXCEPT !.acf = b],
             IF b /\ ~opts.dry THEN m = "synth" /\ Here.man = None /\ private' = [private EXCEPT !.acf = G]
             ELSE m = Here.man /\ private' = private
      PROVE  PipeInv'
  <2>1. /\ PlaceInv' /\ TrailInv' /\ executed' \in Seq(Rollbackable)
        /\ \A t : Has(t)' <=> Has(t) \/ (t = "manifest" /\ "manifest" \in Rollbackable)
        /\ pc' = "run" /\ pc = "run" /\ next' = next + 1 /\ next \in Nat /\ Len(stages) \in Nat /\ next <= Len(stages)
        /\ UNCHANGED <<stages, opts, before>>
    BY <1>1, <1>2, <1>5, <1>8, OnSucceed
  <2>2. Has("manifest")' /\ \A t : t # "manifest" => (Has(t)' <=> Has(t))
    BY <2>1 DEF Rollbackable
  <2>3. /\ results'.normalized = results.normalized /\ results'.acf = b /\ results'.unpacked = results.unpacked
        /\ results'.undoErrors = results.undoErrors /\ results.errors = results'.errors
    BY <1>2, <1>8 DEF Shape
  <2>4. private' \in [acf : Dirs \cup {None}, orig : Dirs \cup {None}, renamed : Dirs \cup {None}]
        /\ private'.acf = (IF b /\ ~opts.dry THEN opts.path ELSE None) /\ private'.orig = private.orig /\ private'.renamed = private.renamed
    BY <1>2, <1>4, <1>8 DEF Shape, G
  <2>5. Shape'
    BY <1>1, <1>2, <1>8, <2>1, <2>4 DEF Shape
  <2>6. Started' /\ Clean' /\ ~Moved' /\ (Made' <=> b /\ ~opts.dry) /\ ~results'.unpacked
    BY <1>1, <1>2, <1>4, <2>1, <2>3 DEF Started, Clean, Moved, Made
  <2>7. G' = G /\ G = opts.path
    BY <1>4, <1>5 DEF G
  <2>8. DirectoryInv'
    BY <1>2, <1>8, <2>1 DEF PipeInv, DirectoryInv, Nothing, Alike, Here, G
  <2>9. ListedInv' /\ MoveInv'
    BY <1>2, <1>4, <2>1, <2>2, <2>3, <2>4, <2>6 DEF PipeInv, ListedInv, MoveInv
  <2>10. ManifestInv' /\ UnpackedInv' /\ RunInv'
    BY <1>1, <1>2, <1>4, <1>6, <1>8, <2>1, <2>6, <2>7 DEF PipeInv, ManifestInv, UnpackedInv, RunInv, Alike, Here, G
  <2>11. OthersInv' /\ PlainInv'
    BY <1>1, <1>2, <1>4, <1>8, <2>1, <2>6, <2>7 DEF PipeInv, OthersInv, PlainInv, Same, Alike, Here, G
  <2>12. ExecutablesInv'
    BY <1>1, <1>2, <1>4, <1>8, <2>1, <2>3, <2>6, <2>7 DEF PipeInv, ExecutablesInv, Alike, Here, G
  <2> QED BY <2>1, <2>5, <2>8, <2>9, <2>10, <2>11, <2>12, NotFinished DEF PipeInv
<1>9. CASE /\ Here.man = None /\ ~opts.dry /\ Succeed("manifest")
           /\ Touch(G, Here.is, "synth", Here.profile, Here.exe, Here.bak)
           /\ private' = [private EXCEPT !.acf = G] /\ results' = [results EXCEPT !.acf = TRUE]
  <2>1. /\ disk' \in [Dirs -> Directories] /\ Alike(disk'[G], Here.is, "synth", Here.profile, Here.exe, Here.bak)
        /\ \A d \in Dirs \ {G} : Alike(disk'[d], disk[d].is, disk[d].man, disk[d].profile, disk[d].exe, disk[d].bak)
    BY <1>9 DEF Touch, Alike
  <2> QED BY <1>8, <1>9, <2>1
<1>10. CASE /\ Here.man = None => opts.dry
            /\ AsIs(G) /\ Succeed("manifest") /\ UNCHANGED private
            /\ results' = [results EXCEPT !.acf = (Here.man = None)]
  <2> DEFINE b == (Here.man = None)
             m == Here.man
  <2>1. /\ disk' \in [Dirs -> Directories] /\ Alike(disk'[G], Here.is, m, Here.profile, Here.exe, Here.bak)
        /\ \A d \in Dirs \ {G} : Alike(disk'[d], disk[d].is, disk[d].man, disk[d].profile, disk[d].exe, disk[d].bak)
    BY <1>10 DEF AsIs, Touch, Alike, Here, G
  <2>2. b \in BOOLEAN /\ ~(b /\ ~opts.dry) /\ results' = [results EXCEPT !.acf = b]
    BY <1>10
  <2>3. Succeed("manifest") /\ private' = private /\ m = Here.man
    BY <1>10
  <2> HIDE DEF b, m
  <2> QED BY <1>8, <2>1, <2>2, <2>3
<1>11. G \in Dirs
  BY <1>2
<1> QED BY <1>2, <1>7, <1>9, <1>10, ManifestDisk

LEMMA NormalizeStep ==
  ASSUME PipeInv, Normalize
  PROVE  PipeInv'
<1>1. At("normalize") /\ UNCHANGED cancelled
  BY DEF Normalize
<1>2. /\ Started /\ Early /\ Clean /\ pc = "run" /\ G \in Dirs /\ opts.path \in Dirs /\ Shape /\ PlaceInv /\ TrailInv
      /\ game.profile = opts.path /\ Here.is # None /\ Here \in Directories /\ next > 1
  BY <1>1, InRun, HereIs DEF Here, G
<1>3. ~Has("normalize") /\ ~Has("steamless")
  BY <1>1, <1>2, NotYet DEF Rank
<1>4. ~Moved /\ ~results.unpacked /\ game.dir = opts.path /\ private.renamed = None
  BY <1>2, <1>3 DEF PipeInv, ListedInv, Moved
<1>5. cached' \in [Dirs -> Directories]
  BY MissingIs DEF Normalize, PipeInv, Shape, Fail, Invalidated
<1>6. CASE Fail /\ UNCHANGED <<disk, game, private>>
  <2>1. cached' = cached
    BY <1>2, <1>6 DEF Normalize, Fail, Succeed, At
  <2> QED BY <1>1, <1>6, <2>1, FailStep DEF PipeInv, Shape
<1>7. CASE /\ Succeed("normalize") /\ UNCHANGED <<disk, game, private>>
           /\ \E b \in BOOLEAN : results' = [results EXCEPT !.normalized = b] /\ (~opts.dry => ~b)
  <2>1. PICK b \in BOOLEAN : results' = [results EXCEPT !.normalized = b] /\ (~opts.dry => ~b)
    BY <1>7
  <2>2. game'.dir \in Dirs
    BY <1>2, <1>7 DEF G
  <2>3. /\ PlaceInv' /\ TrailInv' /\ executed' \in Seq(Rollbackable)
        /\ \A t : Has(t)' <=> Has(t) \/ (t = "normalize" /\ "normalize" \in Rollbackable)
        /\ pc' = "run" /\ pc = "run" /\ next' = next + 1 /\ next \in Nat /\ Len(stages) \in Nat /\ next <= Len(stages)
        /\ UNCHANGED <<stages, opts, before>>
    BY <1>1, <1>2, <1>7, <2>2, OnSucceed
  <2>4. Has("normalize")' /\ \A t : t # "normalize" => (Has(t)' <=> Has(t))
    BY <2>3 DEF Rollbackable
  <2>5. /\ results'.normalized = b /\ results'.acf = results.acf /\ results'.unpacked = results.unpacked
        /\ results'.undoErrors = results.undoErrors /\ results.errors = results'.errors
    BY <1>2, <2>1 DEF Shape
  <2>6. Shape'
    BY <1>1, <1>2, <1>5, <1>7, <2>1, <2>3 DEF Shape
  <2>7. Started' /\ Clean' /\ (Early' => Early) /\ ~Moved' /\ (Made' <=> Made) /\ ~results'.unpacked
    BY <1>2, <1>4, <1>7, <2>3, <2>5 DEF Started, Clean, Moved, Made, Early
  <2>8. DirectoryInv'
    BY <1>7, <2>3 DEF PipeInv, DirectoryInv, Nothing, Alike
  <2>9. ListedInv' /\ MoveInv'
    BY <1>2, <1>4, <1>7, <2>1, <2>3, <2>4, <2>5, <2>7 DEF PipeInv, ListedInv, MoveInv
  <2>10. ManifestInv' /\ UnpackedInv' /\ RunInv' /\ OthersInv' /\ PlainInv'
    <3>1. ManifestInv' /\ UnpackedInv'
      BY <1>2, <1>7, <2>3, <2>7 DEF PipeInv, ManifestInv, UnpackedInv
    <3>2. RunInv'
      BY <1>2, <1>7, <2>3, <2>7 DEF RunInv, Here, G
    <3>3. OthersInv'
      BY <1>2, <1>7, <2>3 DEF PipeInv, OthersInv, Same
    <3>4. PlainInv'
      BY <1>2, <1>4, <1>7, <2>3, <2>7 DEF PipeInv, PlainInv
    <3> QED BY <3>1, <3>2, <3>3, <3>4
  <2>11. ExecutablesInv'
    BY <1>2, <1>7, <2>3, <2>5, <2>7 DEF PipeInv, ExecutablesInv
  <2> QED BY <2>3, <2>6, <2>8, <2>9, <2>10, <2>11, NotFinished DEF PipeInv
<1>8. CASE /\ Succeed("normalize") /\ ~opts.dry /\ G = "raw" /\ disk["clean"].is = None
           /\ disk' \in [Dirs -> Directories] /\ disk'["raw"] = Missing
           /\ Alike(disk'["clean"], Here.is, Here.man, "clean", Here.exe, Here.bak)
           /\ game' = [game EXCEPT !.dir = "clean"]
           /\ private' = [private EXCEPT !.orig = "raw", !.renamed = "clean"]
           /\ results' = [results EXCEPT !.normalized = TRUE, !.orig = "raw", !.renamed = "clean"]
  <2>1. /\ game'.dir = "clean" /\ game'.profile = game.profile /\ "clean" \in Dirs /\ "raw" \in Dirs
        /\ game' \in [dir : Dirs \cup {None}, profile : Dirs \cup {None}, touched : BOOLEAN]
    BY <1>2, <1>8 DEF Shape, Dirs
  <2>2. game'.dir \in Dirs
    BY <2>1
  <2>3. /\ PlaceInv' /\ TrailInv' /\ executed' \in Seq(Rollbackable)
        /\ \A t : Has(t)' <=> Has(t) \/ (t = "normalize" /\ "normalize" \in Rollbackable)
        /\ pc' = "run" /\ pc = "run" /\ next' = next + 1 /\ next \in Nat /\ Len(stages) \in Nat /\ next <= Len(stages)
        /\ UNCHANGED <<stages, opts, before>>
    BY <1>1, <1>2, <1>8, <2>2, OnSucceed
  <2>4. Has("normalize")' /\ \A t : t # "normalize" => (Has(t)' <=> Has(t))
    BY <2>3 DEF Rollbackable
  <2>5. /\ results'.normalized = TRUE /\ results'.acf = results.acf /\ results'.unpacked = results.unpacked
        /\ results'.undoErrors = results.undoErrors /\ results.errors = results'.errors
        /\ results' \in [normalized : BOOLEAN, orig : Dirs \cup {None}, renamed : Dirs \cup {None}, acf : BOOLEAN,
                  unpacked : BOOLEAN, patched : BOOLEAN, errors : SUBSET Errors, undoErrors : Nat]
    BY <1>2, <1>8, <2>1 DEF Shape
  <2>6. /\ private' \in [acf : Dirs \cup {None}, orig : Dirs \cup {None}, renamed : Dirs \cup {None}]
        /\ private'.acf = private.acf /\ private'.orig = "raw" /\ private'.renamed = "clean"
    BY <1>2, <1>8, <2>1 DEF Shape
  <2>7. Shape'
    BY <1>1, <1>2, <1>5, <1>8, <2>1, <2>3, <2>5, <2>6 DEF Shape
  <2>8. opts.path = "raw" /\ game.dir = "raw" /\ Here = disk["raw"]
    BY <1>4, <1>8 DEF G, Here
  <2>9. Started' /\ Clean' /\ (Early' => Early) /\ Moved' /\ (Made' <=> Made) /\ ~results'.unpacked
    BY <1>2, <1>4, <2>1, <2>3, <2>5, <2>8 DEF Started, Clean, Moved, Made, Early
  <2>10. before["clean"].is = None
    BY <1>2, <1>8, <2>1, <2>8 DEF PipeInv, OthersInv, Same, Dirs
  <2>11. \A d \in Dirs : d = "raw" \/ d = "clean"
    BY DEF Dirs
  <2>12. Alike(disk'["raw"], None, None, None, [e \in Exes |-> "packed"], {})
    BY <1>8, MissingIs
  <2>13. DirectoryInv'
    BY <1>2, <1>8, <2>3, <2>11, <2>12 DEF PipeInv, DirectoryInv, Nothing, Alike
  <2>14. ListedInv' /\ MoveInv'
    BY <1>2, <1>8, <2>1, <2>3, <2>4, <2>5, <2>6, <2>8, <2>9, <2>10 DEF PipeInv, ListedInv, MoveInv, None
  <2>15. ManifestInv' /\ UnpackedInv' /\ RunInv'
    BY <1>2, <1>8, <2>1, <2>3, <2>8, <2>9 DEF PipeInv, ManifestInv, UnpackedInv, RunInv, Alike
  <2>16. OthersInv' /\ PlainInv'
    BY <1>2, <1>8, <2>1, <2>3, <2>8, <2>9, <2>11 DEF PipeInv, OthersInv, PlainInv, Alike
  <2>17. ExecutablesInv'
    BY <1>2, <1>8, <2>1, <2>3, <2>5, <2>8, <2>9 DEF PipeInv, ExecutablesInv, Alike
  <2> QED BY <2>3, <2>7, <2>13, <2>14, <2>15, <2>16, <2>17, NotFinished DEF PipeInv
<1> QED BY <1>2, <1>6, <1>7, <1>8, NormalizeDisk

LEMMA SteamlessStep ==
  ASSUME PipeInv, Steamless
  PROVE  PipeInv'
<1>1. At("steamless") /\ UNCHANGED cached /\ cancelled' \in BOOLEAN
  BY DEF Steamless, PipeInv, Shape
<1>2. /\ Started /\ Early /\ Clean /\ pc = "run" /\ G \in Dirs /\ opts.path \in Dirs /\ Shape /\ PlaceInv /\ TrailInv
      /\ game.profile = opts.path /\ Here.is # None /\ Here \in Directories /\ next > 1 /\ disk \in [Dirs -> Directories]
  BY <1>1, InRun, HereIs DEF Here, G, Shape
<1>3. ~Has("steamless")
  BY <1>1, <1>2, NotYet DEF Rank
<1>4. ~results.unpacked
  BY <1>2, <1>3 DEF PipeInv, ListedInv
<1>5. Succeed("steamless") /\ UNCHANGED <<game, private>>
  BY <1>2, SteamlessDisk
<1>6. game'.dir \in Dirs /\ game'.dir = game.dir
  BY <1>2, <1>5 DEF G
<1>7. /\ PlaceInv' /\ TrailInv' /\ executed' \in Seq(Rollbackable)
      /\ \A t : Has(t)' <=> Has(t) \/ (t = "steamless" /\ "steamless" \in Rollbackable)
      /\ pc' = "run" /\ pc = "run" /\ next' = next + 1 /\ next \in Nat /\ Len(stages) \in Nat /\ next <= Len(stages)
      /\ UNCHANGED <<stages, opts, before>>
  BY <1>1, <1>2, <1>5, <1>6, OnSucceed
<1>8. Has("steamless")' /\ \A t : t # "steamless" => (Has(t)' <=> Has(t))
  BY <1>7 DEF Rollbackable
<1>9. ASSUME NEW x, NEW bk, disk' \in [Dirs -> Directories],
             \A d \in Dirs \ {G} : disk'[d] = disk[d],
             Alike(disk'[G], Here.is, Here.man, Here.profile, x, bk),
             results' \in [normalized : {results.normalized}, orig : {results.orig}, renamed : {results.renamed}, acf : {results.acf},
                  unpacked : BOOLEAN, patched : {results.patched}, errors : SUBSET Errors, undoErrors : {0}],
             results.errors \subseteq results'.errors,
             results'.unpacked => bk # {},
             "killed" \notin results'.errors =>
               \A e \in Exes : \/ (e \in bk <=> e \in Here.bak) /\ x[e] = Here.exe[e]
                               \/ e \in bk /\ results'.unpacked /\ Here.exe[e] = "packed"
      PROVE  PipeInv'
  <2>1. /\ results'.normalized = results.normalized /\ results'.acf = results.acf /\ results'.undoErrors = 0
        /\ results'.unpacked \in BOOLEAN
    BY <1>9
  <2>2. Shape'
    BY <1>1, <1>2, <1>5, <1>7, <1>9 DEF Shape
  <2>3. Started' /\ Clean' /\ (Moved' <=> Moved) /\ (Made' <=> Made)
    BY <1>5, <1>7, <2>1 DEF Started, Clean, Moved, Made
  <2>4. DirectoryInv'
    BY <1>2, <1>7, <1>9 DEF PipeInv, DirectoryInv, Nothing, Alike, Here, G
  <2>5. ListedInv' /\ MoveInv'
    BY <1>2, <1>5, <1>7, <1>8, <2>1, <2>3 DEF PipeInv, ListedInv, MoveInv
  <2>6. ManifestInv' /\ UnpackedInv'
    BY <1>2, <1>5, <1>7, <1>9, <2>3 DEF PipeInv, ManifestInv, UnpackedInv, Alike, Here, G
  <2>7. RunInv'
    BY <1>2, <1>5, <1>7, <1>9, <2>3 DEF RunInv, Alike, G
  <2>8. OthersInv'
    BY <1>2, <1>5, <1>7, <1>9 DEF PipeInv, OthersInv, Same, G
  <2>9. PlainInv'
    BY <1>2, <1>5, <1>7, <1>9, <2>3 DEF PipeInv, PlainInv, Alike, Here, G, Moved
  <2>10. ExecutablesInv'
    <3> SUFFICES ASSUME "killed" \notin results'.errors, NEW e \in Exes \ before[opts.path].bak
                 PROVE  /\ e \in bk => results'.unpacked
                        /\ stages # Recipes["update"] =>
                             IF e \in bk THEN before[opts.path].exe[e] = "packed" ELSE x[e] = before[opts.path].exe[e]
      BY <1>5, <1>7, <1>9 DEF ExecutablesInv, Alike, G
    <3>1. "killed" \notin results.errors
      BY <1>9
    <3>2. e \notin Here.bak /\ (stages # Recipes["update"] => Here.exe[e] = before[opts.path].exe[e])
      BY <1>2, <1>4, <3>1 DEF PipeInv, ExecutablesInv, Here
    <3> QED BY <1>9, <3>2
  <2> QED BY <1>7, <2>2, <2>4, <2>5, <2>6, <2>7, <2>8, <2>9, <2>10, NotFinished DEF PipeInv
<1>10. results.errors \in SUBSET Errors /\ results.undoErrors = 0
  BY <1>2 DEF Shape, Clean
<1>11. ASSUME disk' = disk, NEW er \in SUBSET Errors, results.errors \subseteq er, results' = [results EXCEPT !.unpacked = FALSE, !.errors = er]
       PROVE  PipeInv'
  <2>1. Alike(disk'[G], Here.is, Here.man, Here.profile, Here.exe, Here.bak)
    BY <1>11 DEF Alike, Here, G
  <2>2. results' \in [normalized : {results.normalized}, orig : {results.orig}, renamed : {results.renamed}, acf : {results.acf},
                  unpacked : BOOLEAN, patched : {results.patched}, errors : SUBSET Errors, undoErrors : {0}] /\ results'.errors = er
        /\ ~results'.unpacked
    BY <1>2, <1>10, <1>11 DEF Shape
  <2>3. disk' \in [Dirs -> Directories] /\ \A d \in Dirs \ {G} : disk'[d] = disk[d]
    BY <1>2, <1>11
  <2> QED BY <1>9, <1>11, <2>1, <2>2, <2>3
<1>12. CASE disk' = disk /\ results' = [results EXCEPT !.unpacked = FALSE]
  <2>1. results' = [results EXCEPT !.unpacked = FALSE, !.errors = results.errors]
    BY <1>2, <1>12 DEF Shape
  <2> QED BY <1>10, <1>11, <1>12, <2>1
<1>13. CASE disk' = disk /\ results' = [results EXCEPT !.unpacked = FALSE, !.errors = results.errors \cup {"unpacker"}]
  <2> DEFINE er == results.errors \cup {"unpacker"}
  <2>1. er \in SUBSET Errors /\ results.errors \subseteq er /\ results' = [results EXCEPT !.unpacked = FALSE, !.errors = er]
    BY <1>10, <1>13 DEF Errors
  <2> HIDE DEF er
  <2> QED BY <1>11, <1>13, <2>1
<1>14. ASSUME NEW es \in SUBSET Exes, Unpacks(es)
       PROVE  /\ disk' \in [Dirs -> Directories] /\ \A d \in Dirs \ {G} : disk'[d] = disk[d]
              /\ Alike(disk'[G], Here.is, Here.man, Here.profile, [e \in Exes |-> IF e \in es THEN "unpacked" ELSE Here.exe[e]],
                       Here.bak \cup es)
  BY <1>14 DEF Unpacks, Touch
<1>15. CASE \E es \in SUBSET Exes : /\ \A e \in es : Here.exe[e] = "packed"
                                    /\ Unpacks(es)
                                    /\ results' = [results EXCEPT !.unpacked = (es # {})]
  <2>1. PICK es \in SUBSET Exes : /\ \A e \in es : Here.exe[e] = "packed"
                                  /\ Unpacks(es)
                                  /\ results' = [results EXCEPT !.unpacked = (es # {})]
    BY <1>15
  <2> DEFINE u == (es # {})
             x == [e \in Exes |-> IF e \in es THEN "unpacked" ELSE Here.exe[e]]
             bk == Here.bak \cup es
  <2>2. results' = [results EXCEPT !.unpacked = u] /\ u \in BOOLEAN
    BY <2>1
  <2>3. results' \in [normalized : {results.normalized}, orig : {results.orig}, renamed : {results.renamed}, acf : {results.acf},
                  unpacked : BOOLEAN, patched : {results.patched}, errors : SUBSET Errors, undoErrors : {0}]
        /\ results'.unpacked = u /\ results'.errors = results.errors
    <3> HIDE DEF u
    <3> QED BY <1>2, <1>10, <2>2 DEF Shape
  <2>4. /\ disk' \in [Dirs -> Directories] /\ \A d \in Dirs \ {G} : disk'[d] = disk[d]
        /\ Alike(disk'[G], Here.is, Here.man, Here.profile, x, bk)
    BY <1>14, <2>1
  <2>5. u => bk # {}
    OBVIOUS
  <2>6. \A e \in Exes : \/ (e \in bk <=> e \in Here.bak) /\ x[e] = Here.exe[e]
                        \/ e \in bk /\ u /\ Here.exe[e] = "packed"
    BY <2>1
  <2> HIDE DEF u, x, bk
  <2> QED BY <1>9, <2>3, <2>4, <2>5, <2>6
<1>16. CASE \E es \in SUBSET Exes : /\ Unpacks(es)
                                    /\ results' = [results EXCEPT !.unpacked = FALSE, !.errors = results.errors \cup {"killed"}]
  <2>1. PICK es \in SUBSET Exes : /\ Unpacks(es)
                                  /\ results' = [results EXCEPT !.unpacked = FALSE, !.errors = results.errors \cup {"killed"}]
    BY <1>16
  <2> DEFINE x == [e \in Exes |-> IF e \in es THEN "unpacked" ELSE Here.exe[e]]
             bk == Here.bak \cup es
  <2>2. results' \in [normalized : {results.normalized}, orig : {results.orig}, renamed : {results.renamed}, acf : {results.acf},
                  unpacked : BOOLEAN, patched : {results.patched}, errors : SUBSET Errors, undoErrors : {0}]
        /\ results'.unpacked = FALSE /\ results'.errors = results.errors \cup {"killed"}
    BY <1>2, <1>10, <2>1 DEF Shape, Errors
  <2>3. /\ disk' \in [Dirs -> Directories] /\ \A d \in Dirs \ {G} : disk'[d] = disk[d]
        /\ Alike(disk'[G], Here.is, Here.man, Here.profile, x, bk)
    BY <1>14, <2>1
  <2> HIDE DEF x, bk
  <2> QED BY <1>9, <2>2, <2>3
<1> QED BY <1>2, <1>12, <1>13, <1>15, <1>16, SteamlessDisk

(* The stages that end a recipe: nothing is left to fail after them. *)
LEMMA LastStep ==
  ASSUME PipeInv, GBE \/ RevertDRM
  PROVE  PipeInv'
<1>1. PICK s \in {"gbe", "revert"} : At(s) /\ (IF s = "gbe" THEN GBE ELSE RevertDRM)
  BY DEF GBE, RevertDRM
<1>2. /\ Started /\ Early /\ Clean /\ pc = "run" /\ G \in Dirs /\ opts.path \in Dirs /\ Shape /\ PlaceInv /\ TrailInv
      /\ game.profile = opts.path /\ Here.is # None /\ Here \in Directories /\ next > 1 /\ disk \in [Dirs -> Directories]
      /\ stages \in Recipe /\ next \in 1 .. Len(stages) /\ stages[next] = s /\ Len(stages) \in Nat
  BY <1>1, InRun, HereIs DEF Here, G, Shape
<1>3. next = Len(stages)
  BY <1>2, StageFacts
<1>4. /\ Succeed(s) /\ UNCHANGED <<game, private>> /\ LastTouch
      /\ s = "gbe" /\ opts.emulate => \A d \in Dirs : disk'[d].bak = disk[d].bak
      /\ \E b \in BOOLEAN, er \in SUBSET Errors : results' = [results EXCEPT !.patched = b, !.errors = er]
  <2>1. CASE s = "gbe"
    BY <1>1, <1>2, <2>1, GBEDisk
  <2>2. CASE s = "revert"
    <3>1. /\ Succeed(s) /\ UNCHANGED <<game, private>> /\ LastTouch /\ results' = [results EXCEPT !.patched = FALSE]
      BY <1>1, <1>2, <2>2, RevertDisk
    <3>2. results' = [results EXCEPT !.patched = FALSE, !.errors = results.errors] /\ results.errors \in SUBSET Errors
      BY <1>2, <3>1 DEF Shape
    <3> QED BY <2>2, <3>1, <3>2
  <2> QED BY <2>1, <2>2
<1>5. /\ results'.normalized = results.normalized /\ results'.acf = results.acf /\ results'.unpacked = results.unpacked
      /\ results'.undoErrors = results.undoErrors
      /\ results' \in [normalized : BOOLEAN, orig : Dirs \cup {None}, renamed : Dirs \cup {None}, acf : BOOLEAN,
                  unpacked : BOOLEAN, patched : BOOLEAN, errors : SUBSET Errors, undoErrors : Nat]
  BY <1>2, <1>4 DEF Shape
<1>6. game'.dir \in Dirs /\ game'.dir = game.dir
  BY <1>2, <1>4 DEF G
<1>7. /\ PlaceInv' /\ TrailInv' /\ executed' \in Seq(Rollbackable)
      /\ \A t : Has(t)' <=> Has(t) \/ (t = s /\ s \in Rollbackable)
      /\ pc' = "run" /\ pc = "run" /\ next' = next + 1 /\ UNCHANGED <<stages, opts, before>>
  BY <1>1, <1>2, <1>4, <1>6, OnSucceed
<1>8. ~Early' /\ Started' /\ (Clean' <=> Clean) /\ (Moved' <=> Moved) /\ (Made' <=> Made)
  BY <1>2, <1>3, <1>4, <1>5, <1>7 DEF Early, Started, Clean, Moved, Made
<1>9. \A t \in {"manifest", "normalize", "steamless"} : Has(t)' <=> Has(t)
  BY <1>7
<1>10. Shape'
  <2>1. cached' \in [Dirs -> Directories]
    BY <1>1, <1>2, MissingIs DEF GBE, RevertDRM, Invalidated, Shape
  <2>2. cancelled' \in BOOLEAN
    BY <1>1, <1>2 DEF GBE, RevertDRM, Shape
  <2> QED BY <1>2, <1>4, <1>5, <1>7, <2>1, <2>2 DEF Shape, LastTouch
<1>11. DirectoryInv'
  BY <1>4, <1>7 DEF PipeInv, DirectoryInv, LastTouch, Nothing, Alike, None
<1>12. ListedInv' /\ MoveInv'
  BY <1>2, <1>4, <1>5, <1>7, <1>8, <1>9 DEF PipeInv, ListedInv, MoveInv
<1>13. ManifestInv'
  BY <1>2, <1>4, <1>6, <1>7, <1>8 DEF PipeInv, ManifestInv, LastTouch, G
<1>14. RunInv'
  BY <1>2, <1>4, <1>6, <1>7, <1>8 DEF PipeInv, RunInv, LastTouch, Here, G
<1>15. OthersInv' /\ PlainInv' /\ ExecutablesInv'
  BY <1>8 DEF OthersInv, PlainInv, ExecutablesInv
<1>16. UnpackedInv'
  <2>1. CASE s = "gbe"
    BY <1>2, <1>4, <1>5, <1>6, <1>7, <2>1 DEF PipeInv, UnpackedInv, G
  <2>2. CASE s = "revert"
    <3>1. \A i \in 1 .. Len(stages) : stages[i] # "steamless"
      BY <1>2, <2>2, StageFacts
    <3>2. ~Has("steamless")
      BY <1>2, <3>1 DEF Has, TrailInv
    <3>3. ~results'.unpacked
      BY <1>2, <1>5, <3>2 DEF PipeInv, ListedInv
    <3> QED BY <3>3 DEF UnpackedInv
  <2> QED BY <2>1, <2>2
<1> QED BY <1>7, <1>10, <1>11, <1>12, <1>13, <1>14, <1>15, <1>16, NotFinished DEF PipeInv

LEMMA UpdateStep ==
  ASSUME PipeInv, Update
  PROVE  PipeInv'
<1>1. At("update") /\ UNCHANGED <<cached, cancelled, game, private>>
  BY DEF Update
<1>2. /\ Started /\ Early /\ Clean /\ pc = "run" /\ G \in Dirs /\ opts.path \in Dirs /\ Shape /\ PlaceInv /\ TrailInv
      /\ game.profile = opts.path /\ Here.is # None /\ Here \in Directories /\ next > 1 /\ disk \in [Dirs -> Directories]
      /\ stages \in Recipe /\ next \in 1 .. Len(stages) /\ stages[next] = "update" /\ Len(stages) \in Nat
  BY <1>1, InRun, HereIs DEF Here, G, Shape
<1>3. stages = Recipes["update"]
  BY <1>2, StageFacts
<1>4. PICK x : Touch(G, Here.is, Here.man, Here.profile, x, Here.bak)
  BY <1>2, UpdateDisk
<1>5. /\ disk' \in [Dirs -> Directories] /\ \A d \in Dirs \ {G} : disk'[d] = disk[d]
      /\ Alike(disk'[G], Here.is, Here.man, Here.profile, x, Here.bak)
  BY <1>4 DEF Touch
<1>6. game'.dir \in Dirs /\ game'.dir = game.dir
  BY <1>1, <1>2 DEF G
<1>7. (Succeed("update") /\ UNCHANGED results) \/ Fail
  BY <1>2, UpdateDisk
<1>8. /\ PlaceInv' /\ TrailInv' /\ executed' \in Seq(Rollbackable) /\ \A t : Has(t)' <=> Has(t)
      /\ pc' \in {"run", "rollback"} /\ pc = "run" /\ next' \in Nat /\ next <= next' /\ UNCHANGED <<stages, opts, before>>
      /\ results' \in [normalized : {results.normalized}, orig : {results.orig}, renamed : {results.renamed}, acf : {results.acf},
                  unpacked : {results.unpacked}, patched : {results.patched}, errors : SUBSET Errors, undoErrors : {results.undoErrors}]
      /\ results.errors \subseteq results'.errors
  <2>1. CASE Succeed("update") /\ UNCHANGED results
    <3>1. /\ PlaceInv' /\ TrailInv' /\ executed' \in Seq(Rollbackable)
          /\ \A t : Has(t)' <=> Has(t) \/ (t = "update" /\ "update" \in Rollbackable)
          /\ pc' = "run" /\ pc = "run" /\ next' = next + 1 /\ UNCHANGED <<stages, opts, before>>
      BY <1>1, <1>2, <1>6, <2>1, OnSucceed
    <3>2. results' \in [normalized : {results.normalized}, orig : {results.orig}, renamed : {results.renamed}, acf : {results.acf},
                  unpacked : {results.unpacked}, patched : {results.patched}, errors : SUBSET Errors, undoErrors : {results.undoErrors}]
      BY <1>2, <2>1 DEF Shape
    <3> QED BY <1>2, <2>1, <3>1, <3>2 DEF Rollbackable
  <2>2. CASE Fail
    <3>1. /\ PlaceInv' /\ TrailInv' /\ \A t : Has(t)' <=> Has(t)
          /\ pc' = "rollback" /\ pc = "run" /\ UNCHANGED <<next, executed, stages, opts, before>>
          /\ results' = [results EXCEPT !.errors = results.errors \cup {"fatal"}]
      BY <1>1, <1>2, <2>2, OnFail
    <3>2. results' \in [normalized : {results.normalized}, orig : {results.orig}, renamed : {results.renamed}, acf : {results.acf},
                  unpacked : {results.unpacked}, patched : {results.patched}, errors : SUBSET Errors, undoErrors : {results.undoErrors}]
          /\ results.errors \subseteq results'.errors
      BY <1>2, <3>1 DEF Shape, Errors
    <3> QED BY <1>2, <3>1, <3>2 DEF Shape
  <2> QED BY <1>7, <2>1, <2>2
<1>9. Shape'
  BY <1>1, <1>2, <1>5, <1>8 DEF Shape
<1>10. Started' /\ (Clean' <=> Clean) /\ (Moved' <=> Moved) /\ (Made' <=> Made) /\ results'.unpacked = results.unpacked
       /\ results'.normalized = results.normalized
  BY <1>1, <1>8 DEF Started, Clean, Moved, Made
<1>11. DirectoryInv'
  BY <1>2, <1>5, <1>8 DEF PipeInv, DirectoryInv, Nothing, Alike, Here, G
<1>12. ListedInv' /\ MoveInv'
  BY <1>1, <1>2, <1>8, <1>10 DEF PipeInv, ListedInv, MoveInv
<1>13. ManifestInv' /\ UnpackedInv'
  BY <1>1, <1>2, <1>5, <1>8, <1>10 DEF PipeInv, ManifestInv, UnpackedInv, Alike, Here, G
<1>14. RunInv'
  BY <1>1, <1>2, <1>5, <1>8, <1>10 DEF RunInv, Alike, G
<1>15. OthersInv'
  BY <1>1, <1>2, <1>5, <1>8 DEF PipeInv, OthersInv, Same, G
<1>16. PlainInv'
  BY <1>1, <1>2, <1>5, <1>8, <1>10 DEF PipeInv, PlainInv, Alike, Here, G, Moved
<1>17. ExecutablesInv'
  <2> SUFFICES ASSUME "killed" \notin results'.errors, NEW e \in Exes \ before[opts.path].bak
               PROVE  e \in Here.bak => results.unpacked
    BY <1>1, <1>3, <1>5, <1>8, <1>10 DEF ExecutablesInv, Alike, G
  <2>1. "killed" \notin results.errors
    BY <1>8
  <2> QED BY <1>2, <2>1 DEF PipeInv, ExecutablesInv, Here
<1> QED BY <1>8, <1>9, <1>11, <1>12, <1>13, <1>14, <1>15, <1>16, <1>17, NotFinished DEF PipeInv

-----------------------------------------------------------------------------
(* Undoing the last completed stage. *)

LEMMA InUndo ==
  ASSUME PipeInv, pc = "rollback"
  PROVE  /\ Started /\ Early /\ G \in Dirs /\ game.dir \in Dirs /\ opts.path \in Dirs /\ Shape /\ PlaceInv /\ TrailInv
         /\ disk \in [Dirs -> Directories] /\ before[opts.path].is # None
BY DEF PipeInv, PlaceInv, Started, Early, Shape, G

LEMMA UndoManifestStep ==
  ASSUME PipeInv, Rollback, executed[Len(executed)] = "manifest", UndoManifest
  PROVE  PipeInv'
<1>1. pc = "rollback"
  BY DEF Rollback
<1>2. /\ Started /\ Early /\ G \in Dirs /\ game.dir \in Dirs /\ opts.path \in Dirs /\ Shape /\ PlaceInv /\ TrailInv
      /\ disk \in [Dirs -> Directories]
  BY <1>1, InUndo
<1>3. UNCHANGED <<game, cached>>
  BY DEF UndoManifest
<1>4. /\ PlaceInv' /\ TrailInv' /\ executed' \in Seq(Rollbackable) /\ Has("manifest")
      /\ \A t : Has(t)' <=> Has(t) /\ t # "manifest"
      /\ \A t : Has(t) => Rank(t) <= Rank("manifest")
      /\ pc' = "rollback" /\ next <= Len(stages)
      /\ UNCHANGED <<next, stages, opts, private, before, cancelled>>
  BY <1>2, <1>3, OnUndo
<1>5. /\ ~Has("manifest")' /\ (Has("normalize")' <=> Has("normalize")) /\ (Has("steamless")' <=> Has("steamless"))
      /\ ~Has("normalize") /\ ~Has("steamless")
  BY <1>4 DEF Rank
<1>6. CASE Clean
  <2>1. ~Moved /\ ~results.unpacked /\ private.acf = IF Made THEN opts.path ELSE None
    BY <1>2, <1>4, <1>5, <1>6 DEF PipeInv, ListedInv
  <2>2. G = opts.path /\ disk[G].man = (IF Made THEN "synth" ELSE before[opts.path].man)
    BY <1>2, <1>6, <2>1 DEF PipeInv, ManifestInv, Moved, G
  <2>3. /\ disk' \in [Dirs -> Directories] /\ \A d \in Dirs \ {G} : disk'[d] = disk[d]
        /\ Alike(disk'[G], disk[G].is, before[opts.path].man, disk[G].profile, disk[G].exe, disk[G].bak)
        /\ results' \in [normalized : {results.normalized}, orig : {results.orig}, renamed : {results.renamed}, acf : BOOLEAN,
                  unpacked : {FALSE}, patched : {results.patched}, errors : {results.errors}, undoErrors : {0}]
        /\ (results'.acf => opts.dry)
        /\ (disk'[G].is = None => disk[G].man = None)
    <3>1. CASE Made
      <4>1. private.acf = G /\ private.acf \in Dirs /\ disk[private.acf].man = "synth"
        BY <1>2, <2>1, <2>2, <3>1
      <4>2. before[opts.path].man = None
        BY <1>2, <1>6, <3>1 DEF PipeInv, ManifestInv
      <4>3. /\ LET r == disk[private.acf] IN Touch(private.acf, r.is, None, r.profile, r.exe, r.bak)
            /\ results' = [results EXCEPT !.acf = FALSE]
        <5>1. private.acf # None
          BY <4>1 DEF Dirs, None
        <5> QED BY <1>2, <4>1, <5>1, UndoManifestDisk
      <4>4. disk[G].is # None
        BY <1>2, <4>1 DEF PipeInv, DirectoryInv, Nothing, Alike, None
      <4> QED BY <1>2, <1>6, <2>1, <4>1, <4>2, <4>3, <4>4 DEF Touch, Shape, Clean, Alike
    <3>2. CASE ~Made
      <4>1. UNCHANGED <<disk, results>>
        <5>1. private.acf = None
          BY <2>1, <3>2
        <5>2. None \notin Dirs
          BY DEF Dirs, None
        <5> QED BY <1>2, <5>1, <5>2, UndoManifestDisk
      <4>2. results.acf => opts.dry
        BY <3>2 DEF Made
      <4>3. disk[G].is = None => disk[G].man = None
        BY <1>2 DEF PipeInv, DirectoryInv, Nothing, Alike
      <4> QED BY <1>2, <1>6, <2>1, <2>2, <3>2, <4>1, <4>2, <4>3 DEF Shape, Clean, Alike
    <3> QED BY <3>1, <3>2
  <2>4. Shape'
    <3>1. CASE UNCHANGED <<disk, results>>
      BY <1>2, <1>3, <1>4, <3>1 DEF Shape
    <3>2. CASE /\ private.acf \in Dirs
               /\ LET r == disk[private.acf] IN Touch(private.acf, r.is, None, r.profile, r.exe, r.bak)
               /\ results' = [results EXCEPT !.acf = FALSE]
      BY <1>2, <1>3, <1>4, <3>2 DEF Shape, Touch
    <3> QED BY <1>2, <3>1, <3>2, UndoManifestDisk
  <2>5. Started' /\ Clean' /\ ~Moved' /\ ~Made' /\ ~results'.unpacked
    BY <1>2, <1>3, <1>4, <2>1, <2>3 DEF Started, Clean, Moved, Made
  <2>6. DirectoryInv'
    <3>1. ASSUME disk'[G].is = None
          PROVE  Nothing(disk'[G])
      <4>1. disk[G].is = None /\ disk[G].man = None
        BY <2>3, <3>1 DEF Alike
      <4>2. before[opts.path].man = None
        <5>1. ~Made
          BY <2>2, <4>1 DEF None
        <5> QED BY <2>2, <4>1, <5>1
      <4> QED BY <1>2, <2>3, <4>1, <4>2 DEF PipeInv, DirectoryInv, Nothing, Alike, G
    <3> QED BY <1>2, <1>4, <2>3, <3>1 DEF PipeInv, DirectoryInv, Alike, G
  <2>7. ListedInv' /\ MoveInv'
    BY <1>2, <1>3, <1>4, <1>5, <1>6, <2>1, <2>3, <2>5 DEF PipeInv, ListedInv, MoveInv
  <2>8. ManifestInv' /\ UnpackedInv' /\ RunInv'
    BY <1>2, <1>3, <1>4, <2>2, <2>3, <2>5 DEF ManifestInv, UnpackedInv, RunInv, Alike, G
  <2>9. OthersInv' /\ PlainInv'
    BY <1>2, <1>3, <1>4, <1>6, <2>1, <2>2, <2>3, <2>5 DEF PipeInv, OthersInv, PlainInv, Same, Alike, G
  <2>10. ExecutablesInv'
    BY <1>2, <1>3, <1>4, <1>6, <2>1, <2>2, <2>3, <2>5 DEF PipeInv, ExecutablesInv, Alike, G
  <2> QED BY <1>4, <2>4, <2>6, <2>7, <2>8, <2>9, <2>10, NotFinished DEF PipeInv
<1>7. CASE ~Clean
  <2>1. results'.undoErrors = results.undoErrors /\ Shape'
    <3>1. CASE UNCHANGED <<disk, results>>
      BY <1>2, <1>3, <1>4, <3>1 DEF Shape
    <3>2. CASE /\ private.acf \in Dirs
               /\ LET r == disk[private.acf] IN Touch(private.acf, r.is, None, r.profile, r.exe, r.bak)
               /\ results' = [results EXCEPT !.acf = FALSE]
      BY <1>2, <1>3, <1>4, <3>2 DEF Shape, Touch
    <3> QED BY <1>2, <3>1, <3>2, UndoManifestDisk
  <2>2. ~Clean'
    BY <1>7, <2>1 DEF Clean
  <2>3. DirectoryInv'
    <3>1. CASE UNCHANGED <<disk, results>>
      BY <1>4, <3>1 DEF PipeInv, DirectoryInv, Nothing, Alike
    <3>2. CASE /\ private.acf \in Dirs /\ disk[private.acf].man = "synth"
               /\ LET r == disk[private.acf] IN Touch(private.acf, r.is, None, r.profile, r.exe, r.bak)
      BY <1>4, <3>2 DEF PipeInv, DirectoryInv, Nothing, Alike, Touch, None
    <3> QED BY <1>2, <3>1, <3>2, UndoManifestDisk
  <2>4. MoveInv'
    BY <1>4, <2>2 DEF PipeInv, MoveInv
  <2> QED BY <1>4, <2>1, <2>2, <2>3, <2>4, NotFinished DEF PipeInv, ListedInv, RunInv, ManifestInv, OthersInv, PlainInv, ExecutablesInv, UnpackedInv
<1> QED BY <1>6, <1>7

LEMMA UndoSteamlessStep ==
  ASSUME PipeInv, Rollback, executed[Len(executed)] = "steamless", UndoSteamless
  PROVE  PipeInv'
<1>1. pc = "rollback"
  BY DEF Rollback
<1>2. /\ Started /\ Early /\ G \in Dirs /\ game.dir \in Dirs /\ opts.path \in Dirs /\ Shape /\ PlaceInv /\ TrailInv
      /\ disk \in [Dirs -> Directories] /\ before[opts.path].is # None
  BY <1>1, InUndo
<1>3. UNCHANGED <<game, cached>> /\ results' = [results EXCEPT !.unpacked = FALSE]
  BY <1>2, UndoSteamlessDisk
<1>4. /\ PlaceInv' /\ TrailInv' /\ executed' \in Seq(Rollbackable)
      /\ \A t : Has(t)' <=> Has(t) /\ t # "steamless"
      /\ pc' = "rollback" /\ next <= Len(stages)
      /\ UNCHANGED <<next, stages, opts, private, before, cancelled>>
  BY <1>2, <1>3, OnUndo
<1>5. ~Has("steamless")' /\ (Has("normalize")' <=> Has("normalize")) /\ (Has("manifest")' <=> Has("manifest"))
  BY <1>4
<1>6. PICK x, bk :
        /\ disk' \in [Dirs -> Directories] /\ \A d \in Dirs \ {G} : disk'[d] = disk[d]
        /\ Alike(disk'[G], Here.is, Here.man, Here.profile, x, bk)
        /\ IF results.unpacked THEN bk = {} /\ x = [e \in Exes |-> IF e \in Here.bak THEN "packed" ELSE Here.exe[e]]
           ELSE bk = Here.bak /\ x = Here.exe
  <2>1. CASE ~results.unpacked /\ disk' = disk
    <3>1. Alike(disk'[G], Here.is, Here.man, Here.profile, Here.exe, Here.bak)
      BY <2>1 DEF Alike, Here, G
    <3> QED BY <1>2, <2>1, <3>1
  <2>2. CASE /\ results.unpacked
             /\ Touch(G, Here.is, Here.man, Here.profile, [e \in Exes |-> IF e \in Here.bak THEN "packed" ELSE Here.exe[e]], {})
    <3> DEFINE y == [e \in Exes |-> IF e \in Here.bak THEN "packed" ELSE Here.exe[e]]
    <3>1. /\ disk' \in [Dirs -> Directories] /\ \A d \in Dirs \ {G} : disk'[d] = disk[d]
          /\ Alike(disk'[G], Here.is, Here.man, Here.profile, y, {})
      BY <2>2 DEF Touch
    <3>2. IF results.unpacked THEN {} = {} /\ y = [e \in Exes |-> IF e \in Here.bak THEN "packed" ELSE Here.exe[e]]
           ELSE {} = Here.bak /\ y = Here.exe
      BY <2>2
    <3> HIDE DEF y
    <3> QED BY <3>1, <3>2
  <2> QED BY <1>2, <2>1, <2>2, UndoSteamlessDisk
<1>7. /\ results'.normalized = results.normalized /\ results'.acf = results.acf /\ results'.undoErrors = results.undoErrors
      /\ results'.errors = results.errors /\ ~results'.unpacked
  BY <1>2, <1>3 DEF Shape
<1>8. Shape'
  BY <1>2, <1>3, <1>4, <1>6 DEF Shape
<1>9. Started' /\ (Clean' <=> Clean) /\ (Moved' <=> Moved) /\ (Made' <=> Made)
  BY <1>3, <1>4, <1>7 DEF Started, Clean, Moved, Made
<1>10. DirectoryInv'
  <2>1. ASSUME disk'[G].is = None
        PROVE  Nothing(disk'[G])
    <3>1. Alike(Here, None, None, None, [e \in Exes |-> "packed"], {})
      BY <1>2, <1>6, <2>1 DEF PipeInv, DirectoryInv, Nothing, Alike, Here, G
    <3>2. bk = {} /\ x = [e \in Exes |-> "packed"]
      BY <1>6, <3>1 DEF Alike
    <3> QED BY <1>6, <3>1, <3>2 DEF Nothing, Alike
  <2> QED BY <1>2, <1>4, <1>6, <2>1 DEF PipeInv, DirectoryInv, Alike, Here, G
<1>11. ListedInv' /\ MoveInv'
  BY <1>1, <1>2, <1>3, <1>4, <1>5, <1>7, <1>9 DEF PipeInv, ListedInv, MoveInv
<1>12. ManifestInv' /\ UnpackedInv' /\ RunInv'
  BY <1>2, <1>3, <1>4, <1>6, <1>7, <1>9 DEF PipeInv, ManifestInv, UnpackedInv, RunInv, Alike, Here, G
<1>13. OthersInv'
  BY <1>2, <1>3, <1>4, <1>6, <1>9 DEF PipeInv, OthersInv, Same, G
<1>14. PlainInv'
  BY <1>2, <1>3, <1>4, <1>6, <1>9 DEF PipeInv, PlainInv, Alike, Here, G, Moved
<1>15. ExecutablesInv'
  <2> SUFFICES ASSUME Clean, "killed" \notin results.errors, NEW e \in Exes \ before[opts.path].bak
               PROVE  /\ e \notin bk
                      /\ stages # Recipes["update"] => x[e] = before[opts.path].exe[e]
    BY <1>3, <1>4, <1>6, <1>7, <1>9 DEF ExecutablesInv, Alike, G
  <2>1. /\ e \in Here.bak => results.unpacked
        /\ stages # Recipes["update"] =>
             IF e \in Here.bak THEN before[opts.path].exe[e] = "packed" ELSE Here.exe[e] = before[opts.path].exe[e]
    BY <1>2 DEF PipeInv, ExecutablesInv, Here
  <2> QED BY <1>6, <2>1
<1> QED BY <1>4, <1>8, <1>10, <1>11, <1>12, <1>13, <1>14, <1>15, NotFinished DEF PipeInv

LEMMA UndoNormalizeStep ==
  ASSUME PipeInv, Rollback, executed[Len(executed)] = "normalize", UndoNormalize
  PROVE  PipeInv'
<1>1. pc = "rollback"
  BY DEF Rollback
<1>2. /\ Started /\ Early /\ G \in Dirs /\ game.dir \in Dirs /\ opts.path \in Dirs /\ Shape /\ PlaceInv /\ TrailInv
      /\ disk \in [Dirs -> Directories] /\ before[opts.path].is # None
  BY <1>1, InUndo
<1>3. private.renamed \in Dirs => private.orig = "raw" /\ private.renamed = "clean" /\ private.orig \in Dirs /\ private.orig # private.renamed
  BY DEF PipeInv, MoveInv, Dirs, None
<1>4. game'.dir \in Dirs /\ game' \in [dir : Dirs \cup {None}, profile : Dirs \cup {None}, touched : BOOLEAN]
  BY <1>2, <1>3 DEF UndoNormalize, Shape
<1>5. /\ PlaceInv' /\ TrailInv' /\ executed' \in Seq(Rollbackable) /\ Has("normalize")
      /\ \A t : Has(t)' <=> Has(t) /\ t # "normalize"
      /\ \A t : Has(t) => Rank(t) <= Rank("normalize")
      /\ pc' = "rollback" /\ next <= Len(stages)
      /\ UNCHANGED <<next, stages, opts, private, before, cancelled>>
  BY <1>2, <1>4, OnUndo
<1>6. ~Has("normalize")' /\ (Has("manifest")' <=> Has("manifest")) /\ ~Has("steamless") /\ ~Has("steamless")'
  BY <1>5 DEF Rank
<1>7. cached' \in [Dirs -> Directories]
  BY <1>2, MissingIs DEF UndoNormalize, Shape, Invalidated
<1>8. CASE private.renamed \in Dirs /\ results' = [results EXCEPT !.undoErrors = @ + 1] /\ UNCHANGED <<disk, cached, game>>
  <2>1. results'.undoErrors = results.undoErrors + 1 /\ results.undoErrors \in Nat
    BY <1>2, <1>8 DEF Shape
  <2>2. ~Clean'
    BY <2>1 DEF Clean
  <2>3. Shape'
    BY <1>2, <1>5, <1>8 DEF Shape
  <2>4. DirectoryInv'
    BY <1>5, <1>8 DEF PipeInv, DirectoryInv, Nothing, Alike
  <2>5. MoveInv'
    BY <1>5, <2>2 DEF PipeInv, MoveInv
  <2> QED BY <1>5, <2>2, <2>3, <2>4, <2>5, NotFinished
          DEF PipeInv, ListedInv, RunInv, ManifestInv, OthersInv, PlainInv, ExecutablesInv, UnpackedInv
<1>9. CASE /\ private.renamed = None \/ disk[private.renamed].is = None
           /\ UNCHANGED <<disk, cached, game, results>>
  <2>0. disk' = disk /\ cached' = cached /\ game' = game /\ results' = results
    BY <1>9
  <2>1. Shape'
    BY <1>2, <1>5, <2>0 DEF Shape
  <2>2. Started' /\ (Clean' <=> Clean) /\ (Moved' <=> Moved) /\ (Made' <=> Made) /\ (Early' <=> Early)
    <3>1. Started' /\ Started
      BY <1>2, <1>5 DEF Started
    <3>2. Clean' <=> Clean
      BY <2>0 DEF Clean
    <3>3. (Moved' <=> Moved) /\ (Made' <=> Made)
      BY <1>5, <2>0 DEF Moved, Made
    <3>4. Early' <=> Early
      BY <1>5, <3>1 DEF Early
    <3> QED BY <3>1, <3>2, <3>3, <3>4
  <2>3. DirectoryInv'
    BY <1>5, <2>0 DEF PipeInv, DirectoryInv, Nothing, Alike
  <2>4. Clean => ~Moved
    <3> SUFFICES ASSUME Clean, Moved
                 PROVE  FALSE
      OBVIOUS
    <3>1. private.renamed = "clean" /\ game.dir = "clean"
      BY <1>2 DEF PipeInv, MoveInv
    <3>2. disk[game.dir].is # None
      BY <1>2 DEF PipeInv, PlainInv
    <3> QED BY <1>9, <3>1, <3>2 DEF None
  <2>5. ListedInv'
    BY <1>1, <1>2, <1>5, <1>6, <2>0, <2>2, <2>4 DEF PipeInv, ListedInv
  <2>6. MoveInv'
    BY <1>2, <1>5, <2>0, <2>2 DEF PipeInv, MoveInv
  <2>7. ManifestInv' /\ UnpackedInv' /\ RunInv'
    <3>1. ManifestInv'
      BY <1>2, <1>5, <2>0, <2>2 DEF PipeInv, ManifestInv
    <3>2. UnpackedInv'
      BY <1>2, <1>5, <2>0, <2>2 DEF PipeInv, UnpackedInv
    <3>3. RunInv'
      BY <1>5 DEF RunInv
    <3> QED BY <3>1, <3>2, <3>3
  <2>8. OthersInv' /\ PlainInv'
    BY <1>5, <2>0, <2>2 DEF PipeInv, OthersInv, PlainInv, Same
  <2>9. ExecutablesInv'
    BY <1>5, <2>0, <2>2 DEF PipeInv, ExecutablesInv
  <2> QED BY <1>5, <2>1, <2>3, <2>5, <2>6, <2>7, <2>8, <2>9, NotFinished DEF PipeInv
<1>10. CASE /\ private.renamed \in Dirs /\ disk[private.renamed].is # None /\ disk[private.orig].is = None
            /\ LET r == disk[private.renamed]
               IN Alike(disk'[private.orig], r.is, r.man, private.orig, r.exe, r.bak)
            /\ disk' \in [Dirs -> Directories] /\ disk'[private.renamed] = Missing
            /\ game' = [game EXCEPT !.dir = private.orig]
            /\ results' = [results EXCEPT !.normalized = FALSE, !.orig = None, !.renamed = None]
            /\ cached' = Invalidated(cached, {private.orig})
  <2>1. /\ private.orig = "raw" /\ private.renamed = "clean" /\ "raw" \in Dirs /\ "clean" \in Dirs /\ disk["clean"].is # None
        /\ Alike(disk'["raw"], disk["clean"].is, disk["clean"].man, "raw", disk["clean"].exe, disk["clean"].bak)
        /\ disk'["clean"] = Missing /\ game'.dir = "raw"
    BY <1>2, <1>3, <1>10 DEF Shape
  <2>2. /\ results' \in [normalized : {FALSE}, orig : {None}, renamed : {None}, acf : {results.acf},
                  unpacked : {results.unpacked}, patched : {results.patched}, errors : {results.errors}, undoErrors : {results.undoErrors}]
    BY <1>2, <1>10 DEF Shape
  <2>3. Shape'
    BY <1>2, <1>4, <1>5, <1>7, <1>10, <2>2 DEF Shape
  <2>4. \A d \in Dirs : d = "raw" \/ d = "clean"
    BY DEF Dirs
  <2>5. Alike(disk'["clean"], None, None, None, [e \in Exes |-> "packed"], {})
    BY <2>1, MissingIs
  <2>6. DirectoryInv'
    BY <1>5, <2>1, <2>4, <2>5 DEF PipeInv, DirectoryInv, Nothing, Alike
  <2>7. MoveInv' /\ Started' /\ (Clean' <=> Clean) /\ (Made' <=> Made) /\ (Clean => opts.path = "raw" /\ ~Moved' /\ game.dir = "clean"
          /\ before["clean"].is = None)
    <3>1. Started' /\ (Clean' <=> Clean) /\ (Made' <=> Made)
      BY <1>5, <2>2 DEF Started, Clean, Made
    <3>2. Clean => Moved
      BY <1>2, <1>5, <2>1 DEF PipeInv, ListedInv, None
    <3>3. Clean => opts.path = "raw" /\ game.dir = "clean" /\ before["clean"].is = None
      BY <1>2, <3>2 DEF PipeInv, MoveInv
    <3>4. Clean => ~Moved'
      BY <1>5, <2>1, <3>3 DEF Moved
    <3> QED BY <1>5, <2>1, <2>2, <3>1, <3>3, <3>4 DEF MoveInv
  <2>8. ListedInv'
    BY <1>1, <1>2, <1>5, <1>6, <2>2, <2>7 DEF PipeInv, ListedInv
  <2>9. ManifestInv' /\ UnpackedInv' /\ RunInv'
    BY <1>2, <1>5, <2>1, <2>2, <2>7 DEF PipeInv, ManifestInv, UnpackedInv, RunInv, Alike
  <2>10. OthersInv'
    <3> SUFFICES ASSUME Clean
                 PROVE  Same("clean")'
      BY <2>1, <2>4, <2>7, <1>5 DEF OthersInv
    <3>1. Alike(before["clean"], None, None, None, [e \in Exes |-> "packed"], {})
      BY <2>1, <2>7 DEF PipeInv, DirectoryInv, Nothing
    <3> QED BY <1>5, <2>5, <3>1 DEF Same, Alike
  <2>11. PlainInv'
    BY <1>2, <1>5, <2>1, <2>7 DEF PipeInv, PlainInv, Alike
  <2>12. ExecutablesInv'
    BY <1>2, <1>5, <2>1, <2>2, <2>7 DEF PipeInv, ExecutablesInv, Alike
  <2> QED BY <1>5, <2>3, <2>6, <2>7, <2>8, <2>9, <2>10, <2>11, <2>12, NotFinished DEF PipeInv
<1> QED BY <1>2, <1>3, <1>8, <1>9, <1>10, UndoNormalizeDisk

-----------------------------------------------------------------------------
LEMMA PipeInitial ==
  Init => PipeInv
<1> SUFFICES ASSUME Init
             PROVE  PipeInv
  OBVIOUS
<1>1. /\ pc = "idle" /\ stages = <<>> /\ next = 1 /\ executed = <<>> /\ cancelled = FALSE /\ game = NoGame /\ results = NoResults
      /\ private = NoPrivate /\ before = disk /\ cached = [d \in Dirs |-> Missing]
      /\ opts = [path |-> None, dry |-> FALSE, normalize |-> FALSE, steamless |-> FALSE, emulate |-> FALSE]
  BY DEF Init
<1>2. PICK man \in {None, "foreign", "inside"}, profile \in {None, "raw"} :
         disk = [d \in Dirs |->
                   IF d = "raw" THEN [Missing EXCEPT !.is = "game", !.man = man, !.profile = profile]
                   ELSE Missing]
  BY DEF Init
<1> DEFINE r == [Missing EXCEPT !.is = "game", !.man = man, !.profile = profile]
<1>3. r \in Directories /\ r.is = "game" /\ r.profile \in {None, "raw"}
  BY DEF Missing, Directories, Dirs, None
<1>4. disk \in [Dirs -> Directories] /\ \A d \in Dirs : disk[d].profile \in {None, d} /\ (disk[d].is = None => Nothing(disk[d]))
  <2> HIDE DEF r
  <2>1. disk = [d \in Dirs |-> IF d = "raw" THEN r ELSE Missing]
    BY <1>2 DEF r
  <2> QED BY <1>3, <2>1, MissingIs DEF Nothing, Alike, None
<1>5. executed \in Seq(Rollbackable) /\ Len(executed) = 0 /\ DOMAIN executed = {} /\ Len(stages) = 0
  BY <1>1
<1>6. Shape
  <2>1. cached \in [Dirs -> Directories]
    BY <1>1, MissingIs
  <2>2. results \in [normalized : BOOLEAN, orig : Dirs \cup {None}, renamed : Dirs \cup {None}, acf : BOOLEAN,
                  unpacked : BOOLEAN, patched : BOOLEAN, errors : SUBSET Errors, undoErrors : Nat]
    BY <1>1 DEF NoResults
  <2> QED BY <1>1, <1>4, <1>5, <2>1, <2>2 DEF Shape, NoGame, NoPrivate
<1>7. PlaceInv
  BY <1>1, <1>5 DEF PlaceInv, Started, NoGame
<1>8. TrailInv /\ DirectoryInv
  BY <1>1, <1>4, <1>5 DEF TrailInv, DirectoryInv
<1>9. ~Started /\ ~Early /\ private.renamed = None
  BY <1>1 DEF Started, Early, NoPrivate
<1> QED BY <1>1, <1>6, <1>7, <1>8, <1>9
        DEF PipeInv, ListedInv, RunInv, MoveInv, ManifestInv, OthersInv, PlainInv, ExecutablesInv, UnpackedInv, CacheFresh, Succeeded

LEMMA PipeNext ==
  PipeInv /\ [Next]_vars => PipeInv'
<1> SUFFICES ASSUME PipeInv, [Next]_vars
             PROVE  PipeInv'
  OBVIOUS
<1>1. ASSUME NEW name \in Names, NEW path \in Dirs, NEW dry \in DryRuns,
             NEW normalize \in Choices(name, "normalize"), NEW steamless \in Choices(name, "steamless"),
             NEW emulate \in Choices(name, "gbe"),
             Start(name, path, dry, normalize, steamless, emulate)
      PROVE  PipeInv'
  <2>1. name \in DOMAIN Recipes /\ dry \in BOOLEAN
    BY PipelineAssumption
  <2>2. normalize \in BOOLEAN /\ steamless \in BOOLEAN /\ emulate \in BOOLEAN
    BY DEF Choices
  <2> QED BY <1>1, <2>1, <2>2, StartStep
<1>2. CASE Cancel \/ Stop \/ Finish \/ RolledOut
  BY <1>2, ControlStep
<1>3. ASSUME NEW d \in Dirs, BackgroundScan(d)
      PROVE  PipeInv'
  BY <1>3, BackgroundStep
<1>4. CASE Scan
  BY <1>4, ScanStep
<1>5. CASE Manifest
  BY <1>5, ManifestStep
<1>6. CASE Normalize
  BY <1>6, NormalizeStep
<1>7. CASE Steamless
  BY <1>7, SteamlessStep
<1>8. CASE GBE \/ RevertDRM
  BY <1>8, LastStep
<1>9. CASE Verify
  BY <1>9, VerifyStep
<1>10. CASE Update
  BY <1>10, UpdateStep
<1>11. CASE Rollback
  <2>1. \/ executed[Len(executed)] = "manifest" /\ UndoManifest
        \/ executed[Len(executed)] = "normalize" /\ UndoNormalize
        \/ executed[Len(executed)] = "steamless" /\ UndoSteamless
    BY <1>11 DEF Rollback, ToUndo
  <2> QED BY <1>11, <2>1, UndoManifestStep, UndoNormalizeStep, UndoSteamlessStep
<1>12. CASE UNCHANGED vars
  <2>1. UNCHANGED <<disk, cached, pc, stages, next, executed, cancelled, opts, game, results, private, before>>
    BY <1>12 DEF vars
  <2>2. Shape' /\ PlaceInv' /\ TrailInv' /\ DirectoryInv' /\ RunInv'
    BY <2>1 DEF PipeInv, Shape, PlaceInv, TrailInv, DirectoryInv, RunInv, Started, Nothing, Alike, Clean
  <2>3. ListedInv' /\ MoveInv' /\ ManifestInv' /\ OthersInv' /\ PlainInv' /\ ExecutablesInv' /\ UnpackedInv' /\ CacheFresh'
    BY <2>1 DEF PipeInv, ListedInv, MoveInv, ManifestInv, OthersInv, PlainInv, ExecutablesInv, UnpackedInv, CacheFresh, Succeeded,
                Started, Early, Clean, Moved, Made, Has, Same
  <2> QED BY <2>2, <2>3 DEF PipeInv
<1> QED BY <1>1, <1>2, <1>3, <1>4, <1>5, <1>6, <1>7, <1>8, <1>9, <1>10, <1>11, <1>12 DEF Next

LEMMA PipeAlways ==
  Spec => []PipeInv
BY PipeInitial, PipeNext, PTL DEF Spec

(* Fail-fast with rollback (Execute): whatever stage failed and whenever   *)
(* the task was cancelled, for any number of runs one after the other, a   *)
(* rollback without an error of its own leaves the game under the name it  *)
(* had, on disk, in its profile and in memory, without the ACF the run     *)
(* generated and with the executables it found.                            *)
THEOREM FailedRunsUndone ==
  Spec => []RolledBack
<1>1. ASSUME PipeInv
      PROVE  RolledBack
  <2> SUFFICES ASSUME Undoable
               PROVE  /\ game.dir = opts.path
                      /\ \A d \in Dirs :
                           /\ disk[d].is = before[d].is
                           /\ before[d].man = None => disk[d].man = None
                           /\ before[d].profile # None => disk[d].profile = before[d].profile
                           /\ \A e \in Exes \ before[d].bak : "killed" \notin results.errors =>
                                /\ e \notin disk[d].bak
                                /\ stages # Recipes["update"] => disk[d].exe[e] = before[d].exe[e]
    BY DEF RolledBack
  <2>1. pc = "done" /\ Started /\ Early /\ Clean /\ executed = <<>> /\ opts.path \in Dirs
    BY <1>1 DEF Undoable, Failed, Started, Early, Clean, PipeInv, PlaceInv
  <2>2. ~Has("normalize") /\ ~Has("manifest") /\ ~Has("steamless")
    BY <2>1 DEF Has
  <2>3. ~Moved /\ ~Made /\ ~results.unpacked
    BY <1>1, <2>1, <2>2 DEF PipeInv, ListedInv
  <2>4. game.dir = opts.path
    BY <2>3 DEF Moved
  <2>5. ASSUME NEW d \in Dirs, d # opts.path
        PROVE  Same(d)
    BY <1>1, <2>1, <2>4, <2>5 DEF PipeInv, OthersInv
  <2>6. /\ disk[opts.path].is = before[opts.path].is /\ disk[opts.path].man = before[opts.path].man
        /\ disk[opts.path].profile \in {before[opts.path].profile, opts.path}
    BY <1>1, <2>1, <2>3, <2>4 DEF PipeInv, ManifestInv, PlainInv
  <2>7. before[opts.path].profile \in {None, opts.path}
    BY <1>1, <2>1 DEF PipeInv, DirectoryInv
  <2>8. ASSUME "killed" \notin results.errors, NEW e \in Exes \ before[opts.path].bak
        PROVE  /\ e \notin disk[opts.path].bak
               /\ stages # Recipes["update"] => disk[opts.path].exe[e] = before[opts.path].exe[e]
    BY <1>1, <2>1, <2>3, <2>4, <2>8 DEF PipeInv, ExecutablesInv
  <2>9. ASSUME NEW d \in Dirs, NEW e \in Exes \ before[d].bak, "killed" \notin results.errors
        PROVE  e \notin disk[d].bak /\ (stages # Recipes["update"] => disk[d].exe[e] = before[d].exe[e])
    BY <2>5, <2>8, <2>9 DEF Same
  <2>10. ASSUME NEW d \in Dirs
         PROVE  /\ disk[d].is = before[d].is
                /\ before[d].man = None => disk[d].man = None
                /\ before[d].profile # None => disk[d].profile = before[d].profile
    BY <2>5, <2>6, <2>7 DEF Same
  <2> QED BY <2>4, <2>9, <2>10
<1> QED BY <1>1, PipeAlways, PTL

(* What a finished run tells of itself is what is on the disk: a directory *)
(* counts as renamed exactly when it is, an ACF as generated exactly when  *)
(* one is there that was not, executables as unpacked only when their      *)
(* backups exist, and after a successful run no warm cache entry is older  *)
(* than the run (Execute's results and InvalidateGameCache).               *)
THEOREM RunsToldTruly ==
  Spec => []OutcomeTrue
<1>1. ASSUME PipeInv
      PROVE  OutcomeTrue
  <2>1. CacheFresh
    BY <1>1 DEF PipeInv
  <2>2. ASSUME pc = "done", results.undoErrors = 0, ~opts.dry
        PROVE  /\ results.normalized <=> game.dir # opts.path
               /\ results.acf <=> disk[game.dir].man = "synth" /\ before[opts.path].man = None
               /\ results.unpacked /\ opts.emulate => disk[game.dir].bak # {}
    <3>1. Started /\ Clean
      BY <2>2 DEF Started, Clean
    <3>2. results.normalized <=> game.dir # opts.path
      BY <1>1, <2>2, <3>1 DEF PipeInv, MoveInv, Moved
    <3>3. results.acf <=> disk[game.dir].man = "synth" /\ before[opts.path].man = None
      BY <1>1, <2>2, <3>1 DEF PipeInv, ManifestInv, Made, None
    <3>4. results.unpacked /\ opts.emulate => disk[game.dir].bak # {}
      BY <1>1, <3>1 DEF PipeInv, UnpackedInv
    <3> QED BY <3>2, <3>3, <3>4
  <2> QED BY <2>1, <2>2 DEF OutcomeTrue, ResultsTrue
<1> QED BY <1>1, PipeAlways, PTL

(* The pipeline's state keeps its shape and Execute its place in the       *)
(* recipe.                                                                 *)
THEOREM PipelineTypes ==
  Spec => []TypeOK
<1>1. ASSUME PipeInv
      PROVE  TypeOK
  BY <1>1 DEF PipeInv, Shape, PlaceInv, TypeOK
<1> QED BY <1>1, PipeAlways, PTL
=============================================================================
