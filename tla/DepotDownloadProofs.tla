------------------------ MODULE DepotDownloadProofs ------------------------
(***************************************************************************)
(* Proofs about the downloader, for any files, any manifests and any number *)
(* of calls: what a call believes without reading it is on the disk, and a   *)
(* call that reports success has brought the directory to the version.       *)
(***************************************************************************)
EXTENDS DepotDownload, SequenceTheorems, TLAPS

(* What the theorems assume of the user and of the manifests.  The marker of a file that is not  *)
(* there is no content of a file; a version is left only for one with a larger number, once it    *)
(* was complete; and no file has the same chunk twice, since unchanged chunks are recognized by    *)
(* their content (UnchangedIds).                                                                    *)
NoRepeats ==
  \A v \in Versions, f \in Files : Manifest[v][f] # NoFile =>
    \A i, j \in DOMAIN Manifest[v][f] : Manifest[v][f][i] = Manifest[v][f][j] => i = j

Onward == \A m \in Moves : m[1] \in Versions /\ m[1] # m[2] => Gid[m[1]] < Gid[m[2]]

Orderly == NoFile \notin Seq(Content) /\ Patient /\ Onward /\ NoRepeats /\ "both" \notin Troubles

(* What they assume besides where others may change installed files: they do so before the first    *)
(* update only, every entry has a SHA1, and an update never only cuts a file, which would be         *)
(* accepted without the SHA1.                                                                         *)
NoPureCut ==
  \A m \in Moves : m[1] \in Versions =>
    \A f \in Files :
      LET old == Manifest[m[1]][f]
          new == Manifest[m[2]][f]
      IN old # new /\ old # NoFile /\ new \notin {NoFile, <<>>} =>
           \E i \in DOMAIN new : i \notin DOMAIN old \/ old[i] # new[i]

Guarded == "changes" \in Troubles => ~LateChanges /\ Hashed = Files /\ NoPureCut

-----------------------------------------------------------------------------
(* The invariant. *)

Valid(f, i) == Exists(f) /\ i <= Len(disk[f]) /\ disk[f][i] = Entry(f)[i]
Present(f) == Entry(f) # NoFile
OldOf(f) == Manifest[PreviousManifest][f]

(* Versions follow each other, and nothing is left of a version that was completed. *)
OrderInv ==
  /\ current = NoVersion => previous = {} /\ phase = "idle" /\ saved = {}
  /\ installed \in {NoVersion, current}
  /\ \A v \in previous : current # NoVersion /\ Gid[v] < Gid[current]
  /\ previous # {} => <<PreviousManifest, current>> \in Moves /\ PreviousManifest \in Versions
  /\ phase # "streaming" => done = {}
  /\ phase # "idle" => installed = NoVersion
  /\ installed # NoVersion => saved = {}

(* Only chunks of the current version are recorded. *)
KeyInv ==
  \A k \in saved \cup done :
    /\ current # NoVersion /\ k[1] \in Files /\ Present(k[1])
    /\ k[3] \in DOMAIN Entry(k[1]) /\ k = key(k[1], k[3])

(* A worker fetches chunks of its entry. *)
WorkInv ==
  phase = "streaming" => \A f \in Files :
    /\ Present(f) => pending[f] \cup written[f] \subseteq DOMAIN Entry(f)
    /\ ~Present(f) => pc[f] \in {"finished"} /\ pending[f] = {} /\ written[f] = {}
    /\ pc[f] = "waiting" => pending[f] = {} /\ written[f] = {}
    /\ pc[f] \in {"fetching", "mismatch", "refetching"} => Exists(f)

(* When only failures happen: what is recorded, what the delta takes for unchanged and what a     *)
(* worker is done with is on the disk, and so is every file of a completed version.                *)
RecordedInv == \A k \in saved \cup done : Valid(k[1], k[3])

DeltaInv ==
  previous # {} => \A f \in Files : Present(f) /\ OldOf(f) # NoFile =>
    \A i \in DOMAIN OldOf(f) \cap DOMAIN Entry(f) : OldOf(f)[i] = Entry(f)[i] => Valid(f, i)

FetchedInv ==
  phase = "streaming" => \A f \in Files : Present(f) =>
    /\ pc[f] \notin {"mismatch", "refetching"}
    /\ \A i \in written[f] : Valid(f, i)
    /\ pc[f] = "fetching" => \A i \in DOMAIN Entry(f) \ pending[f] : Valid(f, i)
    /\ pc[f] = "finished" => disk[f] = Entry(f)

CompleteInv == installed # NoVersion => \A f \in Files : Present(f) => disk[f] = Entry(f)

FailureInv == trouble = "failures" => RecordedInv /\ DeltaInv /\ FetchedInv /\ CompleteInv

(* When files are changed: what stands where is the version's or was spoilt before the first update. *)
Spoilt(f, s) ==
  Exists(f) /\ Len(disk[f]) = Len(s) /\ \A i \in DOMAIN s : disk[f][i] \in {s[i], Junk}

NothingLeftInv ==
  /\ phase # "streaming" => saved = {}
  /\ phase = "idle" /\ current # NoVersion => installed = current
  /\ phase = "streaming" => \A f \in Files :
       pc[f] # "failed" /\ (pc[f] = "waiting" => \A k \in done : k[1] # f)

InstalledInv ==
  installed # NoVersion => \A f \in Files : Present(f) =>
    IF previous = {} THEN Spoilt(f, Entry(f)) ELSE disk[f] = Entry(f)

BeforeInv ==
  previous # {} => \A f \in Files :
    (phase = "resolved" \/ (phase = "streaming" /\ pc[f] = "waiting")) /\ Present(f) /\ OldOf(f) # NoFile =>
      disk[f] = Entry(f) \/ Spoilt(f, OldOf(f))

UnfetchedInv ==
  phase = "streaming" => \A f \in Files : Present(f) =>
    /\ pc[f] = "fetching" /\ ~fetching[f] => pending[f] = {} /\ written[f] = {} /\ \A i \in DOMAIN Entry(f) : Valid(f, i)
    /\ pc[f] = "finished" => disk[f] = Entry(f)

ChangeInv == trouble = "changes" => NothingLeftInv /\ InstalledInv /\ BeforeInv /\ UnfetchedInv

(* A file that the version has not is gone, or Stream is going to remove it. *)
Never(f) == \A v \in Versions : Manifest[v][f] = NoFile

NoStrangers == \A f \in Files : disk[f] = NoFile \/ Never(f) \/ \A v \in Versions : <<NoVersion, v>> \in Moves => Manifest[v][f] # NoFile

GoneInv ==
  /\ current = NoVersion => NoStrangers
  /\ current # NoVersion => \A f \in Files : ~Present(f) =>
       \/ disk[f] = NoFile \/ Never(f)
       \/ phase # "streaming" /\ installed = NoVersion /\ previous # {} /\ OldOf(f) # NoFile

DownloadInv == TypeOK /\ OrderInv /\ KeyInv /\ WorkInv /\ FailureInv /\ ChangeInv

-----------------------------------------------------------------------------
(* What the operators on files do to their content. *)

LEMMA GrownIs ==
  ASSUME NEW s \in Seq(Content), NEW n \in Nat
  PROVE  /\ Grown(s, n) \in Seq(Content)
         /\ Len(Grown(s, n)) = IF Len(s) < n THEN n ELSE Len(s)
         /\ \A i \in 1..Len(Grown(s, n)) : Grown(s, n)[i] = IF i <= Len(s) THEN s[i] ELSE Zero
<1> DEFINE m == IF Len(s) < n THEN n ELSE Len(s)
           g == [i \in 1..m |-> IF i <= Len(s) THEN s[i] ELSE Zero]
<1>1. Len(s) \in Nat /\ m \in Nat /\ \A i \in 1..Len(s) : s[i] \in Content
  BY LenProperties
<1>2. g \in [1..m -> Content]
  BY <1>1 DEF Content
<1>3. g \in Seq(Content)
  BY <1>1, <1>2, SeqDef
<1>4. Len(g) = m
  BY <1>1, <1>2, <1>3, LenProperties
<1>5. Grown(s, n) = g
  BY DEF Grown
<1> QED BY <1>3, <1>4, <1>5

LEMMA ZerosAre ==
  ASSUME NEW n \in Nat
  PROVE  Zeros(n) \in Seq(Content)
BY GrownIs, EmptySeq DEF Zeros

LEMMA WrittenIs ==
  ASSUME NEW s \in Seq(Content), NEW i \in Nat \ {0}, NEW c \in Content
  PROVE  /\ WriteChunk(s, i, c) \in Seq(Content)
         /\ i <= Len(WriteChunk(s, i, c)) /\ WriteChunk(s, i, c)[i] = c
         /\ \A j \in 1..Len(s) : j <= Len(WriteChunk(s, i, c)) /\ (j # i => WriteChunk(s, i, c)[j] = s[j])
<1> DEFINE g == Grown(s, i)
           w == [g EXCEPT ![i] = c]
<1>1. g \in Seq(Content) /\ Len(g) = (IF Len(s) < i THEN i ELSE Len(s))
      /\ \A j \in 1..Len(g) : g[j] = IF j <= Len(s) THEN s[j] ELSE Zero
  BY GrownIs
<1> HIDE DEF g
<1>2. Len(s) \in Nat /\ Len(g) \in Nat /\ g \in [1..Len(g) -> Content] /\ i \in 1..Len(g)
  BY <1>1, LenProperties
<1>3. w \in [1..Len(g) -> Content] /\ w[i] = c /\ \A j \in 1..Len(g) : j # i => w[j] = g[j]
  BY <1>2
<1>4. w \in Seq(Content)
  BY <1>2, <1>3, SeqDef
<1>5. Len(w) = Len(g)
  BY <1>2, <1>3, <1>4, LenProperties
<1>6. WriteChunk(s, i, c) = w
  BY DEF WriteChunk, g
<1> HIDE DEF w
<1> QED BY <1>1, <1>2, <1>3, <1>4, <1>5, <1>6

(* Finalize's truncation. *)
Cut(s, n) == SubSeq(Grown(s, n), 1, n)

LEMMA CutIs ==
  ASSUME NEW s \in Seq(Content), NEW n \in Nat
  PROVE  /\ Cut(s, n) \in Seq(Content) /\ Len(Cut(s, n)) = n
         /\ \A i \in 1..n : Cut(s, n)[i] = IF i <= Len(s) THEN s[i] ELSE Zero
<1> DEFINE g == Grown(s, n)
<1>1. g \in Seq(Content) /\ Len(g) = (IF Len(s) < n THEN n ELSE Len(s))
      /\ \A j \in 1..Len(g) : g[j] = IF j <= Len(s) THEN s[j] ELSE Zero
  BY GrownIs
<1> HIDE DEF g
<1>2. Len(s) \in Nat /\ Len(g) \in Nat /\ n <= Len(g)
  BY <1>1, LenProperties
<1>3. \A i \in 1..n : i \in 1..Len(g)
  BY <1>2
<1>4. SubSeq(g, 1, n) \in Seq(Content) /\ Len(SubSeq(g, 1, n)) = n /\ \A i \in 1..n : SubSeq(g, 1, n)[i] = g[i]
  BY <1>1, <1>2, <1>3
<1>5. Cut(s, n) = SubSeq(g, 1, n)
  BY DEF Cut, g
<1> HIDE DEF Cut
<1> QED BY <1>1, <1>3, <1>4, <1>5

(* Two contents of the same length and with the same chunks are the same. *)
LEMMA SameContent ==
  ASSUME NEW s \in Seq(Content), NEW t \in Seq(Content), Len(s) = Len(t), \A i \in 1..Len(t) : s[i] = t[i]
  PROVE  s = t
BY SeqEqual

(* An entry is a sequence of chunks. *)
LEMMA EntryIs ==
  ASSUME NEW f \in Files, TypeOK, current # NoVersion, Present(f)
  PROVE  /\ Entry(f) \in Seq(Chunks) /\ Entry(f) \in Seq(Content)
         /\ Len(Entry(f)) \in Nat /\ DOMAIN Entry(f) = 1..Len(Entry(f))
         /\ \A i \in DOMAIN Entry(f) : Entry(f)[i] \in Chunks /\ Entry(f)[i] \in Content
<1>1. Entry(f) \in Seq(Chunks)
  BY DepotSets DEF TypeOK, Present, Entry
<1>2. Len(Entry(f)) \in Nat /\ Entry(f) \in [1..Len(Entry(f)) -> Chunks]
  BY <1>1, LenProperties
<1>3. Entry(f) \in [1..Len(Entry(f)) -> Content]
  BY <1>2 DEF Content
<1>4. Entry(f) \in Seq(Content)
  BY <1>2, <1>3, SeqDef
<1> QED BY <1>1, <1>2, <1>3, <1>4 DEF Content

-----------------------------------------------------------------------------
(* What the steps that write a file do. *)

DataInv == TypeOK /\ OrderInv /\ KeyInv /\ WorkInv

(* There is a version while a call runs. *)
LEMMA VersionIs ==
  ASSUME TypeOK, OrderInv, phase # "idle"
  PROVE  current \in Versions
BY DEF TypeOK, OrderInv

LEMMA SizeIs ==
  ASSUME TypeOK, NEW f \in Files
  PROVE  Size(f) \in Nat /\ (Exists(f) => disk[f] \in Seq(Content) /\ Len(disk[f]) \in Nat /\ Size(f) = Len(disk[f])
                                          /\ DOMAIN disk[f] = 1..Len(disk[f]))
<1>1. Exists(f) => disk[f] \in Seq(Content)
  BY DEF TypeOK, Exists
<1> QED BY <1>1, LenProperties DEF Size

LEMMA PlanEffect ==
  ASSUME Orderly, DataInv, NEW f \in Files, Plan(f)
  PROVE  /\ phase = "streaming" /\ pc[f] = "waiting" /\ Present(f) /\ current \in Versions
         /\ \E s \in Seq(Content) : /\ disk' = [disk EXCEPT ![f] = s]
                                    /\ \A i \in 1..Size(f) : i <= Len(s) /\ s[i] = disk[f][i]
         /\ Credited(f) \subseteq DOMAIN Entry(f)
         /\ done' = done \cup {key(f, i) : i \in Credited(f)}
         /\ saved' = saved \/ saved' \subseteq done'
         /\ pending' = [pending EXCEPT ![f] = DOMAIN Entry(f) \ Credited(f)]
         /\ fetching' = [fetching EXCEPT ![f] = Credited(f) # DOMAIN Entry(f)]
         /\ pc' = [pc EXCEPT ![f] = "fetching"]
         /\ UNCHANGED <<current, previous, phase, written, installed, runs, trouble>>
<1>1. phase = "streaming" /\ pc[f] = "waiting" /\ Present(f) /\ current \in Versions
  BY VersionIs DEF DataInv, Plan, WorkInv
<1>2. Len(Entry(f)) \in Nat /\ DOMAIN Entry(f) = 1..Len(Entry(f))
  BY <1>1, EntryIs, DepotSets DEF DataInv
<1>3. Credited(f) \subseteq DOMAIN Entry(f)
  BY DEF Credited
<1> DEFINE canDelta == IsDelta(f) /\ Size(f) > 0
           old == IF Exists(f) THEN disk[f] ELSE <<>>
           s == IF canDelta THEN old ELSE Grown(old, Len(Entry(f)))
           recorded(n) == done \cup {key(f, i) : i \in Credited(f) \cap (1..n)}
<1>4. disk' = [disk EXCEPT ![f] = s]
  BY DEF Plan
<1>5. old \in Seq(Content) /\ Len(old) = Size(f)
  <2>1. CASE Exists(f)
    BY <2>1, SizeIs DEF DataInv
  <2>2. CASE ~Exists(f)
    BY <2>2, EmptySeq DEF Size
  <2> QED BY <2>1, <2>2
<1>6. s \in Seq(Content) /\ \A i \in 1..Size(f) : i <= Len(s) /\ s[i] = disk[f][i]
  <2>0. Size(f) \in Nat /\ (Size(f) > 0 => old = disk[f])
    BY SizeIs DEF Size, DataInv
  <2>1. CASE canDelta
    BY <1>5, <2>0, <2>1
  <2>2. CASE ~canDelta
    <3>1. s = Grown(old, Len(Entry(f)))
      BY <2>2
    <3> HIDE DEF old, canDelta, s
    <3>2. /\ Grown(old, Len(Entry(f))) \in Seq(Content)
          /\ Len(Grown(old, Len(Entry(f)))) = IF Len(old) < Len(Entry(f)) THEN Len(Entry(f)) ELSE Len(old)
          /\ \A i \in 1..Len(Grown(old, Len(Entry(f)))) :
               Grown(old, Len(Entry(f)))[i] = IF i <= Len(old) THEN old[i] ELSE Zero
      BY <1>2, <1>5, GrownIs
    <3>3. s \in Seq(Content) /\ (Len(s) = IF Size(f) < Len(Entry(f)) THEN Len(Entry(f)) ELSE Size(f))
          /\ \A i \in 1..Len(s) : s[i] = IF i <= Size(f) THEN old[i] ELSE Zero
      BY <1>5, <3>1, <3>2
    <3> HIDE DEF Grown
    <3> QED BY <1>2, <2>0, <3>3
  <2> QED BY <2>1, <2>2
<1>7. recorded(Len(Entry(f))) = done \cup {key(f, i) : i \in Credited(f)}
  <2>1. Credited(f) \cap (1..Len(Entry(f))) = Credited(f)
    BY <1>2, <1>3
  <2> QED BY <2>1
<1>8. done' = done \cup {key(f, i) : i \in Credited(f)}
  BY <1>7 DEF Plan
<1>9. saved' = saved \/ saved' \subseteq done'
  <2>1. saved' \in {saved} \cup {recorded(n) : n \in Credited(f)}
    BY DEF Plan, MaySave
  <2> QED BY <1>8, <2>1
<1>10. \E t \in Seq(Content) : disk' = [disk EXCEPT ![f] = t] /\ \A i \in 1..Size(f) : i <= Len(t) /\ t[i] = disk[f][i]
  <2> HIDE DEF s
  <2> QED BY <1>4, <1>6
<1> QED BY <1>1, <1>3, <1>8, <1>9, <1>10 DEF Plan

LEMMA FetchEffect ==
  ASSUME Orderly, DataInv, NEW f \in Files, NEW i \in pending[f], Fetch(f, i)
  PROVE  /\ phase = "streaming" /\ pc[f] \in {"fetching", "refetching"} /\ Present(f) /\ current \in Versions
         /\ i \in DOMAIN Entry(f) /\ Exists(f)
         /\ \E s \in Seq(Content) :
              /\ disk' = [disk EXCEPT ![f] = s] /\ i <= Len(s) /\ s[i] = Entry(f)[i]
              /\ \A j \in 1..Len(disk[f]) : j <= Len(s) /\ (j # i => s[j] = disk[f][j])
         /\ pending' = [pending EXCEPT ![f] = pending[f] \ {i}]
         /\ written' = [written EXCEPT ![f] = written[f] \cup {i}]
         /\ UNCHANGED <<current, previous, saved, phase, done, pc, fetching, installed, runs, trouble>>
<1>1. phase = "streaming" /\ pc[f] \in {"fetching", "refetching"} /\ Present(f) /\ current \in Versions
      /\ i \in DOMAIN Entry(f) /\ Exists(f)
  BY VersionIs DEF DataInv, Fetch, WorkInv
<1>2. i \in Nat \ {0} /\ Entry(f)[i] \in Content
  BY <1>1, EntryIs, DepotSets DEF DataInv
<1>3. disk[f] \in Seq(Content)
  BY <1>1, SizeIs DEF DataInv
<1>4. disk' = [disk EXCEPT ![f] = WriteChunk(disk[f], i, Entry(f)[i])]
  BY DEF Fetch
<1> DEFINE s == WriteChunk(disk[f], i, Entry(f)[i])
<1>5. /\ s \in Seq(Content) /\ i <= Len(s) /\ s[i] = Entry(f)[i]
      /\ \A j \in 1..Len(disk[f]) : j <= Len(s) /\ (j # i => s[j] = disk[f][j])
  BY <1>2, <1>3, WrittenIs
<1>6. disk' = [disk EXCEPT ![f] = s]
  BY <1>4
<1> HIDE DEF s
<1> QED BY <1>1, <1>5, <1>6 DEF Fetch

LEMMA FinalizeEffect ==
  ASSUME Orderly, DataInv, NEW f \in Files, Finalize(f)
  PROVE  /\ phase = "streaming" /\ pc[f] = "fetching" /\ Present(f) /\ current \in Versions /\ Exists(f)
         /\ pending[f] = {} /\ written[f] = {}
         /\ \E s \in Seq(Content) :
              /\ disk' = [disk EXCEPT ![f] = s] /\ Len(s) = Len(Entry(f))
              /\ \A j \in 1..Len(Entry(f)) : j <= Len(disk[f]) => s[j] = disk[f][j]
              /\ pc' = [pc EXCEPT ![f] = IF f \in Hashed /\ fetching[f] /\ s # Entry(f) THEN "mismatch" ELSE "finished"]
         /\ UNCHANGED <<current, previous, saved, phase, done, pending, written, fetching, installed, runs, trouble>>
<1>1. phase = "streaming" /\ pc[f] = "fetching" /\ Present(f) /\ current \in Versions /\ Exists(f)
      /\ pending[f] = {} /\ written[f] = {}
  BY VersionIs DEF DataInv, Finalize, WorkInv
<1>2. Len(Entry(f)) \in Nat
  BY <1>1, EntryIs, DepotSets DEF DataInv
<1>3. disk[f] \in Seq(Content)
  BY <1>1, SizeIs DEF DataInv
<1> DEFINE s == Cut(disk[f], Len(Entry(f)))
<1>4. disk' = [disk EXCEPT ![f] = s]
      /\ pc' = [pc EXCEPT ![f] = IF f \in Hashed /\ fetching[f] /\ s # Entry(f) THEN "mismatch" ELSE "finished"]
  BY DEF Finalize, Cut
<1>5. s \in Seq(Content) /\ Len(s) = Len(Entry(f)) /\ \A j \in 1..Len(Entry(f)) : j <= Len(disk[f]) => s[j] = disk[f][j]
  BY <1>2, <1>3, CutIs
<1> HIDE DEF s
<1> QED BY <1>1, <1>4, <1>5 DEF Finalize

LEMMA ZerosEffect ==
  ASSUME Orderly, DataInv, NEW f \in Files, Redownload(f)
  PROVE  /\ phase = "streaming" /\ pc[f] = "mismatch" /\ Present(f) /\ current \in Versions
         /\ \E s \in Seq(Content) : disk' = [disk EXCEPT ![f] = s]
         /\ pending' = [pending EXCEPT ![f] = DOMAIN Entry(f)]
         /\ pc' = [pc EXCEPT ![f] = "refetching"]
         /\ UNCHANGED <<current, previous, saved, phase, done, written, fetching, installed, runs, trouble>>
<1>1. phase = "streaming" /\ pc[f] = "mismatch" /\ Present(f) /\ current \in Versions
  BY VersionIs DEF DataInv, Redownload, WorkInv
<1>2. Len(Entry(f)) \in Nat
  BY <1>1, EntryIs, DepotSets DEF DataInv
<1> QED BY <1>1, <1>2, ZerosAre DEF Redownload

(* Modify: one chunk of an installed file. *)
LEMMA ModifyEffect ==
  ASSUME Orderly, DataInv, NEW f \in Files, Modify(f)
  PROVE  /\ MayModify /\ phase = "idle" /\ installed # NoVersion /\ Exists(f)
         /\ \E s \in Seq(Content) :
              /\ disk' = [disk EXCEPT ![f] = s] /\ Len(s) = Len(disk[f])
              /\ \A j \in 1..Len(disk[f]) : s[j] \in {disk[f][j], Junk}
         /\ UNCHANGED <<current, previous, saved, phase, done, workerVars, installed, runs, trouble>>
<1>1. Exists(f) /\ disk[f] \in Seq(Content)
  BY SizeIs DEF DataInv, Modify
<1>2. PICK i \in DOMAIN disk[f] : disk' = [disk EXCEPT ![f] = [disk[f] EXCEPT ![i] = Junk]]
  BY DEF Modify
<1> DEFINE s == [disk[f] EXCEPT ![i] = Junk]
<1>3. Len(disk[f]) \in Nat /\ disk[f] \in [1..Len(disk[f]) -> Content] /\ DOMAIN disk[f] = 1..Len(disk[f])
  BY <1>1, LenProperties
<1>4. s \in [1..Len(disk[f]) -> Content] /\ \A j \in 1..Len(disk[f]) : s[j] \in {disk[f][j], Junk}
  BY <1>3 DEF Content
<1>5. s \in Seq(Content)
  BY <1>3, <1>4, SeqDef
<1>6. Len(s) = Len(disk[f])
  BY <1>3, <1>4, <1>5, LenProperties
<1> HIDE DEF s
<1> QED BY <1>1, <1>2, <1>4, <1>5, <1>6 DEF Modify, s

-----------------------------------------------------------------------------
(* The manifest that the delta is computed from is the one of the version that was left. *)

LEMMA PreviousSame == ASSUME previous' = previous PROVE PreviousManifest' = PreviousManifest
BY DEF PreviousManifest

LEMMA PreviousLeft ==
  ASSUME TypeOK, OrderInv, NEW v \in Versions, current \notin {NoVersion, v}, previous' = previous \cup ({current} \ {NoVersion, v})
  PROVE  previous' # {} /\ PreviousManifest' = current /\ current \in Versions
<1>1. previous' = previous \cup {current} /\ current \in Versions
  BY DEF TypeOK
<1>2. \A w \in previous : Gid[w] < Gid[current] /\ Gid[w] \in Nat /\ Gid[current] \in Nat
  BY <1>1, DepotSets DEF OrderInv, TypeOK
<1>3. Gid[current] \in Nat /\ \A w \in previous' : Gid[w] <= Gid[current]
  BY <1>1, <1>2, DepotSets
<1>4. \A x \in previous' : (\A w \in previous' : Gid[w] <= Gid[x]) => x = current
  BY <1>1, <1>2
<1> QED BY <1>1, <1>3, <1>4 DEF PreviousManifest

LEMMA TypeStep ==
  ASSUME Orderly, DataInv, [Next]_vars
  PROVE  TypeOK'
<1>i. Orderly /\ TypeOK /\ OrderInv /\ KeyInv /\ WorkInv
  BY DEF DataInv
<1>0. CASE UNCHANGED vars
  BY <1>i, <1>0 DEF vars, workerVars, TypeOK, Key
<1>1. ASSUME NEW v \in Versions, Begin(v) PROVE TypeOK'
  BY <1>i, <1>1, DepotSets DEF workerVars, Begin, Asked, TypeOK, Key
<1>2. CASE Refuse
  BY <1>i, <1>2 DEF workerVars, Refuse, TypeOK, Key
<1>3. CASE Stream
  BY <1>i, <1>3 DEF Stream, TypeOK, Key
<1>4. CASE Complete
  BY <1>i, <1>4 DEF workerVars, Complete, TypeOK, Key
<1>5. CASE Abort
  BY <1>i, <1>5 DEF workerVars, Abort, MaySave, TypeOK, Key
<1>6. CASE Kill
  BY <1>i, <1>6 DEF Kill, TypeOK, Key
<1>7. ASSUME NEW f \in Files, WriteEmpty(f) PROVE TypeOK'
  BY <1>i, <1>7, EmptySeq DEF WriteEmpty, TypeOK
<1>8. ASSUME NEW f \in Files, Plan(f) PROVE TypeOK'
  <2>1. PICK s \in Seq(Content) :
         /\ phase = "streaming" /\ pc[f] = "waiting" /\ Present(f) /\ current \in Versions
         /\ disk' = [disk EXCEPT ![f] = s]
         /\ \A i \in 1..Size(f) : i <= Len(s) /\ s[i] = disk[f][i]
         /\ Credited(f) \subseteq DOMAIN Entry(f)
         /\ done' = done \cup {key(f, i) : i \in Credited(f)}
         /\ saved' = saved \/ saved' \subseteq done'
         /\ pending' = [pending EXCEPT ![f] = DOMAIN Entry(f) \ Credited(f)]
         /\ fetching' = [fetching EXCEPT ![f] = Credited(f) # DOMAIN Entry(f)]
         /\ pc' = [pc EXCEPT ![f] = "fetching"]
         /\ UNCHANGED <<current, previous, phase, written, installed, runs, trouble>>
    BY <1>i, <1>8, PlanEffect DEF DataInv
  <2>2. {key(f, i) : i \in Credited(f)} \subseteq Key /\ DOMAIN Entry(f) \subseteq Nat
    BY <1>i, <2>1, EntryIs, DepotSets DEF key, Key
  <2> HIDE DEF key
  <2>3. done' \subseteq Key /\ saved' \subseteq Key
    BY <1>i, <2>1, <2>2 DEF TypeOK
  <2>4. pending[f]' \in SUBSET Nat
    BY <1>i, <2>1, <2>2 DEF TypeOK
  <2> QED BY <1>i, <2>1, <2>3, <2>4 DEF TypeOK
<1>9. ASSUME NEW f \in Files, Finalize(f) PROVE TypeOK'
  <2>1. PICK s \in Seq(Content) :
         /\ phase = "streaming" /\ pc[f] = "fetching" /\ Present(f) /\ current \in Versions /\ Exists(f)
         /\ pending[f] = {} /\ written[f] = {}
         /\ disk' = [disk EXCEPT ![f] = s] /\ Len(s) = Len(Entry(f))
         /\ \A j \in 1..Len(Entry(f)) : j <= Len(disk[f]) => s[j] = disk[f][j]
         /\ pc' = [pc EXCEPT ![f] = IF f \in Hashed /\ fetching[f] /\ s # Entry(f) THEN "mismatch" ELSE "finished"]
         /\ UNCHANGED <<current, previous, saved, phase, done, pending, written, fetching, installed, runs, trouble>>
    BY <1>i, <1>9, FinalizeEffect DEF DataInv
  <2> QED BY <1>i, <2>1 DEF TypeOK, Key
<1>10. ASSUME NEW f \in Files, Redownload(f) PROVE TypeOK'
  <2>1. PICK s \in Seq(Content) :
         /\ phase = "streaming" /\ pc[f] = "mismatch" /\ Present(f) /\ current \in Versions
         /\ disk' = [disk EXCEPT ![f] = s]
         /\ pending' = [pending EXCEPT ![f] = DOMAIN Entry(f)]
         /\ pc' = [pc EXCEPT ![f] = "refetching"]
         /\ UNCHANGED <<current, previous, saved, phase, done, written, fetching, installed, runs, trouble>>
    BY <1>i, <1>10, ZerosEffect DEF DataInv
  <2>2. DOMAIN Entry(f) \subseteq Nat
    BY <1>i, <2>1, EntryIs, DepotSets
  <2> QED BY <1>i, <2>1, <2>2 DEF TypeOK
<1>11. ASSUME NEW f \in Files, Redownloaded(f) PROVE TypeOK'
  BY <1>i, <1>11 DEF Redownloaded, TypeOK, Key
<1>12. ASSUME NEW f \in Files, NEW i \in pending[f], Fetch(f, i) PROVE TypeOK'
  <2>1. PICK s \in Seq(Content) :
         /\ phase = "streaming" /\ pc[f] \in {"fetching", "refetching"} /\ Present(f) /\ current \in Versions
         /\ i \in DOMAIN Entry(f) /\ Exists(f)
         /\ disk' = [disk EXCEPT ![f] = s] /\ i <= Len(s) /\ s[i] = Entry(f)[i]
         /\ \A j \in 1..Len(disk[f]) : j <= Len(s) /\ (j # i => s[j] = disk[f][j])
         /\ pending' = [pending EXCEPT ![f] = pending[f] \ {i}]
         /\ written' = [written EXCEPT ![f] = written[f] \cup {i}]
         /\ UNCHANGED <<current, previous, saved, phase, done, pc, fetching, installed, runs, trouble>>
    BY <1>i, <1>12, FetchEffect DEF DataInv
  <2>2. i \in Nat
    BY <1>i, <2>1, EntryIs, DepotSets
  <2> QED BY <1>i, <2>1, <2>2 DEF TypeOK
<1>13. ASSUME NEW f \in Files, NEW i \in written[f], Mark(f, i) PROVE TypeOK'
  <2>1. phase = "streaming" /\ current \in Versions
    BY <1>i, <1>13, VersionIs DEF Mark
  <2>2. Present(f) /\ i \in DOMAIN Entry(f)
    BY <1>i, <2>1 DEF WorkInv
  <2>3. key(f, i) \in Key
    BY <1>i, <2>1, <2>2, EntryIs, DepotSets DEF key, Key
  <2>4. done' \subseteq Key /\ saved' \subseteq Key
    BY <1>i, <1>13, <2>3 DEF Mark, MaySave, TypeOK
  <2> QED BY <1>i, <1>13, <2>4 DEF Mark, TypeOK
<1>14. ASSUME NEW f \in Files, Fail(f) PROVE TypeOK'
  BY <1>i, <1>14 DEF Fail, TypeOK, Key
<1>15. ASSUME NEW f \in Files, Modify(f) PROVE TypeOK'
  <2>1. PICK s \in Seq(Content) :
         /\ MayModify /\ phase = "idle" /\ installed # NoVersion /\ Exists(f)
         /\ disk' = [disk EXCEPT ![f] = s] /\ Len(s) = Len(disk[f])
         /\ \A j \in 1..Len(disk[f]) : s[j] \in {disk[f][j], Junk}
         /\ UNCHANGED <<current, previous, saved, phase, done, workerVars, installed, runs, trouble>>
    BY <1>i, <1>15, ModifyEffect DEF DataInv
  <2> QED BY <1>i, <2>1 DEF workerVars, TypeOK, Key
<1> QED BY <1>0, <1>1, <1>2, <1>3, <1>4, <1>5, <1>6, <1>7, <1>8, <1>9, <1>10, <1>11, <1>12, <1>13, <1>14, <1>15 DEF Next, Worker

LEMMA OrderStep ==
  ASSUME Orderly, DataInv, [Next]_vars
  PROVE  OrderInv'
<1>i. Orderly /\ TypeOK /\ OrderInv /\ KeyInv /\ WorkInv
  BY DEF DataInv
<1>0. CASE UNCHANGED vars
  BY <1>i, <1>0, DepotSets, PreviousSame DEF vars, workerVars, OrderInv, TypeOK
<1>1. ASSUME NEW v \in Versions, Begin(v) PROVE OrderInv'
  <2>1. previous' = previous \cup ({current} \ {NoVersion, v}) /\ current' = v /\ <<current, v>> \in Moves
        /\ phase = "idle" /\ phase' = "resolved" /\ installed' = NoVersion /\ UNCHANGED <<saved, done>>
    BY <1>1 DEF Begin, Asked
  <2>2. v # NoVersion
    BY DepotSets
  <2>3. CASE current \in {NoVersion, v}
    <3>1. previous' = previous
      BY <1>i, <2>1, <2>3
    <3>2. current = NoVersion => previous = {}
      BY <1>i DEF OrderInv
    <3> QED BY <1>i, <2>1, <2>2, <2>3, <3>1, <3>2, PreviousSame DEF OrderInv
  <2>4. CASE current \notin {NoVersion, v}
    <3>1. PreviousManifest' = current /\ current \in Versions
      BY <1>i, <2>1, <2>4, PreviousLeft
    <3>2. Gid[current] < Gid[v]
      <4>1. <<current, v>>[1] = current /\ <<current, v>>[2] = v
        OBVIOUS
      <4> QED BY <1>i, <2>1, <2>4, <3>1, <4>1 DEF Orderly, Onward
    <3>3. \A w \in previous' : Gid[w] < Gid[v]
      <4>1. \A w \in previous : Gid[w] < Gid[current] /\ Gid[w] \in Nat
        BY <1>i, DepotSets DEF OrderInv, TypeOK
      <4>2. Gid[current] \in Nat /\ Gid[v] \in Nat
        BY <3>1, DepotSets
      <4>3. previous' = previous \cup {current}
        BY <2>1, <2>4
      <4> QED BY <3>2, <4>1, <4>2, <4>3
    <3> QED BY <1>i, <2>1, <2>2, <2>4, <3>1, <3>3 DEF OrderInv
  <2> QED BY <2>3, <2>4
<1>2. CASE Refuse
  BY <1>i, <1>2, DepotSets, PreviousSame DEF workerVars, Refuse, OrderInv, TypeOK
<1>3. CASE Stream
  BY <1>i, <1>3, DepotSets, PreviousSame DEF Stream, OrderInv, TypeOK
<1>4. CASE Complete
  BY <1>i, <1>4, DepotSets, PreviousSame DEF workerVars, Complete, OrderInv, TypeOK
<1>5. CASE Abort
  BY <1>i, <1>5, DepotSets, PreviousSame DEF workerVars, Abort, MaySave, OrderInv, TypeOK
<1>6. CASE Kill
  BY <1>i, <1>6, DepotSets, PreviousSame DEF Kill, OrderInv, TypeOK
<1>7. ASSUME NEW f \in Files, WriteEmpty(f) PROVE OrderInv'
  BY <1>i, <1>7, DepotSets, PreviousSame DEF WriteEmpty, OrderInv, TypeOK
<1>8. ASSUME NEW f \in Files, Plan(f) PROVE OrderInv'
  <2>1. PICK s \in Seq(Content) :
         /\ phase = "streaming" /\ pc[f] = "waiting" /\ Present(f) /\ current \in Versions
         /\ disk' = [disk EXCEPT ![f] = s]
         /\ \A i \in 1..Size(f) : i <= Len(s) /\ s[i] = disk[f][i]
         /\ Credited(f) \subseteq DOMAIN Entry(f)
         /\ done' = done \cup {key(f, i) : i \in Credited(f)}
         /\ saved' = saved \/ saved' \subseteq done'
         /\ pending' = [pending EXCEPT ![f] = DOMAIN Entry(f) \ Credited(f)]
         /\ fetching' = [fetching EXCEPT ![f] = Credited(f) # DOMAIN Entry(f)]
         /\ pc' = [pc EXCEPT ![f] = "fetching"]
         /\ UNCHANGED <<current, previous, phase, written, installed, runs, trouble>>
    BY <1>i, <1>8, PlanEffect DEF DataInv
  <2> QED BY <1>i, <2>1, DepotSets, PreviousSame DEF OrderInv, TypeOK
<1>9. ASSUME NEW f \in Files, Finalize(f) PROVE OrderInv'
  <2>1. PICK s \in Seq(Content) :
         /\ phase = "streaming" /\ pc[f] = "fetching" /\ Present(f) /\ current \in Versions /\ Exists(f)
         /\ pending[f] = {} /\ written[f] = {}
         /\ disk' = [disk EXCEPT ![f] = s] /\ Len(s) = Len(Entry(f))
         /\ \A j \in 1..Len(Entry(f)) : j <= Len(disk[f]) => s[j] = disk[f][j]
         /\ pc' = [pc EXCEPT ![f] = IF f \in Hashed /\ fetching[f] /\ s # Entry(f) THEN "mismatch" ELSE "finished"]
         /\ UNCHANGED <<current, previous, saved, phase, done, pending, written, fetching, installed, runs, trouble>>
    BY <1>i, <1>9, FinalizeEffect DEF DataInv
  <2> QED BY <1>i, <2>1, DepotSets, PreviousSame DEF OrderInv, TypeOK
<1>10. ASSUME NEW f \in Files, Redownload(f) PROVE OrderInv'
  <2>1. PICK s \in Seq(Content) :
         /\ phase = "streaming" /\ pc[f] = "mismatch" /\ Present(f) /\ current \in Versions
         /\ disk' = [disk EXCEPT ![f] = s]
         /\ pending' = [pending EXCEPT ![f] = DOMAIN Entry(f)]
         /\ pc' = [pc EXCEPT ![f] = "refetching"]
         /\ UNCHANGED <<current, previous, saved, phase, done, written, fetching, installed, runs, trouble>>
    BY <1>i, <1>10, ZerosEffect DEF DataInv
  <2> QED BY <1>i, <2>1, DepotSets, PreviousSame DEF OrderInv, TypeOK
<1>11. ASSUME NEW f \in Files, Redownloaded(f) PROVE OrderInv'
  BY <1>i, <1>11, DepotSets, PreviousSame DEF Redownloaded, OrderInv, TypeOK
<1>12. ASSUME NEW f \in Files, NEW i \in pending[f], Fetch(f, i) PROVE OrderInv'
  <2>1. PICK s \in Seq(Content) :
         /\ phase = "streaming" /\ pc[f] \in {"fetching", "refetching"} /\ Present(f) /\ current \in Versions
         /\ i \in DOMAIN Entry(f) /\ Exists(f)
         /\ disk' = [disk EXCEPT ![f] = s] /\ i <= Len(s) /\ s[i] = Entry(f)[i]
         /\ \A j \in 1..Len(disk[f]) : j <= Len(s) /\ (j # i => s[j] = disk[f][j])
         /\ pending' = [pending EXCEPT ![f] = pending[f] \ {i}]
         /\ written' = [written EXCEPT ![f] = written[f] \cup {i}]
         /\ UNCHANGED <<current, previous, saved, phase, done, pc, fetching, installed, runs, trouble>>
    BY <1>i, <1>12, FetchEffect DEF DataInv
  <2> QED BY <1>i, <2>1, DepotSets, PreviousSame DEF OrderInv, TypeOK
<1>13. ASSUME NEW f \in Files, NEW i \in written[f], Mark(f, i) PROVE OrderInv'
  BY <1>i, <1>13, DepotSets, PreviousSame DEF Mark, MaySave, OrderInv, TypeOK
<1>14. ASSUME NEW f \in Files, Fail(f) PROVE OrderInv'
  BY <1>i, <1>14, DepotSets, PreviousSame DEF Fail, OrderInv, TypeOK
<1>15. ASSUME NEW f \in Files, Modify(f) PROVE OrderInv'
  <2>1. PICK s \in Seq(Content) :
         /\ MayModify /\ phase = "idle" /\ installed # NoVersion /\ Exists(f)
         /\ disk' = [disk EXCEPT ![f] = s] /\ Len(s) = Len(disk[f])
         /\ \A j \in 1..Len(disk[f]) : s[j] \in {disk[f][j], Junk}
         /\ UNCHANGED <<current, previous, saved, phase, done, workerVars, installed, runs, trouble>>
    BY <1>i, <1>15, ModifyEffect DEF DataInv
  <2> QED BY <1>i, <2>1, DepotSets, PreviousSame DEF workerVars, OrderInv, TypeOK
<1> QED BY <1>0, <1>1, <1>2, <1>3, <1>4, <1>5, <1>6, <1>7, <1>8, <1>9, <1>10, <1>11, <1>12, <1>13, <1>14, <1>15 DEF Next, Worker

LEMMA KeyStep ==
  ASSUME Orderly, DataInv, [Next]_vars
  PROVE  KeyInv'
<1>i. Orderly /\ TypeOK /\ OrderInv /\ KeyInv /\ WorkInv
  BY DEF DataInv
<1>0. CASE UNCHANGED vars
  BY <1>i, <1>0 DEF vars, workerVars, KeyInv, OrderInv, Present, Entry, key, DataInv
<1>1. ASSUME NEW v \in Versions, Begin(v) PROVE KeyInv'
  <2>1. saved' \cup done' = {} \/ v = current
    <3>1. installed = current => saved = {} \/ current = NoVersion
      BY <1>i DEF OrderInv
    <3> QED BY <1>i, <1>1, <3>1 DEF Begin, Asked, Orderly, OrderInv
  <2> QED BY <1>i, <1>1, <2>1 DEF Begin, KeyInv, Present, Entry, key
<1>2. CASE Refuse
  BY <1>i, <1>2 DEF workerVars, Refuse, KeyInv, OrderInv, Present, Entry, key, DataInv
<1>3. CASE Stream
  BY <1>i, <1>3 DEF Stream, KeyInv, OrderInv, Present, Entry, key, DataInv
<1>4. CASE Complete
  BY <1>i, <1>4 DEF workerVars, Complete, KeyInv, OrderInv, Present, Entry, key, DataInv
<1>5. CASE Abort
  BY <1>i, <1>5 DEF workerVars, Abort, MaySave, KeyInv, OrderInv, Present, Entry, key, DataInv
<1>6. CASE Kill
  BY <1>i, <1>6 DEF Kill, KeyInv, OrderInv, Present, Entry, key, DataInv
<1>7. ASSUME NEW f \in Files, WriteEmpty(f) PROVE KeyInv'
  BY <1>i, <1>7 DEF WriteEmpty, KeyInv, OrderInv, Present, Entry, key, DataInv
<1>8. ASSUME NEW f \in Files, Plan(f) PROVE KeyInv'
  <2>1. PICK s \in Seq(Content) :
         /\ phase = "streaming" /\ pc[f] = "waiting" /\ Present(f) /\ current \in Versions
         /\ disk' = [disk EXCEPT ![f] = s]
         /\ \A i \in 1..Size(f) : i <= Len(s) /\ s[i] = disk[f][i]
         /\ Credited(f) \subseteq DOMAIN Entry(f)
         /\ done' = done \cup {key(f, i) : i \in Credited(f)}
         /\ saved' = saved \/ saved' \subseteq done'
         /\ pending' = [pending EXCEPT ![f] = DOMAIN Entry(f) \ Credited(f)]
         /\ fetching' = [fetching EXCEPT ![f] = Credited(f) # DOMAIN Entry(f)]
         /\ pc' = [pc EXCEPT ![f] = "fetching"]
         /\ UNCHANGED <<current, previous, phase, written, installed, runs, trouble>>
    BY <1>i, <1>8, PlanEffect DEF DataInv
  <2>2. \A k \in {key(f, i) : i \in Credited(f)} : k[1] = f /\ k[3] \in DOMAIN Entry(f) /\ k = key(k[1], k[3])
    BY <2>1 DEF key
  <2>3. current # NoVersion
    BY <2>1, DepotSets
  <2>4. \A k \in saved' \cup done' : k \in saved \cup done \/ k \in {key(f, i) : i \in Credited(f)}
    BY <2>1
  <2>5. \A g \in Files : Present(g)' = Present(g) /\ Entry(g)' = Entry(g) /\ \A j : key(g, j)' = key(g, j)
    BY <2>1 DEF Present, Entry, key
  <2> QED BY <1>i, <2>1, <2>2, <2>3, <2>4, <2>5 DEF KeyInv
<1>9. ASSUME NEW f \in Files, Finalize(f) PROVE KeyInv'
  <2>1. PICK s \in Seq(Content) :
         /\ phase = "streaming" /\ pc[f] = "fetching" /\ Present(f) /\ current \in Versions /\ Exists(f)
         /\ pending[f] = {} /\ written[f] = {}
         /\ disk' = [disk EXCEPT ![f] = s] /\ Len(s) = Len(Entry(f))
         /\ \A j \in 1..Len(Entry(f)) : j <= Len(disk[f]) => s[j] = disk[f][j]
         /\ pc' = [pc EXCEPT ![f] = IF f \in Hashed /\ fetching[f] /\ s # Entry(f) THEN "mismatch" ELSE "finished"]
         /\ UNCHANGED <<current, previous, saved, phase, done, pending, written, fetching, installed, runs, trouble>>
    BY <1>i, <1>9, FinalizeEffect DEF DataInv
  <2> QED BY <1>i, <2>1 DEF KeyInv, OrderInv, Present, Entry, key, DataInv
<1>10. ASSUME NEW f \in Files, Redownload(f) PROVE KeyInv'
  <2>1. PICK s \in Seq(Content) :
         /\ phase = "streaming" /\ pc[f] = "mismatch" /\ Present(f) /\ current \in Versions
         /\ disk' = [disk EXCEPT ![f] = s]
         /\ pending' = [pending EXCEPT ![f] = DOMAIN Entry(f)]
         /\ pc' = [pc EXCEPT ![f] = "refetching"]
         /\ UNCHANGED <<current, previous, saved, phase, done, written, fetching, installed, runs, trouble>>
    BY <1>i, <1>10, ZerosEffect DEF DataInv
  <2> QED BY <1>i, <2>1 DEF KeyInv, OrderInv, Present, Entry, key, DataInv
<1>11. ASSUME NEW f \in Files, Redownloaded(f) PROVE KeyInv'
  BY <1>i, <1>11 DEF Redownloaded, KeyInv, OrderInv, Present, Entry, key, DataInv
<1>12. ASSUME NEW f \in Files, NEW i \in pending[f], Fetch(f, i) PROVE KeyInv'
  <2>1. PICK s \in Seq(Content) :
         /\ phase = "streaming" /\ pc[f] \in {"fetching", "refetching"} /\ Present(f) /\ current \in Versions
         /\ i \in DOMAIN Entry(f) /\ Exists(f)
         /\ disk' = [disk EXCEPT ![f] = s] /\ i <= Len(s) /\ s[i] = Entry(f)[i]
         /\ \A j \in 1..Len(disk[f]) : j <= Len(s) /\ (j # i => s[j] = disk[f][j])
         /\ pending' = [pending EXCEPT ![f] = pending[f] \ {i}]
         /\ written' = [written EXCEPT ![f] = written[f] \cup {i}]
         /\ UNCHANGED <<current, previous, saved, phase, done, pc, fetching, installed, runs, trouble>>
    BY <1>i, <1>12, FetchEffect DEF DataInv
  <2> QED BY <1>i, <2>1 DEF KeyInv, OrderInv, Present, Entry, key, DataInv
<1>13. ASSUME NEW f \in Files, NEW i \in written[f], Mark(f, i) PROVE KeyInv'
  <2>1. phase = "streaming" /\ current \in Versions /\ Present(f) /\ i \in DOMAIN Entry(f)
    BY <1>i, <1>13, VersionIs DEF Mark, WorkInv
  <2>2. current # NoVersion
    BY <2>1, DepotSets
  <2>3. \A k \in saved' \cup done' : k \in saved \cup done \/ k = key(f, i)
    BY <1>i, <1>13 DEF Mark, MaySave
  <2>4. key(f, i)[1] = f /\ key(f, i)[3] = i
    BY DEF key
  <2>5. current' = current
    BY <1>13 DEF Mark
  <2>6. \A g \in Files : Present(g)' = Present(g) /\ Entry(g)' = Entry(g) /\ \A j : key(g, j)' = key(g, j)
    BY <2>5 DEF Present, Entry, key
  <2> QED BY <1>i, <2>1, <2>2, <2>3, <2>4, <2>5, <2>6 DEF KeyInv
<1>14. ASSUME NEW f \in Files, Fail(f) PROVE KeyInv'
  BY <1>i, <1>14 DEF Fail, KeyInv, OrderInv, Present, Entry, key, DataInv
<1>15. ASSUME NEW f \in Files, Modify(f) PROVE KeyInv'
  <2>1. PICK s \in Seq(Content) :
         /\ MayModify /\ phase = "idle" /\ installed # NoVersion /\ Exists(f)
         /\ disk' = [disk EXCEPT ![f] = s] /\ Len(s) = Len(disk[f])
         /\ \A j \in 1..Len(disk[f]) : s[j] \in {disk[f][j], Junk}
         /\ UNCHANGED <<current, previous, saved, phase, done, workerVars, installed, runs, trouble>>
    BY <1>i, <1>15, ModifyEffect DEF DataInv
  <2> QED BY <1>i, <2>1 DEF workerVars, KeyInv, OrderInv, Present, Entry, key, DataInv
<1> QED BY <1>0, <1>1, <1>2, <1>3, <1>4, <1>5, <1>6, <1>7, <1>8, <1>9, <1>10, <1>11, <1>12, <1>13, <1>14, <1>15 DEF Next, Worker

LEMMA WorkStep ==
  ASSUME Orderly, DataInv, [Next]_vars
  PROVE  WorkInv'
<1>i. Orderly /\ TypeOK /\ OrderInv /\ KeyInv /\ WorkInv
  BY DEF DataInv
<1>0. CASE UNCHANGED vars
  BY <1>i, <1>0 DEF vars, workerVars, WorkInv, Present, Entry, Exists, TypeOK, Orderly
<1>1. ASSUME NEW v \in Versions, Begin(v) PROVE WorkInv'
  BY <1>i, <1>1 DEF workerVars, Begin, Asked, WorkInv, Present, Entry, Exists, TypeOK, Orderly
<1>2. CASE Refuse
  BY <1>i, <1>2 DEF workerVars, Refuse, WorkInv, Present, Entry, Exists, TypeOK, Orderly
<1>3. CASE Stream
  BY <1>i, <1>3 DEF Stream, WorkInv, Present, Entry, Exists, TypeOK, Orderly
<1>4. CASE Complete
  BY <1>i, <1>4 DEF workerVars, Complete, WorkInv, Present, Entry, Exists, TypeOK, Orderly
<1>5. CASE Abort
  BY <1>i, <1>5 DEF workerVars, Abort, MaySave, WorkInv, Present, Entry, Exists, TypeOK, Orderly
<1>6. CASE Kill
  BY <1>i, <1>6 DEF Kill, WorkInv, Present, Entry, Exists, TypeOK, Orderly
<1>7. ASSUME NEW f \in Files, WriteEmpty(f) PROVE WorkInv'
  BY <1>i, <1>7 DEF WriteEmpty, WorkInv, Present, Entry, Exists, TypeOK, Orderly
<1>8. ASSUME NEW f \in Files, Plan(f) PROVE WorkInv'
  <2>1. PICK s \in Seq(Content) :
         /\ phase = "streaming" /\ pc[f] = "waiting" /\ Present(f) /\ current \in Versions
         /\ disk' = [disk EXCEPT ![f] = s]
         /\ \A i \in 1..Size(f) : i <= Len(s) /\ s[i] = disk[f][i]
         /\ Credited(f) \subseteq DOMAIN Entry(f)
         /\ done' = done \cup {key(f, i) : i \in Credited(f)}
         /\ saved' = saved \/ saved' \subseteq done'
         /\ pending' = [pending EXCEPT ![f] = DOMAIN Entry(f) \ Credited(f)]
         /\ fetching' = [fetching EXCEPT ![f] = Credited(f) # DOMAIN Entry(f)]
         /\ pc' = [pc EXCEPT ![f] = "fetching"]
         /\ UNCHANGED <<current, previous, phase, written, installed, runs, trouble>>
    BY <1>i, <1>8, PlanEffect DEF DataInv
  <2> QED BY <1>i, <2>1 DEF WorkInv, Present, Entry, Exists, TypeOK, Orderly
<1>9. ASSUME NEW f \in Files, Finalize(f) PROVE WorkInv'
  <2>1. PICK s \in Seq(Content) :
         /\ phase = "streaming" /\ pc[f] = "fetching" /\ Present(f) /\ current \in Versions /\ Exists(f)
         /\ pending[f] = {} /\ written[f] = {}
         /\ disk' = [disk EXCEPT ![f] = s] /\ Len(s) = Len(Entry(f))
         /\ \A j \in 1..Len(Entry(f)) : j <= Len(disk[f]) => s[j] = disk[f][j]
         /\ pc' = [pc EXCEPT ![f] = IF f \in Hashed /\ fetching[f] /\ s # Entry(f) THEN "mismatch" ELSE "finished"]
         /\ UNCHANGED <<current, previous, saved, phase, done, pending, written, fetching, installed, runs, trouble>>
    BY <1>i, <1>9, FinalizeEffect DEF DataInv
  <2> QED BY <1>i, <2>1 DEF WorkInv, Present, Entry, Exists, TypeOK, Orderly
<1>10. ASSUME NEW f \in Files, Redownload(f) PROVE WorkInv'
  <2>1. PICK s \in Seq(Content) :
         /\ phase = "streaming" /\ pc[f] = "mismatch" /\ Present(f) /\ current \in Versions
         /\ disk' = [disk EXCEPT ![f] = s]
         /\ pending' = [pending EXCEPT ![f] = DOMAIN Entry(f)]
         /\ pc' = [pc EXCEPT ![f] = "refetching"]
         /\ UNCHANGED <<current, previous, saved, phase, done, written, fetching, installed, runs, trouble>>
    BY <1>i, <1>10, ZerosEffect DEF DataInv
  <2> QED BY <1>i, <2>1 DEF WorkInv, Present, Entry, Exists, TypeOK, Orderly
<1>11. ASSUME NEW f \in Files, Redownloaded(f) PROVE WorkInv'
  BY <1>i, <1>11 DEF Redownloaded, WorkInv, Present, Entry, Exists, TypeOK, Orderly
<1>12. ASSUME NEW f \in Files, NEW i \in pending[f], Fetch(f, i) PROVE WorkInv'
  <2>1. PICK s \in Seq(Content) :
         /\ phase = "streaming" /\ pc[f] \in {"fetching", "refetching"} /\ Present(f) /\ current \in Versions
         /\ i \in DOMAIN Entry(f) /\ Exists(f)
         /\ disk' = [disk EXCEPT ![f] = s] /\ i <= Len(s) /\ s[i] = Entry(f)[i]
         /\ \A j \in 1..Len(disk[f]) : j <= Len(s) /\ (j # i => s[j] = disk[f][j])
         /\ pending' = [pending EXCEPT ![f] = pending[f] \ {i}]
         /\ written' = [written EXCEPT ![f] = written[f] \cup {i}]
         /\ UNCHANGED <<current, previous, saved, phase, done, pc, fetching, installed, runs, trouble>>
    BY <1>i, <1>12, FetchEffect DEF DataInv
  <2> QED BY <1>i, <2>1 DEF WorkInv, Present, Entry, Exists, TypeOK, Orderly
<1>13. ASSUME NEW f \in Files, NEW i \in written[f], Mark(f, i) PROVE WorkInv'
  BY <1>i, <1>13 DEF Mark, MaySave, WorkInv, Present, Entry, Exists, TypeOK, Orderly
<1>14. ASSUME NEW f \in Files, Fail(f) PROVE WorkInv'
  BY <1>i, <1>14 DEF Fail, WorkInv, Present, Entry, Exists, TypeOK, Orderly
<1>15. ASSUME NEW f \in Files, Modify(f) PROVE WorkInv'
  <2>1. PICK s \in Seq(Content) :
         /\ MayModify /\ phase = "idle" /\ installed # NoVersion /\ Exists(f)
         /\ disk' = [disk EXCEPT ![f] = s] /\ Len(s) = Len(disk[f])
         /\ \A j \in 1..Len(disk[f]) : s[j] \in {disk[f][j], Junk}
         /\ UNCHANGED <<current, previous, saved, phase, done, workerVars, installed, runs, trouble>>
    BY <1>i, <1>15, ModifyEffect DEF DataInv
  <2> QED BY <1>i, <2>1 DEF workerVars, WorkInv, Present, Entry, Exists, TypeOK, Orderly
<1> QED BY <1>0, <1>1, <1>2, <1>3, <1>4, <1>5, <1>6, <1>7, <1>8, <1>9, <1>10, <1>11, <1>12, <1>13, <1>14, <1>15 DEF Next, Worker

LEMMA DataStep == ASSUME Orderly, DataInv, [Next]_vars PROVE DataInv'
BY TypeStep, OrderStep, KeyStep, WorkStep DEF DataInv

-----------------------------------------------------------------------------
(* Failures only. *)

(* Except by a redownload, nothing that is valid is lost. *)
Kept == \A g \in Files : Present(g) => \A j \in DOMAIN Entry(g) : Valid(g, j) => Valid(g, j)'

LEMMA KeptStep ==
  ASSUME Orderly, DataInv, trouble = "failures", FetchedInv, current' = current, [Next]_vars
  PROVE  Kept
<1>i. Orderly /\ TypeOK /\ OrderInv /\ KeyInv /\ WorkInv
  BY DEF DataInv
<1>e. \A g \in Files : Present(g) /\ current # NoVersion => \A j \in DOMAIN Entry(g) : j \in Nat \ {0}
  BY <1>i, EntryIs
<1>s. \A g \in Files : Exists(g) => Len(disk[g]) \in Nat /\ Size(g) = Len(disk[g])
  BY <1>i, SizeIs
<1>c. current \in Versions => current # NoVersion
  BY DepotSets
<1>0. CASE UNCHANGED vars
  BY <1>i, <1>0, <1>e, <1>s, <1>c DEF vars, workerVars, Kept, Valid, Exists, Entry, Present, TypeOK, Orderly
<1>1. ASSUME NEW v \in Versions, Begin(v) PROVE Kept
  BY <1>i, <1>1 DEF Begin, Kept, Valid, Exists, Entry, Present, TypeOK, Orderly
<1>2. CASE Refuse
  BY <1>i, <1>2, <1>e, <1>s, <1>c DEF workerVars, Refuse, Kept, Valid, Exists, Entry, Present, TypeOK, Orderly
<1>3. CASE Stream
  BY <1>i, <1>3, <1>e, <1>s, <1>c DEF Stream, Kept, Valid, Exists, Entry, Present, TypeOK, Orderly, DeletedFiles
<1>4. CASE Complete
  BY <1>i, <1>4, <1>e, <1>s, <1>c DEF workerVars, Complete, Kept, Valid, Exists, Entry, Present, TypeOK, Orderly
<1>5. CASE Abort
  BY <1>i, <1>5, <1>e, <1>s, <1>c DEF workerVars, Abort, MaySave, Kept, Valid, Exists, Entry, Present, TypeOK, Orderly
<1>6. CASE Kill
  BY <1>i, <1>6, <1>e, <1>s, <1>c DEF Kill, Kept, Valid, Exists, Entry, Present, TypeOK, Orderly
<1>7. ASSUME NEW f \in Files, WriteEmpty(f) PROVE Kept
  BY <1>i, <1>7, <1>e, <1>s, <1>c DEF WriteEmpty, Kept, Valid, Exists, Entry, Present, TypeOK, Orderly
<1>8. ASSUME NEW f \in Files, Plan(f) PROVE Kept
  <2>1. PICK s \in Seq(Content) :
         /\ phase = "streaming" /\ pc[f] = "waiting" /\ Present(f) /\ current \in Versions
         /\ disk' = [disk EXCEPT ![f] = s]
         /\ \A i \in 1..Size(f) : i <= Len(s) /\ s[i] = disk[f][i]
         /\ Credited(f) \subseteq DOMAIN Entry(f)
         /\ done' = done \cup {key(f, i) : i \in Credited(f)}
         /\ saved' = saved \/ saved' \subseteq done'
         /\ pending' = [pending EXCEPT ![f] = DOMAIN Entry(f) \ Credited(f)]
         /\ fetching' = [fetching EXCEPT ![f] = Credited(f) # DOMAIN Entry(f)]
         /\ pc' = [pc EXCEPT ![f] = "fetching"]
         /\ UNCHANGED <<current, previous, phase, written, installed, runs, trouble>>
    BY <1>i, <1>8, PlanEffect DEF DataInv
  <2> QED BY <1>i, <2>1, <1>e, <1>s, <1>c DEF Kept, Valid, Exists, Entry, Present, TypeOK, Orderly
<1>9. ASSUME NEW f \in Files, Finalize(f) PROVE Kept
  <2>1. PICK s \in Seq(Content) :
         /\ phase = "streaming" /\ pc[f] = "fetching" /\ Present(f) /\ current \in Versions /\ Exists(f)
         /\ pending[f] = {} /\ written[f] = {}
         /\ disk' = [disk EXCEPT ![f] = s] /\ Len(s) = Len(Entry(f))
         /\ \A j \in 1..Len(Entry(f)) : j <= Len(disk[f]) => s[j] = disk[f][j]
         /\ pc' = [pc EXCEPT ![f] = IF f \in Hashed /\ fetching[f] /\ s # Entry(f) THEN "mismatch" ELSE "finished"]
         /\ UNCHANGED <<current, previous, saved, phase, done, pending, written, fetching, installed, runs, trouble>>
    BY <1>i, <1>9, FinalizeEffect DEF DataInv
  <2> QED BY <1>i, <2>1, <1>e, <1>s, <1>c DEF Kept, Valid, Exists, Entry, Present, TypeOK, Orderly
<1>10. ASSUME NEW f \in Files, Redownload(f) PROVE Kept
  <2>1. PICK s \in Seq(Content) :
         /\ phase = "streaming" /\ pc[f] = "mismatch" /\ Present(f) /\ current \in Versions
         /\ disk' = [disk EXCEPT ![f] = s]
         /\ pending' = [pending EXCEPT ![f] = DOMAIN Entry(f)]
         /\ pc' = [pc EXCEPT ![f] = "refetching"]
         /\ UNCHANGED <<current, previous, saved, phase, done, written, fetching, installed, runs, trouble>>
    BY <1>i, <1>10, ZerosEffect DEF DataInv
  <2> QED BY <1>i, <2>1, <1>e, <1>s, <1>c DEF Kept, Valid, Exists, Entry, Present, TypeOK, Orderly, FetchedInv
<1>11. ASSUME NEW f \in Files, Redownloaded(f) PROVE Kept
  BY <1>i, <1>11, <1>e, <1>s, <1>c DEF Redownloaded, Kept, Valid, Exists, Entry, Present, TypeOK, Orderly
<1>12. ASSUME NEW f \in Files, NEW i \in pending[f], Fetch(f, i) PROVE Kept
  <2>1. PICK s \in Seq(Content) :
         /\ phase = "streaming" /\ pc[f] \in {"fetching", "refetching"} /\ Present(f) /\ current \in Versions
         /\ i \in DOMAIN Entry(f) /\ Exists(f)
         /\ disk' = [disk EXCEPT ![f] = s] /\ i <= Len(s) /\ s[i] = Entry(f)[i]
         /\ \A j \in 1..Len(disk[f]) : j <= Len(s) /\ (j # i => s[j] = disk[f][j])
         /\ pending' = [pending EXCEPT ![f] = pending[f] \ {i}]
         /\ written' = [written EXCEPT ![f] = written[f] \cup {i}]
         /\ UNCHANGED <<current, previous, saved, phase, done, pc, fetching, installed, runs, trouble>>
    BY <1>i, <1>12, FetchEffect DEF DataInv
  <2> QED BY <1>i, <2>1, <1>e, <1>s, <1>c DEF Kept, Valid, Exists, Entry, Present, TypeOK, Orderly
<1>13. ASSUME NEW f \in Files, NEW i \in written[f], Mark(f, i) PROVE Kept
  BY <1>i, <1>13, <1>e, <1>s, <1>c DEF Mark, MaySave, Kept, Valid, Exists, Entry, Present, TypeOK, Orderly
<1>14. ASSUME NEW f \in Files, Fail(f) PROVE Kept
  BY <1>i, <1>14, <1>e, <1>s, <1>c DEF Fail, Kept, Valid, Exists, Entry, Present, TypeOK, Orderly
<1>15. ASSUME NEW f \in Files, Modify(f) PROVE Kept
  <2>1. PICK s \in Seq(Content) :
         /\ MayModify /\ phase = "idle" /\ installed # NoVersion /\ Exists(f)
         /\ disk' = [disk EXCEPT ![f] = s] /\ Len(s) = Len(disk[f])
         /\ \A j \in 1..Len(disk[f]) : s[j] \in {disk[f][j], Junk}
         /\ UNCHANGED <<current, previous, saved, phase, done, workerVars, installed, runs, trouble>>
    BY <1>i, <1>15, ModifyEffect DEF DataInv
  <2> QED BY <1>i, <2>1, <1>e, <1>s, <1>c DEF workerVars, Kept, Valid, Exists, Entry, Present, TypeOK, Orderly, MayModify
<1> QED BY <1>0, <1>1, <1>2, <1>3, <1>4, <1>5, <1>6, <1>7, <1>8, <1>9, <1>10, <1>11, <1>12, <1>13, <1>14, <1>15 DEF Next, Worker

(* What a worker need not fetch is on the disk. *)
LEMMA CreditedValid ==
  ASSUME Orderly, DataInv, RecordedInv, DeltaInv, NEW f \in Files, Present(f), current \in Versions
  PROVE  \A i \in Credited(f) : Valid(f, i)
<1>1. SUFFICES ASSUME NEW i \in Credited(f) PROVE Valid(f, i)
  OBVIOUS
<1>2. i \in DOMAIN Entry(f) /\ DOMAIN Entry(f) = 1..Len(Entry(f)) /\ Len(Entry(f)) \in Nat
  BY EntryIs, DepotSets DEF Credited, DataInv
<1>3. CASE key(f, i) \in done
  <2>1. key(f, i)[1] = f /\ key(f, i)[3] = i
    BY DEF key
  <2> QED BY <1>3, <2>1 DEF RecordedInv
<1>4. CASE i <= Size(f) /\ disk[f][i] = Entry(f)[i]
  <2>1. Size(f) > 0 => Exists(f) /\ Size(f) = Len(disk[f])
    BY SizeIs DEF Size, DataInv
  <2> QED BY <1>2, <1>4, <2>1, SizeIs DEF Valid, DataInv
<1>5. CASE IsDelta(f) /\ Entry(f)[i] \in UnchangedIds(f)
  <2>1. PICK j \in DOMAIN Entry(f) \cap DOMAIN OldOf(f) : OldOf(f)[j] = Entry(f)[j] /\ Entry(f)[i] = Entry(f)[j]
    BY <1>5 DEF UnchangedIds, OldOf
  <2>2. i = j
    BY <1>2, <2>1 DEF Orderly, NoRepeats, Present, Entry
  <2>3. previous # {} /\ OldOf(f) # NoFile
    BY <1>5 DEF IsDelta, OldOf
  <2> QED BY <2>1, <2>2, <2>3 DEF DeltaInv
<1> QED BY <1>3, <1>4, <1>5 DEF Credited

LEMMA RecordedStep ==
  ASSUME Orderly, DataInv, trouble = "failures", RecordedInv, DeltaInv, FetchedInv, CompleteInv, [Next]_vars
  PROVE  RecordedInv'
<1>i. Orderly /\ TypeOK /\ OrderInv /\ KeyInv /\ WorkInv
  BY DEF DataInv
<1>k. current' = current => \A k \in saved \cup done : Valid(k[1], k[3])'
  BY <1>i, KeptStep DEF RecordedInv, KeyInv, Kept
<1>0. CASE UNCHANGED vars
  BY <1>i, <1>0, <1>k DEF vars, workerVars, RecordedInv
<1>1. ASSUME NEW v \in Versions, Begin(v) PROVE RecordedInv'
  <2>1. saved' \cup done' = {} \/ v = current
    <3>1. installed = current => saved = {} \/ current = NoVersion
      BY <1>i DEF OrderInv
    <3> QED BY <1>i, <1>1, <3>1 DEF Begin, Asked, Orderly, OrderInv
  <2>2. v = current => current' = current
    BY <1>1 DEF Begin
  <2> QED BY <1>k, <1>1, <2>1, <2>2 DEF Begin, RecordedInv
<1>2. CASE Refuse
  BY <1>i, <1>2, <1>k DEF workerVars, Refuse, RecordedInv
<1>3. CASE Stream
  BY <1>i, <1>3, <1>k DEF Stream, RecordedInv
<1>4. CASE Complete
  BY <1>i, <1>4, <1>k DEF workerVars, Complete, RecordedInv
<1>5. CASE Abort
  BY <1>i, <1>5, <1>k DEF workerVars, Abort, MaySave, RecordedInv
<1>6. CASE Kill
  BY <1>i, <1>6, <1>k DEF Kill, RecordedInv
<1>7. ASSUME NEW f \in Files, WriteEmpty(f) PROVE RecordedInv'
  BY <1>i, <1>7, <1>k DEF WriteEmpty, RecordedInv
<1>8. ASSUME NEW f \in Files, Plan(f) PROVE RecordedInv'
  <2>1. PICK s \in Seq(Content) :
         /\ phase = "streaming" /\ pc[f] = "waiting" /\ Present(f) /\ current \in Versions
         /\ disk' = [disk EXCEPT ![f] = s]
         /\ \A i \in 1..Size(f) : i <= Len(s) /\ s[i] = disk[f][i]
         /\ Credited(f) \subseteq DOMAIN Entry(f)
         /\ done' = done \cup {key(f, i) : i \in Credited(f)}
         /\ saved' = saved \/ saved' \subseteq done'
         /\ pending' = [pending EXCEPT ![f] = DOMAIN Entry(f) \ Credited(f)]
         /\ fetching' = [fetching EXCEPT ![f] = Credited(f) # DOMAIN Entry(f)]
         /\ pc' = [pc EXCEPT ![f] = "fetching"]
         /\ UNCHANGED <<current, previous, phase, written, installed, runs, trouble>>
    BY <1>i, <1>8, PlanEffect DEF DataInv
  <2>2. \A j \in Credited(f) : Valid(f, j)
    BY <2>1, CreditedValid
  <2>3. \A j \in Credited(f) : Valid(f, j)'
    BY <1>i, <2>1, <2>2, KeptStep DEF Kept
  <2>4. \A k \in {key(f, j) : j \in Credited(f)} : k[1] = f /\ k[3] \in Credited(f)
    BY DEF key
  <2>5. \A k \in saved' \cup done' : k \in saved \cup done \/ k \in {key(f, j) : j \in Credited(f)}
    BY <2>1
  <2> QED BY <1>k, <2>1, <2>3, <2>4, <2>5 DEF RecordedInv
<1>9. ASSUME NEW f \in Files, Finalize(f) PROVE RecordedInv'
  <2>1. PICK s \in Seq(Content) :
         /\ phase = "streaming" /\ pc[f] = "fetching" /\ Present(f) /\ current \in Versions /\ Exists(f)
         /\ pending[f] = {} /\ written[f] = {}
         /\ disk' = [disk EXCEPT ![f] = s] /\ Len(s) = Len(Entry(f))
         /\ \A j \in 1..Len(Entry(f)) : j <= Len(disk[f]) => s[j] = disk[f][j]
         /\ pc' = [pc EXCEPT ![f] = IF f \in Hashed /\ fetching[f] /\ s # Entry(f) THEN "mismatch" ELSE "finished"]
         /\ UNCHANGED <<current, previous, saved, phase, done, pending, written, fetching, installed, runs, trouble>>
    BY <1>i, <1>9, FinalizeEffect DEF DataInv
  <2> QED BY <1>i, <2>1, <1>k DEF RecordedInv
<1>10. ASSUME NEW f \in Files, Redownload(f) PROVE RecordedInv'
  <2>1. PICK s \in Seq(Content) :
         /\ phase = "streaming" /\ pc[f] = "mismatch" /\ Present(f) /\ current \in Versions
         /\ disk' = [disk EXCEPT ![f] = s]
         /\ pending' = [pending EXCEPT ![f] = DOMAIN Entry(f)]
         /\ pc' = [pc EXCEPT ![f] = "refetching"]
         /\ UNCHANGED <<current, previous, saved, phase, done, written, fetching, installed, runs, trouble>>
    BY <1>i, <1>10, ZerosEffect DEF DataInv
  <2> QED BY <1>i, <2>1, <1>k DEF RecordedInv
<1>11. ASSUME NEW f \in Files, Redownloaded(f) PROVE RecordedInv'
  BY <1>i, <1>11, <1>k DEF Redownloaded, RecordedInv
<1>12. ASSUME NEW f \in Files, NEW i \in pending[f], Fetch(f, i) PROVE RecordedInv'
  <2>1. PICK s \in Seq(Content) :
         /\ phase = "streaming" /\ pc[f] \in {"fetching", "refetching"} /\ Present(f) /\ current \in Versions
         /\ i \in DOMAIN Entry(f) /\ Exists(f)
         /\ disk' = [disk EXCEPT ![f] = s] /\ i <= Len(s) /\ s[i] = Entry(f)[i]
         /\ \A j \in 1..Len(disk[f]) : j <= Len(s) /\ (j # i => s[j] = disk[f][j])
         /\ pending' = [pending EXCEPT ![f] = pending[f] \ {i}]
         /\ written' = [written EXCEPT ![f] = written[f] \cup {i}]
         /\ UNCHANGED <<current, previous, saved, phase, done, pc, fetching, installed, runs, trouble>>
    BY <1>i, <1>12, FetchEffect DEF DataInv
  <2> QED BY <1>i, <2>1, <1>k DEF RecordedInv
<1>13. ASSUME NEW f \in Files, NEW i \in written[f], Mark(f, i) PROVE RecordedInv'
  <2>1. phase = "streaming" /\ Present(f) /\ i \in DOMAIN Entry(f)
    BY <1>i, <1>13 DEF Mark, WorkInv
  <2>2. Valid(f, i)
    BY <2>1, <1>13 DEF FetchedInv
  <2>3. Valid(f, i)' /\ current' = current
    BY <1>i, <1>13, <2>1, <2>2, KeptStep DEF Kept, Mark
  <2>4. \A k \in saved' \cup done' : k \in saved \cup done \/ k = key(f, i)
    BY <1>13 DEF Mark, MaySave
  <2>5. key(f, i)[1] = f /\ key(f, i)[3] = i
    BY DEF key
  <2> QED BY <1>k, <2>3, <2>4, <2>5 DEF RecordedInv
<1>14. ASSUME NEW f \in Files, Fail(f) PROVE RecordedInv'
  BY <1>i, <1>14, <1>k DEF Fail, RecordedInv
<1>15. ASSUME NEW f \in Files, Modify(f) PROVE RecordedInv'
  <2>1. PICK s \in Seq(Content) :
         /\ MayModify /\ phase = "idle" /\ installed # NoVersion /\ Exists(f)
         /\ disk' = [disk EXCEPT ![f] = s] /\ Len(s) = Len(disk[f])
         /\ \A j \in 1..Len(disk[f]) : s[j] \in {disk[f][j], Junk}
         /\ UNCHANGED <<current, previous, saved, phase, done, workerVars, installed, runs, trouble>>
    BY <1>i, <1>15, ModifyEffect DEF DataInv
  <2> QED BY <1>i, <2>1, <1>k DEF workerVars, RecordedInv
<1> QED BY <1>0, <1>1, <1>2, <1>3, <1>4, <1>5, <1>6, <1>7, <1>8, <1>9, <1>10, <1>11, <1>12, <1>13, <1>14, <1>15 DEF Next, Worker

LEMMA DeltaStep ==
  ASSUME Orderly, DataInv, trouble = "failures", RecordedInv, DeltaInv, FetchedInv, CompleteInv, [Next]_vars
  PROVE  DeltaInv'
<1>i. Orderly /\ TypeOK /\ OrderInv /\ KeyInv /\ WorkInv
  BY DEF DataInv
<1>d. current' = current /\ previous' = previous => DeltaInv'
  <2>1. SUFFICES ASSUME current' = current, previous' = previous, previous # {}, NEW f \in Files, Present(f), OldOf(f) # NoFile,
                        NEW i \in DOMAIN OldOf(f) \cap DOMAIN Entry(f), OldOf(f)[i] = Entry(f)[i]
                 PROVE  Valid(f, i)'
    BY PreviousSame DEF DeltaInv, Present, OldOf, Entry
  <2> QED BY <2>1, KeptStep DEF DeltaInv, Kept
<1>0. CASE UNCHANGED vars
  BY <1>i, <1>0, <1>d DEF vars, workerVars, Begin
<1>1. ASSUME NEW v \in Versions, Begin(v) PROVE DeltaInv'
  <2>1. previous' = previous \cup ({current} \ {NoVersion, v}) /\ current' = v /\ UNCHANGED disk
        /\ (v = current \/ installed = current)
    BY <1>i, <1>1 DEF Begin, Asked, Orderly
  <2>2. CASE v = current
    BY <1>d, <2>1, <2>2
  <2>3. CASE v # current /\ current = NoVersion
    BY <1>i, <2>1, <2>3 DEF DeltaInv, OrderInv
  <2>4. CASE v # current /\ current # NoVersion
    <3>1. PreviousManifest' = current /\ current \in Versions
      BY <1>i, <2>1, <2>4, PreviousLeft
    <3>2. \A f \in Files : OldOf(f)' = Entry(f)
      BY <3>1 DEF OldOf, Entry
    <3>3. \A f \in Files : Present(f) => disk[f] = Entry(f) /\ DOMAIN Entry(f) = 1..Len(Entry(f)) /\ Len(Entry(f)) \in Nat
      BY <1>i, <2>1, <2>4, EntryIs DEF CompleteInv
    <3>4. SUFFICES ASSUME NEW f \in Files, Present(f)', Present(f), NEW j \in DOMAIN Entry(f) \cap DOMAIN Entry(f)', Entry(f)[j] = Entry(f)'[j]
                   PROVE  Valid(f, j)'
      BY <3>2 DEF DeltaInv, Present
    <3> QED BY <2>1, <3>3, <3>4 DEF Valid, Exists, Present
  <2> QED BY <2>2, <2>3, <2>4
<1>2. CASE Refuse
  BY <1>d, <1>2 DEF workerVars, Refuse
<1>3. CASE Stream
  BY <1>d, <1>3 DEF workerVars, Stream
<1>4. CASE Complete
  BY <1>d, <1>4 DEF workerVars, Complete
<1>5. CASE Abort
  BY <1>d, <1>5 DEF workerVars, Abort
<1>6. CASE Kill
  BY <1>d, <1>6 DEF workerVars, Kill
<1>7. ASSUME NEW f \in Files, WriteEmpty(f) PROVE DeltaInv'
  BY <1>i, <1>7, <1>d DEF WriteEmpty, Begin
<1>8. ASSUME NEW f \in Files, Plan(f) PROVE DeltaInv'
  BY <1>d, <1>8 DEF workerVars, Plan
<1>9. ASSUME NEW f \in Files, Finalize(f) PROVE DeltaInv'
  BY <1>d, <1>9 DEF workerVars, Finalize
<1>10. ASSUME NEW f \in Files, Redownload(f) PROVE DeltaInv'
  BY <1>d, <1>10 DEF workerVars, Redownload
<1>11. ASSUME NEW f \in Files, Redownloaded(f) PROVE DeltaInv'
  BY <1>i, <1>11, <1>d DEF Redownloaded, Begin
<1>12. ASSUME NEW f \in Files, NEW i \in pending[f], Fetch(f, i) PROVE DeltaInv'
  BY <1>d, <1>12 DEF workerVars, Fetch
<1>13. ASSUME NEW f \in Files, NEW i \in written[f], Mark(f, i) PROVE DeltaInv'
  BY <1>i, <1>13, <1>d DEF Mark, MaySave, Begin
<1>14. ASSUME NEW f \in Files, Fail(f) PROVE DeltaInv'
  BY <1>i, <1>14, <1>d DEF Fail, Begin
<1>15. ASSUME NEW f \in Files, Modify(f) PROVE DeltaInv'
  BY <1>d, <1>15 DEF workerVars, Modify
<1> QED BY <1>0, <1>1, <1>2, <1>3, <1>4, <1>5, <1>6, <1>7, <1>8, <1>9, <1>10, <1>11, <1>12, <1>13, <1>14, <1>15 DEF Next, Worker

LEMMA FetchedStep ==
  ASSUME Orderly, DataInv, trouble = "failures", RecordedInv, DeltaInv, FetchedInv, CompleteInv, [Next]_vars
  PROVE  FetchedInv'
<1>i. Orderly /\ TypeOK /\ OrderInv /\ KeyInv /\ WorkInv
  BY DEF DataInv
<1>e. \A g \in Files : Present(g) /\ current # NoVersion => \A j \in DOMAIN Entry(g) : j \in Nat \ {0}
  BY <1>i, EntryIs
<1>s. \A g \in Files : Exists(g) => Len(disk[g]) \in Nat /\ Size(g) = Len(disk[g])
  BY <1>i, SizeIs
<1>c. current \in Versions => current # NoVersion
  BY DepotSets
<1>k. current' = current => Kept
  BY KeptStep
<1>0. CASE UNCHANGED vars
  BY <1>i, <1>0, <1>k DEF vars, workerVars, FetchedInv, Present, Entry, Exists, TypeOK, WorkInv, Valid
<1>1. ASSUME NEW v \in Versions, Begin(v) PROVE FetchedInv'
  BY <1>i, <1>1, <1>k DEF workerVars, Begin, Asked, FetchedInv, Present, Entry, Exists, TypeOK, WorkInv
<1>2. CASE Refuse
  BY <1>i, <1>2, <1>k DEF workerVars, Refuse, FetchedInv, Present, Entry, Exists, TypeOK, WorkInv
<1>3. CASE Stream
  <2>1. /\ phase' = "streaming" /\ current' = current
        /\ pc' = [f \in Files |-> IF Entry(f) = NoFile THEN "finished" ELSE "waiting"]
        /\ written' = [f \in Files |-> {}]
    BY <1>3 DEF Stream
  <2> QED BY <2>1 DEF FetchedInv, Present, Entry
<1>4. CASE Complete
  BY <1>i, <1>4, <1>k DEF workerVars, Complete, FetchedInv, Present, Entry, Exists, TypeOK, WorkInv
<1>5. CASE Abort
  BY <1>i, <1>5, <1>k DEF workerVars, Abort, MaySave, FetchedInv, Present, Entry, Exists, TypeOK, WorkInv
<1>6. CASE Kill
  BY <1>i, <1>6, <1>k DEF Kill, FetchedInv, Present, Entry, Exists, TypeOK, WorkInv
<1>7. ASSUME NEW f \in Files, WriteEmpty(f) PROVE FetchedInv'
  <2>1. f \in Files /\ disk' = [disk EXCEPT ![f] = <<>>] /\ Entry(f) = <<>> /\ pc' = [pc EXCEPT ![f] = "finished"]
        /\ pc[f] = "waiting" /\ phase = "streaming" /\ UNCHANGED <<current, phase, pending, written>>
    BY <1>7 DEF WriteEmpty
  <2>2. written[f] = {}
    BY <1>i, <2>1 DEF WorkInv
  <2> QED BY <1>i, <1>k, <2>1, <2>2 DEF FetchedInv, Present, Entry, Exists, TypeOK, Valid
<1>8. ASSUME NEW f \in Files, Plan(f) PROVE FetchedInv'
  <2>1. PICK s \in Seq(Content) :
         /\ phase = "streaming" /\ pc[f] = "waiting" /\ Present(f) /\ current \in Versions
         /\ disk' = [disk EXCEPT ![f] = s]
         /\ \A i \in 1..Size(f) : i <= Len(s) /\ s[i] = disk[f][i]
         /\ Credited(f) \subseteq DOMAIN Entry(f)
         /\ done' = done \cup {key(f, i) : i \in Credited(f)}
         /\ saved' = saved \/ saved' \subseteq done'
         /\ pending' = [pending EXCEPT ![f] = DOMAIN Entry(f) \ Credited(f)]
         /\ fetching' = [fetching EXCEPT ![f] = Credited(f) # DOMAIN Entry(f)]
         /\ pc' = [pc EXCEPT ![f] = "fetching"]
         /\ UNCHANGED <<current, previous, phase, written, installed, runs, trouble>>
    BY <1>i, <1>8, PlanEffect DEF DataInv
  <2>2. \A j \in Credited(f) : Valid(f, j)
    BY <2>1, CreditedValid
  <2>3. \A j \in Credited(f) : Valid(f, j)'
    BY <1>i, <1>k, <2>1, <2>2 DEF Kept
  <2>4. written[f] = {}
    BY <1>i, <2>1 DEF WorkInv
  <2>5. \A g \in Files : Present(g)' = Present(g) /\ Entry(g)' = Entry(g)
    BY <2>1 DEF Present, Entry
  <2>6. ASSUME NEW g \in Files, Present(g)
        PROVE  /\ pc'[g] \notin {"mismatch", "refetching"}
               /\ \A i \in written'[g] : Valid(g, i)'
               /\ pc'[g] = "fetching" => \A i \in DOMAIN Entry(g) \ pending'[g] : Valid(g, i)'
               /\ pc'[g] = "finished" => disk'[g] = Entry(g)
    <3>1. CASE g = f
      BY <1>i, <2>1, <2>3, <2>4, <3>1 DEF TypeOK
    <3>2. CASE g # f
      <4>1. pc'[g] = pc[g] /\ pending'[g] = pending[g] /\ written'[g] = written[g] /\ disk'[g] = disk[g]
        BY <1>i, <2>1, <3>2 DEF TypeOK
      <4> QED BY <1>i, <1>k, <2>1, <2>6, <4>1 DEF FetchedInv, WorkInv, Kept
    <3> QED BY <3>1, <3>2
  <2> QED BY <2>1, <2>5, <2>6 DEF FetchedInv
<1>9. ASSUME NEW f \in Files, Finalize(f) PROVE FetchedInv'
  <2>1. PICK s \in Seq(Content) :
         /\ phase = "streaming" /\ pc[f] = "fetching" /\ Present(f) /\ current \in Versions /\ Exists(f)
         /\ pending[f] = {} /\ written[f] = {}
         /\ disk' = [disk EXCEPT ![f] = s] /\ Len(s) = Len(Entry(f))
         /\ \A j \in 1..Len(Entry(f)) : j <= Len(disk[f]) => s[j] = disk[f][j]
         /\ pc' = [pc EXCEPT ![f] = IF f \in Hashed /\ fetching[f] /\ s # Entry(f) THEN "mismatch" ELSE "finished"]
         /\ UNCHANGED <<current, previous, saved, phase, done, pending, written, fetching, installed, runs, trouble>>
    BY <1>i, <1>9, FinalizeEffect DEF DataInv
  <2>2. s = Entry(f)
    <3>1. \A j \in DOMAIN Entry(f) : Valid(f, j)
      BY <2>1 DEF FetchedInv
    <3>2. Entry(f) \in Seq(Content) /\ DOMAIN Entry(f) = 1..Len(Entry(f))
      BY <1>i, <1>c, <2>1, EntryIs
    <3>3. \A j \in 1..Len(Entry(f)) : s[j] = Entry(f)[j]
      BY <2>1, <3>1, <3>2 DEF Valid
    <3> QED BY <2>1, <3>2, <3>3, SameContent
  <2>5. \A g \in Files : Present(g)' = Present(g) /\ Entry(g)' = Entry(g)
    BY <2>1 DEF Present, Entry
  <2>6. ASSUME NEW g \in Files, Present(g)
        PROVE  /\ pc'[g] \notin {"mismatch", "refetching"}
               /\ \A k \in written'[g] : Valid(g, k)'
               /\ pc'[g] = "fetching" => \A k \in DOMAIN Entry(g) \ pending'[g] : Valid(g, k)'
               /\ pc'[g] = "finished" => disk'[g] = Entry(g)
    <3>1. CASE g = f
      BY <1>i, <2>1, <2>2, <3>1 DEF TypeOK
    <3>2. CASE g # f
      <4>1. pc'[g] = pc[g] /\ pending'[g] = pending[g] /\ written'[g] = written[g] /\ disk'[g] = disk[g]
        BY <1>i, <2>1, <3>2 DEF TypeOK
      <4> QED BY <1>i, <1>k, <2>1, <2>6, <4>1 DEF FetchedInv, WorkInv, Kept
    <3> QED BY <3>1, <3>2
  <2> QED BY <2>1, <2>5, <2>6 DEF FetchedInv
<1>10. ASSUME NEW f \in Files, Redownload(f) PROVE FetchedInv'
  <2>1. PICK s \in Seq(Content) :
         /\ phase = "streaming" /\ pc[f] = "mismatch" /\ Present(f) /\ current \in Versions
         /\ disk' = [disk EXCEPT ![f] = s]
         /\ pending' = [pending EXCEPT ![f] = DOMAIN Entry(f)]
         /\ pc' = [pc EXCEPT ![f] = "refetching"]
         /\ UNCHANGED <<current, previous, saved, phase, done, written, fetching, installed, runs, trouble>>
    BY <1>i, <1>10, ZerosEffect DEF DataInv
  <2> QED BY <1>i, <2>1, <1>k DEF FetchedInv, Present, Entry, Exists, TypeOK, WorkInv
<1>11. ASSUME NEW f \in Files, Redownloaded(f) PROVE FetchedInv'
  BY <1>i, <1>11, <1>k DEF Redownloaded, FetchedInv, Present, Entry, Exists, TypeOK, WorkInv
<1>12. ASSUME NEW f \in Files, NEW i \in pending[f], Fetch(f, i) PROVE FetchedInv'
  <2>1. PICK s \in Seq(Content) :
         /\ phase = "streaming" /\ pc[f] \in {"fetching", "refetching"} /\ Present(f) /\ current \in Versions
         /\ i \in DOMAIN Entry(f) /\ Exists(f)
         /\ disk' = [disk EXCEPT ![f] = s] /\ i <= Len(s) /\ s[i] = Entry(f)[i]
         /\ \A j \in 1..Len(disk[f]) : j <= Len(s) /\ (j # i => s[j] = disk[f][j])
         /\ pending' = [pending EXCEPT ![f] = pending[f] \ {i}]
         /\ written' = [written EXCEPT ![f] = written[f] \cup {i}]
         /\ UNCHANGED <<current, previous, saved, phase, done, pc, fetching, installed, runs, trouble>>
    BY <1>i, <1>12, FetchEffect DEF DataInv
  <2>2. Valid(f, i)'
    <3>1. disk'[f] = s
      BY <1>i, <2>1 DEF TypeOK
    <3> QED BY <1>i, <2>1, <3>1 DEF Valid, Exists, Entry, Orderly
  <2>5. \A g \in Files : Present(g)' = Present(g) /\ Entry(g)' = Entry(g)
    BY <2>1 DEF Present, Entry
  <2>6. ASSUME NEW g \in Files, Present(g)
        PROVE  /\ pc'[g] \notin {"mismatch", "refetching"}
               /\ \A k \in written'[g] : Valid(g, k)'
               /\ pc'[g] = "fetching" => \A k \in DOMAIN Entry(g) \ pending'[g] : Valid(g, k)'
               /\ pc'[g] = "finished" => disk'[g] = Entry(g)
    <3>1. CASE g = f
      <4>1. written'[f] = written[f] \cup {i} /\ pending'[f] = pending[f] \ {i} /\ pc'[f] = pc[f]
        BY <1>i, <2>1 DEF TypeOK
      <4>2. pc[f] = "fetching"
        BY <2>1, <2>6, <3>1 DEF FetchedInv
      <4>3. written[f] \subseteq DOMAIN Entry(f)
        BY <1>i, <2>1, <2>6, <3>1 DEF WorkInv
      <4> QED BY <1>k, <2>1, <2>2, <2>6, <3>1, <4>1, <4>2, <4>3 DEF FetchedInv, Kept
    <3>2. CASE g # f
      <4>1. pc'[g] = pc[g] /\ pending'[g] = pending[g] /\ written'[g] = written[g] /\ disk'[g] = disk[g]
        BY <1>i, <2>1, <3>2 DEF TypeOK
      <4> QED BY <1>i, <1>k, <2>1, <2>6, <4>1 DEF FetchedInv, WorkInv, Kept
    <3> QED BY <3>1, <3>2
  <2> QED BY <2>1, <2>5, <2>6 DEF FetchedInv
<1>13. ASSUME NEW f \in Files, NEW i \in written[f], Mark(f, i) PROVE FetchedInv'
  <2>1. phase = "streaming" /\ written' = [written EXCEPT ![f] = written[f] \ {i}] /\ UNCHANGED <<current, phase, pc, pending, disk>>
    BY <1>13 DEF Mark
  <2> QED BY <1>i, <2>1 DEF FetchedInv, Present, Entry, Valid, Exists, TypeOK
<1>14. ASSUME NEW f \in Files, Fail(f) PROVE FetchedInv'
  BY <1>i, <1>14, <1>k DEF Fail, FetchedInv, Present, Entry, Exists, TypeOK, WorkInv, Valid
<1>15. ASSUME NEW f \in Files, Modify(f) PROVE FetchedInv'
  <2>1. PICK s \in Seq(Content) :
         /\ MayModify /\ phase = "idle" /\ installed # NoVersion /\ Exists(f)
         /\ disk' = [disk EXCEPT ![f] = s] /\ Len(s) = Len(disk[f])
         /\ \A j \in 1..Len(disk[f]) : s[j] \in {disk[f][j], Junk}
         /\ UNCHANGED <<current, previous, saved, phase, done, workerVars, installed, runs, trouble>>
    BY <1>i, <1>15, ModifyEffect DEF DataInv
  <2> QED BY <1>i, <2>1, <1>k DEF workerVars, FetchedInv, Present, Entry, Exists, TypeOK, WorkInv
<1> QED BY <1>0, <1>1, <1>2, <1>3, <1>4, <1>5, <1>6, <1>7, <1>8, <1>9, <1>10, <1>11, <1>12, <1>13, <1>14, <1>15 DEF Next, Worker

LEMMA CompleteStep ==
  ASSUME Orderly, DataInv, trouble = "failures", RecordedInv, DeltaInv, FetchedInv, CompleteInv, [Next]_vars
  PROVE  CompleteInv'
<1>i. Orderly /\ TypeOK /\ OrderInv /\ KeyInv /\ WorkInv
  BY DEF DataInv
<1>0. CASE UNCHANGED vars
  BY <1>i, <1>0 DEF vars, workerVars, CompleteInv, OrderInv, Present, Entry
<1>1. ASSUME NEW v \in Versions, Begin(v) PROVE CompleteInv'
  BY <1>i, <1>1 DEF workerVars, Begin, Asked, CompleteInv, OrderInv, Present, Entry
<1>2. CASE Refuse
  BY <1>i, <1>2 DEF workerVars, Refuse, CompleteInv, OrderInv, Present, Entry
<1>3. CASE Stream
  BY <1>i, <1>3 DEF Stream, CompleteInv, OrderInv, Present, Entry
<1>4. CASE Complete
  BY <1>i, <1>4 DEF workerVars, Complete, CompleteInv, OrderInv, Present, Entry, FetchedInv
<1>5. CASE Abort
  BY <1>i, <1>5 DEF workerVars, Abort, MaySave, CompleteInv, OrderInv, Present, Entry
<1>6. CASE Kill
  BY <1>i, <1>6 DEF Kill, CompleteInv, OrderInv, Present, Entry
<1>7. ASSUME NEW f \in Files, WriteEmpty(f) PROVE CompleteInv'
  BY <1>i, <1>7 DEF WriteEmpty, CompleteInv, OrderInv, Present, Entry
<1>8. ASSUME NEW f \in Files, Plan(f) PROVE CompleteInv'
  <2>1. PICK s \in Seq(Content) :
         /\ phase = "streaming" /\ pc[f] = "waiting" /\ Present(f) /\ current \in Versions
         /\ disk' = [disk EXCEPT ![f] = s]
         /\ \A i \in 1..Size(f) : i <= Len(s) /\ s[i] = disk[f][i]
         /\ Credited(f) \subseteq DOMAIN Entry(f)
         /\ done' = done \cup {key(f, i) : i \in Credited(f)}
         /\ saved' = saved \/ saved' \subseteq done'
         /\ pending' = [pending EXCEPT ![f] = DOMAIN Entry(f) \ Credited(f)]
         /\ fetching' = [fetching EXCEPT ![f] = Credited(f) # DOMAIN Entry(f)]
         /\ pc' = [pc EXCEPT ![f] = "fetching"]
         /\ UNCHANGED <<current, previous, phase, written, installed, runs, trouble>>
    BY <1>i, <1>8, PlanEffect DEF DataInv
  <2> QED BY <1>i, <2>1 DEF CompleteInv, OrderInv
<1>9. ASSUME NEW f \in Files, Finalize(f) PROVE CompleteInv'
  <2>1. PICK s \in Seq(Content) :
         /\ phase = "streaming" /\ pc[f] = "fetching" /\ Present(f) /\ current \in Versions /\ Exists(f)
         /\ pending[f] = {} /\ written[f] = {}
         /\ disk' = [disk EXCEPT ![f] = s] /\ Len(s) = Len(Entry(f))
         /\ \A j \in 1..Len(Entry(f)) : j <= Len(disk[f]) => s[j] = disk[f][j]
         /\ pc' = [pc EXCEPT ![f] = IF f \in Hashed /\ fetching[f] /\ s # Entry(f) THEN "mismatch" ELSE "finished"]
         /\ UNCHANGED <<current, previous, saved, phase, done, pending, written, fetching, installed, runs, trouble>>
    BY <1>i, <1>9, FinalizeEffect DEF DataInv
  <2> QED BY <1>i, <2>1 DEF CompleteInv, OrderInv, Present, Entry
<1>10. ASSUME NEW f \in Files, Redownload(f) PROVE CompleteInv'
  <2>1. PICK s \in Seq(Content) :
         /\ phase = "streaming" /\ pc[f] = "mismatch" /\ Present(f) /\ current \in Versions
         /\ disk' = [disk EXCEPT ![f] = s]
         /\ pending' = [pending EXCEPT ![f] = DOMAIN Entry(f)]
         /\ pc' = [pc EXCEPT ![f] = "refetching"]
         /\ UNCHANGED <<current, previous, saved, phase, done, written, fetching, installed, runs, trouble>>
    BY <1>i, <1>10, ZerosEffect DEF DataInv
  <2> QED BY <1>i, <2>1 DEF CompleteInv, OrderInv, Present, Entry
<1>11. ASSUME NEW f \in Files, Redownloaded(f) PROVE CompleteInv'
  BY <1>i, <1>11 DEF Redownloaded, CompleteInv, OrderInv, Present, Entry
<1>12. ASSUME NEW f \in Files, NEW i \in pending[f], Fetch(f, i) PROVE CompleteInv'
  <2>1. PICK s \in Seq(Content) :
         /\ phase = "streaming" /\ pc[f] \in {"fetching", "refetching"} /\ Present(f) /\ current \in Versions
         /\ i \in DOMAIN Entry(f) /\ Exists(f)
         /\ disk' = [disk EXCEPT ![f] = s] /\ i <= Len(s) /\ s[i] = Entry(f)[i]
         /\ \A j \in 1..Len(disk[f]) : j <= Len(s) /\ (j # i => s[j] = disk[f][j])
         /\ pending' = [pending EXCEPT ![f] = pending[f] \ {i}]
         /\ written' = [written EXCEPT ![f] = written[f] \cup {i}]
         /\ UNCHANGED <<current, previous, saved, phase, done, pc, fetching, installed, runs, trouble>>
    BY <1>i, <1>12, FetchEffect DEF DataInv
  <2> QED BY <1>i, <2>1 DEF CompleteInv, OrderInv
<1>13. ASSUME NEW f \in Files, NEW i \in written[f], Mark(f, i) PROVE CompleteInv'
  BY <1>i, <1>13 DEF Mark, MaySave, CompleteInv, OrderInv, Present, Entry
<1>14. ASSUME NEW f \in Files, Fail(f) PROVE CompleteInv'
  BY <1>i, <1>14 DEF Fail, CompleteInv, OrderInv, Present, Entry
<1>15. ASSUME NEW f \in Files, Modify(f) PROVE CompleteInv'
  <2>1. PICK s \in Seq(Content) :
         /\ MayModify /\ phase = "idle" /\ installed # NoVersion /\ Exists(f)
         /\ disk' = [disk EXCEPT ![f] = s] /\ Len(s) = Len(disk[f])
         /\ \A j \in 1..Len(disk[f]) : s[j] \in {disk[f][j], Junk}
         /\ UNCHANGED <<current, previous, saved, phase, done, workerVars, installed, runs, trouble>>
    BY <1>i, <1>15, ModifyEffect DEF DataInv
  <2> QED BY <1>i, <2>1 DEF workerVars, CompleteInv, OrderInv, Present, Entry, MayModify
<1> QED BY <1>0, <1>1, <1>2, <1>3, <1>4, <1>5, <1>6, <1>7, <1>8, <1>9, <1>10, <1>11, <1>12, <1>13, <1>14, <1>15 DEF Next, Worker

-----------------------------------------------------------------------------
(* Files are changed by others. *)

LEMMA NothingLeftStep ==
  ASSUME Orderly, DataInv, Guarded, trouble = "changes", NothingLeftInv, InstalledInv, BeforeInv, UnfetchedInv, [Next]_vars
  PROVE  NothingLeftInv'
<1>i. Orderly /\ TypeOK /\ OrderInv /\ KeyInv /\ WorkInv
  BY DEF DataInv
<1>m. ~MayFail /\ (MayModify => previous = {}) /\ Hashed = Files /\ NoPureCut
  BY <1>i DEF MayFail, MayModify, Guarded, TypeOK
<1>0. CASE UNCHANGED vars
  BY <1>i, <1>0, <1>m DEF vars, workerVars, NothingLeftInv, TypeOK
<1>1. ASSUME NEW v \in Versions, Begin(v) PROVE NothingLeftInv'
  BY <1>i, <1>1, <1>m DEF workerVars, Begin, Asked, NothingLeftInv, TypeOK, OrderInv
<1>2. CASE Refuse
  BY <1>i, <1>2, <1>m DEF workerVars, Refuse, NothingLeftInv, TypeOK
<1>3. CASE Stream
  BY <1>i, <1>3, <1>m DEF Stream, NothingLeftInv, TypeOK
<1>4. CASE Complete
  BY <1>i, <1>4, <1>m DEF workerVars, Complete, NothingLeftInv, TypeOK
<1>5. CASE Abort
  BY <1>i, <1>5, <1>m DEF workerVars, Abort, MaySave, NothingLeftInv, TypeOK
<1>6. CASE Kill
  BY <1>i, <1>6, <1>m DEF Kill, NothingLeftInv, TypeOK
<1>7. ASSUME NEW f \in Files, WriteEmpty(f) PROVE NothingLeftInv'
  BY <1>i, <1>7, <1>m DEF WriteEmpty, NothingLeftInv, TypeOK
<1>8. ASSUME NEW f \in Files, Plan(f) PROVE NothingLeftInv'
  <2>1. PICK s \in Seq(Content) :
         /\ phase = "streaming" /\ pc[f] = "waiting" /\ Present(f) /\ current \in Versions
         /\ disk' = [disk EXCEPT ![f] = s]
         /\ \A i \in 1..Size(f) : i <= Len(s) /\ s[i] = disk[f][i]
         /\ Credited(f) \subseteq DOMAIN Entry(f)
         /\ done' = done \cup {key(f, i) : i \in Credited(f)}
         /\ saved' = saved \/ saved' \subseteq done'
         /\ pending' = [pending EXCEPT ![f] = DOMAIN Entry(f) \ Credited(f)]
         /\ fetching' = [fetching EXCEPT ![f] = Credited(f) # DOMAIN Entry(f)]
         /\ pc' = [pc EXCEPT ![f] = "fetching"]
         /\ UNCHANGED <<current, previous, phase, written, installed, runs, trouble>>
    BY <1>i, <1>8, PlanEffect DEF DataInv
  <2>2. \A k \in {key(f, j) : j \in Credited(f)} : k[1] = f
    BY DEF key
  <2> QED BY <1>i, <2>1, <2>2 DEF NothingLeftInv, TypeOK
<1>9. ASSUME NEW f \in Files, Finalize(f) PROVE NothingLeftInv'
  <2>1. PICK s \in Seq(Content) :
         /\ phase = "streaming" /\ pc[f] = "fetching" /\ Present(f) /\ current \in Versions /\ Exists(f)
         /\ pending[f] = {} /\ written[f] = {}
         /\ disk' = [disk EXCEPT ![f] = s] /\ Len(s) = Len(Entry(f))
         /\ \A j \in 1..Len(Entry(f)) : j <= Len(disk[f]) => s[j] = disk[f][j]
         /\ pc' = [pc EXCEPT ![f] = IF f \in Hashed /\ fetching[f] /\ s # Entry(f) THEN "mismatch" ELSE "finished"]
         /\ UNCHANGED <<current, previous, saved, phase, done, pending, written, fetching, installed, runs, trouble>>
    BY <1>i, <1>9, FinalizeEffect DEF DataInv
  <2> QED BY <1>i, <2>1, <1>m DEF NothingLeftInv, TypeOK
<1>10. ASSUME NEW f \in Files, Redownload(f) PROVE NothingLeftInv'
  <2>1. PICK s \in Seq(Content) :
         /\ phase = "streaming" /\ pc[f] = "mismatch" /\ Present(f) /\ current \in Versions
         /\ disk' = [disk EXCEPT ![f] = s]
         /\ pending' = [pending EXCEPT ![f] = DOMAIN Entry(f)]
         /\ pc' = [pc EXCEPT ![f] = "refetching"]
         /\ UNCHANGED <<current, previous, saved, phase, done, written, fetching, installed, runs, trouble>>
    BY <1>i, <1>10, ZerosEffect DEF DataInv
  <2> QED BY <1>i, <2>1, <1>m DEF NothingLeftInv, TypeOK
<1>11. ASSUME NEW f \in Files, Redownloaded(f) PROVE NothingLeftInv'
  BY <1>i, <1>11, <1>m DEF Redownloaded, NothingLeftInv, TypeOK
<1>12. ASSUME NEW f \in Files, NEW i \in pending[f], Fetch(f, i) PROVE NothingLeftInv'
  <2>1. PICK s \in Seq(Content) :
         /\ phase = "streaming" /\ pc[f] \in {"fetching", "refetching"} /\ Present(f) /\ current \in Versions
         /\ i \in DOMAIN Entry(f) /\ Exists(f)
         /\ disk' = [disk EXCEPT ![f] = s] /\ i <= Len(s) /\ s[i] = Entry(f)[i]
         /\ \A j \in 1..Len(disk[f]) : j <= Len(s) /\ (j # i => s[j] = disk[f][j])
         /\ pending' = [pending EXCEPT ![f] = pending[f] \ {i}]
         /\ written' = [written EXCEPT ![f] = written[f] \cup {i}]
         /\ UNCHANGED <<current, previous, saved, phase, done, pc, fetching, installed, runs, trouble>>
    BY <1>i, <1>12, FetchEffect DEF DataInv
  <2> QED BY <1>i, <2>1, <1>m DEF NothingLeftInv, TypeOK
<1>13. ASSUME NEW f \in Files, NEW i \in written[f], Mark(f, i) PROVE NothingLeftInv'
  <2>1. key(f, i)[1] = f
    BY DEF key
  <2>2. phase = "streaming" /\ pc[f] # "waiting" /\ UNCHANGED <<phase, pc, current>> /\ done' = done \cup {key(f, i)}
    BY <1>i, <1>13 DEF Mark, WorkInv
  <2> QED BY <2>1, <2>2 DEF NothingLeftInv
<1>14. ASSUME NEW f \in Files, Fail(f) PROVE NothingLeftInv'
  BY <1>i, <1>14, <1>m DEF Fail, NothingLeftInv, TypeOK
<1>15. ASSUME NEW f \in Files, Modify(f) PROVE NothingLeftInv'
  <2>1. PICK s \in Seq(Content) :
         /\ MayModify /\ phase = "idle" /\ installed # NoVersion /\ Exists(f)
         /\ disk' = [disk EXCEPT ![f] = s] /\ Len(s) = Len(disk[f])
         /\ \A j \in 1..Len(disk[f]) : s[j] \in {disk[f][j], Junk}
         /\ UNCHANGED <<current, previous, saved, phase, done, workerVars, installed, runs, trouble>>
    BY <1>i, <1>15, ModifyEffect DEF DataInv
  <2> QED BY <1>i, <2>1, <1>m DEF workerVars, NothingLeftInv, TypeOK
<1> QED BY <1>0, <1>1, <1>2, <1>3, <1>4, <1>5, <1>6, <1>7, <1>8, <1>9, <1>10, <1>11, <1>12, <1>13, <1>14, <1>15 DEF Next, Worker

LEMMA InstalledStep ==
  ASSUME Orderly, DataInv, Guarded, trouble = "changes", NothingLeftInv, InstalledInv, BeforeInv, UnfetchedInv, [Next]_vars
  PROVE  InstalledInv'
<1>i. Orderly /\ TypeOK /\ OrderInv /\ KeyInv /\ WorkInv
  BY DEF DataInv
<1>m. ~MayFail /\ (MayModify => previous = {}) /\ Hashed = Files /\ NoPureCut
  BY <1>i DEF MayFail, MayModify, Guarded, TypeOK
<1>0. CASE UNCHANGED vars
  BY <1>i, <1>0, <1>m DEF vars, workerVars, InstalledInv, OrderInv, Present, Entry, Spoilt, Exists
<1>1. ASSUME NEW v \in Versions, Begin(v) PROVE InstalledInv'
  BY <1>i, <1>1, <1>m DEF workerVars, Begin, Asked, InstalledInv, OrderInv, Present, Entry, Spoilt, Exists
<1>2. CASE Refuse
  BY <1>i, <1>2, <1>m DEF workerVars, Refuse, InstalledInv, OrderInv, Present, Entry, Spoilt, Exists
<1>3. CASE Stream
  BY <1>i, <1>3, <1>m DEF Stream, InstalledInv, OrderInv, Present, Entry, Spoilt, Exists
<1>4. CASE Complete
  <2>1. \A f \in Files : Present(f) => disk[f] = Entry(f)
    BY <1>4 DEF Complete, UnfetchedInv
  <2>2. current # NoVersion
    BY <1>i, <1>4 DEF Complete, OrderInv
  <2>3. \A f \in Files : Present(f) => \A i \in DOMAIN Entry(f) : disk[f][i] \in {Entry(f)[i], Junk}
    BY <2>1
  <2> QED BY <1>4, <2>1, <2>3 DEF Complete, InstalledInv, Present, Entry, Spoilt, Exists
<1>5. CASE Abort
  BY <1>i, <1>5, <1>m DEF workerVars, Abort, MaySave, InstalledInv, OrderInv, Present, Entry, Spoilt, Exists
<1>6. CASE Kill
  BY <1>i, <1>6, <1>m DEF Kill, InstalledInv, OrderInv, Present, Entry, Spoilt, Exists
<1>7. ASSUME NEW f \in Files, WriteEmpty(f) PROVE InstalledInv'
  BY <1>i, <1>7, <1>m DEF WriteEmpty, InstalledInv, OrderInv, Present, Entry, Spoilt, Exists
<1>8. ASSUME NEW f \in Files, Plan(f) PROVE InstalledInv'
  <2>1. PICK s \in Seq(Content) :
         /\ phase = "streaming" /\ pc[f] = "waiting" /\ Present(f) /\ current \in Versions
         /\ disk' = [disk EXCEPT ![f] = s]
         /\ \A i \in 1..Size(f) : i <= Len(s) /\ s[i] = disk[f][i]
         /\ Credited(f) \subseteq DOMAIN Entry(f)
         /\ done' = done \cup {key(f, i) : i \in Credited(f)}
         /\ saved' = saved \/ saved' \subseteq done'
         /\ pending' = [pending EXCEPT ![f] = DOMAIN Entry(f) \ Credited(f)]
         /\ fetching' = [fetching EXCEPT ![f] = Credited(f) # DOMAIN Entry(f)]
         /\ pc' = [pc EXCEPT ![f] = "fetching"]
         /\ UNCHANGED <<current, previous, phase, written, installed, runs, trouble>>
    BY <1>i, <1>8, PlanEffect DEF DataInv
  <2> QED BY <1>i, <2>1, <1>m DEF InstalledInv, OrderInv, Present, Entry, Spoilt, Exists
<1>9. ASSUME NEW f \in Files, Finalize(f) PROVE InstalledInv'
  <2>1. PICK s \in Seq(Content) :
         /\ phase = "streaming" /\ pc[f] = "fetching" /\ Present(f) /\ current \in Versions /\ Exists(f)
         /\ pending[f] = {} /\ written[f] = {}
         /\ disk' = [disk EXCEPT ![f] = s] /\ Len(s) = Len(Entry(f))
         /\ \A j \in 1..Len(Entry(f)) : j <= Len(disk[f]) => s[j] = disk[f][j]
         /\ pc' = [pc EXCEPT ![f] = IF f \in Hashed /\ fetching[f] /\ s # Entry(f) THEN "mismatch" ELSE "finished"]
         /\ UNCHANGED <<current, previous, saved, phase, done, pending, written, fetching, installed, runs, trouble>>
    BY <1>i, <1>9, FinalizeEffect DEF DataInv
  <2> QED BY <1>i, <2>1, <1>m DEF InstalledInv, OrderInv, Present, Entry, Spoilt, Exists
<1>10. ASSUME NEW f \in Files, Redownload(f) PROVE InstalledInv'
  <2>1. PICK s \in Seq(Content) :
         /\ phase = "streaming" /\ pc[f] = "mismatch" /\ Present(f) /\ current \in Versions
         /\ disk' = [disk EXCEPT ![f] = s]
         /\ pending' = [pending EXCEPT ![f] = DOMAIN Entry(f)]
         /\ pc' = [pc EXCEPT ![f] = "refetching"]
         /\ UNCHANGED <<current, previous, saved, phase, done, written, fetching, installed, runs, trouble>>
    BY <1>i, <1>10, ZerosEffect DEF DataInv
  <2> QED BY <1>i, <2>1, <1>m DEF InstalledInv, OrderInv, Present, Entry, Spoilt, Exists
<1>11. ASSUME NEW f \in Files, Redownloaded(f) PROVE InstalledInv'
  BY <1>i, <1>11, <1>m DEF Redownloaded, InstalledInv, OrderInv, Present, Entry, Spoilt, Exists
<1>12. ASSUME NEW f \in Files, NEW i \in pending[f], Fetch(f, i) PROVE InstalledInv'
  <2>1. PICK s \in Seq(Content) :
         /\ phase = "streaming" /\ pc[f] \in {"fetching", "refetching"} /\ Present(f) /\ current \in Versions
         /\ i \in DOMAIN Entry(f) /\ Exists(f)
         /\ disk' = [disk EXCEPT ![f] = s] /\ i <= Len(s) /\ s[i] = Entry(f)[i]
         /\ \A j \in 1..Len(disk[f]) : j <= Len(s) /\ (j # i => s[j] = disk[f][j])
         /\ pending' = [pending EXCEPT ![f] = pending[f] \ {i}]
         /\ written' = [written EXCEPT ![f] = written[f] \cup {i}]
         /\ UNCHANGED <<current, previous, saved, phase, done, pc, fetching, installed, runs, trouble>>
    BY <1>i, <1>12, FetchEffect DEF DataInv
  <2> QED BY <1>i, <2>1, <1>m DEF InstalledInv, OrderInv, Present, Entry, Spoilt, Exists
<1>13. ASSUME NEW f \in Files, NEW i \in written[f], Mark(f, i) PROVE InstalledInv'
  BY <1>i, <1>13, <1>m DEF Mark, MaySave, InstalledInv, OrderInv, Present, Entry, Spoilt, Exists
<1>14. ASSUME NEW f \in Files, Fail(f) PROVE InstalledInv'
  BY <1>i, <1>14, <1>m DEF Fail, InstalledInv, OrderInv, Present, Entry, Spoilt, Exists
<1>15. ASSUME NEW f \in Files, Modify(f) PROVE InstalledInv'
  <2>1. PICK s \in Seq(Content) :
         /\ MayModify /\ phase = "idle" /\ installed # NoVersion /\ Exists(f)
         /\ disk' = [disk EXCEPT ![f] = s] /\ Len(s) = Len(disk[f])
         /\ \A j \in 1..Len(disk[f]) : s[j] \in {disk[f][j], Junk}
         /\ UNCHANGED <<current, previous, saved, phase, done, workerVars, installed, runs, trouble>>
    BY <1>i, <1>15, ModifyEffect DEF DataInv
  <2>2. previous = {} /\ UNCHANGED <<current, previous, installed>>
    BY <1>m, <2>1 DEF workerVars
  <2>3. current \in Versions /\ current # NoVersion
    BY <1>i, <2>1 DEF OrderInv, TypeOK
  <2>4. ASSUME NEW g \in Files, Present(g) PROVE Spoilt(g, Entry(g))'
    <3>1. Spoilt(g, Entry(g)) /\ DOMAIN Entry(g) = 1..Len(Entry(g))
      BY <1>i, <2>1, <2>2, <2>3, <2>4, EntryIs DEF InstalledInv
    <3>2. CASE g = f
      <4>1. disk'[g] = s /\ s # NoFile
        BY <1>i, <2>1, <3>2 DEF TypeOK, Orderly
      <4> QED BY <2>1, <2>2, <3>1, <3>2, <4>1 DEF Spoilt, Exists, Entry
    <3>3. CASE g # f
      <4>1. disk'[g] = disk[g]
        BY <1>i, <2>1, <3>3 DEF TypeOK
      <4> QED BY <2>2, <3>1, <4>1 DEF Spoilt, Exists, Entry
    <3> QED BY <3>2, <3>3
  <2> QED BY <2>2, <2>4 DEF InstalledInv, Present, Entry
<1> QED BY <1>0, <1>1, <1>2, <1>3, <1>4, <1>5, <1>6, <1>7, <1>8, <1>9, <1>10, <1>11, <1>12, <1>13, <1>14, <1>15 DEF Next, Worker

LEMMA BeforeStep ==
  ASSUME Orderly, DataInv, Guarded, trouble = "changes", NothingLeftInv, InstalledInv, BeforeInv, UnfetchedInv, [Next]_vars
  PROVE  BeforeInv'
<1>i. Orderly /\ TypeOK /\ OrderInv /\ KeyInv /\ WorkInv
  BY DEF DataInv
<1>m. ~MayFail /\ (MayModify => previous = {}) /\ Hashed = Files /\ NoPureCut
  BY <1>i DEF MayFail, MayModify, Guarded, TypeOK
<1>g. ASSUME current' = current, previous' = previous, NEW g \in Files, disk'[g] = disk[g]
      PROVE  /\ PreviousManifest' = PreviousManifest /\ OldOf(g)' = OldOf(g) /\ Present(g)' = Present(g) /\ Entry(g)' = Entry(g)
             /\ Spoilt(g, OldOf(g))' = Spoilt(g, OldOf(g))
  BY <1>g, PreviousSame DEF OldOf, Present, Entry, Spoilt, Exists
<1>0. CASE UNCHANGED vars
  BY <1>i, <1>0, <1>m, <1>g DEF vars, workerVars, BeforeInv
<1>1. ASSUME NEW v \in Versions, Begin(v) PROVE BeforeInv'
  <2>1. previous' = previous \cup ({current} \ {NoVersion, v}) /\ current' = v /\ UNCHANGED disk
        /\ (v = current \/ installed = current) /\ phase = "idle"
    BY <1>i, <1>1 DEF Begin, Asked, Orderly
  <2>2. CASE v = current
    <3>1. previous' = previous /\ current' = current /\ installed = current /\ current # NoVersion
      BY <2>1, <2>2, DepotSets DEF NothingLeftInv
    <3> QED BY <1>g, <2>1, <3>1 DEF BeforeInv, InstalledInv, Present
  <2>3. CASE v # current /\ current = NoVersion
    BY <1>i, <2>1, <2>3 DEF BeforeInv, OrderInv
  <2>4. CASE v # current /\ current # NoVersion
    <3>1. PreviousManifest' = current /\ current \in Versions
      BY <1>i, <2>1, <2>4, PreviousLeft
    <3>2. \A f \in Files : OldOf(f)' = Entry(f)
      BY <3>1 DEF OldOf, Entry
    <3>3. \A f \in Files : Present(f) => Spoilt(f, Entry(f))
      BY <2>1, <2>4 DEF InstalledInv, Spoilt, Exists, Present
    <3>4. \A f \in Files : Spoilt(f, Entry(f)) => Spoilt(f, OldOf(f))'
      BY <2>1, <3>2 DEF Spoilt, Exists
    <3> QED BY <3>2, <3>3, <3>4 DEF BeforeInv, Present
  <2> QED BY <2>2, <2>3, <2>4
<1>2. CASE Refuse
  BY <1>m, <1>2 DEF Refuse
<1>3. CASE Stream
  <2>1. phase = "resolved" /\ UNCHANGED <<current, previous>>
        /\ \A f \in Files : disk'[f] = IF f \in DeletedFiles THEN NoFile ELSE disk[f]
    BY <1>3 DEF Stream
  <2>2. \A f \in Files : Present(f) => disk'[f] = disk[f]
    BY <2>1 DEF DeletedFiles, Present
  <2>3. \A f \in Files : Present(f)' = Present(f)
    BY <2>1 DEF Present, Entry
  <2> QED BY <1>g, <2>1, <2>2, <2>3 DEF BeforeInv
<1>4. CASE Complete
  BY <1>4 DEF Complete, BeforeInv
<1>5. CASE Abort
  BY <1>5 DEF Abort, BeforeInv
<1>6. CASE Kill
  BY <1>m, <1>6 DEF Kill
<1>7. ASSUME NEW f \in Files, WriteEmpty(f) PROVE BeforeInv'
  <2>2. phase = "streaming" /\ UNCHANGED <<current, previous, phase>> /\ \A g \in Files \ {f} : disk'[g] = disk[g] /\ pc'[g] = pc[g]
    BY <1>i, <1>7 DEF WriteEmpty, TypeOK
  <2>3. pc'[f] # "waiting"
    BY <1>i, <1>7 DEF WriteEmpty, TypeOK, WorkInv
  <2> QED BY <1>g, <2>2, <2>3 DEF BeforeInv
<1>8. ASSUME NEW f \in Files, Plan(f) PROVE BeforeInv'
  <2>1. PICK s \in Seq(Content) :
         /\ phase = "streaming" /\ pc[f] = "waiting" /\ Present(f) /\ current \in Versions
         /\ disk' = [disk EXCEPT ![f] = s]
         /\ \A i \in 1..Size(f) : i <= Len(s) /\ s[i] = disk[f][i]
         /\ Credited(f) \subseteq DOMAIN Entry(f)
         /\ done' = done \cup {key(f, i) : i \in Credited(f)}
         /\ saved' = saved \/ saved' \subseteq done'
         /\ pending' = [pending EXCEPT ![f] = DOMAIN Entry(f) \ Credited(f)]
         /\ fetching' = [fetching EXCEPT ![f] = Credited(f) # DOMAIN Entry(f)]
         /\ pc' = [pc EXCEPT ![f] = "fetching"]
         /\ UNCHANGED <<current, previous, phase, written, installed, runs, trouble>>
    BY <1>i, <1>8, PlanEffect DEF DataInv
  <2>2. phase = "streaming" /\ UNCHANGED <<current, previous, phase>> /\ \A g \in Files \ {f} : disk'[g] = disk[g] /\ pc'[g] = pc[g]
    BY <1>i, <2>1 DEF TypeOK
  <2>3. pc'[f] # "waiting"
    BY <1>i, <2>1 DEF TypeOK, WorkInv
  <2> QED BY <1>g, <2>2, <2>3 DEF BeforeInv
<1>9. ASSUME NEW f \in Files, Finalize(f) PROVE BeforeInv'
  <2>1. PICK s \in Seq(Content) :
         /\ phase = "streaming" /\ pc[f] = "fetching" /\ Present(f) /\ current \in Versions /\ Exists(f)
         /\ pending[f] = {} /\ written[f] = {}
         /\ disk' = [disk EXCEPT ![f] = s] /\ Len(s) = Len(Entry(f))
         /\ \A j \in 1..Len(Entry(f)) : j <= Len(disk[f]) => s[j] = disk[f][j]
         /\ pc' = [pc EXCEPT ![f] = IF f \in Hashed /\ fetching[f] /\ s # Entry(f) THEN "mismatch" ELSE "finished"]
         /\ UNCHANGED <<current, previous, saved, phase, done, pending, written, fetching, installed, runs, trouble>>
    BY <1>i, <1>9, FinalizeEffect DEF DataInv
  <2>2. phase = "streaming" /\ UNCHANGED <<current, previous, phase>> /\ \A g \in Files \ {f} : disk'[g] = disk[g] /\ pc'[g] = pc[g]
    BY <1>i, <2>1 DEF TypeOK
  <2>3. pc'[f] # "waiting"
    BY <1>i, <2>1 DEF TypeOK, WorkInv
  <2> QED BY <1>g, <2>2, <2>3 DEF BeforeInv
<1>10. ASSUME NEW f \in Files, Redownload(f) PROVE BeforeInv'
  <2>1. PICK s \in Seq(Content) :
         /\ phase = "streaming" /\ pc[f] = "mismatch" /\ Present(f) /\ current \in Versions
         /\ disk' = [disk EXCEPT ![f] = s]
         /\ pending' = [pending EXCEPT ![f] = DOMAIN Entry(f)]
         /\ pc' = [pc EXCEPT ![f] = "refetching"]
         /\ UNCHANGED <<current, previous, saved, phase, done, written, fetching, installed, runs, trouble>>
    BY <1>i, <1>10, ZerosEffect DEF DataInv
  <2>2. phase = "streaming" /\ UNCHANGED <<current, previous, phase>> /\ \A g \in Files \ {f} : disk'[g] = disk[g] /\ pc'[g] = pc[g]
    BY <1>i, <2>1 DEF TypeOK
  <2>3. pc'[f] # "waiting"
    BY <1>i, <2>1 DEF TypeOK, WorkInv
  <2> QED BY <1>g, <2>2, <2>3 DEF BeforeInv
<1>11. ASSUME NEW f \in Files, Redownloaded(f) PROVE BeforeInv'
  <2>2. phase = "streaming" /\ UNCHANGED <<current, previous, phase>> /\ \A g \in Files \ {f} : disk'[g] = disk[g] /\ pc'[g] = pc[g]
    BY <1>i, <1>11 DEF Redownloaded, TypeOK
  <2>3. pc'[f] # "waiting"
    BY <1>i, <1>11 DEF Redownloaded, TypeOK, WorkInv
  <2> QED BY <1>g, <2>2, <2>3 DEF BeforeInv
<1>12. ASSUME NEW f \in Files, NEW i \in pending[f], Fetch(f, i) PROVE BeforeInv'
  <2>1. PICK s \in Seq(Content) :
         /\ phase = "streaming" /\ pc[f] \in {"fetching", "refetching"} /\ Present(f) /\ current \in Versions
         /\ i \in DOMAIN Entry(f) /\ Exists(f)
         /\ disk' = [disk EXCEPT ![f] = s] /\ i <= Len(s) /\ s[i] = Entry(f)[i]
         /\ \A j \in 1..Len(disk[f]) : j <= Len(s) /\ (j # i => s[j] = disk[f][j])
         /\ pending' = [pending EXCEPT ![f] = pending[f] \ {i}]
         /\ written' = [written EXCEPT ![f] = written[f] \cup {i}]
         /\ UNCHANGED <<current, previous, saved, phase, done, pc, fetching, installed, runs, trouble>>
    BY <1>i, <1>12, FetchEffect DEF DataInv
  <2>2. phase = "streaming" /\ UNCHANGED <<current, previous, phase>> /\ \A g \in Files \ {f} : disk'[g] = disk[g] /\ pc'[g] = pc[g]
    BY <1>i, <2>1 DEF TypeOK
  <2>3. pc'[f] # "waiting"
    BY <1>i, <2>1 DEF TypeOK, WorkInv
  <2> QED BY <1>g, <2>2, <2>3 DEF BeforeInv
<1>13. ASSUME NEW f \in Files, NEW i \in written[f], Mark(f, i) PROVE BeforeInv'
  <2>2. phase = "streaming" /\ UNCHANGED <<current, previous, phase>> /\ \A g \in Files \ {f} : disk'[g] = disk[g] /\ pc'[g] = pc[g]
    BY <1>i, <1>13 DEF Mark, TypeOK
  <2>3. pc'[f] # "waiting"
    BY <1>i, <1>13 DEF Mark, TypeOK, WorkInv
  <2> QED BY <1>g, <2>2, <2>3 DEF BeforeInv
<1>14. ASSUME NEW f \in Files, Fail(f) PROVE BeforeInv'
  BY <1>m, <1>14 DEF Fail
<1>15. ASSUME NEW f \in Files, Modify(f) PROVE BeforeInv'
  <2>1. PICK s \in Seq(Content) :
         /\ MayModify /\ phase = "idle" /\ installed # NoVersion /\ Exists(f)
         /\ disk' = [disk EXCEPT ![f] = s] /\ Len(s) = Len(disk[f])
         /\ \A j \in 1..Len(disk[f]) : s[j] \in {disk[f][j], Junk}
         /\ UNCHANGED <<current, previous, saved, phase, done, workerVars, installed, runs, trouble>>
    BY <1>i, <1>15, ModifyEffect DEF DataInv
  <2> QED BY <1>m, <2>1 DEF BeforeInv, workerVars
<1> QED BY <1>0, <1>1, <1>2, <1>3, <1>4, <1>5, <1>6, <1>7, <1>8, <1>9, <1>10, <1>11, <1>12, <1>13, <1>14, <1>15 DEF Next, Worker

(* A chunk that stands where the previous manifest had it, or where it is valid: the previous manifest   *)
(* agrees with the entry there.                                                                         *)
LEMMA OldIs ==
  ASSUME TypeOK, OrderInv, previous # {}, NEW f \in Files, OldOf(f) # NoFile
  PROVE  Len(OldOf(f)) \in Nat /\ DOMAIN OldOf(f) = 1..Len(OldOf(f))
<1>1. OldOf(f) \in Seq(Chunks)
  BY DepotSets DEF OrderInv, OldOf
<1> QED BY <1>1, LenProperties

(* A file of which everything is credited is right. *)
LEMMA AllCredited ==
  ASSUME Orderly, DataInv, Guarded, trouble = "changes", NothingLeftInv, BeforeInv,
         NEW f \in Files, phase = "streaming", pc[f] = "waiting", Present(f), Entry(f) # <<>>, Credited(f) = DOMAIN Entry(f)
  PROVE  \A i \in DOMAIN Entry(f) : Valid(f, i)
<1>1. current # NoVersion /\ current \in Versions
  BY DepotSets, VersionIs DEF DataInv
<1>2. /\ Len(Entry(f)) \in Nat /\ DOMAIN Entry(f) = 1..Len(Entry(f))
      /\ \A i \in DOMAIN Entry(f) : Entry(f)[i] \in Chunks
  BY <1>1, EntryIs DEF DataInv
<1>3. \A i : key(f, i) \notin done
  <2>1. \A i : key(f, i)[1] = f
    BY DEF key
  <2> QED BY <2>1 DEF NothingLeftInv
<1> DEFINE canDelta == IsDelta(f) /\ Size(f) > 0
<1>4. ASSUME NEW i \in DOMAIN Entry(f), i <= Size(f), disk[f][i] = Entry(f)[i]
      PROVE  Valid(f, i)
  <2>1. Size(f) > 0 => Exists(f) /\ Size(f) = Len(disk[f])
    BY SizeIs DEF Size, DataInv
  <2> QED BY <1>2, <1>4, <2>1, SizeIs DEF Valid, DataInv
<1>5. CASE ~canDelta
  BY <1>3, <1>4, <1>5 DEF Credited
<1>6. CASE canDelta
  <2>1. previous # {} /\ OldOf(f) # NoFile /\ OldOf(f) # Entry(f)
    BY <1>6 DEF IsDelta, OldOf
  <2>2. Len(OldOf(f)) \in Nat /\ DOMAIN OldOf(f) = 1..Len(OldOf(f))
    BY <2>1, OldIs DEF DataInv
  <2>3. CASE disk[f] = Entry(f)
    BY <1>2, <2>3 DEF Valid, Exists, Present
  <2>4. CASE Spoilt(f, OldOf(f))
    <3>1. Size(f) = Len(OldOf(f))
      BY <2>4 DEF Spoilt, Size
    <3>2. ASSUME NEW j \in DOMAIN Entry(f)
          PROVE  j \in DOMAIN OldOf(f) /\ OldOf(f)[j] = Entry(f)[j]
      <4>1. CASE Entry(f)[j] \in UnchangedIds(f)
        <5>1. PICK k \in DOMAIN Entry(f) \cap DOMAIN OldOf(f) : OldOf(f)[k] = Entry(f)[k] /\ Entry(f)[j] = Entry(f)[k]
          BY <4>1 DEF UnchangedIds, OldOf
        <5>2. j = k
          BY <1>1, <5>1 DEF Orderly, NoRepeats, Present, Entry
        <5> QED BY <5>1, <5>2
      <4>2. CASE j <= Size(f) /\ disk[f][j] = Entry(f)[j]
        <5>1. j \in DOMAIN OldOf(f)
          BY <1>2, <2>2, <3>1, <4>2
        <5>2. disk[f][j] \in Chunks /\ disk[f][j] \in {OldOf(f)[j], Junk}
          BY <1>2, <2>4, <4>2, <5>1 DEF Spoilt
        <5> QED BY <4>2, <5>1, <5>2, DepotSets
      <4> QED BY <1>3, <4>1, <4>2 DEF Credited
    <3>3. NoPureCut
      BY DEF Guarded, DataInv, TypeOK
    <3>4. <<PreviousManifest, current>> \in Moves /\ PreviousManifest \in Versions
      BY <2>1 DEF DataInv, OrderInv
    <3>5. <<PreviousManifest, current>>[1] = PreviousManifest /\ <<PreviousManifest, current>>[2] = current
      OBVIOUS
    <3>6. \E j \in DOMAIN Entry(f) : j \notin DOMAIN OldOf(f) \/ OldOf(f)[j] # Entry(f)[j]
      BY <2>1, <3>3, <3>4, <3>5 DEF NoPureCut, OldOf, Entry, Present
    <3> QED BY <3>2, <3>6
  <2> QED BY <2>1, <2>3, <2>4 DEF BeforeInv
<1> QED BY <1>5, <1>6

LEMMA UnfetchedStep ==
  ASSUME Orderly, DataInv, Guarded, trouble = "changes", NothingLeftInv, InstalledInv, BeforeInv, UnfetchedInv, [Next]_vars
  PROVE  UnfetchedInv'
<1>i. Orderly /\ TypeOK /\ OrderInv /\ KeyInv /\ WorkInv
  BY DEF DataInv
<1>m. ~MayFail /\ (MayModify => previous = {}) /\ Hashed = Files /\ NoPureCut
  BY <1>i DEF MayFail, MayModify, Guarded, TypeOK
<1>0. CASE UNCHANGED vars
  BY <1>i, <1>0, <1>m DEF vars, workerVars, UnfetchedInv, Present, Entry, Exists, Valid, TypeOK
<1>1. ASSUME NEW v \in Versions, Begin(v) PROVE UnfetchedInv'
  BY <1>i, <1>1, <1>m DEF workerVars, Begin, Asked, UnfetchedInv, Present, Entry, Exists, Valid, TypeOK
<1>2. CASE Refuse
  BY <1>i, <1>2, <1>m DEF workerVars, Refuse, UnfetchedInv, Present, Entry, Exists, Valid, TypeOK
<1>3. CASE Stream
  <2>1. /\ phase' = "streaming" /\ current' = current
        /\ pc' = [f \in Files |-> IF Entry(f) = NoFile THEN "finished" ELSE "waiting"]
    BY <1>3 DEF Stream
  <2> QED BY <2>1 DEF UnfetchedInv, Present, Entry
<1>4. CASE Complete
  BY <1>i, <1>4, <1>m DEF workerVars, Complete, UnfetchedInv, Present, Entry, Exists, Valid, TypeOK
<1>5. CASE Abort
  BY <1>i, <1>5, <1>m DEF workerVars, Abort, MaySave, UnfetchedInv, Present, Entry, Exists, Valid, TypeOK
<1>6. CASE Kill
  BY <1>i, <1>6, <1>m DEF Kill, UnfetchedInv, Present, Entry, Exists, Valid, TypeOK
<1>7. ASSUME NEW f \in Files, WriteEmpty(f) PROVE UnfetchedInv'
  <2>1. f \in Files /\ disk' = [disk EXCEPT ![f] = <<>>] /\ Entry(f) = <<>> /\ pc' = [pc EXCEPT ![f] = "finished"]
        /\ pc[f] = "waiting" /\ phase = "streaming" /\ UNCHANGED <<current, phase, pending, written, fetching>>
    BY <1>7 DEF WriteEmpty
  <2>5. \A g \in Files : Present(g)' = Present(g) /\ Entry(g)' = Entry(g)
    BY <2>1 DEF Present, Entry
  <2>6. \A g \in Files \ {f} : /\ pc'[g] = pc[g] /\ pending'[g] = pending[g] /\ written'[g] = written[g] /\ fetching'[g] = fetching[g]
                              /\ disk'[g] = disk[g]
    BY <1>i, <2>1 DEF TypeOK
  <2>7. \A g \in Files \ {f} : Present(g) => \A i \in DOMAIN Entry(g) : Valid(g, i)' = Valid(g, i)
    BY <2>1, <2>5, <2>6 DEF Valid, Exists
  <2>8. Present(f) => /\ pc'[f] = "fetching" /\ ~fetching'[f] => pending'[f] = {} /\ written'[f] = {} /\ \A i \in DOMAIN Entry(f) : Valid(f, i)'
                      /\ pc'[f] = "finished" => disk'[f] = Entry(f)
    BY <1>i, <2>1 DEF TypeOK
  <2> QED BY <2>1, <2>5, <2>6, <2>7, <2>8 DEF UnfetchedInv
<1>8. ASSUME NEW f \in Files, Plan(f) PROVE UnfetchedInv'
  <2>1. PICK s \in Seq(Content) :
         /\ phase = "streaming" /\ pc[f] = "waiting" /\ Present(f) /\ current \in Versions
         /\ disk' = [disk EXCEPT ![f] = s]
         /\ \A i \in 1..Size(f) : i <= Len(s) /\ s[i] = disk[f][i]
         /\ Credited(f) \subseteq DOMAIN Entry(f)
         /\ done' = done \cup {key(f, i) : i \in Credited(f)}
         /\ saved' = saved \/ saved' \subseteq done'
         /\ pending' = [pending EXCEPT ![f] = DOMAIN Entry(f) \ Credited(f)]
         /\ fetching' = [fetching EXCEPT ![f] = Credited(f) # DOMAIN Entry(f)]
         /\ pc' = [pc EXCEPT ![f] = "fetching"]
         /\ UNCHANGED <<current, previous, phase, written, installed, runs, trouble>>
    BY <1>i, <1>8, PlanEffect DEF DataInv
  <2>0. Entry(f) # <<>>
    BY <1>8 DEF Plan
  <2>5. \A g \in Files : Present(g)' = Present(g) /\ Entry(g)' = Entry(g)
    BY <2>1 DEF Present, Entry
  <2>6. \A g \in Files \ {f} : /\ pc'[g] = pc[g] /\ pending'[g] = pending[g] /\ written'[g] = written[g] /\ fetching'[g] = fetching[g]
                              /\ disk'[g] = disk[g]
    BY <1>i, <2>1 DEF TypeOK
  <2>7. \A g \in Files \ {f} : Present(g) => \A i \in DOMAIN Entry(g) : Valid(g, i)' = Valid(g, i)
    BY <2>1, <2>5, <2>6 DEF Valid, Exists
  <2>8. Present(f) => /\ pc'[f] = "fetching" /\ ~fetching'[f] => pending'[f] = {} /\ written'[f] = {} /\ \A i \in DOMAIN Entry(f) : Valid(f, i)'
                      /\ pc'[f] = "finished" => disk'[f] = Entry(f)
    <3>1. ASSUME ~fetching'[f] PROVE pending'[f] = {} /\ written'[f] = {} /\ \A i \in DOMAIN Entry(f) : Valid(f, i)'
      <4>1. Credited(f) = DOMAIN Entry(f)
        BY <1>i, <2>1, <3>1 DEF TypeOK
      <4>2. \A i \in DOMAIN Entry(f) : Valid(f, i)
        BY <2>0, <2>1, <4>1, AllCredited
      <4>3. disk'[f] = s /\ s # NoFile
        BY <1>i, <2>1 DEF TypeOK, Orderly
      <4>4. DOMAIN Entry(f) = 1..Len(Entry(f)) /\ Len(Entry(f)) \in Nat
        BY <1>i, <2>1, EntryIs, DepotSets
      <4>5. Exists(f) => Size(f) = Len(disk[f]) /\ Len(disk[f]) \in Nat
        BY <1>i, SizeIs
      <4>6. \A i \in DOMAIN Entry(f) : Valid(f, i)'
        BY <2>1, <2>5, <4>2, <4>3, <4>4, <4>5 DEF Valid, Exists
      <4>7. pending'[f] = {} /\ written'[f] = {}
        BY <1>i, <2>1, <4>1 DEF TypeOK, WorkInv
      <4> QED BY <4>6, <4>7
    <3>2. pc'[f] = "fetching"
      BY <1>i, <2>1 DEF TypeOK
    <3> QED BY <3>1, <3>2
  <2> QED BY <2>1, <2>5, <2>6, <2>7, <2>8 DEF UnfetchedInv
<1>9. ASSUME NEW f \in Files, Finalize(f) PROVE UnfetchedInv'
  <2>1. PICK s \in Seq(Content) :
         /\ phase = "streaming" /\ pc[f] = "fetching" /\ Present(f) /\ current \in Versions /\ Exists(f)
         /\ pending[f] = {} /\ written[f] = {}
         /\ disk' = [disk EXCEPT ![f] = s] /\ Len(s) = Len(Entry(f))
         /\ \A j \in 1..Len(Entry(f)) : j <= Len(disk[f]) => s[j] = disk[f][j]
         /\ pc' = [pc EXCEPT ![f] = IF f \in Hashed /\ fetching[f] /\ s # Entry(f) THEN "mismatch" ELSE "finished"]
         /\ UNCHANGED <<current, previous, saved, phase, done, pending, written, fetching, installed, runs, trouble>>
    BY <1>i, <1>9, FinalizeEffect DEF DataInv
  <2>5. \A g \in Files : Present(g)' = Present(g) /\ Entry(g)' = Entry(g)
    BY <2>1 DEF Present, Entry
  <2>6. \A g \in Files \ {f} : /\ pc'[g] = pc[g] /\ pending'[g] = pending[g] /\ written'[g] = written[g] /\ fetching'[g] = fetching[g]
                              /\ disk'[g] = disk[g]
    BY <1>i, <2>1 DEF TypeOK
  <2>7. \A g \in Files \ {f} : Present(g) => \A i \in DOMAIN Entry(g) : Valid(g, i)' = Valid(g, i)
    BY <2>1, <2>5, <2>6 DEF Valid, Exists
  <2>8. Present(f) => /\ pc'[f] = "fetching" /\ ~fetching'[f] => pending'[f] = {} /\ written'[f] = {} /\ \A i \in DOMAIN Entry(f) : Valid(f, i)'
                      /\ pc'[f] = "finished" => disk'[f] = Entry(f)
    <3>1. pc'[f] = IF f \in Hashed /\ fetching[f] /\ s # Entry(f) THEN "mismatch" ELSE "finished"
      BY <1>i, <2>1 DEF TypeOK
    <3>2. ASSUME ~fetching[f] PROVE s = Entry(f)
      <4>1. \A j \in DOMAIN Entry(f) : Valid(f, j)
        BY <2>1, <3>2 DEF UnfetchedInv
      <4>2. Entry(f) \in Seq(Content) /\ DOMAIN Entry(f) = 1..Len(Entry(f))
        BY <1>i, <2>1, EntryIs, DepotSets
      <4>3. \A j \in 1..Len(Entry(f)) : s[j] = Entry(f)[j]
        BY <2>1, <4>1, <4>2 DEF Valid
      <4> QED BY <2>1, <4>2, <4>3, SameContent
    <3>3. disk'[f] = s
      BY <1>i, <2>1 DEF TypeOK
    <3>4. fetching[f] \in BOOLEAN
      BY <1>i DEF TypeOK
    <3> QED BY <1>m, <3>1, <3>2, <3>3, <3>4
  <2> QED BY <2>1, <2>5, <2>6, <2>7, <2>8 DEF UnfetchedInv
<1>10. ASSUME NEW f \in Files, Redownload(f) PROVE UnfetchedInv'
  <2>1. PICK s \in Seq(Content) :
         /\ phase = "streaming" /\ pc[f] = "mismatch" /\ Present(f) /\ current \in Versions
         /\ disk' = [disk EXCEPT ![f] = s]
         /\ pending' = [pending EXCEPT ![f] = DOMAIN Entry(f)]
         /\ pc' = [pc EXCEPT ![f] = "refetching"]
         /\ UNCHANGED <<current, previous, saved, phase, done, written, fetching, installed, runs, trouble>>
    BY <1>i, <1>10, ZerosEffect DEF DataInv
  <2>5. \A g \in Files : Present(g)' = Present(g) /\ Entry(g)' = Entry(g)
    BY <2>1 DEF Present, Entry
  <2>6. \A g \in Files \ {f} : /\ pc'[g] = pc[g] /\ pending'[g] = pending[g] /\ written'[g] = written[g] /\ fetching'[g] = fetching[g]
                              /\ disk'[g] = disk[g]
    BY <1>i, <2>1 DEF TypeOK
  <2>7. \A g \in Files \ {f} : Present(g) => \A i \in DOMAIN Entry(g) : Valid(g, i)' = Valid(g, i)
    BY <2>1, <2>5, <2>6 DEF Valid, Exists
  <2>8. Present(f) => /\ pc'[f] = "fetching" /\ ~fetching'[f] => pending'[f] = {} /\ written'[f] = {} /\ \A i \in DOMAIN Entry(f) : Valid(f, i)'
                      /\ pc'[f] = "finished" => disk'[f] = Entry(f)
    BY <1>i, <2>1 DEF TypeOK
  <2> QED BY <2>1, <2>5, <2>6, <2>7, <2>8 DEF UnfetchedInv
<1>11. ASSUME NEW f \in Files, Redownloaded(f) PROVE UnfetchedInv'
  BY <1>i, <1>11, <1>m DEF Redownloaded, UnfetchedInv, Present, Entry, Exists, Valid, TypeOK
<1>12. ASSUME NEW f \in Files, NEW i \in pending[f], Fetch(f, i) PROVE UnfetchedInv'
  <2>1. PICK s \in Seq(Content) :
         /\ phase = "streaming" /\ pc[f] \in {"fetching", "refetching"} /\ Present(f) /\ current \in Versions
         /\ i \in DOMAIN Entry(f) /\ Exists(f)
         /\ disk' = [disk EXCEPT ![f] = s] /\ i <= Len(s) /\ s[i] = Entry(f)[i]
         /\ \A j \in 1..Len(disk[f]) : j <= Len(s) /\ (j # i => s[j] = disk[f][j])
         /\ pending' = [pending EXCEPT ![f] = pending[f] \ {i}]
         /\ written' = [written EXCEPT ![f] = written[f] \cup {i}]
         /\ UNCHANGED <<current, previous, saved, phase, done, pc, fetching, installed, runs, trouble>>
    BY <1>i, <1>12, FetchEffect DEF DataInv
  <2>5. \A g \in Files : Present(g)' = Present(g) /\ Entry(g)' = Entry(g)
    BY <2>1 DEF Present, Entry
  <2>6. \A g \in Files \ {f} : /\ pc'[g] = pc[g] /\ pending'[g] = pending[g] /\ written'[g] = written[g] /\ fetching'[g] = fetching[g]
                              /\ disk'[g] = disk[g]
    BY <1>i, <2>1 DEF TypeOK
  <2>7. \A g \in Files \ {f} : Present(g) => \A k \in DOMAIN Entry(g) : Valid(g, k)' = Valid(g, k)
    BY <2>1, <2>5, <2>6 DEF Valid, Exists
  <2>8. Present(f) => /\ pc'[f] = "fetching" /\ ~fetching'[f] => pending'[f] = {} /\ written'[f] = {} /\ \A k \in DOMAIN Entry(f) : Valid(f, k)'
                      /\ pc'[f] = "finished" => disk'[f] = Entry(f)
    <3>1. pc'[f] = pc[f] /\ fetching'[f] = fetching[f]
      BY <2>1
    <3>2. pc[f] = "fetching" => fetching[f]
      BY <2>1 DEF UnfetchedInv
    <3> QED BY <2>1, <3>1, <3>2
  <2> QED BY <2>1, <2>5, <2>6, <2>7, <2>8 DEF UnfetchedInv
<1>13. ASSUME NEW f \in Files, NEW i \in written[f], Mark(f, i) PROVE UnfetchedInv'
  <2>1. phase = "streaming" /\ written' = [written EXCEPT ![f] = written[f] \ {i}] /\ UNCHANGED <<current, phase, pc, pending, disk, fetching>>
    BY <1>13 DEF Mark
  <2>5. \A g \in Files : Present(g)' = Present(g) /\ Entry(g)' = Entry(g)
    BY <2>1 DEF Present, Entry
  <2>6. \A g \in Files \ {f} : /\ pc'[g] = pc[g] /\ pending'[g] = pending[g] /\ written'[g] = written[g] /\ fetching'[g] = fetching[g]
                              /\ disk'[g] = disk[g]
    BY <1>i, <2>1 DEF TypeOK
  <2>7. \A g \in Files \ {f} : Present(g) => \A k \in DOMAIN Entry(g) : Valid(g, k)' = Valid(g, k)
    BY <2>1, <2>5, <2>6 DEF Valid, Exists
  <2>8. Present(f) => /\ pc'[f] = "fetching" /\ ~fetching'[f] => pending'[f] = {} /\ written'[f] = {} /\ \A k \in DOMAIN Entry(f) : Valid(f, k)'
                      /\ pc'[f] = "finished" => disk'[f] = Entry(f)
    BY <1>i, <2>1 DEF UnfetchedInv, TypeOK, Valid, Exists
  <2> QED BY <2>1, <2>5, <2>6, <2>7, <2>8 DEF UnfetchedInv
<1>14. ASSUME NEW f \in Files, Fail(f) PROVE UnfetchedInv'
  BY <1>i, <1>14, <1>m DEF Fail, UnfetchedInv, Present, Entry, Exists, Valid, TypeOK
<1>15. ASSUME NEW f \in Files, Modify(f) PROVE UnfetchedInv'
  <2>1. PICK s \in Seq(Content) :
         /\ MayModify /\ phase = "idle" /\ installed # NoVersion /\ Exists(f)
         /\ disk' = [disk EXCEPT ![f] = s] /\ Len(s) = Len(disk[f])
         /\ \A j \in 1..Len(disk[f]) : s[j] \in {disk[f][j], Junk}
         /\ UNCHANGED <<current, previous, saved, phase, done, workerVars, installed, runs, trouble>>
    BY <1>i, <1>15, ModifyEffect DEF DataInv
  <2> QED BY <1>i, <2>1, <1>m DEF workerVars, UnfetchedInv, Present, Entry, Exists, Valid, TypeOK
<1> QED BY <1>0, <1>1, <1>2, <1>3, <1>4, <1>5, <1>6, <1>7, <1>8, <1>9, <1>10, <1>11, <1>12, <1>13, <1>14, <1>15 DEF Next, Worker

-----------------------------------------------------------------------------
LEMMA DownloadInitial == ASSUME NoFile \notin Seq(Content) PROVE Init => DownloadInv
<1> SUFFICES ASSUME Init PROVE DownloadInv
  OBVIOUS
<1>1. <<>> \in Seq(Content) /\ <<Junk>> \in Seq(Content)
  BY DEF Content
<1>2. disk \in [Files -> Seq(Content) \cup {NoFile}]
  BY <1>1 DEF Init
<1>3. TypeOK
  BY <1>2, DepotSets DEF Init, TypeOK
<1>4. OrderInv /\ KeyInv /\ WorkInv
  BY DEF Init, OrderInv, KeyInv, WorkInv
<1>5. RecordedInv /\ DeltaInv /\ FetchedInv /\ CompleteInv /\ NothingLeftInv /\ InstalledInv /\ BeforeInv /\ UnfetchedInv
  BY DEF Init, RecordedInv, DeltaInv, FetchedInv, CompleteInv, NothingLeftInv, InstalledInv, BeforeInv, UnfetchedInv
<1> QED BY <1>3, <1>4, <1>5 DEF DownloadInv, FailureInv, ChangeInv

LEMMA DownloadStep ==
  ASSUME Orderly, Guarded, DownloadInv, [Next]_vars PROVE DownloadInv'
<1>1. DataInv /\ DataInv'
  BY DataStep DEF DownloadInv, DataInv
<1>2. trouble' = trouble
  BY DEF Next, Worker, vars, Begin, Refuse, Stream, Complete, Abort, Kill, WriteEmpty, Plan, Finalize, Redownload, Redownloaded, Fetch,
         Mark, Fail, Modify
<1>3. FailureInv'
  BY <1>1, <1>2, RecordedStep, DeltaStep, FetchedStep, CompleteStep DEF DownloadInv, FailureInv
<1>4. ChangeInv'
  BY <1>1, <1>2, NothingLeftStep, InstalledStep, BeforeStep, UnfetchedStep DEF DownloadInv, ChangeInv
<1> QED BY <1>1, <1>3, <1>4 DEF DownloadInv, DataInv

LEMMA DownloadInvHolds == ASSUME Orderly, Guarded PROVE Spec => []DownloadInv
BY DownloadInitial, DownloadStep, PTL DEF Spec, Orderly

(* The checkpoint and the previous manifest tell the truth, in every resumed run, and a file that is   *)
(* accepted without a fetch is right (pendingChunks, markCompleted, downloadChunked).                    *)
THEOREM BelievedTrue == ASSUME Orderly, Guarded PROVE Spec => []BelievedIsTrue
<1>1. DownloadInv => BelievedIsTrue
  <2> SUFFICES ASSUME DownloadInv PROVE BelievedIsTrue
    OBVIOUS
  <2>1. CheckpointSound
    <3>1. SUFFICES ASSUME trouble = "failures", current # NoVersion, NEW f \in Files, Entry(f) # NoFile, NEW i \in DOMAIN Entry(f),
                          key(f, i) \in saved \cup done
                   PROVE  Valid(f, i)
      BY DEF CheckpointSound, Valid
    <3>2. key(f, i)[1] = f /\ key(f, i)[3] = i
      BY DEF key
    <3> QED BY <3>1, <3>2 DEF DownloadInv, FailureInv, RecordedInv
  <2>2. ZeroPendingVerified
    <3>1. trouble \in {"failures", "changes"}
      BY DepotSets DEF DownloadInv, TypeOK, Orderly
    <3> QED BY <3>1 DEF DownloadInv, FailureInv, ChangeInv, FetchedInv, UnfetchedInv, ZeroPendingVerified, Present
  <2> QED BY <2>1, <2>2 DEF BelievedIsTrue
<1> QED BY <1>1, DownloadInvHolds, PTL
-----------------------------------------------------------------------------
(* Nothing is left of files that the version has not. *)

LEMMA GoneStep ==
  ASSUME Orderly, DataInv, GoneInv, [Next]_vars
  PROVE  GoneInv'
<1>i. Orderly /\ TypeOK /\ OrderInv /\ KeyInv /\ WorkInv
  BY DEF DataInv
<1>0. CASE UNCHANGED vars
  BY <1>i, <1>0, PreviousSame DEF vars, workerVars, GoneInv, Never, Present, Entry, OldOf, OrderInv, NoStrangers
<1>1. ASSUME NEW v \in Versions, Begin(v) PROVE GoneInv'
  <2>1. previous' = previous \cup ({current} \ {NoVersion, v}) /\ current' = v /\ UNCHANGED disk /\ installed' = NoVersion
        /\ <<current, v>> \in Moves /\ (v = current \/ installed = current) /\ phase' = "resolved" /\ v # NoVersion
    BY <1>i, <1>1, DepotSets DEF Begin, Asked, Orderly
  <2>2. CASE v = current
    <3>1. previous' = previous /\ current' = current
      BY <2>1, <2>2
    <3>2. PreviousManifest' = PreviousManifest
      BY <3>1, PreviousSame
    <3> QED BY <2>1, <2>2, <3>1, <3>2 DEF GoneInv, Present, Entry, OldOf, Never
  <2>3. CASE current = NoVersion
    BY <2>1, <2>3 DEF GoneInv, NoStrangers, Present, Entry, Never
  <2>4. CASE v # current /\ current # NoVersion
    <3>1. previous' # {} /\ PreviousManifest' = current
      BY <1>i, <2>1, <2>4, PreviousLeft
    <3>2. \A f \in Files : OldOf(f)' = Entry(f)
      BY <3>1 DEF OldOf, Entry
    <3> QED BY <2>1, <2>4, <3>1, <3>2 DEF GoneInv, Present, Never
  <2> QED BY <2>2, <2>3, <2>4
<1>2. CASE Refuse
  BY <1>i, <1>2, PreviousSame DEF workerVars, Refuse, GoneInv, Never, Present, Entry, OldOf, OrderInv, NoStrangers
<1>3. CASE Stream
  <2>1. current' = current /\ current # NoVersion /\ \A f \in Files : disk'[f] = IF f \in DeletedFiles THEN NoFile ELSE disk[f]
    BY <1>i, <1>3 DEF Stream, OrderInv
  <2> QED BY <2>1 DEF GoneInv, Present, Entry, OldOf, Never, DeletedFiles
<1>4. CASE Complete
  BY <1>i, <1>4, PreviousSame DEF workerVars, Complete, GoneInv, Never, Present, Entry, OldOf, OrderInv, NoStrangers
<1>5. CASE Abort
  BY <1>i, <1>5, PreviousSame DEF workerVars, Abort, MaySave, GoneInv, Never, Present, Entry, OldOf, OrderInv, NoStrangers
<1>6. CASE Kill
  BY <1>i, <1>6, PreviousSame DEF Kill, GoneInv, Never, Present, Entry, OldOf, OrderInv, NoStrangers
<1>7. ASSUME NEW f \in Files, WriteEmpty(f) PROVE GoneInv'
  <2>1. Present(f)
    BY <1>i, <1>7 DEF WriteEmpty, WorkInv
  <2>2. phase = "streaming" /\ UNCHANGED <<current, phase>> /\ Present(f) /\ \A g \in Files \ {f} : disk'[g] = disk[g]
    BY <1>i, <1>7, <2>1 DEF WriteEmpty, TypeOK
  <2> QED BY <1>i, <2>2 DEF GoneInv, Present, Entry, OrderInv, Never
<1>8. ASSUME NEW f \in Files, Plan(f) PROVE GoneInv'
  <2>1. PICK s \in Seq(Content) :
         /\ phase = "streaming" /\ pc[f] = "waiting" /\ Present(f) /\ current \in Versions
         /\ disk' = [disk EXCEPT ![f] = s]
         /\ \A i \in 1..Size(f) : i <= Len(s) /\ s[i] = disk[f][i]
         /\ Credited(f) \subseteq DOMAIN Entry(f)
         /\ done' = done \cup {key(f, i) : i \in Credited(f)}
         /\ saved' = saved \/ saved' \subseteq done'
         /\ pending' = [pending EXCEPT ![f] = DOMAIN Entry(f) \ Credited(f)]
         /\ fetching' = [fetching EXCEPT ![f] = Credited(f) # DOMAIN Entry(f)]
         /\ pc' = [pc EXCEPT ![f] = "fetching"]
         /\ UNCHANGED <<current, previous, phase, written, installed, runs, trouble>>
    BY <1>i, <1>8, PlanEffect DEF DataInv
  <2>2. phase = "streaming" /\ UNCHANGED <<current, phase>> /\ Present(f) /\ \A g \in Files \ {f} : disk'[g] = disk[g]
    BY <1>i, <2>1 DEF TypeOK
  <2> QED BY <1>i, <2>2 DEF GoneInv, Present, Entry, OrderInv, Never
<1>9. ASSUME NEW f \in Files, Finalize(f) PROVE GoneInv'
  <2>1. PICK s \in Seq(Content) :
         /\ phase = "streaming" /\ pc[f] = "fetching" /\ Present(f) /\ current \in Versions /\ Exists(f)
         /\ pending[f] = {} /\ written[f] = {}
         /\ disk' = [disk EXCEPT ![f] = s] /\ Len(s) = Len(Entry(f))
         /\ \A j \in 1..Len(Entry(f)) : j <= Len(disk[f]) => s[j] = disk[f][j]
         /\ pc' = [pc EXCEPT ![f] = IF f \in Hashed /\ fetching[f] /\ s # Entry(f) THEN "mismatch" ELSE "finished"]
         /\ UNCHANGED <<current, previous, saved, phase, done, pending, written, fetching, installed, runs, trouble>>
    BY <1>i, <1>9, FinalizeEffect DEF DataInv
  <2>2. phase = "streaming" /\ UNCHANGED <<current, phase>> /\ Present(f) /\ \A g \in Files \ {f} : disk'[g] = disk[g]
    BY <1>i, <2>1 DEF TypeOK
  <2> QED BY <1>i, <2>2 DEF GoneInv, Present, Entry, OrderInv, Never
<1>10. ASSUME NEW f \in Files, Redownload(f) PROVE GoneInv'
  <2>1. PICK s \in Seq(Content) :
         /\ phase = "streaming" /\ pc[f] = "mismatch" /\ Present(f) /\ current \in Versions
         /\ disk' = [disk EXCEPT ![f] = s]
         /\ pending' = [pending EXCEPT ![f] = DOMAIN Entry(f)]
         /\ pc' = [pc EXCEPT ![f] = "refetching"]
         /\ UNCHANGED <<current, previous, saved, phase, done, written, fetching, installed, runs, trouble>>
    BY <1>i, <1>10, ZerosEffect DEF DataInv
  <2>2. phase = "streaming" /\ UNCHANGED <<current, phase>> /\ Present(f) /\ \A g \in Files \ {f} : disk'[g] = disk[g]
    BY <1>i, <2>1 DEF TypeOK
  <2> QED BY <1>i, <2>2 DEF GoneInv, Present, Entry, OrderInv, Never
<1>11. ASSUME NEW f \in Files, Redownloaded(f) PROVE GoneInv'
  BY <1>i, <1>11, PreviousSame DEF Redownloaded, GoneInv, Never, Present, Entry, OldOf, OrderInv, NoStrangers
<1>12. ASSUME NEW f \in Files, NEW i \in pending[f], Fetch(f, i) PROVE GoneInv'
  <2>1. PICK s \in Seq(Content) :
         /\ phase = "streaming" /\ pc[f] \in {"fetching", "refetching"} /\ Present(f) /\ current \in Versions
         /\ i \in DOMAIN Entry(f) /\ Exists(f)
         /\ disk' = [disk EXCEPT ![f] = s] /\ i <= Len(s) /\ s[i] = Entry(f)[i]
         /\ \A j \in 1..Len(disk[f]) : j <= Len(s) /\ (j # i => s[j] = disk[f][j])
         /\ pending' = [pending EXCEPT ![f] = pending[f] \ {i}]
         /\ written' = [written EXCEPT ![f] = written[f] \cup {i}]
         /\ UNCHANGED <<current, previous, saved, phase, done, pc, fetching, installed, runs, trouble>>
    BY <1>i, <1>12, FetchEffect DEF DataInv
  <2>2. phase = "streaming" /\ UNCHANGED <<current, phase>> /\ Present(f) /\ \A g \in Files \ {f} : disk'[g] = disk[g]
    BY <1>i, <2>1 DEF TypeOK
  <2> QED BY <1>i, <2>2 DEF GoneInv, Present, Entry, OrderInv, Never
<1>13. ASSUME NEW f \in Files, NEW i \in written[f], Mark(f, i) PROVE GoneInv'
  BY <1>i, <1>13, PreviousSame DEF Mark, MaySave, GoneInv, Never, Present, Entry, OldOf, OrderInv, NoStrangers
<1>14. ASSUME NEW f \in Files, Fail(f) PROVE GoneInv'
  BY <1>i, <1>14, PreviousSame DEF Fail, GoneInv, Never, Present, Entry, OldOf, OrderInv, NoStrangers
<1>15. ASSUME NEW f \in Files, Modify(f) PROVE GoneInv'
  <2>1. PICK s \in Seq(Content) :
         /\ MayModify /\ phase = "idle" /\ installed # NoVersion /\ Exists(f)
         /\ disk' = [disk EXCEPT ![f] = s] /\ Len(s) = Len(disk[f])
         /\ \A j \in 1..Len(disk[f]) : s[j] \in {disk[f][j], Junk}
         /\ UNCHANGED <<current, previous, saved, phase, done, workerVars, installed, runs, trouble>>
    BY <1>i, <1>15, ModifyEffect DEF DataInv
  <2>2. UNCHANGED <<current, previous, phase, installed>> /\ current # NoVersion
    BY <1>i, <2>1 DEF workerVars, OrderInv
  <2>3. \A g \in Files \ {f} : disk'[g] = disk[g]
    BY <1>i, <2>1 DEF TypeOK
  <2>4. ~Present(f) => Never(f)
    BY <2>1, <2>2 DEF GoneInv, Exists
  <2> QED BY <2>1, <2>2, <2>3, <2>4 DEF GoneInv, Present, Entry, Never
<1> QED BY <1>0, <1>1, <1>2, <1>3, <1>4, <1>5, <1>6, <1>7, <1>8, <1>9, <1>10, <1>11, <1>12, <1>13, <1>14, <1>15 DEF Next, Worker

(* A call that reports success has brought the directory to the version exactly, whatever failed before  *)
(* it (Download, streamDepotFiles).  What stood in the directory before the first call must not be a file  *)
(* that only a later version has: the downloader removes what an earlier manifest names, and nothing else. *)
THEOREM DownloadsFaithful == ASSUME Orderly, Guarded PROVE Spec /\ NoStrangers => Faithful
<1>1. Init /\ NoStrangers => GoneInv
  BY DEF Init, GoneInv
<1>2. DownloadInv /\ GoneInv /\ [Next]_vars => GoneInv'
  BY GoneStep DEF DownloadInv, DataInv
<1>3. DownloadInv /\ GoneInv /\ [Next]_vars =>
        [phase = "streaming" /\ phase' = "idle" /\ installed' # NoVersion =>
           \A f \in Files : \/ disk'[f] = Manifest[installed'][f]
                            \/ \A v \in Versions : Manifest[v][f] = NoFile]_vars
  <2> SUFFICES ASSUME DownloadInv, GoneInv, [Next]_vars, phase = "streaming", phase' = "idle", installed' # NoVersion, NEW f \in Files
               PROVE  disk'[f] = Manifest[installed'][f] \/ \A v \in Versions : Manifest[v][f] = NoFile
    OBVIOUS
  <2>1. installed = NoVersion /\ current # NoVersion
    BY DEF DownloadInv, OrderInv
  <2>2. Complete
    BY <2>1 DEF Next, Worker, vars, Begin, Refuse, Stream, Abort, Kill, WriteEmpty, Plan, Finalize, Redownload, Redownloaded, Fetch,
         Mark, Fail, Modify
  <2>3. trouble \in {"failures", "changes"}
    BY DepotSets DEF DownloadInv, TypeOK, Orderly
  <2>4. Present(f) => disk[f] = Entry(f)
    BY <2>2, <2>3 DEF Complete, DownloadInv, FailureInv, ChangeInv, FetchedInv, UnfetchedInv
  <2>5. ~Present(f) => disk[f] = Entry(f) \/ Never(f)
    BY <2>1 DEF GoneInv, Present
  <2> QED BY <2>2, <2>4, <2>5 DEF Complete, Entry, Never
<1> QED BY <1>1, <1>2, <1>3, DownloadInvHolds, PTL DEF Spec, Faithful

(* Every variable of the downloader keeps its type, whatever goes wrong. *)
THEOREM DownloadTypes == ASSUME Orderly PROVE Spec => []TypeOK
<1>1. Init => DataInv
  BY DownloadInitial DEF DownloadInv, DataInv, Orderly
<1>2. DataInv /\ [Next]_vars => DataInv'
  BY DataStep
<1>3. DataInv => TypeOK
  BY DEF DataInv
<1> QED BY <1>1, <1>2, <1>3, PTL DEF Spec
=============================================================================
