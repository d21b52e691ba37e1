---------------------------- MODULE LibraryProofs ----------------------------
(***************************************************************************)
(* Proofs about what gamux knows and does about a game directory: whether   *)
(* it is up to date, what the warm cache holds of it, which mods are in it, *)
(* which depots its files come from and which executable is launched.       *)
(*                                                                          *)
(* The loop of ReconcileDepots is a recursive function over sets of         *)
(* depots. That such a function exists is shown by taking, from each set,   *)
(* the conflict-free sets that every closed collection containing it must   *)
(* contain; that it drops depots and ends without a conflict, by looking    *)
(* at a smallest set for which it would not.                                *)
(***************************************************************************)
EXTENDS LibraryCache, Mods, VersionCheck, Depots, Detection, FiniteSetTheorems, WellFoundedInduction, TLAPS

-----------------------------------------------------------------------------
(* Versions *)

Installs == [branch : Branches, build : Nat, manifest : Nat]

(* What StatusHonest says of the answer, of a status that was kept for an installation. *)
Honest(of, s) ==
  s.checked =>
    /\ s.latest \in 1 .. steamBuild[s.from]
    /\ s.from # of.branch => s.missing
    /\ s.isUpToDate = IF of.build # 0 THEN of.build >= s.latest ELSE of.manifest = s.latest

(* What Steam was heard to offer, it offers or has offered. *)
InfoOk(r) == r.builds \in [Branches -> Nat] /\ \A b \in Branches : r.builds[b] <= steamBuild[b]

VersionInv ==
  /\ steamBuild \in [Branches -> Nat] /\ steamBuild["public"] > 0
  /\ install \in Installs
  /\ \A r \in verMem \cup verFile : Honest(r.key, r.status)
  /\ \A r \in infoMem \cup infoFile : InfoOk(r)
  /\ \A r, q \in infoMem : r.key = q.key => r = q
  /\ \A r, q \in infoFile : r.key = q.key => r = q
  /\ Honest(answer.of, answer.status)

(* An answer of Steam, from the cache or not, is one and is true. *)
LEMMA FetchedOk ==
  ASSUME VersionInv, NEW i, NEW online
  PROVE  /\ \A r \in FetchInfo(i, online) : InfoOk(r) /\ r.key = i
         /\ \A r, q \in FetchInfo(i, online) : r = q
<1>1. InfoOk([key |-> i, at |-> now, builds |-> steamBuild])
  BY DEF VersionInv, InfoOk
<1> QED BY <1>1 DEF VersionInv, FetchInfo, ttlGet, readTTLFile

(* What a check compares with is a build of the branch it names. *)
LEMMA TargetHasBuild ==
  ASSUME install \in Installs, NEW r, InfoOk(r), SomeBuild(r.builds)
  PROVE  /\ TargetBranch(r.builds) \in Branches /\ r.builds[TargetBranch(r.builds)] # 0
         /\ TargetBranch(r.builds) # install.branch => r.builds[install.branch] = 0
<1>1. install.branch \in Branches
  BY DEF Installs
<1>2. \E b \in Branches : \/ b = install.branch /\ r.builds[b] # 0
                          \/ r.builds[install.branch] = 0 /\ r.builds[b] # 0 /\ (r.builds["public"] # 0 => b = "public")
  BY <1>1 DEF SomeBuild, Branches
<1> QED BY <1>2 DEF TargetBranch

LEMMA VerdictHonest ==
  ASSUME install \in Installs, steamBuild \in [Branches -> Nat], NEW b \in Branches, NEW builds,
         NEW latest \in 1 .. steamBuild[b], NEW up \in BOOLEAN,
         b # install.branch => builds[install.branch] = 0,
         up = IF install.build # 0 THEN install.build >= latest ELSE install.manifest = latest
  PROVE  Honest(install, Verdict(b, latest, up, builds))
BY DEF Honest, Verdict

LEMMA ComparedHonest ==
  ASSUME VersionInv, NEW i, NEW online
  PROVE  /\ install.build = 0 => Honest(install, CompareManifest(FetchInfo(i, online))) /\ Honest(install, CompareManifest({}))
         /\ install.build # 0 => Honest(install, CompareBuild(FetchInfo(i, online)))
<1>1. /\ install \in Installs /\ steamBuild \in [Branches -> Nat] /\ install.branch \in Branches
      /\ install.build \in Nat /\ install.manifest \in Nat
  BY DEF VersionInv, Installs
<1>2. Honest(install, Unchecked)
  BY DEF Honest, Unchecked
<1>3. PICK D : D = FetchInfo(i, online)
  OBVIOUS
<1>4. (\A r \in D : InfoOk(r)) /\ \A r, q \in D : r = q
  BY <1>3, FetchedOk
<1>5. ASSUME install.build = 0 PROVE Honest(install, CompareManifest(D))
  <2>1. SUFFICES ASSUME install.manifest # 0, NEW d \in D, ManifestGID(d.builds) # 0 PROVE Honest(install, CompareManifest(D))
    BY <1>2 DEF CompareManifest
  <2>2. (CHOOSE x \in D : TRUE) = d
    BY <1>4, <2>1
  <2>3. PICK b : b = IF d.builds[install.branch] # 0 THEN install.branch ELSE "public"
    OBVIOUS
  <2>4. b \in Branches /\ ManifestGID(d.builds) = d.builds[b] /\ (b # install.branch => d.builds[install.branch] = 0)
    BY <1>1, <2>3 DEF ManifestGID, Branches
  <2>5. d.builds[b] \in 1 .. steamBuild[b]
    BY <1>1, <1>4, <2>1, <2>4 DEF InfoOk
  <2>6. CompareManifest(D) = Verdict(b, d.builds[b], d.builds[b] = install.manifest, d.builds)
    BY <2>1, <2>2, <2>3, <2>4 DEF CompareManifest
  <2> QED BY <1>1, <1>5, <2>4, <2>5, <2>6, VerdictHonest
<1>6. Honest(install, CompareManifest({}))
  BY <1>2 DEF CompareManifest
<1>7. ASSUME install.build # 0 PROVE Honest(install, CompareBuild(D))
  <2>1. SUFFICES ASSUME NEW d \in D, SomeBuild(d.builds) PROVE Honest(install, CompareBuild(D))
    BY <1>2 DEF CompareBuild
  <2>2. (CHOOSE x \in D : TRUE) = d
    BY <1>4, <2>1
  <2>3. PICK b : b = TargetBranch(d.builds)
    OBVIOUS
  <2>4. b \in Branches /\ d.builds[b] # 0 /\ (b # install.branch => d.builds[install.branch] = 0)
    BY <1>1, <1>4, <2>1, <2>3, TargetHasBuild
  <2>5. d.builds[b] \in 1 .. steamBuild[b]
    BY <1>1, <1>4, <2>4 DEF InfoOk
  <2>6. CompareBuild(D) = Verdict(b, d.builds[b], install.build >= d.builds[b], d.builds)
    BY <2>1, <2>2, <2>3 DEF CompareBuild
  <2>7. (install.build >= d.builds[b]) \in BOOLEAN
    OBVIOUS
  <2>8. (install.build >= d.builds[b]) = IF install.build # 0 THEN install.build >= d.builds[b] ELSE install.manifest = d.builds[b]
    BY <1>7
  <2>9. Honest(install, Verdict(b, d.builds[b], install.build >= d.builds[b], d.builds))
    BY <1>1, <2>4, <2>5, <2>7, <2>8, VerdictHonest
  <2> QED BY <2>6, <2>9
<1> QED BY <1>3, <1>5, <1>6, <1>7

(* A record that is kept under the key of the installation replaces the one there was. *)
LEMMA SavedHonest ==
  ASSUME VersionInv, NEW s, Honest(install, s), saveAndReturn(s), UNCHANGED <<steamBuild, install>>
  PROVE  (\A r \in (verMem \cup verFile)' : Honest(r.key, r.status)') /\ Honest(answer.of, answer.status)'
<1>1. \A of, t : Honest(of, t)' = Honest(of, t)
  BY DEF Honest
<1>2. \A r \in (verMem \cup verFile)' : r \in verMem \cup verFile \/ r = [key |-> install, at |-> now, status |-> s]
  BY DEF saveAndReturn, ttlSave, cacheKey
<1>3. answer' = [of |-> install, status |-> s]
  BY DEF saveAndReturn
<1>4. \A r \in (verMem \cup verFile)' : Honest(r.key, r.status)
  BY <1>2 DEF VersionInv
<1> QED BY <1>1, <1>3, <1>4

LEMMA KeptInfo ==
  ASSUME VersionInv, NEW F, \A r \in F : InfoOk(r), \A r, q \in F : r.key = q.key => r = q, KeepInfo(F), UNCHANGED steamBuild
  PROVE  /\ \A r \in (infoMem \cup infoFile)' : InfoOk(r)'
         /\ \A r, q \in infoMem' : r.key = q.key => r = q
         /\ \A r, q \in infoFile' : r.key = q.key => r = q
<1>1. \A r : InfoOk(r)' = InfoOk(r)
  BY DEF InfoOk
<1> QED BY <1>1 DEF VersionInv, KeepInfo

LEMMA VersionStep ==
  ASSUME VersionInv, [VersionNext]_verVars
  PROVE  VersionInv'
<1>0. CASE UNCHANGED verVars
  BY <1>0 DEF verVars, VersionInv, Honest, InfoOk
<1>1. CASE CheckGameVersionCached
  <2>1. PICK r \in VersionCached : answer' = [of |-> install, status |-> r.status] /\ verMem' = ttlSave(verMem, r)
    BY <1>1 DEF CheckGameVersionCached
  <2>2. r \in verMem \cup verFile /\ r.key = install
    BY <2>1 DEF VersionCached, ttlGet, readTTLFile, cacheKey
  <2>3. UNCHANGED <<now, steamBuild, install, verFile, infoMem, infoFile>> /\ verMem' \subseteq verMem \cup {r}
    BY <1>1, <2>1 DEF CheckGameVersionCached, ttlSave
  <2>4. answer'.of = install /\ answer'.status = r.status
    BY <2>1
  <2> QED BY <2>2, <2>3, <2>4 DEF VersionInv, Honest, InfoOk
<1>2. CASE CheckUpToDate
  <2>1. UNCHANGED <<now, steamBuild, install, infoMem, infoFile>> /\ install.build # 0 /\ install.branch = "public"
        /\ install.build \in Nat /\ install.manifest \in Nat
    BY <1>2 DEF CheckUpToDate, VersionInv, Installs
  <2>2. steamBuild["public"] \in 1 .. steamBuild["public"] /\ "public" \in Branches
    BY DEF VersionInv, Branches
  <2>3. (install.build >= steamBuild["public"]) \in BOOLEAN
    OBVIOUS
  <2>4. (install.build >= steamBuild["public"]) =
          IF install.build # 0 THEN install.build >= steamBuild["public"] ELSE install.manifest = steamBuild["public"]
    BY <2>1
  <2>5. Honest(install, Verdict("public", steamBuild["public"], install.build >= steamBuild["public"], steamBuild))
    BY <2>1, <2>2, <2>3, <2>4, VerdictHonest DEF VersionInv
  <2>6. (\A r \in (verMem \cup verFile)' : Honest(r.key, r.status)') /\ Honest(answer.of, answer.status)'
    BY <1>2, <2>1, <2>5, SavedHonest DEF CheckUpToDate
  <2> QED BY <2>1, <2>6 DEF VersionInv, InfoOk
<1>3. ASSUME NEW online \in BOOLEAN, CheckUnknownBuild(online) PROVE VersionInv'
  <2>1. PICK B, D : /\ B = FetchInfo("branches", online) /\ D = IF install.manifest # 0 THEN FetchInfo("depots", online) ELSE {}
                    /\ KeepInfo(B \cup D) /\ saveAndReturn(CompareManifest(D))
    BY <1>3 DEF CheckUnknownBuild
  <2>2. UNCHANGED <<now, steamBuild, install>> /\ install.build = 0
    BY <1>3 DEF CheckUnknownBuild
  <2>3. Honest(install, CompareManifest(D))
    BY <2>1, <2>2, ComparedHonest
  <2>4. (\A r \in B : InfoOk(r) /\ r.key = "branches") /\ (\A r \in D : InfoOk(r) /\ r.key = "depots")
        /\ (\A r, q \in B : r = q) /\ (\A r, q \in D : r = q)
    BY <2>1, FetchedOk
  <2>5. (\A r \in B \cup D : InfoOk(r)) /\ (\A r, q \in B \cup D : r.key = q.key => r = q)
    BY <2>4
  <2>6. (\A r \in (verMem \cup verFile)' : Honest(r.key, r.status)') /\ Honest(answer.of, answer.status)'
    BY <2>1, <2>2, <2>3, SavedHonest
  <2>7. /\ \A r \in (infoMem \cup infoFile)' : InfoOk(r)'
        /\ \A r, q \in infoMem' : r.key = q.key => r = q
        /\ \A r, q \in infoFile' : r.key = q.key => r = q
    BY <2>1, <2>2, <2>5, KeptInfo
  <2> QED BY <2>2, <2>6, <2>7 DEF VersionInv
<1>4. ASSUME NEW online \in BOOLEAN, CheckBranches(online) PROVE VersionInv'
  <2>1. PICK B : B = FetchInfo("branches", online) /\ KeepInfo(B) /\ saveAndReturn(CompareBuild(B))
    BY <1>4 DEF CheckBranches
  <2>2. UNCHANGED <<now, steamBuild, install>> /\ install.build # 0
    BY <1>4 DEF CheckBranches
  <2>3. Honest(install, CompareBuild(B))
    BY <2>1, <2>2, ComparedHonest
  <2>4. (\A r \in B : InfoOk(r)) /\ (\A r, q \in B : r = q)
    BY <2>1, FetchedOk
  <2>5. (\A r \in (verMem \cup verFile)' : Honest(r.key, r.status)') /\ Honest(answer.of, answer.status)'
    BY <2>1, <2>2, <2>3, SavedHonest
  <2>6. /\ \A r \in (infoMem \cup infoFile)' : InfoOk(r)'
        /\ \A r, q \in infoMem' : r.key = q.key => r = q
        /\ \A r, q \in infoFile' : r.key = q.key => r = q
    BY <2>1, <2>2, <2>4, KeptInfo
  <2> QED BY <2>2, <2>5, <2>6 DEF VersionInv
<1>5. ASSUME NEW b \in Branches, SetGameBranch(b) PROVE VersionInv'
  BY <1>5 DEF SetGameBranch, VersionInv, Installs, Honest, InfoOk
<1>6. ASSUME NEW b \in Branches, Publish(b) PROVE VersionInv'
  <2>1. steamBuild' = [steamBuild EXCEPT ![b] = @ + 1] /\ UNCHANGED <<now, install, verMem, verFile, infoMem, infoFile, answer>>
    BY <1>6 DEF Publish
  <2>2. /\ steamBuild' \in [Branches -> Nat] /\ \A c \in Branches : steamBuild[c] \in Nat /\ steamBuild[c] <= steamBuild'[c]
        /\ "public" \in Branches
    BY <2>1 DEF VersionInv, Branches
  <2>3. ASSUME NEW of, NEW s, Honest(of, s) PROVE Honest(of, s)'
    <3>1. SUFFICES ASSUME s.checked PROVE s.latest \in 1 .. steamBuild'[s.from]
      BY <2>3 DEF Honest
    <3>2. s.latest \in 1 .. steamBuild[s.from]
      BY <2>3, <3>1 DEF Honest
    <3>3. CASE s.from \in Branches
      BY <2>2, <3>2, <3>3
    <3>4. CASE s.from \notin Branches
      BY <2>1, <3>2, <3>4
    <3> QED BY <3>3, <3>4
  <2>4. ASSUME NEW r, InfoOk(r) PROVE InfoOk(r)'
    BY <2>2, <2>4 DEF InfoOk
  <2>5. steamBuild'["public"] > 0
    BY <2>2 DEF VersionInv
  <2> QED BY <2>1, <2>2, <2>3, <2>4, <2>5 DEF VersionInv
<1>7. ASSUME NEW knows \in BOOLEAN, InstallBuild(knows) PROVE VersionInv'
  <2>1. steamBuild[install.branch] \in Nat
    BY DEF VersionInv, Installs
  <2>2. install' \in Installs
    BY <1>7, <2>1 DEF InstallBuild, VersionInv, Installs
  <2> QED BY <1>7, <2>2 DEF InstallBuild, VersionInv, Honest, InfoOk
<1>8. CASE Tick
  BY <1>8 DEF Tick, VersionInv, Honest, InfoOk
<1>9. CASE RestartGamux
  BY <1>9 DEF RestartGamux, VersionInv, Honest, InfoOk
<1> QED BY <1>0, <1>1, <1>2, <1>3, <1>4, <1>5, <1>6, <1>7, <1>8, <1>9 DEF VersionNext

(* A status, however old and wherever it was kept, tells the truth about the installation it is given *)
(* for: Steam had published the build it was compared with, on that installation's branch unless it   *)
(* had none, for any number of builds, restarts and reinstallations (CheckGameVersion, cacheKey).      *)
THEOREM VersionsHonest == VersionSpec => []StatusHonest
<1>1. VersionInit => VersionInv
  <2>1. SUFFICES ASSUME VersionInit PROVE VersionInv
    OBVIOUS
  <2>2. install \in Installs
    BY <2>1 DEF VersionInit, Installs, Branches
  <2>3. steamBuild \in [Branches -> Nat] /\ steamBuild["public"] > 0
    BY <2>1 DEF VersionInit, Branches
  <2>4. Honest(answer.of, answer.status)
    BY <2>1 DEF VersionInit, Honest, Unchecked
  <2> QED BY <2>1, <2>2, <2>3, <2>4 DEF VersionInit, VersionInv
<1>2. VersionInv /\ [VersionNext]_verVars => VersionInv'
  BY VersionStep
<1>3. VersionInv => StatusHonest
  BY DEF VersionInv, Honest, StatusHonest
<1> QED BY <1>1, <1>2, <1>3, PTL DEF VersionSpec

-----------------------------------------------------------------------------
(* The warm cache *)

Rec == [sig : Nat, exe : Nat, sen : Nat, rest : Nat, late : BOOLEAN]
Kinds == {"none", "inspect", "status", "profile", "apply", "uninstall", "reset"}
Scanning == {"sign", "lookup", "read", "promote", "walk", "profile", "keep", "write", "enrich", "rewrite"}
Changing == {"idle", "change", "settings", "forget", "unlink"}
Inspecting == {"inspect", "status"}

CacheType ==
  /\ libDir \in [sen : Nat, rest : Nat, exe : Nat]
  /\ mem \in Rec /\ file \in Rec
  /\ job \in [Callers -> [kind : Kinds, at : Scanning \cup Changing, sig : Nat, got : Rec]]
  /\ \A c \in Callers : job[c].at \in Scanning <=> job[c].kind \in Inspecting
  /\ \A c \in Callers : job[c].at \in {"enrich", "rewrite"} => job[c].kind = "status"
  /\ \A c \in Callers : job[c].at = "settings" => job[c].kind = "apply"

(* An operation has changed the files and is at one of these steps. *)
Pending(steps) == \E d \in Callers : job[d].kind = "apply" /\ job[d].at \in steps

(* The sentinels of a record were read after its signature was taken; the rest is as it was read. *)
SenOk(rec) == rec.late \/ (rec.sig <= rec.sen /\ rec.sen <= libDir.sen)
RestOk(rec) == rec = NoRec \/ rec.late \/ rec.rest = libDir.rest

(* A record that is out of date is one that an operation under way is going to remove. *)
StoredInv ==
  /\ SenOk(mem) /\ SenOk(file)
  /\ RestOk(mem) \/ Pending({"settings", "forget"})
  /\ RestOk(file) \/ Pending({"settings", "forget", "unlink"})

(* A caller that is not blind overlaps no change of the rest, and one that signs again none of the sentinels. *)
ScanOk(kind, sig, at, rec) ==
  /\ at # "sign" => sig <= libDir.sen /\ (kind = "status" => sig = libDir.sen)
  /\ at \in {"profile", "keep"} => rec.rest = libDir.rest
  /\ at = "keep" => sig <= rec.sen /\ rec.sen <= libDir.sen
  /\ at \in {"promote", "write", "enrich", "rewrite"} => SenOk(rec) /\ (rec.late \/ rec.rest = libDir.rest)
  /\ kind = "status" /\ at \in {"promote", "write", "enrich"} => rec.late \/ rec.sig = sig

CallerOk(c) ==
  job[c].kind \in Inspecting /\ c \notin blind =>
    ~Unannounced /\ ScanOk(job[c].kind, job[c].sig, job[c].at, job[c].got)

CacheInv == CacheType /\ StoredInv /\ \A c \in Callers : CallerOk(c)

LEMMA UnannouncedPending == Unannounced <=> Pending({"settings", "forget", "unlink"})
BY DEF Unannounced, Pending

LEMMA NoRecOk == NoRec \in Rec /\ Torn \in Rec /\ NoRec.late = FALSE /\ NoRec.sig = 0 /\ NoRec.sen = 0 /\ Torn.late = TRUE
BY DEF NoRec, Torn, Rec

LEMMA CacheInvFresh == CacheInv => CacheFresh
<1>1. SUFFICES ASSUME CacheInv, NEW rec \in {mem, file}, Usable(rec, libDir.sen), ~rec.late, ~Unannounced
               PROVE  rec.sen = libDir.sen /\ rec.rest = libDir.rest
  BY DEF CacheFresh
<1>2. ~Pending({"settings", "forget"}) /\ ~Pending({"settings", "forget", "unlink"})
  BY <1>1, UnannouncedPending DEF Pending
<1>3. RestOk(rec) /\ SenOk(rec) /\ rec # NoRec /\ rec.sig = libDir.sen
  BY <1>1, <1>2 DEF CacheInv, StoredInv, Usable
<1>4. rec \in Rec /\ libDir.sen \in Nat
  BY <1>1 DEF CacheInv, CacheType
<1> QED BY <1>1, <1>3, <1>4 DEF RestOk, SenOk, Rec

(* Only the entry of c changes, to r. *)
LEMMA JobStep ==
  ASSUME CacheType, NEW c \in Callers, NEW r \in Rec, NEW at \in (Scanning \cup Changing) \ {"idle"}, GoWith(c, r, at)
  PROVE  /\ job'[c].kind = job[c].kind /\ job'[c].at = at /\ job'[c].sig = job[c].sig /\ job'[c].got = r
         /\ job' \in [Callers -> [kind : Kinds, at : Scanning \cup Changing, sig : Nat, got : Rec]]
         /\ \A d \in Callers \ {c} : job'[d] = job[d]
<1>1. job' = [job EXCEPT ![c] = [job[c] EXCEPT !.at = at, !.got = r]]
  BY DEF GoWith
<1> QED BY <1>1 DEF CacheType

LEMMA JobEnd ==
  ASSUME CacheType, NEW c \in Callers, NEW r, GoWith(c, r, "idle")
  PROVE  /\ job'[c] = NoJob
         /\ job' \in [Callers -> [kind : Kinds, at : Scanning \cup Changing, sig : Nat, got : Rec]]
         /\ \A d \in Callers \ {c} : job'[d] = job[d]
<1>1. job' = [job EXCEPT ![c] = NoJob]
  BY DEF GoWith
<1>2. NoJob \in [kind : Kinds, at : Scanning \cup Changing, sig : Nat, got : Rec]
  BY NoRecOk DEF NoJob, Kinds, Changing
<1> QED BY <1>1, <1>2 DEF CacheType

(* A step of an inspection: it announces and changes nothing, so the others are as they were. *)
LEMMA InspectionStep ==
  ASSUME CacheInv, NEW c \in Callers, job[c].kind \in Inspecting, UNCHANGED <<libDir, blind>>,
         mem' \in Rec, file' \in Rec, SenOk(mem)', SenOk(file)',
         mem' = mem \/ RestOk(mem)', file' = file \/ RestOk(file)',
         NEW rec \in Rec, NEW at \in Scanning \cup {"idle"}, GoWith(c, rec, at),
         at \in {"enrich", "rewrite"} => job[c].kind = "status",
         c \notin blind /\ at # "idle" => ScanOk(job[c].kind, job[c].sig, at, rec)
  PROVE  CacheInv'
<1>1. /\ job' \in [Callers -> [kind : Kinds, at : Scanning \cup Changing, sig : Nat, got : Rec]]
      /\ \A d \in Callers \ {c} : job'[d] = job[d]
      /\ \/ job'[c] = NoJob
         \/ /\ job'[c].kind = job[c].kind /\ job'[c].at = at /\ job'[c].sig = job[c].sig /\ job'[c].got = rec /\ at # "idle"
  <2>1. CASE at = "idle"
    BY <2>1, JobEnd DEF CacheInv
  <2>2. CASE at # "idle"
    BY <2>2, JobStep DEF CacheInv
  <2> QED BY <2>1, <2>2
<1>2. job'[c].kind \in {"none", job[c].kind} /\ (job'[c].kind = "none" => job'[c] = NoJob)
  BY <1>1 DEF NoJob, Inspecting
<1>3. ASSUME NEW steps PROVE Pending(steps)' <=> Pending(steps)
  BY <1>1, <1>2 DEF Pending, Inspecting
<1>4. Unannounced' <=> Unannounced
  BY <1>3, UnannouncedPending DEF Unannounced, Pending
<1>5. CacheType'
  <2>1. \A d \in Callers : job'[d].at \in Scanning <=> job'[d].kind \in Inspecting
    BY <1>1 DEF CacheInv, CacheType, NoJob, Scanning, Inspecting
  <2>2. \A d \in Callers : job'[d].at \in {"enrich", "rewrite"} => job'[d].kind = "status"
    BY <1>1 DEF CacheInv, CacheType, NoJob
  <2>3. \A d \in Callers : job'[d].at = "settings" => job'[d].kind = "apply"
    BY <1>1 DEF CacheInv, CacheType, NoJob, Scanning
  <2> QED BY <1>1, <2>1, <2>2, <2>3 DEF CacheInv, CacheType
<1>6. \A d \in Callers \ {c} : CallerOk(d)'
  BY <1>1, <1>4 DEF CacheInv, CallerOk, ScanOk, SenOk
<1>7. CallerOk(c)'
  BY <1>1, <1>2, <1>4 DEF CacheInv, CallerOk, ScanOk, SenOk, NoJob, Inspecting
<1>8. StoredInv'
  BY <1>3 DEF CacheInv, StoredInv, RestOk
<1> QED BY <1>5, <1>6, <1>7, <1>8 DEF CacheInv

(* What a caller that is not blind finds out about the record it has, and what the stored ones are then. *)
LEMMA Sighted ==
  ASSUME CacheInv, NEW c \in Callers, job[c].kind \in Inspecting, c \notin blind
  PROVE  RestOk(mem) /\ RestOk(file) /\ ScanOk(job[c].kind, job[c].sig, job[c].at, job[c].got)
<1>1. ~Unannounced
  BY DEF CacheInv, CallerOk
<1>2. ~Pending({"settings", "forget"}) /\ ~Pending({"settings", "forget", "unlink"})
  BY <1>1, UnannouncedPending DEF Pending
<1> QED BY <1>2 DEF CacheInv, StoredInv, CallerOk

LEMMA InspectSteps ==
  ASSUME CacheInv, NEW c \in Callers,
         \/ GetCachedGameMemory(c) \/ GetCachedGameFile(c) \/ GetCachedGamePromote(c)
         \/ InspectWalk(c) \/ InspectProfile(c)
         \/ SaveCachedGameMemory(c) \/ SaveCachedGameFile(c) \/ InspectStatusSave(c)
  PROVE  CacheInv'
<1>t. /\ mem \in Rec /\ file \in Rec /\ job[c].got \in Rec /\ job[c].sig \in Nat /\ libDir.sen \in Nat /\ libDir.rest \in Nat
      /\ libDir.exe \in Nat /\ SenOk(mem) /\ SenOk(file)
  BY DEF CacheInv, CacheType, StoredInv
<1>k. job[c].at \in Scanning => job[c].kind \in Inspecting
  BY DEF CacheInv, CacheType
<1>e. job[c].at \in {"enrich", "rewrite"} => job[c].kind = "status"
  BY DEF CacheInv, CacheType
<1>a. After(c) \in {"enrich", "idle"} /\ (After(c) = "enrich" <=> job[c].kind = "status")
  BY DEF After
<1>s. UNCHANGED libDir => \A r : SenOk(r)' = SenOk(r) /\ RestOk(r)' = RestOk(r)
  BY DEF SenOk, RestOk
<1>1. CASE GetCachedGameMemory(c)
  <2>1. job[c].at = "lookup" /\ job[c].kind \in Inspecting /\ UNCHANGED <<libDir, mem, file, blind>>
    BY <1>1, <1>k DEF GetCachedGameMemory, Scanning
  <2>2. CASE Usable(mem, job[c].sig) /\ GoWith(c, mem, After(c))
    <3>1. c \notin blind => ScanOk(job[c].kind, job[c].sig, After(c), mem)
      BY <1>a, <1>t, <2>1, <2>2, Sighted DEF ScanOk, RestOk, Usable
    <3> QED BY <1>a, <1>t, <2>1, <2>2, <3>1, InspectionStep DEF SenOk, Scanning
  <2>3. CASE GoWith(c, job[c].got, "read")
    <3>1. c \notin blind => ScanOk(job[c].kind, job[c].sig, "read", job[c].got)
      BY <2>1, Sighted DEF ScanOk
    <3> QED BY <1>t, <2>1, <2>3, <3>1, InspectionStep DEF SenOk, Scanning
  <2> QED BY <1>1, <2>2, <2>3 DEF GetCachedGameMemory, Goto
<1>2. CASE GetCachedGameFile(c)
  <2>1. job[c].at = "read" /\ job[c].kind \in Inspecting /\ UNCHANGED <<libDir, mem, file, blind>>
    BY <1>2, <1>k DEF GetCachedGameFile, Scanning
  <2>2. CASE Usable(file, job[c].sig) /\ GoWith(c, file, "promote")
    <3>1. c \notin blind => ScanOk(job[c].kind, job[c].sig, "promote", file)
      BY <1>t, <2>1, <2>2, Sighted DEF ScanOk, RestOk, Usable
    <3> QED BY <1>t, <2>1, <2>2, <3>1, InspectionStep DEF SenOk, Scanning
  <2>3. CASE GoWith(c, job[c].got, "walk")
    <3>1. c \notin blind => ScanOk(job[c].kind, job[c].sig, "walk", job[c].got)
      BY <2>1, Sighted DEF ScanOk
    <3> QED BY <1>t, <2>1, <2>3, <3>1, InspectionStep DEF SenOk, Scanning
  <2> QED BY <1>2, <2>2, <2>3 DEF GetCachedGameFile, Goto
<1>3. CASE GetCachedGamePromote(c)
  <2>1. job[c].at = "promote" /\ job[c].kind \in Inspecting /\ UNCHANGED <<libDir, file, blind>>
    BY <1>3, <1>k DEF GetCachedGamePromote, Scanning
  <2>2. mem' = [job[c].got EXCEPT !.late = @ \/ c \in blind] /\ GoWith(c, job[c].got, After(c))
    BY <1>3 DEF GetCachedGamePromote, Goto
  <2>3. c \notin blind => ScanOk(job[c].kind, job[c].sig, "promote", job[c].got)
    BY <2>1, Sighted
  <2>4. mem' \in Rec /\ SenOk(mem)' /\ RestOk(mem)'
    <3>1. PICK m : m = mem'
      OBVIOUS
    <3>0. PICK g \in Rec : g = job[c].got
      BY <1>t
    <3>2. /\ m \in Rec /\ m.sig = job[c].got.sig /\ m.sen = job[c].got.sen /\ m.rest = job[c].got.rest
          /\ (job[c].got.late \/ c \in blind => m.late)
      <4>1. m = [g EXCEPT !.late = @ \/ c \in blind]
        BY <2>2, <3>0, <3>1
      <4> QED BY <3>0, <4>1 DEF Rec
    <3>3. SenOk(m) /\ RestOk(m)
      BY <2>3, <3>2 DEF SenOk, RestOk, ScanOk
    <3> QED BY <2>1, <3>1, <3>2, <3>3 DEF SenOk, RestOk
  <2>5. c \notin blind => ScanOk(job[c].kind, job[c].sig, After(c), job[c].got)
    BY <1>a, <2>1, <2>3 DEF ScanOk
  <2> QED BY <1>a, <1>t, <2>1, <2>2, <2>4, <2>5, InspectionStep DEF SenOk, Scanning
<1>4. CASE InspectWalk(c)
  <2>1. job[c].at = "walk" /\ job[c].kind \in Inspecting /\ UNCHANGED <<libDir, mem, file, blind>>
    BY <1>4, <1>k DEF InspectWalk, Scanning
  <2>2. PICK r \in Rec : r = [NoRec EXCEPT !.rest = libDir.rest] /\ r.rest = libDir.rest
    <3>1. PICK z \in Rec : z = NoRec
      BY NoRecOk
    <3>2. PICK n \in Nat : n = libDir.rest
      BY <1>t
    <3>3. PICK m : m = [z EXCEPT !.rest = n]
      OBVIOUS
    <3>4. m \in Rec /\ m.rest = n
      BY <3>3 DEF Rec
    <3> QED BY <3>1, <3>2, <3>3, <3>4
  <2>3. GoWith(c, r, "profile")
    BY <1>4, <2>2 DEF InspectWalk
  <2>4. c \notin blind => ScanOk(job[c].kind, job[c].sig, "profile", r)
    BY <2>1, <2>2, Sighted DEF ScanOk
  <2> QED BY <1>t, <2>1, <2>3, <2>4, InspectionStep DEF SenOk, Scanning
<1>5. CASE InspectProfile(c)
  <2>1. job[c].at = "profile" /\ job[c].kind \in Inspecting /\ UNCHANGED <<libDir, mem, file, blind>>
    BY <1>5, <1>k DEF InspectProfile, Scanning
  <2>2. PICK r \in Rec : r = [job[c].got EXCEPT !.sen = libDir.sen] /\ r.rest = job[c].got.rest /\ r.sen = libDir.sen
    <3>1. PICK g \in Rec : g = job[c].got
      BY <1>t
    <3>2. PICK n \in Nat : n = libDir.sen
      BY <1>t
    <3>3. PICK l : l = [g EXCEPT !.sen = n]
      OBVIOUS
    <3>4. l \in Rec /\ l.sen = n /\ l.rest = g.rest
      BY <3>3 DEF Rec
    <3> QED BY <3>1, <3>2, <3>3, <3>4
  <2>3. GoWith(c, r, "keep")
    BY <1>5, <2>2 DEF InspectProfile
  <2>4. c \notin blind => ScanOk(job[c].kind, job[c].sig, "keep", r)
    BY <1>t, <2>1, <2>2, Sighted DEF ScanOk
  <2> QED BY <1>t, <2>1, <2>3, <2>4, InspectionStep DEF SenOk, Scanning
<1>6. CASE SaveCachedGameMemory(c)
  <2>1. job[c].at = "keep" /\ job[c].kind \in Inspecting /\ UNCHANGED <<libDir, file, blind>>
    BY <1>6, <1>k DEF SaveCachedGameMemory, Scanning
  <2>2. PICK r \in Rec : /\ r = CachedGameRecord(c, job[c].sig)
                         /\ r.sig = job[c].sig /\ r.sen = job[c].got.sen /\ r.rest = job[c].got.rest /\ (c \in blind => r.late)
    <3>1. PICK g \in Rec : g = job[c].got
      BY <1>t
    <3>2. PICK n \in Nat, e \in Nat : n = job[c].sig /\ e = libDir.exe
      BY <1>t
    <3>3. (c \in blind) \in BOOLEAN
      OBVIOUS
    <3>b. PICK b : b = (c \in blind) /\ b \in BOOLEAN
      BY <3>3
    <3>4. PICK m : m = [g EXCEPT !.sig = n, !.exe = e, !.late = b]
      OBVIOUS
    <3>5. m \in Rec /\ m.sig = n /\ m.sen = g.sen /\ m.rest = g.rest /\ m.late = b
      BY <3>b, <3>4 DEF Rec
    <3>6. m = CachedGameRecord(c, job[c].sig)
      BY <3>1, <3>2, <3>b, <3>4 DEF CachedGameRecord
    <3> QED BY <3>1, <3>2, <3>b, <3>5, <3>6
  <2>3. mem' = r /\ GoWith(c, r, "write")
    BY <1>6, <2>2 DEF SaveCachedGameMemory
  <2>4. c \notin blind => ScanOk(job[c].kind, job[c].sig, "keep", job[c].got)
    BY <2>1, Sighted
  <2>5. SenOk(r) /\ RestOk(r) /\ (c \notin blind => ScanOk(job[c].kind, job[c].sig, "write", r))
    BY <2>2, <2>4 DEF ScanOk, SenOk, RestOk
  <2> QED BY <1>t, <2>1, <2>2, <2>3, <2>5, InspectionStep DEF SenOk, RestOk, Scanning
<1>7. CASE SaveCachedGameFile(c)
  <2>1. job[c].at \in {"write", "rewrite"} /\ job[c].kind \in Inspecting /\ UNCHANGED <<libDir, mem, blind>>
    BY <1>7, <1>k DEF SaveCachedGameFile, Scanning
  <2>2. PICK at : at = IF job[c].at = "write" THEN After(c) ELSE "idle"
    OBVIOUS
  <2>3. file' = [job[c].got EXCEPT !.late = @ \/ c \in blind] /\ GoWith(c, job[c].got, at)
    BY <1>7, <2>2 DEF SaveCachedGameFile, Goto
  <2>4. c \notin blind => ScanOk(job[c].kind, job[c].sig, job[c].at, job[c].got)
    BY <2>1, Sighted
  <2>5. file' \in Rec /\ SenOk(file)' /\ RestOk(file)'
    <3>1. PICK m : m = file'
      OBVIOUS
    <3>0. PICK g \in Rec : g = job[c].got
      BY <1>t
    <3>2. /\ m \in Rec /\ m.sig = job[c].got.sig /\ m.sen = job[c].got.sen /\ m.rest = job[c].got.rest
          /\ (job[c].got.late \/ c \in blind => m.late)
      <4>1. m = [g EXCEPT !.late = @ \/ c \in blind]
        BY <2>3, <3>0, <3>1
      <4> QED BY <3>0, <4>1 DEF Rec
    <3>3. SenOk(m) /\ RestOk(m)
      BY <2>1, <2>4, <3>2 DEF SenOk, RestOk, ScanOk
    <3> QED BY <2>1, <3>1, <3>2, <3>3 DEF SenOk, RestOk
  <2>6. at \in {"enrich", "idle"} /\ (at = "enrich" => job[c].kind = "status" /\ job[c].at = "write")
    BY <1>a, <2>2
  <2>7. c \notin blind /\ at # "idle" => ScanOk(job[c].kind, job[c].sig, at, job[c].got)
    BY <2>4, <2>6 DEF ScanOk
  <2> QED BY <1>t, <2>1, <2>3, <2>5, <2>6, <2>7, InspectionStep DEF SenOk, Scanning
<1>8. CASE InspectStatusSave(c)
  <2>1. job[c].at = "enrich" /\ job[c].kind = "status" /\ UNCHANGED <<libDir, file, blind>>
    BY <1>8, <1>e DEF InspectStatusSave
  <2>2. PICK r \in Rec : /\ r = [CachedGameRecord(c, ComputeSentinelSignature) EXCEPT !.late = @ \/ job[c].got.late]
                         /\ r.sig = libDir.sen /\ r.sen = job[c].got.sen /\ r.rest = job[c].got.rest
                         /\ (c \in blind \/ job[c].got.late => r.late)
    <3>1. PICK g \in Rec : g = job[c].got
      BY <1>t
    <3>2. PICK n \in Nat, e \in Nat : n = ComputeSentinelSignature /\ e = libDir.exe
      BY <1>t DEF ComputeSentinelSignature
    <3>3. (c \in blind) \in BOOLEAN
      OBVIOUS
    <3>b. PICK b : b = (c \in blind) /\ b \in BOOLEAN
      BY <3>3
    <3>4. PICK m : m = [g EXCEPT !.sig = n, !.exe = e, !.late = b]
      OBVIOUS
    <3>5. m \in Rec /\ m.sig = n /\ m.sen = g.sen /\ m.rest = g.rest /\ m.late = b
      BY <3>b, <3>4 DEF Rec
    <3>6. m = CachedGameRecord(c, ComputeSentinelSignature)
      BY <3>1, <3>2, <3>b, <3>4 DEF CachedGameRecord, ComputeSentinelSignature
    <3>7. PICK f \in BOOLEAN : f = (m.late \/ g.late)
      OBVIOUS
    <3>8. PICK r : r = [m EXCEPT !.late = f]
      OBVIOUS
    <3>9. r \in Rec /\ r.sig = n /\ r.sen = g.sen /\ r.rest = g.rest /\ r.late = f
      BY <3>5, <3>8 DEF Rec
    <3>10. r = [CachedGameRecord(c, ComputeSentinelSignature) EXCEPT !.late = @ \/ job[c].got.late]
      BY <3>1, <3>6, <3>7, <3>8
    <3>11. c \in blind \/ job[c].got.late => r.late
      BY <3>1, <3>b, <3>5, <3>7, <3>9
    <3> QED BY <3>1, <3>2, <3>9, <3>10, <3>11 DEF ComputeSentinelSignature
  <2>3. mem' = r /\ GoWith(c, r, "rewrite")
    BY <1>8, <2>2 DEF InspectStatusSave
  <2>4. c \notin blind => ScanOk(job[c].kind, job[c].sig, "enrich", job[c].got)
    BY <2>1, Sighted DEF Inspecting
  <2>5. SenOk(r) /\ RestOk(r) /\ (c \notin blind => ScanOk(job[c].kind, job[c].sig, "rewrite", r))
    BY <1>t, <2>1, <2>2, <2>4 DEF ScanOk, SenOk, RestOk, Rec
  <2> QED BY <1>t, <2>1, <2>2, <2>3, <2>5, InspectionStep DEF SenOk, RestOk, Scanning, Inspecting
<1> QED BY <1>1, <1>2, <1>3, <1>4, <1>5, <1>6, <1>7, <1>8


LEMMA StartStep ==
  ASSUME CacheInv, NEW c \in Callers, NEW kind \in Kinds \ {"none"}, StartJob(c, kind)
  PROVE  CacheInv'
<1>1. PICK new : new = [NoJob EXCEPT !.kind = kind, !.at = FirstStep(kind)]
  OBVIOUS
<1>2. FirstStep(kind) \in {"sign", "change", "forget"} /\ (FirstStep(kind) = "sign" <=> kind \in Inspecting)
      /\ (kind = "apply" => FirstStep(kind) = "change")
  BY DEF FirstStep, Kinds, Inspecting
<1>3. new.kind = kind /\ new.at = FirstStep(kind) /\ new \in [kind : Kinds, at : Scanning \cup Changing, sig : Nat, got : Rec]
  BY <1>1, <1>2, NoRecOk DEF NoJob, Scanning, Changing
<1>4. /\ job' \in [Callers -> [kind : Kinds, at : Scanning \cup Changing, sig : Nat, got : Rec]]
      /\ job'[c] = new /\ \A d \in Callers \ {c} : job'[d] = job[d]
  BY <1>1, <1>3 DEF CacheInv, CacheType, StartJob
<1>5. job[c].kind = "none"
  BY DEF StartJob, NoJob
<1>6. UNCHANGED <<libDir, mem, file>> /\ blind' = IF Unannounced THEN blind \cup {c} ELSE blind \ {c}
  BY DEF StartJob
<1>7. /\ Pending({"settings", "forget"})' <=> Pending({"settings", "forget"})
      /\ Pending({"settings", "forget", "unlink"})' <=> Pending({"settings", "forget", "unlink"})
  BY <1>2, <1>3, <1>4, <1>5 DEF Pending
<1>8. Unannounced' <=> Unannounced
  BY <1>2, <1>3, <1>4, <1>5 DEF Unannounced
<1>9. CacheType'
  <2>1. \A d \in Callers : job'[d].at \in Scanning <=> job'[d].kind \in Inspecting
    BY <1>2, <1>3, <1>4 DEF CacheInv, CacheType, Scanning
  <2>2. \A d \in Callers : job'[d].at \in {"enrich", "rewrite"} => job'[d].kind = "status"
    BY <1>2, <1>3, <1>4 DEF CacheInv, CacheType
  <2>3. \A d \in Callers : job'[d].at = "settings" => job'[d].kind = "apply"
    BY <1>2, <1>3, <1>4 DEF CacheInv, CacheType
  <2> QED BY <1>4, <1>6, <2>1, <2>2, <2>3 DEF CacheInv, CacheType
<1>10. StoredInv'
  BY <1>6, <1>7 DEF CacheInv, StoredInv, SenOk, RestOk
<1>11. \A d \in Callers \ {c} : CallerOk(d)'
  BY <1>4, <1>6, <1>8 DEF CacheInv, CallerOk, ScanOk, SenOk
<1>12. CallerOk(c)'
  BY <1>2, <1>3, <1>4, <1>6, <1>8 DEF CallerOk, ScanOk
<1> QED BY <1>9, <1>10, <1>11, <1>12 DEF CacheInv

LEMMA SignStep ==
  ASSUME CacheInv, NEW c \in Callers, Sign(c)
  PROVE  CacheInv'
<1>1. job[c].at = "sign" /\ job[c].kind \in Inspecting /\ UNCHANGED <<libDir, mem, file, blind>>
  BY DEF Sign, CacheInv, CacheType, Scanning
<1>2. /\ job' \in [Callers -> [kind : Kinds, at : Scanning \cup Changing, sig : Nat, got : Rec]]
      /\ job'[c].kind = job[c].kind /\ job'[c].at = "lookup" /\ job'[c].sig = libDir.sen
      /\ \A d \in Callers \ {c} : job'[d] = job[d]
  BY DEF Sign, ComputeSentinelSignature, CacheInv, CacheType, Scanning
<1>3. /\ Pending({"settings", "forget"})' <=> Pending({"settings", "forget"})
      /\ Pending({"settings", "forget", "unlink"})' <=> Pending({"settings", "forget", "unlink"})
  BY <1>1, <1>2 DEF Pending
<1>4. Unannounced' <=> Unannounced
  BY <1>1, <1>2 DEF Unannounced
<1>5. CacheType'
  <2>1. \A d \in Callers : job'[d].at \in Scanning <=> job'[d].kind \in Inspecting
    BY <1>1, <1>2 DEF CacheInv, CacheType, Scanning
  <2>2. \A d \in Callers : job'[d].at \in {"enrich", "rewrite"} => job'[d].kind = "status"
    BY <1>2 DEF CacheInv, CacheType
  <2>3. \A d \in Callers : job'[d].at = "settings" => job'[d].kind = "apply"
    BY <1>2 DEF CacheInv, CacheType
  <2> QED BY <1>1, <1>2, <2>1, <2>2, <2>3 DEF CacheInv, CacheType
<1>6. StoredInv'
  BY <1>1, <1>3 DEF CacheInv, StoredInv, SenOk, RestOk
<1>7. \A d \in Callers \ {c} : CallerOk(d)'
  BY <1>1, <1>2, <1>4 DEF CacheInv, CallerOk, ScanOk, SenOk
<1>8. CallerOk(c)'
  <2>1. libDir.sen \in Nat
    BY DEF CacheInv, CacheType
  <2> QED BY <1>1, <1>2, <1>4, <2>1 DEF CacheInv, CallerOk, ScanOk
<1> QED BY <1>5, <1>6, <1>7, <1>8 DEF CacheInv

(* A step of an operation that changes the directory or tells the cache. *)
LEMMA ChangeStep ==
  ASSUME CacheInv, NEW c \in Callers, job[c].kind \notin Inspecting,
         job' \in [Callers -> [kind : Kinds, at : Scanning \cup Changing, sig : Nat, got : Rec]],
         \A d \in Callers \ {c} : job'[d] = job[d],
         job'[c].kind \in {"none", job[c].kind}, job'[c].at \in Changing,
         job'[c].at = "settings" => job'[c].kind = "apply",
         libDir' \in [sen : Nat, rest : Nat, exe : Nat], mem' \in Rec, file' \in Rec,
         libDir.sen <= libDir'.sen, blind \subseteq blind',
         libDir'.rest = libDir.rest \/ Running(Inspecting) \subseteq blind',
         libDir'.sen = libDir.sen \/ Running({"status"}) \subseteq blind',
         Unannounced' => Unannounced \/ Running(Inspecting) \subseteq blind',
         StoredInv'
  PROVE  CacheInv'
<1>1. CacheType'
  <2>1. \A d \in Callers : job'[d].at \in Scanning <=> job'[d].kind \in Inspecting
    BY DEF CacheInv, CacheType, Scanning, Changing, Inspecting
  <2>2. \A d \in Callers : job'[d].at \in {"enrich", "rewrite"} => job'[d].kind = "status"
    BY DEF CacheInv, CacheType, Changing
  <2>3. \A d \in Callers : job'[d].at = "settings" => job'[d].kind = "apply"
    BY DEF CacheInv, CacheType
  <2> QED BY <2>1, <2>2, <2>3 DEF CacheType
<1>2. ASSUME NEW d \in Callers, job'[d].kind \in Inspecting, d \notin blind' PROVE CallerOk(d)'
  <2>1. d # c /\ job'[d] = job[d] /\ d \notin blind
    BY <1>2 DEF Inspecting
  <2>2. libDir'.rest = libDir.rest /\ (job[d].kind = "status" => libDir'.sen = libDir.sen) /\ (Unannounced' => Unannounced)
    BY <1>2, <2>1 DEF Running, Inspecting
  <2>3. ~Unannounced /\ ScanOk(job[d].kind, job[d].sig, job[d].at, job[d].got)
    BY <1>2, <2>1 DEF CacheInv, CallerOk
  <2>4. libDir.sen \in Nat /\ libDir'.sen \in Nat /\ job[d].sig \in Nat /\ job[d].got \in Rec
    BY DEF CacheInv, CacheType
  <2>6. PICK r : r = job[d].got /\ r \in Rec
    BY <2>4
  <2>7. ASSUME SenOk(r) PROVE r.late \/ (r.sig <= r.sen /\ r.sen <= libDir'.sen)
    BY <2>4, <2>6, <2>7 DEF SenOk, Rec
  <2>8. job[d].at = "keep" => job[d].sig <= r.sen /\ r.sen <= libDir'.sen
    BY <2>3, <2>4, <2>6 DEF ScanOk, Rec
  <2>9. job[d].at # "sign" => job[d].sig <= libDir'.sen /\ (job[d].kind = "status" => job[d].sig = libDir'.sen)
    BY <2>2, <2>3, <2>4 DEF ScanOk
  <2> QED BY <2>1, <2>2, <2>3, <2>6, <2>7, <2>8, <2>9 DEF CallerOk, ScanOk, SenOk
<1>3. \A d \in Callers : CallerOk(d)'
  BY <1>2 DEF CallerOk
<1> QED BY <1>1, <1>3 DEF CacheInv

(* A change leaves the directory typed, lets no version fall and blinds whoever cannot notice it. *)
LEMMA DirectoryGrows ==
  ASSUME CacheInv
  PROVE  /\ ChangeRest => /\ libDir' \in [sen : Nat, rest : Nat, exe : Nat] /\ libDir'.sen = libDir.sen
                          /\ Running(Inspecting) \subseteq blind' /\ blind \subseteq blind'
         /\ ChangeSentinels => /\ libDir' \in [sen : Nat, rest : Nat, exe : Nat] /\ libDir.sen <= libDir'.sen
                               /\ libDir'.rest = libDir.rest
                               /\ Running({"status"}) \subseteq blind' /\ blind \subseteq blind'
<1>1. libDir \in [sen : Nat, rest : Nat, exe : Nat]
  BY DEF CacheInv, CacheType
<1>2. ChangeRest => /\ libDir' \in [sen : Nat, rest : Nat, exe : Nat] /\ libDir'.sen = libDir.sen
  BY <1>1 DEF ChangeRest
<1>3. ChangeSentinels => /\ libDir' \in [sen : Nat, rest : Nat, exe : Nat] /\ libDir.sen <= libDir'.sen
                         /\ libDir'.rest = libDir.rest
  BY <1>1 DEF ChangeSentinels
<1> QED BY <1>2, <1>3 DEF ChangeRest, ChangeSentinels, Inspecting

LEMMA SenGrows ==
  ASSUME CacheInv, libDir'.sen \in Nat, libDir.sen <= libDir'.sen, NEW r \in Rec, SenOk(r)
  PROVE  r.late \/ (r.sig <= r.sen /\ r.sen <= libDir'.sen)
<1>1. libDir.sen \in Nat /\ r.sig \in Nat /\ r.sen \in Nat
  BY DEF CacheInv, CacheType, Rec
<1> QED BY <1>1 DEF SenOk

LEMMA OutOfDateOk ==
  ASSUME NEW r \in Rec
  PROVE  OutOfDate(r) \in Rec /\ (OutOfDate(r) = NoRec \/ OutOfDate(r).late = TRUE)
BY DEF OutOfDate, Rec

LEMMA ChangeSteps ==
  ASSUME CacheInv, NEW c \in Callers,
         \/ SaveProfileDirect(c) \/ ApplyFiles(c) \/ ApplySettings(c)
         \/ InvalidateMemory(c) \/ InvalidateFile(c) \/ UninstallDepot(c)
  PROVE  CacheInv'
<1>t. /\ mem \in Rec /\ file \in Rec /\ job[c].got \in Rec /\ libDir.sen \in Nat /\ SenOk(mem) /\ SenOk(file)
      /\ libDir \in [sen : Nat, rest : Nat, exe : Nat] /\ CacheType /\ job[c].kind \in Kinds
  BY DEF CacheInv, CacheType, StoredInv
<1>k. job[c].at \in {"change", "settings", "forget", "unlink"} /\ job[c].kind \notin Inspecting
  <2>1. job[c].at \in {"change", "settings", "forget", "unlink"}
    BY DEF SaveProfileDirect, ApplyFiles, ApplySettings, InvalidateMemory, InvalidateFile, UninstallDepot
  <2> QED BY <2>1 DEF CacheInv, CacheType, Scanning
<1>p. /\ RestOk(mem) \/ Pending({"settings", "forget"})
      /\ RestOk(file) \/ Pending({"settings", "forget", "unlink"})
  BY DEF CacheInv, StoredInv
<1>1. CASE SaveProfileDirect(c)
  <2>1. /\ job[c].kind \in {"profile", "reset"} /\ job[c].at = "change" /\ ChangeSentinels /\ mem' = mem /\ file' = file
        /\ GoWith(c, job[c].got, IF job[c].kind = "profile" THEN "forget" ELSE "idle")
    BY <1>1 DEF SaveProfileDirect, Goto
  <2>2. /\ job' \in [Callers -> [kind : Kinds, at : Scanning \cup Changing, sig : Nat, got : Rec]]
        /\ \A d \in Callers \ {c} : job'[d] = job[d]
        /\ job'[c].kind \in {"none", job[c].kind} /\ job'[c].at \in {"forget", "idle"}
    <3>1. CASE job[c].kind = "profile"
      BY <1>t, <2>1, <3>1, JobStep DEF Changing
    <3>2. CASE job[c].kind # "profile"
      BY <1>t, <2>1, <3>2, JobEnd DEF NoJob
    <3> QED BY <3>1, <3>2
  <2>3. \A steps : Pending(steps)' <=> Pending(steps)
    BY <2>1, <2>2 DEF Pending
  <2>4. Unannounced' <=> Unannounced
    BY <2>1, <2>2 DEF Unannounced
  <2>5. StoredInv'
    BY <1>t, <1>p, <2>1, <2>3, DirectoryGrows, SenGrows DEF StoredInv, SenOk, RestOk
  <2> QED BY <1>t, <1>k, <2>1, <2>2, <2>4, <2>5, DirectoryGrows, ChangeStep DEF Changing
<1>2. CASE ApplyFiles(c)
  <2>1. job[c].kind = "apply" /\ ChangeRest /\ mem' = mem /\ file' = file /\ GoWith(c, job[c].got, "settings")
    BY <1>2 DEF ApplyFiles, Goto
  <2>2. /\ job' \in [Callers -> [kind : Kinds, at : Scanning \cup Changing, sig : Nat, got : Rec]]
        /\ \A d \in Callers \ {c} : job'[d] = job[d]
        /\ job'[c].kind = "apply" /\ job'[c].at = "settings"
    BY <1>t, <2>1, JobStep DEF Changing
  <2>3. Pending({"settings", "forget"})' /\ Pending({"settings", "forget", "unlink"})'
    BY <2>2 DEF Pending
  <2>5. StoredInv'
    BY <1>t, <2>1, <2>3, DirectoryGrows, SenGrows DEF StoredInv, SenOk
  <2> QED BY <1>t, <1>k, <2>1, <2>2, <2>5, DirectoryGrows, ChangeStep DEF Changing
<1>3. CASE ApplySettings(c)
  <2>1. /\ job[c].kind = "apply" /\ job[c].at = "settings" /\ mem' = mem /\ file' = file /\ GoWith(c, job[c].got, "forget")
        /\ ChangeSentinels \/ UNCHANGED <<libDir, blind>>
    BY <1>3 DEF ApplySettings, Goto, CacheInv, CacheType
  <2>2. /\ job' \in [Callers -> [kind : Kinds, at : Scanning \cup Changing, sig : Nat, got : Rec]]
        /\ \A d \in Callers \ {c} : job'[d] = job[d]
        /\ job'[c].kind = "apply" /\ job'[c].at = "forget"
    BY <1>t, <2>1, JobStep DEF Changing
  <2>3. Pending({"settings", "forget"})' /\ Pending({"settings", "forget", "unlink"})' /\ Unannounced
    BY <2>1, <2>2 DEF Pending, Unannounced
  <2>4. /\ libDir' \in [sen : Nat, rest : Nat, exe : Nat] /\ libDir.sen <= libDir'.sen /\ libDir'.rest = libDir.rest
        /\ libDir'.sen = libDir.sen \/ Running({"status"}) \subseteq blind'
        /\ blind \subseteq blind'
    BY <1>t, <2>1, DirectoryGrows
  <2>5. StoredInv'
    BY <1>t, <2>1, <2>3, <2>4, SenGrows DEF StoredInv, SenOk
  <2> QED BY <1>t, <1>k, <2>1, <2>2, <2>3, <2>4, <2>5, ChangeStep DEF Changing
<1>4. CASE InvalidateMemory(c)
  <2>1. job[c].at = "forget" /\ mem' = NoRec /\ UNCHANGED <<libDir, file, blind>> /\ GoWith(c, job[c].got, "unlink")
    BY <1>4 DEF InvalidateMemory, Goto
  <2>2. /\ job' \in [Callers -> [kind : Kinds, at : Scanning \cup Changing, sig : Nat, got : Rec]]
        /\ \A d \in Callers \ {c} : job'[d] = job[d]
        /\ job'[c].kind = job[c].kind /\ job'[c].at = "unlink"
    BY <1>t, <2>1, JobStep DEF Changing
  <2>3. Pending({"settings", "forget", "unlink"})' <=> Pending({"settings", "forget", "unlink"})
    BY <2>1, <2>2 DEF Pending
  <2>4. Unannounced' => Unannounced
    BY <2>1, <2>2 DEF Unannounced
  <2>5. StoredInv'
    BY <1>t, <1>p, <2>1, <2>3, NoRecOk DEF StoredInv, SenOk, RestOk
  <2> QED BY <1>t, <1>k, <2>1, <2>2, <2>4, <2>5, NoRecOk, ChangeStep DEF Changing
<1>5. CASE InvalidateFile(c)
  <2>1. /\ job[c].at = "unlink" /\ file' = NoRec /\ UNCHANGED <<libDir, mem, blind>>
        /\ GoWith(c, job[c].got, IF job[c].kind = "reset" THEN "change" ELSE "idle")
    BY <1>5 DEF InvalidateFile, Goto
  <2>2. /\ job' \in [Callers -> [kind : Kinds, at : Scanning \cup Changing, sig : Nat, got : Rec]]
        /\ \A d \in Callers \ {c} : job'[d] = job[d]
        /\ job'[c].kind \in {"none", job[c].kind} /\ job'[c].at \in {"change", "idle"}
    <3>1. CASE job[c].kind = "reset"
      BY <1>t, <2>1, <3>1, JobStep DEF Changing
    <3>2. CASE job[c].kind # "reset"
      BY <1>t, <2>1, <3>2, JobEnd DEF NoJob
    <3> QED BY <3>1, <3>2
  <2>3. Pending({"settings", "forget"})' <=> Pending({"settings", "forget"})
    BY <2>1, <2>2 DEF Pending
  <2>4. Unannounced' => Unannounced
    BY <2>1, <2>2 DEF Unannounced
  <2>5. StoredInv'
    BY <1>t, <1>p, <2>1, <2>3, NoRecOk DEF StoredInv, SenOk, RestOk
  <2> QED BY <1>t, <1>k, <2>1, <2>2, <2>4, <2>5, NoRecOk, ChangeStep DEF Changing
<1>6. CASE UninstallDepot(c)
  <2>1. /\ job[c].kind = "uninstall" /\ ChangeRest /\ GoWith(c, job[c].got, "idle")
        /\ mem' = OutOfDate(mem) /\ file' = OutOfDate(file)
    BY <1>6 DEF UninstallDepot, Goto
  <2>2. /\ job' \in [Callers -> [kind : Kinds, at : Scanning \cup Changing, sig : Nat, got : Rec]]
        /\ \A d \in Callers \ {c} : job'[d] = job[d]
        /\ job'[c].kind = "none" /\ job'[c].at = "idle"
    BY <1>t, <2>1, JobEnd DEF NoJob
  <2>3. /\ mem' \in Rec /\ (mem' = NoRec \/ mem'.late = TRUE)
        /\ file' \in Rec /\ (file' = NoRec \/ file'.late = TRUE)
    BY <1>t, <2>1, OutOfDateOk
  <2>4. libDir' \in [sen : Nat, rest : Nat, exe : Nat] /\ libDir'.sen = libDir.sen
    BY <2>1, DirectoryGrows
  <2>5. StoredInv'
    BY <1>t, <2>3, <2>4, NoRecOk DEF StoredInv, SenOk, RestOk
  <2> QED BY <1>t, <1>k, <2>1, <2>2, <2>3, <2>4, <2>5, DirectoryGrows, ChangeStep DEF Changing
<1> QED BY <1>1, <1>2, <1>3, <1>4, <1>5, <1>6

LEMMA OutsideSteps ==
  ASSUME CacheInv, ReplaceExe \/ Kill \/ UNCHANGED libVars
  PROVE  CacheInv'
<1>1. CASE ReplaceExe
  <2>1. UNCHANGED <<mem, file, job, blind>> /\ libDir'.sen = libDir.sen /\ libDir'.rest = libDir.rest
        /\ libDir' \in [sen : Nat, rest : Nat, exe : Nat]
    BY <1>1 DEF ReplaceExe, CacheInv, CacheType
  <2>2. CacheType'
    BY <2>1 DEF CacheInv, CacheType
  <2>3. StoredInv'
    BY <2>1 DEF CacheInv, StoredInv, SenOk, RestOk, Pending
  <2>4. \A c \in Callers : CallerOk(c)'
    BY <2>1 DEF CacheInv, CallerOk, ScanOk, SenOk, Unannounced
  <2> QED BY <2>2, <2>3, <2>4 DEF CacheInv
<1>2. CASE Kill
  <2>1. mem' = NoRec /\ libDir' = libDir /\ \A c \in Callers : job'[c] = NoJob
    BY <1>2 DEF Kill
  <2>2. NoJob \in [kind : Kinds, at : Scanning \cup Changing, sig : Nat, got : Rec] /\ NoJob.kind = "none" /\ NoJob.at = "idle"
    BY NoRecOk DEF NoJob, Kinds, Changing
  <2>3. job' \in [Callers -> [kind : Kinds, at : Scanning \cup Changing, sig : Nat, got : Rec]]
    BY <1>2, <2>2 DEF Kill
  <2>4. file' \in Rec /\ SenOk(file)' /\ RestOk(file)'
    <3>1. file \in Rec /\ SenOk(file) /\ (RestOk(file) \/ Unannounced)
      BY UnannouncedPending DEF CacheInv, CacheType, StoredInv
    <3>2. CASE file' = Torn
      BY <3>2, NoRecOk DEF SenOk, RestOk
    <3>3. CASE Unannounced /\ file' = OutOfDate(file)
      <4>1. file' \in Rec /\ (file' = NoRec \/ file'.late = TRUE)
        BY <3>1, <3>3, OutOfDateOk
      <4>2. libDir'.sen \in Nat
        BY <2>1 DEF CacheInv, CacheType
      <4> QED BY <4>1, <4>2, NoRecOk DEF SenOk, RestOk
    <3>4. CASE ~Unannounced /\ file' = file
      BY <2>1, <3>1, <3>4 DEF SenOk, RestOk
    <3> QED BY <1>2, <3>2, <3>3, <3>4 DEF Kill
  <2>5. SenOk(mem)' /\ RestOk(mem)'
    <3>1. libDir'.sen \in Nat
      BY <2>1 DEF CacheInv, CacheType
    <3> QED BY <2>1, <3>1, NoRecOk DEF SenOk, RestOk
  <2>6. CacheType'
    BY <2>1, <2>2, <2>3, <2>4, NoRecOk DEF CacheInv, CacheType, Scanning, Inspecting
  <2>7. \A c \in Callers : CallerOk(c)'
    BY <2>1, <2>2 DEF CallerOk, Inspecting
  <2> QED BY <2>4, <2>5, <2>6, <2>7 DEF CacheInv, StoredInv
<1>3. CASE UNCHANGED libVars
  BY <1>3 DEF libVars, CacheInv, CacheType, StoredInv, SenOk, RestOk, Pending, CallerOk, ScanOk, Unannounced
<1> QED BY <1>1, <1>2, <1>3

LEMMA CacheInvInit == LibraryInit => CacheInv
<1>1. SUFFICES ASSUME LibraryInit PROVE CacheInv
  OBVIOUS
<1>2. NoJob \in [kind : Kinds, at : Scanning \cup Changing, sig : Nat, got : Rec] /\ NoJob.kind = "none" /\ NoJob.at = "idle"
  BY NoRecOk DEF NoJob, Kinds, Changing
<1>3. /\ job \in [Callers -> [kind : Kinds, at : Scanning \cup Changing, sig : Nat, got : Rec]]
      /\ \A c \in Callers : job[c] = NoJob
      /\ libDir \in [sen : Nat, rest : Nat, exe : Nat] /\ libDir.sen = 1 /\ mem = NoRec /\ file = NoRec
  BY <1>1, <1>2 DEF LibraryInit
<1>4. CacheType
  BY <1>2, <1>3, NoRecOk DEF CacheType, Scanning, Inspecting
<1>5. StoredInv
  BY <1>3, NoRecOk DEF StoredInv, SenOk, RestOk
<1>6. \A c \in Callers : CallerOk(c)
  BY <1>2, <1>3 DEF CallerOk, Inspecting
<1> QED BY <1>4, <1>5, <1>6 DEF CacheInv

LEMMA CacheInvNext == CacheInv /\ [LibraryNext]_libVars => CacheInv'
<1>1. SUFFICES ASSUME CacheInv, [LibraryNext]_libVars PROVE CacheInv'
  OBVIOUS
<1>2. ASSUME NEW c \in Callers, LibraryStep(c) PROVE CacheInv'
  <2>1. CASE \E kind \in Kinds \ {"none"} : StartJob(c, kind)
    BY <1>1, <2>1, StartStep
  <2>2. CASE Sign(c)
    BY <1>1, <2>2, SignStep
  <2>3. CASE \/ GetCachedGameMemory(c) \/ GetCachedGameFile(c) \/ GetCachedGamePromote(c)
             \/ InspectWalk(c) \/ InspectProfile(c)
             \/ SaveCachedGameMemory(c) \/ SaveCachedGameFile(c) \/ InspectStatusSave(c)
    BY <1>1, <2>3, InspectSteps
  <2>4. CASE \/ SaveProfileDirect(c) \/ ApplyFiles(c) \/ ApplySettings(c)
             \/ InvalidateMemory(c) \/ InvalidateFile(c) \/ UninstallDepot(c)
    BY <1>1, <2>4, ChangeSteps
  <2>5. \/ InspectLocal(c) \/ InspectStatus(c) \/ CheckGameUpdates(c) \/ CheckLibraryUpdates(c)
        \/ ApplyGame(c) \/ Rollback(c) \/ FetchGameDLCs(c) \/ StartUninstall(c)
        \/ SaveProfileMerged(c) \/ IncrementPlaytime(c) \/ ResetProfile(c)
        => \E kind \in Kinds \ {"none"} : StartJob(c, kind)
    BY DEF Kinds, InspectLocal, InspectStatus, CheckGameUpdates, CheckLibraryUpdates, ApplyGame, Rollback, FetchGameDLCs,
           StartUninstall, SaveProfileMerged, IncrementPlaytime, ResetProfile
  <2> QED BY <1>2, <2>1, <2>2, <2>3, <2>4, <2>5 DEF LibraryStep
<1> QED BY <1>1, <1>2, OutsideSteps DEF LibraryNext

(* Whatever the interleaving of inspections (detector.Inspect, InspectStatus), of operations that change the game    *)
(* and invalidate its cache, of a game replaced from outside and of kills, a record that a lookup would believe      *)
(* tells the directory as it is, unless its maker overlapped a change that its signature cannot show.                *)
THEOREM CacheHonest == LibrarySpec => []CacheFresh
<1>1. LibraryInit => CacheInv
  BY CacheInvInit
<1>2. CacheInv /\ [LibraryNext]_libVars => CacheInv'
  BY CacheInvNext
<1>3. CacheInv => CacheFresh
  BY CacheInvFresh
<1> QED BY <1>1, <1>2, <1>3, PTL DEF LibrarySpec

-----------------------------------------------------------------------------
(* Mods *)

Entry == [path : Path \cup {NoPath}, on : BOOLEAN, at : Nat, upd : BOOLEAN]
CallRec == [op : {"toggle", "delete", "install", "check"}, items : SUBSET Items, path : Path \cup {NoPath},
            loaded : BOOLEAN, reg : [Items -> Entry]]

ModsType ==
  /\ modDisk \in [Path -> Nat] /\ modReg \in [Items -> Entry] /\ modTopo \in Folders
  /\ workshop \in [Items -> [title : Titles, time : Nat \ {0}]]
  /\ modCall \in SUBSET CallRec /\ home \in [Items -> Path \cup {NoPath}]
  /\ \A w \in Items : home[w] # NoPath => home[w].dir \in {w} \X Titles /\ modDisk[home[w]] # Nothing

(* The registry there will be when call k is done. *)
Final(k) ==
  IF k.loaded THEN k.reg
  ELSE [w \in Items |-> IF w \in k.items THEN Registered(k, w, modReg[w]) ELSE modReg[w]]

(* An entry is that of its own item, and of the copy the last call on the item left. *)
EntryOk(w, e) ==
  /\ e.path # NoPath => e.path.dir \in {w} \X Titles
  /\ home[w] # NoPath => e.path = home[w] /\ e.on = ~home[w].off /\ modDisk[home[w]] \in {e.at, Mixed}

RegistryOk(reg) == \A w \in Items : EntryOk(w, reg[w])

ModsInv ==
  /\ ModsType
  /\ \A k, l \in modCall : k = l
  /\ modCall = {} => RegistryOk(modReg)
  /\ \A k \in modCall : Final(k) \in [Items -> Entry] /\ RegistryOk(Final(k))

LEMMA ModPaths ==
  /\ NoPath \notin Path
  /\ \A p \in Path : /\ Variant(p) \in Path /\ Variant(p) # p /\ Variant(p) # NoPath
                     /\ Variant(p).dir = p.dir /\ Variant(p).off = ~p.off
<1>1. NoPath \notin Path
  BY DEF NoPath, Path, Folders
<1>2. ASSUME NEW p \in Path
      PROVE  Variant(p) \in Path /\ Variant(p).dir = p.dir /\ Variant(p).off = ~p.off
  BY DEF Path, Variant
<1>3. ASSUME NEW p \in Path PROVE Variant(p) # p
  BY <1>2 DEF Path
<1> QED BY <1>1, <1>2, <1>3

LEMMA TargetListed ==
  ASSUME ModsType, NEW d, NEW m \in Targets(d)
  PROVE  /\ m.path \in Path /\ modDisk[m.path] # Nothing
         /\ \/ m.item = "unknown" /\ \A w \in Items : modReg[w].path # m.path
            \/ m.item \in Items /\ modReg[m.item].path = m.path
<1>1. m \in ScanInstalledMods
  BY DEF Targets
<1>2. CASE \E p \in Present : \E w \in Matched(p) : m = Listed(p, w)
  BY <1>2 DEF Listed, Present, Matched
<1>3. CASE \E p \in Present : Matched(p) = {} /\ m = Listed(p, "unknown")
  BY <1>3 DEF Listed, Present, Matched
<1>4. CASE m \in UNION {{Listed(p, w) : w \in Matched(p)} : p \in Present}
  <2>1. PICK S \in {{Listed(p, w) : w \in Matched(p)} : p \in Present} : m \in S
    BY <1>4
  <2>2. PICK p \in Present : S = {Listed(p, w) : w \in Matched(p)}
    BY <2>1
  <2> QED BY <1>2, <2>1, <2>2
<1>5. CASE m \in {Listed(p, "unknown") : p \in {q \in Present : q.folder = modTopo /\ Matched(q) = {}}}
  BY <1>3, <1>5
<1>6. \/ m \in UNION {{Listed(p, w) : w \in Matched(p)} : p \in Present}
      \/ m \in {Listed(p, "unknown") : p \in {q \in Present : q.folder = modTopo /\ Matched(q) = {}}}
  BY <1>1, Zenon DEF ScanInstalledMods
<1> QED BY <1>4, <1>5, <1>6

(* The item whose copy stands at the path of a listed mod is the item it is listed as. *)
LEMMA Owner ==
  ASSUME ModsType, RegistryOk(modReg), NEW d, NEW m \in Targets(d), NEW w \in Items, home[w] = m.path
  PROVE  m.item = w
<1>1. m.path \in Path /\ home[w] # NoPath
  BY TargetListed, ModPaths
<1>2. modReg[w].path = m.path
  BY <1>1 DEF RegistryOk, EntryOk
<1>3. m.item \in Items /\ modReg[m.item].path = m.path
  BY <1>2, TargetListed
<1>4. m.path.dir \in {w} \X Titles /\ m.path.dir \in {m.item} \X Titles
  BY <1>1, <1>2, <1>3, ModPaths DEF RegistryOk, EntryOk
<1> QED BY <1>4

LEMMA ToggleStep ==
  ASSUME ModsInv, modCall = {}, NEW d, NEW enable, ToggleGameMod(d, enable)
  PROVE  ModsInv'
<1>t. ModsType /\ RegistryOk(modReg)
  BY DEF ModsInv
<1>1. PICK m \in Targets(d) :
         /\ Variant(m.path) \notin Present
         /\ modDisk' = [modDisk EXCEPT ![m.path] = Nothing, ![Variant(m.path)] = modDisk[m.path]]
         /\ home' = [w \in Items |-> IF home[w] = m.path THEN Variant(m.path) ELSE home[w]]
         /\ Later("toggle", {m.item} \cap Items, Variant(m.path))
  BY DEF ToggleGameMod
<1>2. UNCHANGED <<modReg, modTopo, workshop>>
  BY DEF ToggleGameMod
<1>3. PICK p \in Path : p = m.path /\ modDisk[p] # Nothing
  BY <1>t, TargetListed
<1>4. PICK q \in Path : q = Variant(p) /\ q # p /\ q.dir = p.dir /\ q.off = ~p.off /\ q # NoPath
  BY ModPaths
<1>5. modDisk[q] = Nothing
  BY <1>1, <1>3, <1>4 DEF Present
<1>6. /\ modDisk' \in [Path -> Nat] /\ modDisk'[q] = modDisk[p]
      /\ \A r \in Path \ {p, q} : modDisk'[r] = modDisk[r]
  BY <1>t, <1>1, <1>3, <1>4 DEF ModsType, Nothing
<1>7. ASSUME NEW w \in Items, home[w] # NoPath, home[w] # p
      PROVE  home'[w] = home[w] /\ home[w] \in Path \ {p, q} /\ modDisk'[home[w]] = modDisk[home[w]]
  BY <1>t, <1>1, <1>3, <1>5, <1>6, <1>7 DEF ModsType
<1>8. /\ home' \in [Items -> Path \cup {NoPath}]
      /\ \A w \in Items : home[w] = NoPath => home'[w] = NoPath
      /\ \A w \in Items : home[w] = p => home'[w] = q
  BY <1>t, <1>1, <1>3, <1>4, ModPaths DEF ModsType
<1>9. \A w \in Items : home'[w] # NoPath => home'[w].dir \in {w} \X Titles /\ modDisk'[home'[w]] # Nothing
  <2>1. SUFFICES ASSUME NEW w \in Items, home'[w] # NoPath
                 PROVE  home'[w].dir \in {w} \X Titles /\ modDisk'[home'[w]] # Nothing
    OBVIOUS
  <2>2. home[w] # NoPath /\ home[w].dir \in {w} \X Titles /\ modDisk[home[w]] # Nothing
    BY <1>t, <1>8, <2>1 DEF ModsType
  <2> QED BY <1>3, <1>4, <1>6, <1>7, <1>8, <2>2
<1>10. \A w \in Items : w # m.item => EntryOk(w, modReg[w])'
  <2>1. SUFFICES ASSUME NEW w \in Items, w # m.item PROVE EntryOk(w, modReg[w])'
    OBVIOUS
  <2>2. home[w] # p
    BY <1>t, <1>3, <2>1, Owner
  <2> QED BY <1>t, <1>2, <1>7, <1>8, <2>2 DEF RegistryOk, EntryOk
<1>11. CASE m.item \notin Items
  <2>1. modCall' = {}
    BY <1>1, <1>11 DEF Later
  <2>2. ModsType'
    BY <1>t, <1>2, <1>6, <1>8, <1>9, <2>1 DEF ModsType
  <2> QED BY <1>10, <1>11, <2>1, <2>2 DEF ModsInv, RegistryOk
<1>12. CASE m.item \in Items
  <2>1. PICK w \in Items : w = m.item
    BY <1>12
  <2>2. PICK k : k = [op |-> "toggle", items |-> {w}, path |-> q, loaded |-> FALSE, reg |-> modReg]
    OBVIOUS
  <2>3. modCall' = {k} /\ k \in CallRec /\ k.op = "toggle" /\ k.items = {w} /\ k.path = q /\ ~k.loaded
    BY <1>t, <1>1, <1>3, <1>4, <2>1, <2>2 DEF Later, CallRec, ModsType
  <2>4. PICK e \in Entry : e = modReg[w] /\ e.path = p
    <3>1. modReg[w] \in Entry
      BY <1>t DEF ModsType
    <3>2. modReg[w].path = p
      BY <1>t, <1>3, <1>12, <2>1, TargetListed, ModsAssumption
    <3> QED BY <3>1, <3>2
  <2>5. e # NoEntry
    BY <1>3, <2>4, ModPaths DEF NoEntry
  <2>6. PICK r : r = [e EXCEPT !.path = q, !.on = ~q.off]
    OBVIOUS
  <2>7. r \in Entry /\ r.path = q /\ r.on = ~q.off /\ r.at = e.at
    BY <2>6 DEF Entry, Path
  <2>8. Registered(k, w, modReg[w])' = r
    BY <1>2, <2>3, <2>4, <2>5, <2>6 DEF Registered
  <2>9. EntryOk(w, r)'
    <3>1. p.dir \in {w} \X Titles /\ (home[w] # NoPath => p = home[w] /\ modDisk[p] \in {e.at, Mixed})
      BY <1>t, <1>3, <2>4, ModPaths DEF RegistryOk, EntryOk
    <3> QED BY <1>4, <1>6, <1>8, <2>7, <3>1 DEF EntryOk
  <2>10. ModsType'
    BY <1>t, <1>2, <1>6, <1>8, <1>9, <2>3 DEF ModsType
  <2>11. Final(k)' = [x \in Items |-> IF x = w THEN r ELSE modReg[x]]
    BY <1>2, <2>3, <2>8 DEF Final
  <2>12. Final(k)' \in [Items -> Entry] /\ RegistryOk(Final(k))'
    BY <1>t, <1>2, <1>10, <2>1, <2>7, <2>9, <2>11 DEF ModsType, RegistryOk, EntryOk
  <2> QED BY <2>3, <2>10, <2>12 DEF ModsInv
<1> QED BY <1>11, <1>12

LEMMA DeleteStep ==
  ASSUME ModsInv, modCall = {}, NEW d, DeleteGameMod(d)
  PROVE  ModsInv'
<1>t. ModsType /\ RegistryOk(modReg)
  BY DEF ModsInv
<1>1. PICK m \in Targets(d) :
         /\ modDisk' = [modDisk EXCEPT ![m.path] = Nothing, ![Variant(m.path)] = Nothing]
         /\ home' = [w \in Items |-> IF home[w] \in {m.path, Variant(m.path)} THEN NoPath ELSE home[w]]
         /\ Later("delete", {m.item} \cap Items, m.path)
  BY DEF DeleteGameMod
<1>2. UNCHANGED <<modReg, modTopo, workshop>>
  BY DEF DeleteGameMod
<1>3. PICK p \in Path : p = m.path
  BY <1>t, TargetListed
<1>4. PICK q \in Path : q = Variant(p)
  BY ModPaths
<1>6. /\ modDisk' \in [Path -> Nat]
      /\ \A r \in Path \ {p, q} : modDisk'[r] = modDisk[r]
  BY <1>t, <1>1, <1>3, <1>4 DEF ModsType, Nothing
<1>7. /\ home' \in [Items -> Path \cup {NoPath}]
      /\ \A w \in Items : home'[w] = NoPath \/ (home'[w] = home[w] /\ home[w] \in Path \ {p, q})
  BY <1>t, <1>1, <1>3, <1>4 DEF ModsType
<1>8. \A w \in Items : home'[w] # NoPath => home'[w].dir \in {w} \X Titles /\ modDisk'[home'[w]] # Nothing
  BY <1>t, <1>6, <1>7 DEF ModsType
<1>9. \A w \in Items : EntryOk(w, modReg[w])'
  BY <1>t, <1>2, <1>6, <1>7 DEF RegistryOk, EntryOk
<1>11. CASE m.item \notin Items
  <2>1. modCall' = {}
    BY <1>1, <1>11 DEF Later
  <2>2. ModsType'
    BY <1>t, <1>2, <1>6, <1>7, <1>8, <2>1 DEF ModsType
  <2> QED BY <1>9, <2>1, <2>2 DEF ModsInv, RegistryOk
<1>12. CASE m.item \in Items
  <2>1. PICK w \in Items : w = m.item
    BY <1>12
  <2>2. PICK k : k = [op |-> "delete", items |-> {w}, path |-> p, loaded |-> FALSE, reg |-> modReg]
    OBVIOUS
  <2>3. modCall' = {k} /\ k \in CallRec /\ k.op = "delete" /\ k.items = {w} /\ ~k.loaded
    BY <1>t, <1>1, <1>3, <2>1, <2>2 DEF Later, CallRec, ModsType
  <2>4. Registered(k, w, modReg[w])' = NoEntry
    BY <2>3 DEF Registered
  <2>5. NoEntry \in Entry /\ NoEntry.path = NoPath
    BY DEF NoEntry, Entry
  <2>6. home'[w] = NoPath
    <3>1. modReg[w].path = p
      BY <1>t, <1>3, <1>12, <2>1, TargetListed, ModsAssumption
    <3> QED BY <1>t, <1>7, <3>1, ModPaths DEF RegistryOk, EntryOk
  <2>7. ModsType'
    BY <1>t, <1>2, <1>6, <1>7, <1>8, <2>3 DEF ModsType
  <2>8. Final(k)' = [x \in Items |-> IF x = w THEN NoEntry ELSE modReg[x]]
    BY <1>2, <2>3, <2>4 DEF Final
  <2>9. Final(k)' \in [Items -> Entry] /\ RegistryOk(Final(k))'
    BY <1>t, <1>2, <1>9, <2>5, <2>6, <2>8 DEF ModsType, RegistryOk, EntryOk
  <2> QED BY <2>3, <2>7, <2>9 DEF ModsInv
<1> QED BY <1>11, <1>12

LEMMA DestinationOk ==
  ASSUME ModsType, NEW w \in Items
  PROVE  /\ Destination(w) \in Path /\ Destination(w) # NoPath /\ Destination(w).off = FALSE
         /\ Destination(w).dir \in {w} \X Titles
         /\ \A x \in Items : home[x] = Destination(w) => x = w
<1>1. workshop[w].title \in Titles /\ modTopo \in Folders
  BY DEF ModsType
<1>2. Destination(w) \in Path /\ Destination(w).off = FALSE /\ Destination(w).dir \in {w} \X Titles
  BY <1>1 DEF Destination, Path, DirNames
<1>3. Destination(w) # NoPath
  BY <1>2, ModPaths
<1>4. ASSUME NEW x \in Items, home[x] = Destination(w) PROVE x = w
  BY <1>2, <1>3, <1>4 DEF ModsType
<1> QED BY <1>2, <1>3, <1>4

LEMMA InstallStep ==
  ASSUME ModsInv, modCall = {}, NEW w \in Items, InstallWorkshopMod(w)
  PROVE  ModsInv'
<1>t. ModsType /\ RegistryOk(modReg) /\ workshop[w].time \in Nat \ {0}
  BY DEF ModsInv, ModsType
<1>1. PICK p \in Path : /\ p = Destination(w) /\ p # NoPath /\ p.off = FALSE /\ p.dir \in {w} \X Titles
                        /\ \A x \in Items : home[x] = p => x = w
  BY <1>t, DestinationOk
<1>2. modDisk' = [modDisk EXCEPT ![p] = workshop[w].time] /\ home' = [home EXCEPT ![w] = p] /\ Later("install", {w}, p)
  BY <1>1 DEF InstallWorkshopMod
<1>3. UNCHANGED <<modReg, modTopo, workshop>>
  BY DEF InstallWorkshopMod
<1>4. /\ modDisk' \in [Path -> Nat] /\ modDisk'[p] = workshop[w].time
      /\ \A r \in Path \ {p} : modDisk'[r] = modDisk[r]
  BY <1>t, <1>2 DEF ModsType
<1>5. /\ home' \in [Items -> Path \cup {NoPath}] /\ home'[w] = p
      /\ \A x \in Items \ {w} : home'[x] = home[x] /\ home[x] # p
  BY <1>t, <1>1, <1>2 DEF ModsType
<1>6. \A x \in Items : home'[x] # NoPath => home'[x].dir \in {x} \X Titles /\ modDisk'[home'[x]] # Nothing
  BY <1>t, <1>1, <1>4, <1>5 DEF ModsType, Nothing
<1>7. \A x \in Items \ {w} : EntryOk(x, modReg[x])'
  <2>1. SUFFICES ASSUME NEW x \in Items \ {w} PROVE EntryOk(x, modReg[x])'
    OBVIOUS
  <2>2. home[x] # NoPath => home[x] \in Path \ {p}
    BY <1>t, <1>5 DEF ModsType
  <2> QED BY <1>t, <1>3, <1>4, <1>5, <2>2 DEF RegistryOk, EntryOk
<1>8. PICK k : k = [op |-> "install", items |-> {w}, path |-> p, loaded |-> FALSE, reg |-> modReg]
  OBVIOUS
<1>9. modCall' = {k} /\ k \in CallRec /\ k.op = "install" /\ k.items = {w} /\ k.path = p /\ ~k.loaded
  BY <1>t, <1>1, <1>2, <1>8 DEF Later, CallRec, ModsType
<1>10. PICK r \in Entry : r = [path |-> p, on |-> TRUE, at |-> workshop[w].time, upd |-> FALSE]
  BY <1>t DEF Entry
<1>11. Registered(k, w, modReg[w])' = r
  BY <1>4, <1>9, <1>10 DEF Registered
<1>12. EntryOk(w, r)'
  BY <1>1, <1>4, <1>5, <1>10 DEF EntryOk
<1>13. ModsType'
  BY <1>t, <1>3, <1>4, <1>5, <1>6, <1>9 DEF ModsType
<1>14. Final(k)' = [x \in Items |-> IF x = w THEN r ELSE modReg[x]]
  BY <1>3, <1>9, <1>11 DEF Final
<1>15. Final(k)' \in [Items -> Entry] /\ RegistryOk(Final(k))'
  BY <1>t, <1>3, <1>7, <1>12, <1>14 DEF ModsType, RegistryOk, EntryOk
<1> QED BY <1>9, <1>13, <1>15 DEF ModsInv

LEMMA CheckStep ==
  ASSUME ModsInv, modCall = {}, CheckGameModUpdates
  PROVE  ModsInv'
<1>t. ModsType /\ RegistryOk(modReg)
  BY DEF ModsInv
<1>1. PICK known \in SUBSET Items : known # {} /\ Later("check", known, NoPath)
  BY DEF CheckGameModUpdates
<1>2. UNCHANGED <<modDisk, modReg, modTopo, workshop, home>>
  BY DEF CheckGameModUpdates
<1>3. PICK k : k = [op |-> "check", items |-> known, path |-> NoPath, loaded |-> FALSE, reg |-> modReg]
  OBVIOUS
<1>4. modCall' = {k} /\ k \in CallRec /\ k.op = "check" /\ k.items = known /\ ~k.loaded
  BY <1>t, <1>1, <1>3 DEF Later, CallRec, ModsType
<1>5. ASSUME NEW w \in Items
      PROVE  Registered(k, w, modReg[w])' \in Entry /\ EntryOk(w, Registered(k, w, modReg[w]))'
  <2>1. PICK e \in Entry : e = modReg[w]
    BY <1>t DEF ModsType
  <2>2. (e.at > 0 /\ workshop[w].time > e.at) \in BOOLEAN
    OBVIOUS
  <2>3. PICK b : b = (e.at > 0 /\ workshop[w].time > e.at) /\ b \in BOOLEAN
    BY <2>2
  <2>4. PICK r : r = [e EXCEPT !.upd = b]
    OBVIOUS
  <2>5. r \in Entry /\ r.path = e.path /\ r.on = e.on /\ r.at = e.at
    BY <2>3, <2>4 DEF Entry
  <2>6. Registered(k, w, modReg[w])' = r
    BY <1>2, <1>4, <2>1, <2>3, <2>4 DEF Registered
  <2>7. EntryOk(w, r)'
    BY <1>t, <1>2, <2>1, <2>5 DEF RegistryOk, EntryOk
  <2> QED BY <2>5, <2>6, <2>7
<1>6. Final(k)' = [w \in Items |-> IF w \in known THEN Registered(k, w, modReg[w])' ELSE modReg[w]]
  BY <1>2, <1>4 DEF Final
<1>7. \A w \in Items : modReg[w] \in Entry /\ EntryOk(w, modReg[w])'
  BY <1>t, <1>2 DEF ModsType, RegistryOk, EntryOk
<1>8. Final(k)' \in [Items -> Entry] /\ RegistryOk(Final(k))'
  <2>1. Final(k)' \in [Items -> Entry]
    BY <1>5, <1>6, <1>7
  <2>2. ASSUME NEW w \in Items PROVE EntryOk(w, Final(k)[w])'
    <3>1. CASE w \in known
      <4>1. Final(k)'[w] = Registered(k, w, modReg[w])'
        BY <1>6, <3>1
      <4> QED BY <1>5, <4>1 DEF EntryOk
    <3>2. CASE w \notin known
      <4>1. Final(k)'[w] = modReg'[w]
        BY <1>2, <1>6, <3>2
      <4> QED BY <1>7, <4>1 DEF EntryOk
    <3> QED BY <3>1, <3>2
  <2> QED BY <2>1, <2>2 DEF RegistryOk
<1>9. ModsType'
  BY <1>t, <1>2, <1>4 DEF ModsType
<1> QED BY <1>4, <1>8, <1>9 DEF ModsInv

(* The steps that leave the calls alone: the mods keep their entries. *)
LEMMA QuietStep ==
  ASSUME ModsInv, modCall = {}, UNCHANGED <<modReg, modCall, home>>,
         modTopo' \in Folders, workshop' \in [Items -> [title : Titles, time : Nat \ {0}]], modDisk' \in [Path -> Nat],
         \A w \in Items : home[w] # NoPath => /\ modDisk'[home[w]] # Nothing
                                              /\ modDisk'[home[w]] \in {modDisk[home[w]], Mixed}
  PROVE  ModsInv'
<1>1. ModsType'
  BY DEF ModsInv, ModsType
<1>2. \A w \in Items : EntryOk(w, modReg[w])'
  BY DEF ModsInv, RegistryOk, EntryOk
<1> QED BY <1>1, <1>2 DEF ModsInv, RegistryOk

LEMMA QuietSteps ==
  ASSUME ModsInv, modCall = {},
         \/ \E w \in Items : downloadAndExtractModZipFails(w)
         \/ \E w \in Items, t \in Titles : Revise(w, t)
         \/ \E d \in Manual : DropIn(d)
         \/ DetectModTopology
  PROVE  ModsInv'
<1>t. /\ modDisk \in [Path -> Nat] /\ modTopo \in Folders /\ workshop \in [Items -> [title : Titles, time : Nat \ {0}]]
      /\ \A w \in Items : home[w] # NoPath => home[w] \in Path /\ modDisk[home[w]] # Nothing
      /\ ModsType
  BY DEF ModsInv, ModsType
<1>1. ASSUME NEW w \in Items, downloadAndExtractModZipFails(w) PROVE ModsInv'
  <2>1. Mixed \in Nat /\ Mixed # Nothing
    BY ModsAssumption DEF Mixed, Nothing
  <2>2. PICK p \in Path : p = Destination(w)
    BY <1>t, DestinationOk
  <2>3. modDisk' = [modDisk EXCEPT ![p] = Mixed] /\ UNCHANGED <<modReg, modTopo, workshop, modCall, home>>
    BY <1>1, <2>2 DEF downloadAndExtractModZipFails
  <2>4. modDisk' \in [Path -> Nat] /\ \A r \in Path : modDisk'[r] = Mixed \/ modDisk'[r] = modDisk[r]
    BY <1>t, <2>1, <2>3
  <2>5. \A x \in Items : home[x] # NoPath => modDisk'[home[x]] # Nothing /\ modDisk'[home[x]] \in {modDisk[home[x]], Mixed}
    BY <1>t, <2>1, <2>4
  <2> QED BY <1>t, <2>3, <2>4, <2>5, QuietStep
<1>2. ASSUME NEW w \in Items, NEW t \in Titles, Revise(w, t) PROVE ModsInv'
  <2>1. workshop' \in [Items -> [title : Titles, time : Nat \ {0}]]
    BY <1>t, <1>2 DEF Revise
  <2> QED BY <1>t, <1>2, <2>1, QuietStep DEF Revise
<1>3. ASSUME NEW d \in Manual, DropIn(d) PROVE ModsInv'
  <2>1. PICK p : p = [folder |-> modTopo, dir |-> <<"manual", d>>, off |-> FALSE]
    OBVIOUS
  <2>2. p \in Path /\ p.dir = <<"manual", d>>
    BY <1>t, <2>1 DEF Path, DirNames
  <2>3. modDisk' = [modDisk EXCEPT ![p] = 1] /\ UNCHANGED <<modReg, modTopo, workshop, modCall, home>>
    BY <1>3, <2>1 DEF DropIn
  <2>4. modDisk[p] = Nothing
    BY <1>3, <2>2 DEF DropIn, Present
  <2>5. modDisk' \in [Path -> Nat] /\ \A r \in Path : r # p => modDisk'[r] = modDisk[r]
    BY <1>t, <2>3
  <2>6. \A x \in Items : home[x] # NoPath => modDisk'[home[x]] # Nothing /\ modDisk'[home[x]] \in {modDisk[home[x]], Mixed}
    BY <1>t, <2>4, <2>5
  <2> QED BY <1>t, <2>3, <2>5, <2>6, QuietStep
<1>4. CASE DetectModTopology
  BY <1>t, <1>4, QuietStep DEF DetectModTopology, Folders
<1> QED BY <1>1, <1>2, <1>3, <1>4

LEMMA CallSteps ==
  ASSUME ModsInv, NEW k \in modCall, LoadModRegistry(k) \/ SaveModRegistry(k)
  PROVE  ModsInv'
<1>t. ModsType /\ k \in CallRec /\ modCall = {k} /\ Final(k) \in [Items -> Entry] /\ RegistryOk(Final(k))
  BY DEF ModsInv, ModsType
<1>1. CASE LoadModRegistry(k)
  <2>1. PICK f : f = Final(k)
    OBVIOUS
  <2>2. ~k.loaded /\ UNCHANGED <<modDisk, modReg, modTopo, workshop, home>>
    BY <1>1 DEF LoadModRegistry
  <2>3. PICK l : l = [k EXCEPT !.loaded = TRUE, !.reg = f]
    OBVIOUS
  <2>4. l \in CallRec /\ l.loaded /\ l.reg = f
    BY <1>t, <2>1, <2>3 DEF CallRec
  <2>5. f = [w \in Items |-> IF w \in k.items THEN Registered(k, w, modReg[w]) ELSE modReg[w]]
    BY <2>1, <2>2 DEF Final
  <2>6. modCall' = (modCall \ {k}) \cup {l}
    BY <1>1, <2>3, <2>5 DEF LoadModRegistry
  <2>7. modCall' = {l}
    BY <1>t, <2>6
  <2>8. Final(l)' = f
    BY <2>4 DEF Final
  <2>9. RegistryOk(f)'
    BY <1>t, <2>1, <2>2 DEF RegistryOk, EntryOk
  <2>10. ModsType'
    BY <1>t, <2>2, <2>4, <2>7 DEF ModsType
  <2>11. RegistryOk(Final(l))'
    BY <2>8, <2>9 DEF RegistryOk, EntryOk
  <2> QED BY <1>t, <2>1, <2>7, <2>8, <2>10, <2>11 DEF ModsInv
<1>2. CASE SaveModRegistry(k)
  <2>1. modReg' = Final(k) /\ modCall' = {} /\ UNCHANGED <<modDisk, modTopo, workshop, home>>
    BY <1>t, <1>2 DEF SaveModRegistry, Final
  <2>2. PICK f : f = Final(k)
    OBVIOUS
  <2>3. RegistryOk(f) /\ modReg' = f
    BY <1>t, <2>1, <2>2
  <2>4. RegistryOk(modReg)'
    BY <2>1, <2>3 DEF RegistryOk, EntryOk
  <2>5. ModsType'
    BY <1>t, <2>1 DEF ModsType
  <2> QED BY <2>1, <2>4, <2>5 DEF ModsInv
<1> QED BY <1>1, <1>2

LEMMA ModsInvInit == ModsInit => ModsInv
<1>1. SUFFICES ASSUME ModsInit PROVE ModsInv
  OBVIOUS
<1>2. NoEntry \in Entry /\ NoEntry.path = NoPath
  BY DEF NoEntry, Entry
<1>3. (CHOOSE t \in Titles : TRUE) \in Titles
  BY ModsAssumption
<1>4. \A w \in Items : home[w] = NoPath /\ modReg[w] = NoEntry
  BY <1>1 DEF ModsInit
<1>5. ModsType
  BY <1>1, <1>2, <1>3, <1>4 DEF ModsInit, ModsType, Nothing, Folders
<1>6. RegistryOk(modReg)
  BY <1>2, <1>4 DEF RegistryOk, EntryOk
<1> QED BY <1>1, <1>5, <1>6 DEF ModsInit, ModsInv

LEMMA ModsInvNext == ASSUME ~ModCallsOverlap PROVE ModsInv /\ [ModsNext]_modVars => ModsInv'
<1>1. SUFFICES ASSUME ModsInv, [ModsNext]_modVars PROVE ModsInv'
  OBVIOUS
<1>2. ASSUME NEW d \in DirNames, NEW b \in BOOLEAN, ToggleGameMod(d, b) PROVE ModsInv'
  BY <1>1, <1>2, ToggleStep DEF ToggleGameMod, Quiet
<1>3. ASSUME NEW d \in DirNames, DeleteGameMod(d) PROVE ModsInv'
  BY <1>1, <1>3, DeleteStep DEF DeleteGameMod, Quiet
<1>4. ASSUME NEW w \in Items, InstallWorkshopMod(w) PROVE ModsInv'
  BY <1>1, <1>4, InstallStep DEF InstallWorkshopMod, Quiet
<1>5. ASSUME NEW w \in Items, downloadAndExtractModZipFails(w) PROVE ModsInv'
  BY <1>1, <1>5, QuietSteps DEF downloadAndExtractModZipFails, Quiet
<1>6. CASE CheckGameModUpdates
  BY <1>1, <1>6, CheckStep DEF CheckGameModUpdates, Quiet
<1>7. CASE \E k \in modCall : LoadModRegistry(k) \/ SaveModRegistry(k)
  BY <1>1, <1>7, CallSteps
<1>8. ASSUME NEW w \in Items, NEW t \in Titles, Revise(w, t) PROVE ModsInv'
  BY <1>1, <1>8, QuietSteps DEF Revise
<1>9. ASSUME NEW d \in Manual, DropIn(d) PROVE ModsInv'
  BY <1>1, <1>9, QuietSteps DEF DropIn
<1>10. CASE DetectModTopology
  BY <1>1, <1>10, QuietSteps DEF DetectModTopology
<1>11. CASE UNCHANGED modVars
  <2>1. UNCHANGED <<modDisk, modReg, modTopo, workshop, modCall, home>>
    BY <1>11 DEF modVars
  <2>2. ModsType'
    BY <1>1, <2>1 DEF ModsInv, ModsType
  <2>3. ASSUME NEW k PROVE Final(k)' = Final(k)
    BY <2>1 DEF Final, Registered
  <2>4. ASSUME NEW reg PROVE RegistryOk(reg)' <=> RegistryOk(reg)
    BY <2>1 DEF RegistryOk, EntryOk
  <2>5. modCall' = {} => RegistryOk(modReg)'
    BY <1>1, <2>1, <2>4 DEF ModsInv, RegistryOk, EntryOk
  <2>6. ASSUME NEW k \in modCall' PROVE Final(k)' \in [Items -> Entry] /\ RegistryOk(Final(k))'
    <3>1. PICK f : f = Final(k) /\ f = Final(k)'
      BY <2>3
    <3>2. f \in [Items -> Entry] /\ RegistryOk(f)
      BY <1>1, <2>1, <3>1 DEF ModsInv
    <3> QED BY <2>1, <3>1, <3>2 DEF RegistryOk, EntryOk
  <2> QED BY <1>1, <2>1, <2>2, <2>5, <2>6 DEF ModsInv
<1> QED BY <1>1, <1>2, <1>3, <1>4, <1>5, <1>6, <1>7, <1>8, <1>9, <1>10, <1>11 DEF ModsNext

LEMMA ModsInvIdentity == ModsInv => IdentityKept
<1>1. SUFFICES ASSUME ModsInv, modCall = {}, NEW w \in Items, home[w] # NoPath
               PROVE  /\ Listed(home[w], w) \in ScanInstalledMods
                      /\ modReg[w].on = ~home[w].off
                      /\ modDisk[home[w]] \in {modReg[w].at, Mixed}
  BY DEF IdentityKept
<1>2. EntryOk(w, modReg[w])
  BY <1>1 DEF ModsInv, RegistryOk
<1>3. home[w] \in Present /\ w \in Matched(home[w])
  BY <1>1, <1>2 DEF ModsInv, ModsType, Present, Matched, EntryOk
<1>4. Listed(home[w], w) \in UNION {{Listed(p, x) : x \in Matched(p)} : p \in Present}
  <2>1. PICK S : S = {Listed(home[w], x) : x \in Matched(home[w])}
    OBVIOUS
  <2>2. Listed(home[w], w) \in S /\ S \in {{Listed(p, x) : x \in Matched(p)} : p \in Present}
    BY <1>3, <2>1
  <2> QED BY <2>2
<1>5. Listed(home[w], w) \in ScanInstalledMods
  BY <1>4, Zenon DEF ScanInstalledMods
<1> QED BY <1>1, <1>2, <1>5 DEF EntryOk

(* When the front end starts no call on a game's mods while another is under way, the copy of a Workshop item that  *)
(* the last InstallWorkshopMod or ToggleGameMod left is listed as that item, with its state and revision, whatever  *)
(* failed extractions, new titles, mods dropped in by hand and changes of the mod folder lie in between.            *)
THEOREM ModsKeepIdentity == ASSUME ~ModCallsOverlap PROVE ModsSpec => []IdentityKept
<1>1. ModsInit => ModsInv
  BY ModsInvInit
<1>2. ModsInv /\ [ModsNext]_modVars => ModsInv'
  BY ModsInvNext
<1>3. ModsInv => IdentityKept
  BY ModsInvIdentity
<1> QED BY <1>1, <1>2, <1>3, PTL DEF ModsSpec

-----------------------------------------------------------------------------
(* Uninstallation. *)

LEMMA SparedStays ==
  ASSUME NEW d \in Depot, UninstallDepot_(d), NEW o \in Depot \ {d}, Installed(o)
  PROVE  Installed(o)'
<1>1. PICK paths : paths = PathsOf(o)
  OBVIOUS
<1>2. paths \subseteq Paths /\ IsFiniteSet(paths)
  BY <1>1, DepotsAssumption, FS_Subset DEF DepotRecord, PathsOf, FilesOf
<1>3. PICK there : there = {p \in paths : SizeMatches(o, p)}
  OBVIOUS
<1>4. Cardinality(paths) \in Nat /\ Cardinality(there) \in Nat
  BY <1>2, <1>3, FS_Subset, FS_CardinalityType
<1>5. 100 * Cardinality(there) >= 85 * Cardinality(paths)
  BY <1>1, <1>3 DEF Installed
<1>6. 10 * Cardinality(there) >= 7 * Cardinality(paths)
  BY <1>4, <1>5
<1>7. paths \subseteq ProtectedPaths(d)
  <2>1. o \in {x \in Depot \ {d} : 10 * Cardinality({p \in PathsOf(x) : SizeMatches(x, p)}) >= 7 * Cardinality(PathsOf(x))}
    BY <1>1, <1>3, <1>6
  <2> QED BY <1>1, <2>1 DEF ProtectedPaths
<1>8. \A p \in paths : depDisk'[p] = depDisk[p]
  BY <1>1, <1>2, <1>7 DEF UninstallDepot_
<1>9. {p \in paths : SizeMatches(o, p)'} = there
  BY <1>3, <1>8 DEF SizeMatches
<1> QED BY <1>1, <1>5, <1>9 DEF Installed

(* UninstallDepot removes no file of another depot that the depot list calls installed: the 70 per cent of a depot's   *)
(* files, of which it looks at thirty, that make it protect a depot are fewer than the 85 per cent of the list.        *)
THEOREM UninstallKeepsOthers ==
  ASSUME \A d \in Depot : Cardinality(PathsOf(d)) <= 30
  PROVE  DepotsSpec => UninstallSpares
<1>1. ASSUME [DepotsNext]_depVars, depVars' # depVars, NEW d \in Depot, depOp' = <<"uninstall", d>>
      PROVE  UninstallDepot_(d)
  <2>1. DepotsNext
    BY <1>1
  <2>2. ASSUME NEW f \in Requests, DownloadGame(f) PROVE FALSE
    BY <1>1, <2>2 DEF DownloadGame
  <2>3. ASSUME NEW p \in EmuPaths, ApplyEmulator(p) PROVE FALSE
    BY <1>1, <2>3 DEF ApplyEmulator
  <2>4. ASSUME NEW p \in Paths, NEW how \in {"none", "cut", "rot"}, Damage(p, how) PROVE FALSE
    BY <1>1, <2>4 DEF Damage
  <2>5. ASSUME NEW e \in Depot, UninstallDepot_(e) PROVE UninstallDepot_(d)
    <3>1. e = d
      BY <1>1, <2>5 DEF UninstallDepot_
    <3> QED BY <2>5, <3>1
  <2> QED BY <2>1, <2>2, <2>3, <2>4, <2>5 DEF DepotsNext
<1>2. [DepotsNext]_depVars =>
        [\A d \in Depot : depOp' = <<"uninstall", d>> => \A o \in Depot \ {d} : Installed(o) => Installed(o)']_depVars
  BY <1>1, SparedStays
<1> QED BY <1>2, PTL DEF DepotsSpec, UninstallSpares

-----------------------------------------------------------------------------
(* Least elements. *)

(* A set of numbers that is not empty has a least element. *)
LEMMA LeastNumber ==
  ASSUME NEW S \in SUBSET Nat, S # {}
  PROVE  \E n \in S : \A m \in S : n <= m
<1>1. PICK n \in S : \A m \in S : ~(<<m, n>> \in OpToRel(<, Nat))
  BY WFMin, NatLessThanWellFounded
<1>2. \A m \in S : ~(m < n)
  BY <1>1 DEF OpToRel
<1> QED BY <1>2

(* Among finite sets there is one that holds no other. *)
LEMMA SmallestSet ==
  ASSUME NEW C, IsFiniteSet(C), NEW T \in SUBSET SUBSET C, T # {}
  PROVE  \E A \in T : \A B \in T : B \subseteq A => B = A
<1>1. \A A \in T : IsFiniteSet(A) /\ Cardinality(A) \in Nat
  BY FS_Subset, FS_CardinalityType
<1>2. PICK sizes : sizes = {Cardinality(A) : A \in T}
  OBVIOUS
<1>3. sizes \in SUBSET Nat /\ sizes # {}
  BY <1>1, <1>2
<1>4. PICK n \in sizes : \A m \in sizes : n <= m
  BY <1>3, LeastNumber
<1>5. PICK A \in T : Cardinality(A) = n
  BY <1>2, <1>4
<1>6. ASSUME NEW B \in T, B \subseteq A PROVE B = A
  <2>1. Cardinality(A) <= Cardinality(B)
    BY <1>2, <1>4, <1>5
  <2>2. Cardinality(B) <= Cardinality(A) /\ (Cardinality(A) = Cardinality(B) => A = B)
    BY <1>1, <1>6, FS_Subset
  <2> QED BY <1>1, <2>1, <2>2
<1> QED BY <1>6

LEMMA FirstOfPairs ==
  ASSUME NEW pairs \in SUBSET (Nat \X Nat), pairs # {}
  PROVE  FirstOf(pairs) \in pairs
<1>1. PICK firsts : firsts = {x[1] : x \in pairs}
  OBVIOUS
<1>2. firsts \in SUBSET Nat /\ firsts # {}
  BY <1>1
<1>3. PICK i \in firsts : \A m \in firsts : i <= m
  BY <1>2, LeastNumber
<1>4. PICK seconds : seconds = {x[2] : x \in {z \in pairs : z[1] = i}}
  OBVIOUS
<1>5. seconds \in SUBSET Nat /\ seconds # {}
  BY <1>1, <1>3, <1>4
<1>6. PICK j \in seconds : \A m \in seconds : j <= m
  BY <1>5, LeastNumber
<1>7. PICK x \in pairs : x[1] = i /\ x[2] = j
  BY <1>4, <1>6
<1>8. ASSUME NEW y \in pairs PROVE x[1] < y[1] \/ (x[1] = y[1] /\ x[2] <= y[2])
  <2>1. i <= y[1] /\ i \in Nat /\ y[1] \in Nat
    BY <1>1, <1>2, <1>3
  <2>2. y[1] = i => j <= y[2]
    BY <1>4, <1>6
  <2> QED BY <1>7, <2>1, <2>2
<1> QED BY <1>8 DEF FirstOf

-----------------------------------------------------------------------------
(* The loop of ReconcileDepots. *)

(* One turn: the loser of the first conflict goes. *)
Survivors(A, lang, known) ==
  LET x == FirstOf(Conflicts(A)) IN A \ {Loser(x[1], x[2], A, lang, known)}

IsSettling(s, C, lang, known) ==
  s = [A \in SUBSET C |-> IF Conflicts(A) = {} THEN A ELSE s[Survivors(A, lang, known)]]

LEMMA SettledByAny ==
  ASSUME NEW C, NEW lang, NEW known, \E s : IsSettling(s, C, lang, known)
  PROVE  \E s : IsSettling(s, C, lang, known) /\ Settled(C, lang, known) = s[C]
<1>1. PICK t : t = CHOOSE s : IsSettling(s, C, lang, known)
  OBVIOUS
<1>2. IsSettling(t, C, lang, known)
  BY <1>1
<1>3. t = CHOOSE settle : settle = [active \in SUBSET C |->
            IF Conflicts(active) = {} THEN active
            ELSE settle[active \ {Loser(FirstOf(Conflicts(active))[1], FirstOf(Conflicts(active))[2], active, lang, known)}]]
  BY <1>1 DEF IsSettling, Survivors
<1>4. Settled(C, lang, known) = t[C]
  BY <1>3 DEF Settled
<1> QED BY <1>2, <1>4

LEMMA SurvivorsFewer ==
  ASSUME NEW A \in SUBSET Depot, NEW lang, NEW known, Conflicts(A) # {}
  PROVE  Survivors(A, lang, known) \subseteq A /\ Survivors(A, lang, known) # A
<1>1. Conflicts(A) \in SUBSET (Nat \X Nat)
  BY DepotsAssumption DEF Conflicts
<1>2. PICK x : x = FirstOf(Conflicts(A))
  OBVIOUS
<1>3. x \in Conflicts(A)
  BY <1>1, <1>2, FirstOfPairs
<1>4. x[1] \in A /\ x[2] \in A
  BY <1>3 DEF Conflicts
<1>5. PICK l : l = Loser(x[1], x[2], A, lang, known)
  OBVIOUS
<1>6. l \in {x[1], x[2]}
  BY <1>5 DEF Loser
<1>7. Survivors(A, lang, known) = A \ {l}
  BY <1>2, <1>5 DEF Survivors
<1> QED BY <1>4, <1>6, <1>7

(* The loop that drops one depot after another computes something: where it ends from A is what it reaches from A. *)
IsLoop(g, C, stop, n) == g = [A \in SUBSET C |-> IF A \in stop THEN A ELSE g[n[A]]]

LEMMA LoopExists ==
  ASSUME NEW C, NEW stop, NEW n \in [SUBSET C -> SUBSET C]
  PROVE  \E g : IsLoop(g, C, stop, n)
<1> DEFINE Closed(R) == \A X \in R : X \notin stop => n[X] \in R
           Reach(A) == {B \in SUBSET C : \A R \in SUBSET SUBSET C : A \in R /\ Closed(R) => B \in R}
           Ends(A) == {B \in Reach(A) : B \in stop}
           End(A) == CHOOSE B : B \in Ends(A)
<1>1. ASSUME NEW A \in SUBSET C, A \in stop PROVE Ends(A) = {A}
  <2>1. {A} \in SUBSET SUBSET C /\ Closed({A})
    BY <1>1
  <2>2. \A B \in Reach(A) : B \in {A}
    BY <2>1
  <2>3. A \in Reach(A)
    OBVIOUS
  <2> QED BY <1>1, <2>2, <2>3
<1>2. ASSUME NEW A \in SUBSET C, A \notin stop PROVE Ends(A) = Ends(n[A])
  <2>1. ASSUME NEW B \in Reach(n[A]) PROVE B \in Reach(A)
    <3>1. SUFFICES ASSUME NEW R \in SUBSET SUBSET C, A \in R, Closed(R) PROVE B \in R
      BY <2>1
    <3>2. n[A] \in R
      BY <1>2, <3>1
    <3> QED BY <2>1, <3>1, <3>2
  <2>2. ASSUME NEW B \in Reach(A), B # A PROVE B \in Reach(n[A])
    <3>1. SUFFICES ASSUME NEW R \in SUBSET SUBSET C, n[A] \in R, Closed(R) PROVE B \in R
      BY <2>2
    <3>2. PICK S \in SUBSET SUBSET C : S = R \cup {A}
      BY <3>1
    <3>3. A \in S /\ Closed(S)
      BY <1>2, <3>1, <3>2
    <3>4. B \in S
      BY <2>2, <3>3
    <3> QED BY <2>2, <3>2, <3>4
  <2> QED BY <1>2, <2>1, <2>2
<1>3. PICK g : g = [A \in SUBSET C |-> End(A)]
  OBVIOUS
<1>4. ASSUME NEW A \in SUBSET C PROVE g[A] = IF A \in stop THEN A ELSE g[n[A]]
  <2>1. CASE A \in stop
    <3>1. End(A) = A
      BY <1>1, <2>1
    <3> QED BY <1>3, <2>1, <3>1
  <2>2. CASE A \notin stop
    <3>1. n[A] \in SUBSET C /\ Ends(A) = Ends(n[A])
      BY <1>2, <2>2
    <3>2. End(A) = End(n[A])
      BY <3>1
    <3>3. g[A] = End(A) /\ g[n[A]] = End(n[A])
      BY <1>3, <3>1
    <3> QED BY <2>2, <3>2, <3>3
  <2> QED BY <2>1, <2>2
<1>5. g = [A \in SUBSET C |-> IF A \in stop THEN A ELSE g[n[A]]]
  <2>1. PICK G : G = [A \in SUBSET C |-> IF A \in stop THEN A ELSE g[n[A]]]
    OBVIOUS
  <2>2. \A A \in SUBSET C : G[A] = g[A]
    BY <1>4, <2>1
  <2>3. g = G
    BY <1>3, <2>1, <2>2
  <2> QED BY <2>1, <2>3
<1> QED BY <1>5 DEF IsLoop

LEMMA SettlingExists ==
  ASSUME NEW C \in SUBSET Depot, NEW lang, NEW known
  PROVE  \E s : IsSettling(s, C, lang, known)
<1>1. PICK stop : stop = {A \in SUBSET C : Conflicts(A) = {}}
  OBVIOUS
<1>2. PICK n : n = [A \in SUBSET C |-> IF A \in stop THEN A ELSE Survivors(A, lang, known)]
  OBVIOUS
<1>3. n \in [SUBSET C -> SUBSET C]
  <2>1. ASSUME NEW A \in SUBSET C, A \notin stop PROVE Survivors(A, lang, known) \in SUBSET C
    BY <1>1, <2>1, SurvivorsFewer
  <2> QED BY <1>2, <2>1
<1>4. PICK g : IsLoop(g, C, stop, n)
  BY <1>3, LoopExists
<1>4a. g = [A \in SUBSET C |-> IF A \in stop THEN A ELSE g[n[A]]]
  BY <1>4 DEF IsLoop
<1>5. PICK G : G = [A \in SUBSET C |-> IF Conflicts(A) = {} THEN A ELSE g[Survivors(A, lang, known)]]
  OBVIOUS
<1>6. \A A \in SUBSET C : G[A] = g[A]
  BY <1>1, <1>2, <1>4a, <1>5
<1>7. G = g
  BY <1>4a, <1>5, <1>6
<1>8. IsSettling(g, C, lang, known)
  BY <1>5, <1>7 DEF IsSettling
<1> QED BY <1>8

(* The loop drops depots, never adds one, and ends without a conflict. *)
LEMMA SettlingClean ==
  ASSUME NEW C \in SUBSET Depot, NEW lang, NEW known, NEW s, IsSettling(s, C, lang, known)
  PROVE  \A A \in SUBSET C : s[A] \subseteq A /\ Conflicts(s[A]) = {}
<1>1. PICK bad : bad = {A \in SUBSET C : ~(s[A] \subseteq A /\ Conflicts(s[A]) = {})}
  OBVIOUS
<1>2. SUFFICES ASSUME bad # {} PROVE FALSE
  BY <1>1
<1>3. IsFiniteSet(C) /\ bad \in SUBSET SUBSET C
  BY <1>1, DepotsAssumption, FS_Subset
<1>4. PICK A \in bad : \A B \in bad : B \subseteq A => B = A
  BY <1>2, <1>3, SmallestSet
<1>5. A \in SUBSET C /\ s[A] = (IF Conflicts(A) = {} THEN A ELSE s[Survivors(A, lang, known)])
  BY <1>1, <1>4 DEF IsSettling
<1>6. Conflicts(A) # {}
  BY <1>1, <1>4, <1>5
<1>7. PICK B : B = Survivors(A, lang, known)
  OBVIOUS
<1>8. B \subseteq A /\ B # A
  BY <1>5, <1>6, <1>7, SurvivorsFewer
<1>9. B \in SUBSET C /\ B \notin bad /\ s[A] = s[B]
  BY <1>4, <1>5, <1>6, <1>7, <1>8
<1>10. s[B] \subseteq B /\ Conflicts(s[B]) = {}
  BY <1>1, <1>9
<1> QED BY <1>1, <1>4, <1>8, <1>9, <1>10

(* ReconcileDepots returns some of the candidates, and no two of them disagree about a file. *)
LEMMA SettledClean ==
  ASSUME NEW C \in SUBSET Depot, NEW lang, NEW known
  PROVE  Settled(C, lang, known) \subseteq C /\ Conflicts(Settled(C, lang, known)) = {}
<1>1. PICK s : IsSettling(s, C, lang, known) /\ Settled(C, lang, known) = s[C]
  BY SettlingExists, SettledByAny
<1>2. PICK t : t = s[C]
  OBVIOUS
<1>3. \A A \in SUBSET C : s[A] \subseteq A /\ Conflicts(s[A]) = {}
  BY <1>1, SettlingClean
<1>4. t \subseteq C /\ Conflicts(t) = {}
  BY <1>2, <1>3
<1> QED BY <1>1, <1>2, <1>4

LEMMA SelectedClean ==
  ASSUME NEW f \in Filters
  PROVE  Selected[f] \in SUBSET Depot /\ Conflicts(Selected[f]) = {}
<1>1. PICK C : C = Candidates(f)
  OBVIOUS
<1>2. C \in SUBSET Depot
  BY <1>1 DEF Candidates
<1>3. Selected[f] = Settled(C, TargetLanguage(f), f.meta)
  BY <1>1 DEF Selected, SelectedBy, ReconcileDepots
<1> QED BY <1>2, <1>3, SettledClean

-----------------------------------------------------------------------------
(* The merged list of files. *)

(* What may stand at a path. *)
Marks == {"none", "cut", "rot", "emu"}
Contents == Marks \cup UNION {{FilesOf(d)[p] : p \in PathsOf(d)} : d \in Depot}

(* The merged list takes every file of every depot, each from one of the depots that have it. *)
LEMMA MergedFrom ==
  ASSUME NEW depots \in SUBSET Depot
  PROVE  /\ DOMAIN Merged(depots) = UNION {PathsOf(d) : d \in depots}
         /\ \A p \in DOMAIN Merged(depots) : \E d \in depots : p \in PathsOf(d) /\ Merged(depots)[p] = FilesOf(d)[p]
<1>1. DOMAIN Merged(depots) = UNION {PathsOf(d) : d \in depots}
  BY DEF Merged
<1>2. ASSUME NEW p \in DOMAIN Merged(depots)
      PROVE  \E d \in depots : p \in PathsOf(d) /\ Merged(depots)[p] = FilesOf(d)[p]
  <2>1. PICK T : T = {d \in depots : p \in PathsOf(d)}
    OBVIOUS
  <2>2. T # {} /\ T \in SUBSET Nat
    BY <1>1, <1>2, <2>1, DepotsAssumption
  <2>3. PICK x \in T : \A y \in T : x <= y
    BY <2>2, LeastNumber
  <2>4. Min(T) \in T
    BY <2>3 DEF Min
  <2> QED BY <1>1, <1>2, <2>1, <2>4 DEF Merged
<1> QED BY <1>1, <1>2

LEMMA MergedFiles ==
  ASSUME NEW depots \in SUBSET Depot
  PROVE  /\ DOMAIN Merged(depots) \subseteq Paths
         /\ \A p \in DOMAIN Merged(depots) : Merged(depots)[p] \in Contents \ Marks
<1>1. \A d \in Depot : PathsOf(d) \subseteq Paths
  BY DepotsAssumption DEF DepotRecord, PathsOf, FilesOf
<1>2. ASSUME NEW p \in DOMAIN Merged(depots) PROVE Merged(depots)[p] \in Contents \ Marks
  <2>1. PICK d \in depots : p \in PathsOf(d) /\ Merged(depots)[p] = FilesOf(d)[p]
    BY <1>2, MergedFrom
  <2>2. FilesOf(d)[p] \notin Marks
    BY <2>1, DepotsAssumption DEF DepotRecord, PathsOf, FilesOf, Marks
  <2>3. FilesOf(d)[p] \in {FilesOf(d)[q] : q \in PathsOf(d)}
    BY <2>1
  <2>4. FilesOf(d)[p] \in Contents
    BY <2>3 DEF Contents
  <2> QED BY <2>1, <2>2, <2>4
<1> QED BY <1>1, <1>2, MergedFrom

(* Without conflicts it does not matter whose file is taken. *)
LEMMA MergedAgrees ==
  ASSUME NEW depots \in SUBSET Depot, Conflicts(depots) = {}, NEW d \in depots, NEW p \in PathsOf(d)
  PROVE  p \in DOMAIN Merged(depots) /\ Merged(depots)[p] = FilesOf(d)[p]
<1>1. p \in DOMAIN Merged(depots)
  <2>1. p \in UNION {PathsOf(x) : x \in depots}
    OBVIOUS
  <2> QED BY <2>1, MergedFrom
<1>2. PICK m \in depots : p \in PathsOf(m) /\ Merged(depots)[p] = FilesOf(m)[p]
  BY <1>1, MergedFrom
<1>3. m \in Nat /\ d \in Nat
  BY DepotsAssumption
<1>4. ASSUME FilesOf(m)[p] # FilesOf(d)[p] PROVE FALSE
  <2>1. hasConflict(m, d) /\ hasConflict(d, m)
    BY <1>2, <1>4 DEF hasConflict
  <2>2. m < d \/ d < m
    BY <1>3, <1>4
  <2>3. CASE m < d
    <3>1. <<m, d>> \in Conflicts(depots)
      BY <2>1, <2>3 DEF Conflicts
    <3> QED BY <3>1
  <2>4. CASE d < m
    <3>1. <<d, m>> \in Conflicts(depots)
      BY <2>1, <2>4 DEF Conflicts
    <3> QED BY <3>1
  <2> QED BY <2>2, <2>3, <2>4
<1> QED BY <1>1, <1>2, <1>4

LEMMA SelectedFiles ==
  ASSUME NEW f \in Filters
  PROVE  /\ DOMAIN FilesFor[f] \subseteq Paths
         /\ \A p \in DOMAIN FilesFor[f] : FilesFor[f][p] \in Contents \ Marks
         /\ \A d \in Selected[f] : \A p \in PathsOf(d) : p \in DOMAIN FilesFor[f] /\ FilesFor[f][p] = FilesOf(d)[p]
<1>1. FilesFor[f] = Merged(Selected[f])
  BY DEF FilesFor
<1>2. PICK S : S = Selected[f]
  OBVIOUS
<1>3. S \in SUBSET Depot /\ Conflicts(S) = {}
  BY <1>2, SelectedClean
<1>4. DOMAIN Merged(S) \subseteq Paths /\ \A p \in DOMAIN Merged(S) : Merged(S)[p] \in Contents \ Marks
  BY <1>3, MergedFiles
<1>5. \A d \in S : \A p \in PathsOf(d) : p \in DOMAIN Merged(S) /\ Merged(S)[p] = FilesOf(d)[p]
  BY <1>3, MergedAgrees
<1> QED BY <1>1, <1>2, <1>4, <1>5

-----------------------------------------------------------------------------
(* Downloads. *)

(* The files of the last download stand as they were asked for until something else is done. *)
WholeInv ==
  /\ depDone \in Requests
  /\ depOp[1] = "download" => \A p \in DOMAIN FilesFor[depDone] : depDisk[p] = FilesFor[depDone][p]

(* After DownloadGame every selected depot is complete, whichever filter asked: ReconcileDepots leaves no two depots  *)
(* that give a path different contents, so the merged list that is downloaded agrees with each of them.               *)
THEOREM SelectionComplete == DepotsSpec => []SelectionWhole
<1>1. DepotsInit => WholeInv
  BY DEF DepotsInit, WholeInv
<1>2. ASSUME WholeInv, [DepotsNext]_depVars PROVE WholeInv'
  <2>1. CASE UNCHANGED depVars
    BY <1>2, <2>1 DEF WholeInv, depVars
  <2>2. ASSUME NEW f \in Requests, DownloadGame(f) PROVE WholeInv'
    <3>1. f \in Filters
      BY DEF Filters
    <3>2. PICK files : files = FilesFor[f]
      OBVIOUS
    <3>3. DOMAIN files \subseteq Paths
      BY <3>1, <3>2, SelectedFiles
    <3>4. depDisk' = [p \in Paths |-> IF p \in DOMAIN files THEN files[p] ELSE depDisk[p]] /\ depDone' = f
      BY <2>2, <3>2 DEF DownloadGame
    <3> QED BY <2>2, <3>2, <3>3, <3>4 DEF WholeInv
  <2>3. ASSUME NEW d \in Depot, UninstallDepot_(d) PROVE WholeInv'
    BY <1>2, <2>3 DEF WholeInv, UninstallDepot_
  <2>4. ASSUME NEW p \in EmuPaths, ApplyEmulator(p) PROVE WholeInv'
    BY <1>2, <2>4 DEF WholeInv, ApplyEmulator
  <2>5. ASSUME NEW p \in Paths, NEW how \in {"none", "cut", "rot"}, Damage(p, how) PROVE WholeInv'
    BY <1>2, <2>5 DEF WholeInv, Damage
  <2> QED BY <1>2, <2>1, <2>2, <2>3, <2>4, <2>5 DEF DepotsNext
<1>3. ASSUME WholeInv PROVE SelectionWhole
  <2>1. depDone \in Filters
    BY <1>3 DEF WholeInv, Filters
  <2> QED BY <1>3, <2>1, SelectedFiles DEF WholeInv, SelectionWhole
<1> QED BY <1>1, <1>2, <1>3, PTL DEF DepotsSpec

-----------------------------------------------------------------------------
(* Verification. *)

(* Whether a file of the last download has its content, or has been damaged or replaced. *)
FileState(p, content) ==
  /\ p \notin damaged => depDisk[p] = content \/ (depDisk[p] = "emu" /\ p \in depKept)
  /\ p \in damaged => depDisk[p] \in {"none", "cut", "rot"} \/ (depDisk[p] = "emu" /\ p \in depKept)

VerifyInv ==
  /\ depDone \in Requests
  /\ depDisk \in [Paths -> Contents]
  /\ \A p \in DOMAIN FilesFor[depDone] : FileState(p, FilesFor[depDone][p])

LEMMA VerifyInvInit == DepotsInit => VerifyInv
<1> SUFFICES ASSUME DepotsInit PROVE VerifyInv
  OBVIOUS
<1>1. depDone \in Requests /\ depDone \in Filters /\ damaged = {}
  BY DEF DepotsInit, Filters
<1>2. PICK files : files = FilesFor[depDone]
  OBVIOUS
<1>3. DOMAIN files \subseteq Paths /\ \A p \in DOMAIN files : files[p] \in Contents \ Marks
  BY <1>1, <1>2, SelectedFiles
<1>4. depDisk = [p \in Paths |-> IF p \in DOMAIN files THEN files[p] ELSE "none"]
  BY <1>2 DEF DepotsInit
<1>5. "none" \in Contents
  BY DEF Contents, Marks
<1>6. depDisk \in [Paths -> Contents]
  BY <1>3, <1>4, <1>5
<1>7. \A p \in DOMAIN files : FileState(p, files[p])
  BY <1>1, <1>3, <1>4 DEF FileState
<1> QED BY <1>1, <1>2, <1>6, <1>7 DEF VerifyInv

LEMMA VerifyInvStep == VerifyInv /\ [DepotsNext]_depVars => VerifyInv'
<1> SUFFICES ASSUME VerifyInv, [DepotsNext]_depVars PROVE VerifyInv'
  OBVIOUS
<1>0. {"none", "cut", "rot", "emu"} \subseteq Contents /\ depDone \in Filters
  BY DEF Contents, Marks, VerifyInv, Filters
<1>1. PICK files : files = FilesFor[depDone]
  OBVIOUS
<1>2. DOMAIN files \subseteq Paths /\ \A p \in DOMAIN files : files[p] \notin Marks
  BY <1>0, <1>1, SelectedFiles
<1>3. depDone \in Requests /\ depDisk \in [Paths -> Contents] /\ \A p \in DOMAIN files : FileState(p, files[p])
  BY <1>1 DEF VerifyInv
<1>4. ASSUME depDone' = depDone, depDisk' \in [Paths -> Contents], \A p \in DOMAIN files : FileState(p, files[p])'
      PROVE  VerifyInv'
  BY <1>1, <1>3, <1>4 DEF VerifyInv
<1>5. CASE UNCHANGED depVars
  BY <1>3, <1>4, <1>5 DEF depVars, FileState
<1>6. ASSUME NEW f \in Requests, DownloadGame(f) PROVE VerifyInv'
  <2>1. f \in Filters
    BY DEF Filters
  <2>2. PICK new : new = FilesFor[f]
    OBVIOUS
  <2>3. DOMAIN new \subseteq Paths /\ \A p \in DOMAIN new : new[p] \in Contents
    BY <2>1, <2>2, SelectedFiles
  <2>4. /\ depDisk' = [p \in Paths |-> IF p \in DOMAIN new THEN new[p] ELSE depDisk[p]]
        /\ damaged' = {p \in damaged : p \notin DOMAIN new}
        /\ depDone' = f
    BY <1>6, <2>2 DEF DownloadGame
  <2>5. depDisk' \in [Paths -> Contents]
    BY <1>3, <2>3, <2>4
  <2>6. \A p \in DOMAIN new : FileState(p, new[p])'
    BY <2>3, <2>4 DEF FileState
  <2> QED BY <2>2, <2>4, <2>5, <2>6 DEF VerifyInv
<1>7. ASSUME NEW d \in Depot, UninstallDepot_(d) PROVE VerifyInv'
  <2>1. PICK gone : gone = PathsOf(d) \ ProtectedPaths(d)
    OBVIOUS
  <2>2. /\ depDisk' = [p \in Paths |-> IF p \in gone THEN "none" ELSE depDisk[p]]
        /\ damaged' = damaged \cup {p \in gone : depDisk[p] # "none"}
        /\ depDone' = depDone /\ depKept' = depKept
    BY <1>7, <2>1 DEF UninstallDepot_
  <2>3. depDisk' \in [Paths -> Contents]
    BY <1>0, <1>3, <2>2
  <2>4. ASSUME NEW p \in DOMAIN files PROVE FileState(p, files[p])'
    <3>1. p \in Paths /\ files[p] # "none" /\ FileState(p, files[p])
      BY <1>2, <1>3 DEF Marks
    <3>2. CASE p \in gone
      BY <2>2, <3>1, <3>2 DEF FileState
    <3>3. CASE p \notin gone
      BY <2>2, <3>1, <3>3 DEF FileState
    <3> QED BY <3>2, <3>3
  <2> QED BY <1>4, <2>2, <2>3, <2>4
<1>8. ASSUME NEW q \in EmuPaths, ApplyEmulator(q) PROVE VerifyInv'
  <2>1. q \in Paths
    BY DepotsAssumption
  <2>2. /\ depDisk' = [depDisk EXCEPT ![q] = "emu"]
        /\ depKept' = depKept \cup {q} /\ damaged' = damaged /\ depDone' = depDone
    BY <1>8 DEF ApplyEmulator
  <2>3. depDisk' \in [Paths -> Contents]
    BY <1>0, <1>3, <2>2
  <2>4. \A p \in DOMAIN files : FileState(p, files[p])'
    BY <1>2, <1>3, <2>1, <2>2 DEF FileState
  <2> QED BY <1>4, <2>2, <2>3, <2>4
<1>9. ASSUME NEW q \in Paths, NEW how \in {"none", "cut", "rot"}, Damage(q, how) PROVE VerifyInv'
  <2>1. /\ depDisk' = [depDisk EXCEPT ![q] = how]
        /\ damaged' = damaged \cup {q} /\ depKept' = depKept /\ depDone' = depDone
    BY <1>9 DEF Damage
  <2>2. depDisk' \in [Paths -> Contents]
    BY <1>0, <1>3, <2>1
  <2>3. \A p \in DOMAIN files : FileState(p, files[p])'
    BY <1>2, <1>3, <2>1 DEF FileState
  <2> QED BY <1>4, <2>1, <2>2, <2>3
<1> QED BY <1>5, <1>6, <1>7, <1>8, <1>9 DEF DepotsNext

(* In English, and where the platform has something to select, a verification looks at the depots that a plain        *)
(* download selects: no filter on the language and a filter on the default language include the same depots.          *)
LEMMA VerifiesTheDownload ==
  ASSUME SystemLanguage = "english", NEW platform, Candidates(VerifyFilter(platform)) # {}
  PROVE  SelectedBy(PlainFilter(platform)) = SelectedBy(VerifyFilter(platform))
<1>1. PICK f, g : f = PlainFilter(platform) /\ g = VerifyFilter(platform)
  OBVIOUS
<1>2. /\ f.language = "english" /\ g.language = "" /\ f.platform = g.platform /\ f.included = g.included
      /\ f.excluded = g.excluded /\ f.optional = g.optional /\ f.meta = g.meta
  BY <1>1 DEF PlainFilter, VerifyFilter
<1>3. ASSUME NEW d \in Depot PROVE ShouldIncludeDepot(d, f) <=> ShouldIncludeDepot(d, g)
  <2>1. RightArch(d, f) <=> RightArch(d, g)
    BY <1>2 DEF RightArch
  <2> QED BY <1>2, <2>1 DEF ShouldIncludeDepot
<1>4. PICK S : S = {d \in Depot : ShouldIncludeDepot(d, g)}
  OBVIOUS
<1>5. S = {d \in Depot : ShouldIncludeDepot(d, f)}
  BY <1>3, <1>4
<1>6. Candidates(g) = S
  BY <1>2, <1>4 DEF Candidates
<1>7. S # {}
  BY <1>1, <1>6
<1>8. Candidates(f) = S
  BY <1>5, <1>7 DEF Candidates
<1>9. TargetLanguage(f) = "english" /\ TargetLanguage(g) = "english"
  BY <1>2 DEF TargetLanguage
<1> QED BY <1>1, <1>2, <1>6, <1>8, <1>9 DEF SelectedBy, ReconcileDepots

(* ScanDepotIntegrity reports exactly the files that were damaged or uninstalled since a plain download, apart from    *)
(* libraries whose original the emulator keeps and shared objects that are gone. The hypotheses are those of the code: *)
(* a verification passes no language, which counts as English, and does not fall back on other languages when a        *)
(* platform has no depot left.                                                                                         *)
THEOREM VerificationExact ==
  ASSUME SystemLanguage = "english", \A platform \in {"win64", "linux"} : Candidates(VerifyFilter(platform)) # {}
  PROVE  DepotsSpec => []VerifyExact
<1>1. ASSUME VerifyInv PROVE VerifyExact
  <2>1. SUFFICES ASSUME NEW platform \in {"win64", "linux"}, depDone = PlainFilter(platform)
                 PROVE  ModifiedFiles(platform) \cup MissingFiles(platform)
                          = {p \in damaged \cap DOMAIN Official(platform) :
                               IF depDisk[p] = "none" THEN Kind[p] # "lib" ELSE p \notin depKept}
    BY DEF VerifyExact
  <2>2. PICK f, g : f = PlainFilter(platform) /\ g = VerifyFilter(platform)
    OBVIOUS
  <2>3. f \in Filters /\ g \in Filters /\ f = depDone
    BY <1>1, <2>1, <2>2 DEF VerifyInv, Filters
  <2>4. SelectedBy(f) = SelectedBy(g)
    BY <2>2, VerifiesTheDownload
  <2>5. FilesFor[f] = FilesFor[g]
    BY <2>3, <2>4 DEF FilesFor, Selected
  <2>6. PICK files : files = FilesFor[depDone]
    OBVIOUS
  <2>7. Official(platform) = files
    BY <2>2, <2>3, <2>5, <2>6 DEF Official
  <2>8. \A p \in DOMAIN files : FileState(p, files[p]) /\ files[p] \notin Marks
    BY <1>1, <2>3, <2>6, SelectedFiles DEF VerifyInv
  <2>9. \A p \in DOMAIN files :
          p \in ModifiedFiles(platform) \cup MissingFiles(platform)
            <=> p \in damaged /\ (IF depDisk[p] = "none" THEN Kind[p] # "lib" ELSE p \notin depKept)
    BY <2>7, <2>8 DEF ModifiedFiles, MissingFiles, FileState, Marks
  <2>10. ModifiedFiles(platform) \cup MissingFiles(platform) \subseteq DOMAIN files
    BY <2>7 DEF ModifiedFiles, MissingFiles
  <2> QED BY <2>7, <2>9, <2>10
<1> QED BY <1>1, VerifyInvInit, VerifyInvStep, PTL DEF DepotsSpec
-----------------------------------------------------------------------------
(* The executable the user chose. *)

Shaped(t) == TreeShape(t) /\ ProfileShape(t.prof)

(* t is a directory whose profile names e. *)
Names(t, e) == Shaped(t) /\ t.prof.exe = e

LEMMA LoadKeeps ==
  ASSUME NEW t, Shaped(t)
  PROVE  /\ ProfileShape(LoadedProfile(t))
         /\ t.prof.exe # NoExe => LoadedProfile(t).exe = t.prof.exe
<1>1. PICK p : p = t.prof
  OBVIOUS
<1>2. ProfileShape(p)
  BY <1>1 DEF Shaped
<1>3. PICK a, e : LoadedProfile(t) = [p EXCEPT !.app = a, !.exe = e] /\ (p.exe # NoExe => e = p.exe)
  <2>1. LoadedProfile(t) = [p EXCEPT !.app = IF p.app = NoApp THEN t.txt ELSE p.app,
                                     !.exe = IF p.exe = NoExe THEN t.ini ELSE p.exe]
    BY <1>1 DEF LoadedProfile, hydrateFallbacks
  <2> QED BY <2>1
<1>4. LoadedProfile(t).exe = e /\ ProfileShape(LoadedProfile(t))
  BY <1>2, <1>3 DEF ProfileShape
<1> QED BY <1>1, <1>3, <1>4

LEMMA DirectKeeps ==
  ASSUME NEW t, Shaped(t), NEW p, ProfileShape(p)
  PROVE  Names(SavedDirect(t, p), p.exe)
<1>1. PICK q : q = [p EXCEPT !.file = TRUE]
  OBVIOUS
<1>2. ProfileShape(q) /\ q.exe = p.exe
  BY <1>1 DEF ProfileShape
<1>3. PICK u : u = [t EXCEPT !.prof = q]
  OBVIOUS
<1>4. TreeShape(u) /\ u.prof = q
  BY <1>3 DEF Shaped, TreeShape
<1>5. SavedDirect(t, p) = u
  BY <1>1, <1>3 DEF SavedDirect
<1> QED BY <1>2, <1>4, <1>5 DEF Names, Shaped

LEMMA SavedKeeps ==
  ASSUME NEW t, Shaped(t), NEW p, ProfileShape(p)
  PROVE  Names(Saved(t, p), p.exe)
<1>1. PICK q : q = MergeMetadataAndStatsFrom(p, t.prof)
  OBVIOUS
<1>2. ProfileShape(q) /\ q.exe = p.exe
  BY <1>1 DEF MergeMetadataAndStatsFrom, ProfileShape
<1> QED BY <1>1, <1>2, DirectKeeps DEF Saved

LEMMA SyncKeeps ==
  ASSUME NEW t, Shaped(t), NEW p, ProfileShape(p)
  PROVE  Names(SyncSettings(t, p), p.exe)
<1>1. PICK u : u = Saved(t, p)
  OBVIOUS
<1>2. Names(u, p.exe)
  BY <1>1, SavedKeeps
<1>3. SyncSettings(t, p) = [u EXCEPT !.txt = IF p.app = NoApp THEN @ ELSE p.app]
  BY <1>1 DEF SyncSettings
<1> QED BY <1>2, <1>3 DEF Names, Shaped, TreeShape, ProfileShape

LEMMA NormalizedKeeps ==
  ASSUME NEW t, Shaped(t)
  PROVE  /\ Shaped(Normalized(t))
         /\ t.prof.exe # NoExe => Normalized(t).prof.exe = t.prof.exe
<1>1. PICK u : u = [t EXCEPT !.folder = "title"]
  OBVIOUS
<1>2. Shaped(u)
  BY <1>1 DEF Shaped, TreeShape, ProfileShape
<1>3. PICK p : p = LoadedProfile(t)
  OBVIOUS
<1>4. ProfileShape(p) /\ (t.prof.exe # NoExe => p.exe = t.prof.exe)
  BY <1>3, LoadKeeps
<1>5. Names(Saved(u, p), p.exe)
  BY <1>2, <1>4, SavedKeeps
<1>6. Normalized(t) = Saved(u, p)
  BY <1>1, <1>3 DEF Normalized
<1> QED BY <1>4, <1>5, <1>6 DEF Names

LEMMA EmulatedKeeps ==
  ASSUME NEW t, Shaped(t), NEW game, ProfileShape(game.profile), NEW portable
  PROVE  Names(Emulated(t, game, portable), game.profile.exe)
<1>1. PICK p : p = game.profile
  OBVIOUS
<1>2. PICK s : s = SyncSettings(t, p)
  OBVIOUS
<1>3. Names(s, p.exe) /\ Names(SavedDirect(t, p), p.exe)
  BY <1>1, <1>2, SyncKeeps, DirectKeeps
<1>4. PICK u : u = [s EXCEPT !.txt = IF p.app = NoApp THEN game.app ELSE p.app, !.ini = IF portable THEN NoExe ELSE @]
  OBVIOUS
<1>5. Names(u, p.exe)
  BY <1>3, <1>4 DEF Names, Shaped, TreeShape, ProfileShape
<1>6. Emulated(t, game, portable) = IF game.app = NoApp THEN SavedDirect(t, p) ELSE u
  BY <1>1, <1>2, <1>4 DEF Emulated
<1> QED BY <1>1, <1>3, <1>5, <1>6

LEMMA SetupKeeps ==
  ASSUME NEW t, Shaped(t), NEW known, NEW normalize, NEW portable
  PROVE  /\ Shaped(Setup(t, known, normalize, portable))
         /\ t.prof.exe # NoExe => Setup(t, known, normalize, portable).prof.exe = t.prof.exe
<1>1. PICK game : game = Inspect(t, known)
  OBVIOUS
<1>2. game.profile = LoadedProfile(t)
  BY <1>1 DEF Inspect
<1>3. ProfileShape(game.profile) /\ (t.prof.exe # NoExe => game.profile.exe = t.prof.exe)
  BY <1>2, LoadKeeps
<1>4. PICK with : with = Synthesized(t, game)
  OBVIOUS
<1>5. Shaped(with) /\ with.prof = t.prof
  <2>1. PICK more : with = t \/ with = [t EXCEPT !.acfs = more]
    BY <1>4 DEF Synthesized
  <2> QED BY <2>1 DEF Shaped, TreeShape, ProfileShape
<1>6. PICK n, e : n = Normalized(with) /\ e = Emulated(with, game, portable)
  OBVIOUS
<1>7. Shaped(n) /\ (t.prof.exe # NoExe => n.prof.exe = t.prof.exe)
  BY <1>5, <1>6, NormalizedKeeps
<1>8. Shaped(e) /\ e.prof.exe = game.profile.exe
  BY <1>3, <1>5, <1>6, EmulatedKeeps DEF Names
<1>9. Setup(t, known, normalize, portable) \in {n, e}
  BY <1>1, <1>4, <1>6 DEF Setup
<1> QED BY <1>3, <1>7, <1>8, <1>9

(* The choice is in the profile, and in the copy of it that a game's exit holds. *)
ChoiceInv ==
  /\ Shaped(tree) /\ ProfileShape(exiting)
  /\ chosen # NoExe => tree.prof.exe = chosen /\ (exiting # NoProfile => exiting.exe = chosen)

(* The executable the user chose stays the one that is launched: whatever setup, rename, link, unlink or playtime      *)
(* update writes launch_profile.json writes it back, as long as no exit of the game overlaps the user's operations.    *)
(* The candidates that the detector finds, and how it ranks them, do not matter.                                       *)
THEOREM ChoiceStays ==
  ASSUME ~ExitsOverlap
  PROVE  DetectionSpec => []ChoiceKept
<1>1. DetectionInit => ChoiceInv
  BY DetectionAssumption DEF DetectionInit, ChoiceInv, Shaped, ProfileShape, NoProfile
<1>2. ASSUME ChoiceInv, [DetectionNext]_dtVars PROVE ChoiceInv'
  <2>0. /\ Shaped(tree) /\ ProfileShape(exiting)
        /\ chosen # NoExe => tree.prof.exe = chosen /\ (exiting # NoProfile => exiting.exe = chosen)
    BY <1>2 DEF ChoiceInv
  <2>1. PICK p : p = LoadedProfile(tree)
    OBVIOUS
  <2>2. ProfileShape(p) /\ (chosen # NoExe => p.exe = chosen)
    BY <2>0, <2>1, LoadKeeps
  <2>3. ASSUME Free PROVE exiting = NoProfile
    BY <2>3 DEF Free
  <2>4. ASSUME Free, exiting' = exiting, Shaped(tree'), chosen' # NoExe => tree'.prof.exe = chosen' PROVE ChoiceInv'
    BY <2>0, <2>3, <2>4 DEF ChoiceInv
  <2>5. CASE UNCHANGED dtVars
    BY <2>0, <2>5 DEF dtVars, ChoiceInv
  <2>6. ASSUME NEW normalize \in BOOLEAN, NEW portable \in BOOLEAN, ApplySetup(normalize, portable) PROVE ChoiceInv'
    <3>1. Free /\ exiting' = exiting /\ chosen' = chosen /\ tree' = Setup(tree, reach, normalize, portable)
      BY <2>6 DEF ApplySetup
    <3>2. Shaped(tree') /\ (tree.prof.exe # NoExe => tree'.prof.exe = tree.prof.exe)
      BY <2>0, <3>1, SetupKeeps
    <3> QED BY <2>0, <2>4, <3>1, <3>2
  <2>7. CASE NormalizeOnly
    <3>1. Free /\ exiting' = exiting /\ chosen' = chosen /\ tree' = Normalized(tree)
      BY <2>7 DEF NormalizeOnly
    <3>2. Shaped(tree') /\ (tree.prof.exe # NoExe => tree'.prof.exe = tree.prof.exe)
      BY <2>0, <3>1, NormalizedKeeps
    <3> QED BY <2>0, <2>4, <3>1, <3>2
  <2>8. CASE RevertEmulator
    <3>1. Free /\ exiting' = exiting /\ chosen' = chosen /\ tree' = [tree EXCEPT !.txt = NoApp, !.ini = NoExe]
      BY <2>8 DEF RevertEmulator
    <3>2. Shaped(tree') /\ tree'.prof.exe = tree.prof.exe
      BY <2>0, <3>1 DEF Shaped, TreeShape, ProfileShape
    <3> QED BY <2>0, <2>4, <3>1, <3>2
  <2>9. ASSUME NEW a \in AppIDs, LinkGameMetadata(a) PROVE ChoiceInv'
    <3>1. PICK q : q = [p EXCEPT !.app = a, !.store = a, !.meta = a]
      OBVIOUS
    <3>2. ProfileShape(q) /\ q.exe = p.exe
      BY <2>2, <3>1 DEF ProfileShape
    <3>3. Free /\ exiting' = exiting /\ chosen' = chosen /\ tree' = SyncSettings(tree, q)
      BY <2>1, <2>9, <3>1 DEF LinkGameMetadata
    <3>4. Shaped(tree') /\ tree'.prof.exe = q.exe
      BY <2>0, <3>2, <3>3, SyncKeeps DEF Names
    <3> QED BY <2>2, <2>4, <3>2, <3>3, <3>4
  <2>10. CASE UnlinkMetadata
    <3>1. PICK q : q = [p EXCEPT !.store = NoApp, !.meta = NoApp]
      OBVIOUS
    <3>2. ProfileShape(q) /\ q.exe = p.exe
      BY <2>2, <3>1 DEF ProfileShape
    <3>3. Free /\ exiting' = exiting /\ chosen' = chosen /\ tree' = SavedDirect(tree, q)
      BY <2>1, <2>10, <3>1 DEF UnlinkMetadata
    <3>4. Shaped(tree') /\ tree'.prof.exe = q.exe
      BY <2>0, <3>2, <3>3, DirectKeeps DEF Names
    <3> QED BY <2>2, <2>4, <3>2, <3>3, <3>4
  <2>11. ASSUME NEW e \in ExeNames, SaveLaunchProfile(e) PROVE ChoiceInv'
    <3>1. PICK q : q = [p EXCEPT !.exe = e]
      OBVIOUS
    <3>2. ProfileShape(q) /\ q.exe = e
      BY <2>2, <3>1 DEF ProfileShape
    <3>3. Free /\ exiting' = exiting /\ chosen' = e /\ tree' = SyncSettings(tree, q)
      BY <2>1, <2>11, <3>1 DEF SaveLaunchProfile
    <3>4. Shaped(tree') /\ tree'.prof.exe = q.exe
      BY <2>0, <3>2, <3>3, SyncKeeps DEF Names
    <3> QED BY <2>4, <3>2, <3>3, <3>4
  <2>12. CASE ResetLaunchProfile
    <3>1. PICK t : t = [tree EXCEPT !.prof = NoProfile]
      OBVIOUS
    <3>2. Shaped(t)
      BY <2>0, <3>1 DEF Shaped, TreeShape, ProfileShape, NoProfile
    <3>3. Free /\ exiting' = exiting /\ chosen' = NoExe /\ tree' = Setup(t, reach, FALSE, FALSE)
      BY <2>12, <3>1 DEF ResetLaunchProfile
    <3>4. Shaped(tree')
      BY <3>2, <3>3, SetupKeeps
    <3> QED BY <2>4, <3>3, <3>4
  <2>13. CASE IncrementPlaytimeLoad
    <3>1. exiting' = [p EXCEPT !.file = TRUE] /\ tree' = tree /\ chosen' = chosen
      BY <2>1, <2>13 DEF IncrementPlaytimeLoad
    <3>2. ProfileShape(exiting') /\ exiting'.exe = p.exe
      BY <2>2, <3>1 DEF ProfileShape
    <3> QED BY <2>0, <2>2, <3>1, <3>2 DEF ChoiceInv
  <2>14. CASE IncrementPlaytimeSave
    <3>1. exiting # NoProfile /\ exiting' = NoProfile /\ chosen' = chosen /\ tree' = Saved(tree, exiting)
      BY <2>14 DEF IncrementPlaytimeSave
    <3>2. Shaped(tree') /\ tree'.prof.exe = exiting.exe
      BY <2>0, <3>1, SavedKeeps DEF Names
    <3>3. ProfileShape(exiting')
      BY <3>1 DEF ProfileShape, NoProfile
    <3> QED BY <2>0, <3>1, <3>2, <3>3 DEF ChoiceInv
  <2>15. ASSUME NEW e \in ExeNames, ChangeBinary(e) PROVE ChoiceInv'
    <3>1. PICK more : tree' = [tree EXCEPT !.exes = more]
      BY <2>15 DEF ChangeBinary
    <3>2. Shaped(tree') /\ tree'.prof = tree.prof
      BY <2>0, <3>1 DEF Shaped, TreeShape, ProfileShape
    <3> QED BY <2>0, <2>15, <3>2 DEF ChangeBinary, ChoiceInv
  <2>16. ASSUME NEW a \in AppIDs, ChangeReach(a) PROVE ChoiceInv'
    BY <2>0, <2>16 DEF ChangeReach, ChoiceInv
  <2> QED BY <1>2, <2>5, <2>6, <2>7, <2>8, <2>9, <2>10, <2>11, <2>12, <2>13, <2>14, <2>15, <2>16 DEF DetectionNext
<1>3. ASSUME ChoiceInv PROVE ChoiceKept
  <2>1. SUFFICES ASSUME chosen # NoExe PROVE Inspect(tree, reach).effective = chosen
    BY DEF ChoiceKept
  <2>2. PICK p : p = LoadedProfile(tree)
    OBVIOUS
  <2>3. p.exe = chosen
    BY <1>3, <2>1, <2>2, LoadKeeps DEF ChoiceInv
  <2>4. PICK detected, candidates : Inspect(tree, reach).effective = EffectiveExePath(p, detected, candidates)
    BY <2>2 DEF Inspect
  <2> QED BY <2>1, <2>3, <2>4 DEF EffectiveExePath
<1> QED BY <1>1, <1>2, <1>3, PTL DEF DetectionSpec

-----------------------------------------------------------------------------
(* The app a directory holds. *)

AppNames == AppIDs \cup {NoApp}

(* What ApplyProfile puts above everything else, in a profile that is a file. *)
Own(p) == IF p.store # NoApp THEN p.store ELSE p.app

(* The AppID that Inspect returns. *)
AppOf(t) == ApplyProfile(ResolveAppID(t), LoadedProfile(t))

(* The ACF files name apps, the other places may; there is no binding without launch_profile.json. *)
Bound(t) ==
  /\ Shaped(t)
  /\ \A f \in t.acfs : f.app \in AppIDs
  /\ t.txt \in AppNames /\ t.prof.app \in AppNames /\ t.prof.store \in AppNames /\ t.prof.meta \in AppNames
  /\ ~t.prof.file => t.prof.app = NoApp /\ t.prof.store = NoApp /\ t.prof.meta = NoApp

(* And as long as the profile does not decide, nothing disagrees with the ACF that is read. *)
Agreed(t) ==
  /\ Bound(t)
  /\ t.acfs # {} /\ Own(t.prof) = NoApp =>
       t.txt \in {NoApp, ManifestOf(t.acfs).app} /\ t.prof.meta \in {NoApp, ManifestOf(t.acfs).app}

(* A game's exit has read the bindings that are there. *)
AppInv ==
  /\ Agreed(tree) /\ ProfileShape(exiting)
  /\ exiting # NoProfile =>
       /\ exiting.app = IF tree.prof.app = NoApp THEN tree.txt ELSE tree.prof.app
       /\ exiting.store = tree.prof.store /\ exiting.meta = tree.prof.meta

(* What loading and saving do with the bindings. *)
LEMMA LoadedBindings ==
  ASSUME NEW t, Shaped(t)
  PROVE  /\ ProfileShape(LoadedProfile(t)) /\ LoadedProfile(t).file = t.prof.file
         /\ LoadedProfile(t).app = IF t.prof.app = NoApp THEN t.txt ELSE t.prof.app
         /\ LoadedProfile(t).store = t.prof.store /\ LoadedProfile(t).meta = t.prof.meta
<1>1. PICK p : p = t.prof
  OBVIOUS
<1>2. ProfileShape(p)
  BY <1>1 DEF Shaped
<1>3. PICK a, e : /\ LoadedProfile(t) = [p EXCEPT !.app = a, !.exe = e]
                  /\ a = IF p.app = NoApp THEN t.txt ELSE p.app
  <2>1. LoadedProfile(t) = [p EXCEPT !.app = IF p.app = NoApp THEN t.txt ELSE p.app,
                                     !.exe = IF p.exe = NoExe THEN t.ini ELSE p.exe]
    BY <1>1 DEF LoadedProfile, hydrateFallbacks
  <2> QED BY <2>1
<1>4. /\ LoadedProfile(t).file = p.file /\ LoadedProfile(t).app = a
      /\ LoadedProfile(t).store = p.store /\ LoadedProfile(t).meta = p.meta
  BY <1>2, <1>3 DEF ProfileShape
<1> QED BY <1>1, <1>3, <1>4, LoadKeeps

LEMMA DirectBindings ==
  ASSUME NEW t, Shaped(t), NEW p, ProfileShape(p)
  PROVE  /\ Shaped(SavedDirect(t, p)) /\ SavedDirect(t, p).acfs = t.acfs /\ SavedDirect(t, p).txt = t.txt
         /\ SavedDirect(t, p).prof.file /\ SavedDirect(t, p).prof.app = p.app
         /\ SavedDirect(t, p).prof.store = p.store /\ SavedDirect(t, p).prof.meta = p.meta
<1>1. PICK q : q = [p EXCEPT !.file = TRUE]
  OBVIOUS
<1>2. q.file /\ q.app = p.app /\ q.store = p.store /\ q.meta = p.meta
  BY <1>1 DEF ProfileShape
<1>3. SavedDirect(t, p) = [t EXCEPT !.prof = q]
  BY <1>1 DEF SavedDirect
<1>4. SavedDirect(t, p).acfs = t.acfs /\ SavedDirect(t, p).txt = t.txt /\ SavedDirect(t, p).prof = q
  BY <1>3 DEF Shaped, TreeShape
<1> QED BY <1>2, <1>4, DirectKeeps DEF Names

LEMMA SavedBindings ==
  ASSUME NEW t, Shaped(t), NEW p, ProfileShape(p)
  PROVE  /\ Shaped(Saved(t, p)) /\ Saved(t, p).acfs = t.acfs /\ Saved(t, p).txt = t.txt
         /\ Saved(t, p).prof.file /\ Saved(t, p).prof.app = p.app
         /\ Saved(t, p).prof.store = IF p.store = NoApp THEN t.prof.store ELSE p.store
         /\ Saved(t, p).prof.meta = IF p.meta = NoApp THEN t.prof.meta ELSE p.meta
<1>1. PICK q : q = MergeMetadataAndStatsFrom(p, t.prof)
  OBVIOUS
<1>2. /\ ProfileShape(q) /\ q.app = p.app
      /\ q.store = IF p.store = NoApp THEN t.prof.store ELSE p.store
      /\ q.meta = IF p.meta = NoApp THEN t.prof.meta ELSE p.meta
  BY <1>1 DEF MergeMetadataAndStatsFrom, ProfileShape
<1>3. Saved(t, p) = SavedDirect(t, q)
  BY <1>1 DEF Saved
<1>4. /\ Shaped(SavedDirect(t, q)) /\ SavedDirect(t, q).acfs = t.acfs /\ SavedDirect(t, q).txt = t.txt
      /\ SavedDirect(t, q).prof.file /\ SavedDirect(t, q).prof.app = q.app
      /\ SavedDirect(t, q).prof.store = q.store /\ SavedDirect(t, q).prof.meta = q.meta
  BY <1>2, DirectBindings
<1> QED BY <1>2, <1>3, <1>4

LEMMA SyncBindings ==
  ASSUME NEW t, Shaped(t), NEW p, ProfileShape(p)
  PROVE  /\ Shaped(SyncSettings(t, p)) /\ SyncSettings(t, p).acfs = t.acfs
         /\ SyncSettings(t, p).txt = IF p.app = NoApp THEN t.txt ELSE p.app
         /\ SyncSettings(t, p).prof.file /\ SyncSettings(t, p).prof.app = p.app
         /\ SyncSettings(t, p).prof.store = IF p.store = NoApp THEN t.prof.store ELSE p.store
         /\ SyncSettings(t, p).prof.meta = IF p.meta = NoApp THEN t.prof.meta ELSE p.meta
<1>1. PICK u : u = Saved(t, p)
  OBVIOUS
<1>2. /\ Shaped(u) /\ u.acfs = t.acfs /\ u.txt = t.txt /\ u.prof.file /\ u.prof.app = p.app
      /\ u.prof.store = IF p.store = NoApp THEN t.prof.store ELSE p.store
      /\ u.prof.meta = IF p.meta = NoApp THEN t.prof.meta ELSE p.meta
  BY <1>1, SavedBindings
<1>3. SyncSettings(t, p) = [u EXCEPT !.txt = IF p.app = NoApp THEN u.txt ELSE p.app]
  BY <1>1 DEF SyncSettings
<1>4. /\ SyncSettings(t, p).acfs = u.acfs /\ SyncSettings(t, p).prof = u.prof
      /\ SyncSettings(t, p).txt = IF p.app = NoApp THEN u.txt ELSE p.app
  BY <1>2, <1>3 DEF Shaped, TreeShape
<1> QED BY <1>2, <1>4, SyncKeeps DEF Names

LEMMA RankRange ==
  ASSUME NEW at
  PROVE  Rank(at) \in 0..3 /\ (Rank(at) = 3 <=> at = "manifests")
BY DEF Rank

(* Of ACF files that name apps one is read, and none has a higher rank. *)
LEMMA ManifestIsOne ==
  ASSUME NEW acfs, acfs # {}, \A f \in acfs : f.app \in AppIDs
  PROVE  ManifestOf(acfs) \in acfs /\ \A g \in acfs : Rank(ManifestOf(acfs).at) >= Rank(g.at)
<1> DEFINE rank(f) == Rank(f.at)
           pos(f) == Position(f.app, AppOrder)
           best == {f \in acfs : \A g \in acfs : rank(f) >= rank(g)}
           first(f) == \A g \in best : IF rank(f) = 0 THEN pos(f) <= pos(g) ELSE pos(f) >= pos(g)
<1>1. \A f \in acfs : rank(f) \in 0..3
  BY RankRange
<1>2. Len(AppOrder) \in Nat /\ \A f \in acfs : pos(f) \in 1..Len(AppOrder)
  <2>1. Len(AppOrder) \in Nat /\ DOMAIN AppOrder = 1..Len(AppOrder)
    BY DetectionAssumption
  <2>2. ASSUME NEW f \in acfs PROVE pos(f) \in 1..Len(AppOrder)
    <3>1. \E i \in 1..Len(AppOrder) : AppOrder[i] = f.app
      BY <2>1 DEF AppIDs, Range
    <3> QED BY <3>1 DEF Position
  <2> QED BY <2>1, <2>2
<1> HIDE DEF rank, pos
<1>3. best # {}
  <2>1. PICK gaps : gaps = {3 - rank(f) : f \in acfs}
    OBVIOUS
  <2>2. gaps \in SUBSET Nat /\ gaps # {}
    BY <1>1, <2>1
  <2>3. PICK n \in gaps : \A m \in gaps : n <= m
    BY <2>2, LeastNumber
  <2>4. PICK f \in acfs : n = 3 - rank(f)
    BY <2>1, <2>3
  <2>5. ASSUME NEW g \in acfs PROVE rank(f) >= rank(g)
    BY <1>1, <2>1, <2>3, <2>4
  <2> QED BY <2>5
<1>4. \A f, g \in best : rank(f) = rank(g)
  BY <1>1
<1>5. \E f \in best : first(f)
  <2>1. CASE \A f \in best : rank(f) = 0
    <3>1. PICK places : places = {pos(f) : f \in best}
      OBVIOUS
    <3>2. places \in SUBSET Nat /\ places # {}
      BY <1>2, <1>3, <3>1
    <3>3. PICK n \in places : \A m \in places : n <= m
      BY <3>2, LeastNumber
    <3>4. PICK f \in best : n = pos(f)
      BY <3>1, <3>3
    <3> QED BY <2>1, <3>1, <3>3, <3>4
  <2>2. CASE \A f \in best : rank(f) # 0
    <3>1. PICK gaps : gaps = {Len(AppOrder) - pos(f) : f \in best}
      OBVIOUS
    <3>2. gaps \in SUBSET Nat /\ gaps # {}
      BY <1>2, <1>3, <3>1
    <3>3. PICK n \in gaps : \A m \in gaps : n <= m
      BY <3>2, LeastNumber
    <3>4. PICK f \in best : n = Len(AppOrder) - pos(f)
      BY <3>1, <3>3
    <3>5. ASSUME NEW g \in best PROVE pos(f) >= pos(g)
      <4>1. Len(AppOrder) - pos(f) <= Len(AppOrder) - pos(g)
        BY <3>1, <3>3, <3>4
      <4> QED BY <1>2, <4>1
    <3> QED BY <2>2, <3>5
  <2> QED BY <1>4, <2>1, <2>2
<1>6. ManifestOf(acfs) = CHOOSE f \in best : first(f)
  BY DEF ManifestOf, rank, pos
<1>7. ManifestOf(acfs) \in best
  BY <1>5, <1>6
<1> QED BY <1>7 DEF rank

(* An ACF that is synthesized for the app of the one that is read, or for the first, keeps the app. *)
LEMMA SynthesizedNames ==
  ASSUME NEW acfs, \A f \in acfs : f.app \in AppIDs,
         NEW new, new.at = "manifests", new.app \in AppIDs,
         ~\E f \in acfs : f.at = "manifests" /\ f.app = new.app,
         acfs = {} \/ ManifestOf(acfs).app = new.app
  PROVE  ManifestOf(acfs \cup {new}).app = new.app
<1>1. PICK m : m = ManifestOf(acfs \cup {new})
  OBVIOUS
<1>2. m \in acfs \cup {new} /\ Rank(m.at) >= Rank(new.at)
  BY <1>1, ManifestIsOne
<1>3. m.at = "manifests"
  BY <1>2, RankRange
<1>4. ASSUME m # new PROVE FALSE
  <2>1. m \in acfs
    BY <1>2, <1>4
  <2>2. ManifestOf(acfs) \in acfs /\ Rank(ManifestOf(acfs).at) >= Rank(m.at)
    BY <2>1, ManifestIsOne
  <2>3. ManifestOf(acfs).at = "manifests"
    BY <1>3, <2>2, RankRange
  <2> QED BY <2>1, <2>2, <2>3
<1> QED BY <1>1, <1>4

LEMMA BoundApp ==
  ASSUME NEW t, Bound(t)
  PROVE  /\ ResolveAppID(t) \in AppNames /\ AppOf(t) \in AppNames
         /\ t.acfs # {} => ResolveAppID(t) = ManifestOf(t.acfs).app /\ ManifestOf(t.acfs).app \in AppIDs
<1>1. ASSUME t.acfs = {} PROVE ManifestOf(t.acfs).app = NoApp
  BY <1>1 DEF ManifestOf, NoACF
<1>2. ASSUME t.acfs # {} PROVE ManifestOf(t.acfs).app \in AppIDs
  BY <1>2, ManifestIsOne DEF Bound
<1>3. NoApp \notin AppIDs
  BY DetectionAssumption
<1>4. PICK app : app = ManifestOf(t.acfs).app
  OBVIOUS
<1>5. ResolveAppID(t) = IF app # NoApp THEN app ELSE IF t.txt # NoApp THEN t.txt
                        ELSE IF t.folder \in AppIDs THEN t.folder ELSE NoApp
  BY <1>4 DEF ResolveAppID
<1>6. ResolveAppID(t) \in AppNames /\ (t.acfs # {} => ResolveAppID(t) = app)
  BY <1>1, <1>2, <1>3, <1>4, <1>5 DEF Bound, AppNames
<1>7. PICK p : p = LoadedProfile(t)
  OBVIOUS
<1>8. p.app \in AppNames /\ p.store \in AppNames /\ p.meta \in AppNames
  BY <1>7, LoadedBindings DEF Bound
<1>9. AppOf(t) \in AppNames
  BY <1>6, <1>7, <1>8 DEF AppOf, ApplyProfile
<1> QED BY <1>2, <1>4, <1>6, <1>9

(* Which app a directory holds whose files agree. *)
LEMMA AgreedApp ==
  ASSUME NEW t, Agreed(t)
  PROVE  /\ Own(t.prof) # NoApp => AppOf(t) = Own(t.prof)
         /\ Own(t.prof) = NoApp /\ t.acfs # {} => AppOf(t) = ManifestOf(t.acfs).app
         /\ Own(t.prof) = NoApp /\ t.txt = NoApp /\ t.prof.meta # NoApp => AppOf(t) = t.prof.meta
<1>1. PICK p, app : p = LoadedProfile(t) /\ app = ResolveAppID(t)
  OBVIOUS
<1>2. /\ p.file = t.prof.file /\ p.app = IF t.prof.app = NoApp THEN t.txt ELSE t.prof.app
      /\ p.store = t.prof.store /\ p.meta = t.prof.meta
  BY <1>1, LoadedBindings DEF Agreed, Bound
<1>3. AppOf(t) = LET bound == IF p.meta # NoApp /\ (app = NoApp \/ p.file) THEN p.meta ELSE app
                     own   == IF p.store # NoApp THEN p.store ELSE p.app
                 IN IF p.file /\ own # NoApp THEN own ELSE bound
  BY <1>1 DEF AppOf, ApplyProfile
<1>4. t.acfs # {} => app = ManifestOf(t.acfs).app
  BY <1>1, BoundApp DEF Agreed
<1>5. ASSUME Own(t.prof) # NoApp PROVE AppOf(t) = Own(t.prof)
  <2>1. t.prof.file
    BY <1>5 DEF Agreed, Bound, Own
  <2> QED BY <1>2, <1>3, <1>5, <2>1 DEF Own
<1>6. ASSUME Own(t.prof) = NoApp PROVE t.prof.store = NoApp /\ t.prof.app = NoApp
  BY <1>6 DEF Own
<1>7. ASSUME Own(t.prof) = NoApp, t.acfs # {} PROVE AppOf(t) = ManifestOf(t.acfs).app
  <2>1. t.txt \in {NoApp, app} /\ t.prof.meta \in {NoApp, app}
    BY <1>4, <1>7 DEF Agreed
  <2> QED BY <1>2, <1>3, <1>4, <1>6, <1>7, <2>1
<1>8. ASSUME Own(t.prof) = NoApp, t.txt = NoApp, t.prof.meta # NoApp PROVE AppOf(t) = t.prof.meta
  <2>1. t.prof.file
    BY <1>8 DEF Agreed, Bound
  <2> QED BY <1>2, <1>3, <1>6, <1>8, <2>1
<1> QED BY <1>5, <1>7, <1>8

(* u has the profile of t, loaded and saved as a file. *)
AfterSave(t, u) ==
  /\ Shaped(u) /\ u.prof.file
  /\ u.prof.app = IF t.prof.app = NoApp THEN t.txt ELSE t.prof.app
  /\ u.prof.store = t.prof.store /\ u.prof.meta = t.prof.meta

(* u has the ACF files of t, or one besides for the app that t was found to be. *)
AfterSynthesis(t, u) ==
  \/ u.acfs = t.acfs
  \/ /\ AppOf(t) # NoApp /\ u.acfs # {} /\ \A f \in u.acfs : f.app \in AppIDs
     /\ t.acfs = {} \/ ManifestOf(t.acfs).app = AppOf(t) => ManifestOf(u.acfs).app = AppOf(t)

(* The steam_appid.txt of u is that of t or the profile's, or, where the profile names none, the app of t. *)
AfterSync(t, u) ==
  \/ u.txt = t.txt
  \/ u.prof.app # NoApp /\ u.txt = u.prof.app
  \/ u.prof.app = NoApp /\ AppOf(t) # NoApp /\ u.txt = AppOf(t)

LEMMA WrittenBound ==
  ASSUME NEW t, Bound(t), NEW u, AfterSave(t, u), AfterSynthesis(t, u), AfterSync(t, u)
  PROVE  Bound(u)
<1>1. AppOf(t) \in AppNames
  BY BoundApp
<1>2. \A f \in u.acfs : f.app \in AppIDs
  BY DEF Bound, AfterSynthesis
<1>3. u.prof.app \in AppNames /\ u.prof.store \in AppNames /\ u.prof.meta \in AppNames /\ u.prof.file /\ Shaped(u)
  BY DEF Bound, AfterSave
<1>4. u.txt \in AppNames
  BY <1>1, <1>3 DEF Bound, AfterSync
<1> QED BY <1>2, <1>3, <1>4 DEF Bound

(* Writing profile, ACF and steam_appid.txt leaves the app that was found. *)
LEMMA WrittenAgrees ==
  ASSUME NEW t, Agreed(t), NEW u, AfterSave(t, u), AfterSynthesis(t, u), AfterSync(t, u)
  PROVE  Agreed(u) /\ (Established(t) => AppOf(u) = AppOf(t))
<1>1. Bound(t) /\ Bound(u)
  BY WrittenBound DEF Agreed
<1>2. /\ u.prof.app = IF t.prof.app = NoApp THEN t.txt ELSE t.prof.app
      /\ u.prof.store = t.prof.store /\ u.prof.meta = t.prof.meta
  BY DEF AfterSave
<1>3. ASSUME Own(u.prof) # NoApp PROVE Agreed(u) /\ AppOf(u) = Own(u.prof)
  <2>1. Agreed(u)
    BY <1>1, <1>3 DEF Agreed
  <2> QED BY <1>3, <2>1, AgreedApp
<1>4. CASE Own(t.prof) # NoApp
  <2>1. Own(u.prof) = Own(t.prof)
    BY <1>2, <1>4 DEF Own
  <2> QED BY <1>3, <1>4, <2>1, AgreedApp
<1>5. ASSUME Own(t.prof) = NoApp
      PROVE  t.prof.app = NoApp /\ t.prof.store = NoApp /\ Own(u.prof) = t.txt /\ u.prof.app = t.txt
  BY <1>2, <1>5 DEF Own
<1>6. CASE Own(t.prof) = NoApp /\ t.txt # NoApp
  <2>1. Agreed(u) /\ AppOf(u) = t.txt
    BY <1>3, <1>5, <1>6
  <2>2. ASSUME Established(t) PROVE AppOf(t) = t.txt
    <3>1. t.acfs # {}
      BY <1>5, <1>6, <2>2 DEF Established
    <3>2. t.txt = ManifestOf(t.acfs).app
      BY <1>6, <3>1 DEF Agreed
    <3> QED BY <1>6, <3>1, <3>2, AgreedApp
  <2> QED BY <2>1, <2>2
<1>7. CASE Own(t.prof) = NoApp /\ t.txt = NoApp
  <2>1. Own(u.prof) = NoApp /\ u.prof.app = NoApp
    BY <1>5, <1>7
  <2>2. u.txt \in {NoApp, AppOf(t)}
    BY <1>7, <2>1 DEF AfterSync
  <2>3. u.prof.meta \in {NoApp, AppOf(t)}
    BY <1>2, <1>7, AgreedApp
  <2>4. ASSUME u.acfs # {} PROVE ManifestOf(u.acfs).app = AppOf(t)
    <3>1. t.acfs # {} => AppOf(t) = ManifestOf(t.acfs).app
      BY <1>7, AgreedApp
    <3> QED BY <2>4, <3>1 DEF AfterSynthesis
  <2>5. Agreed(u)
    BY <1>1, <2>2, <2>3, <2>4 DEF Agreed
  <2>6. ASSUME Established(t) PROVE AppOf(u) = AppOf(t)
    <3>1. t.acfs # {}
      BY <1>5, <1>7, <2>6 DEF Established
    <3>2. u.acfs # {}
      BY <3>1 DEF AfterSynthesis
    <3> QED BY <2>1, <2>4, <2>5, <3>2, AgreedApp
  <2> QED BY <2>5, <2>6
<1> QED BY <1>4, <1>6, <1>7

(* ManifestStage. *)
LEMMA SynthesizedTree ==
  ASSUME NEW t, Bound(t), NEW game, game.app = AppOf(t)
  PROVE  /\ Shaped(Synthesized(t, game)) /\ AfterSynthesis(t, Synthesized(t, game))
         /\ Synthesized(t, game).txt = t.txt /\ Synthesized(t, game).prof = t.prof
         /\ game.app = NoApp => Synthesized(t, game) = t
<1>1. PICK u : u = Synthesized(t, game)
  OBVIOUS
<1>2. AppOf(t) \in AppNames /\ NoApp \notin AppIDs
  BY BoundApp, DetectionAssumption
<1>3. CASE u = t
  BY <1>1, <1>3 DEF AfterSynthesis, Bound
<1>4. ASSUME u # t PROVE Shaped(u) /\ AfterSynthesis(t, u) /\ u.txt = t.txt /\ u.prof = t.prof /\ game.app # NoApp
  <2>1. game.app # NoApp /\ ~\E f \in t.acfs : f.at = "manifests" /\ f.app = game.app
    BY <1>1, <1>4 DEF Synthesized
  <2>a. PICK new : new = [at |-> "manifests", app |-> game.app, exe |-> game.exe, beta |-> ManifestOf(t.acfs).beta]
    OBVIOUS
  <2>2. new.at = "manifests" /\ new.app = game.app
    BY <2>a
  <2>3. PICK more : more = t.acfs \cup {new}
    OBVIOUS
  <2>4. u = [t EXCEPT !.acfs = more]
    BY <1>1, <2>1, <2>a, <2>3 DEF Synthesized
  <2>5. Shaped(u) /\ u.acfs = more /\ u.txt = t.txt /\ u.prof = t.prof
    BY <2>4 DEF Bound, Shaped, TreeShape, ProfileShape
  <2>6. game.app \in AppIDs
    BY <1>2, <2>1 DEF AppNames
  <2>7. \A f \in t.acfs : f.app \in AppIDs
    BY DEF Bound
  <2>8. t.acfs = {} \/ ManifestOf(t.acfs).app = game.app => ManifestOf(more).app = game.app
    BY <2>1, <2>2, <2>3, <2>6, <2>7, SynthesizedNames
  <2>9. more # {} /\ \A f \in more : f.app \in AppIDs
    BY <2>2, <2>3, <2>6, <2>7
  <2> QED BY <2>1, <2>5, <2>8, <2>9 DEF AfterSynthesis
<1>5. game.app = NoApp => u = t
  BY <1>4
<1> QED BY <1>1, <1>3, <1>4, <1>5

(* NormalizeStage, on a tree that has got an ACF or not. *)
LEMMA NormalizedTree ==
  ASSUME NEW t, Bound(t), NEW with, Shaped(with), with.txt = t.txt, with.prof = t.prof, AfterSynthesis(t, with)
  PROVE  /\ AfterSave(t, Normalized(with)) /\ AfterSynthesis(t, Normalized(with)) /\ AfterSync(t, Normalized(with))
<1>1. PICK v : v = [with EXCEPT !.folder = "title"]
  OBVIOUS
<1>2. Shaped(v) /\ v.acfs = with.acfs /\ v.txt = with.txt /\ v.prof = with.prof
  BY <1>1 DEF Shaped, TreeShape, ProfileShape
<1>3. PICK p : p = LoadedProfile(with)
  OBVIOUS
<1>4. /\ ProfileShape(p) /\ p.app = IF t.prof.app = NoApp THEN t.txt ELSE t.prof.app
      /\ p.store = t.prof.store /\ p.meta = t.prof.meta
  BY <1>3, LoadedBindings
<1>5. PICK u : u = Saved(v, p)
  OBVIOUS
<1>6. /\ Shaped(u) /\ u.acfs = v.acfs /\ u.txt = v.txt /\ u.prof.file /\ u.prof.app = p.app
      /\ u.prof.store = IF p.store = NoApp THEN v.prof.store ELSE p.store
      /\ u.prof.meta = IF p.meta = NoApp THEN v.prof.meta ELSE p.meta
  BY <1>2, <1>4, <1>5, SavedBindings
<1>7. Normalized(with) = u
  BY <1>1, <1>3, <1>5 DEF Normalized
<1>8. AfterSave(t, u)
  BY <1>2, <1>4, <1>6 DEF AfterSave
<1>9. AfterSynthesis(t, u)
  BY <1>2, <1>6 DEF AfterSynthesis
<1>10. AfterSync(t, u)
  BY <1>2, <1>6 DEF AfterSync
<1> QED BY <1>7, <1>8, <1>9, <1>10

(* GBEStage. *)
LEMMA EmulatedTree ==
  ASSUME NEW t, Bound(t), NEW with, Shaped(with), with.txt = t.txt, with.prof = t.prof, AfterSynthesis(t, with),
         NEW game, game.app = AppOf(t), game.profile = LoadedProfile(t), NEW portable
  PROVE  /\ AfterSave(t, Emulated(with, game, portable)) /\ AfterSynthesis(t, Emulated(with, game, portable))
         /\ AfterSync(t, Emulated(with, game, portable))
<1>1. PICK p : p = game.profile
  OBVIOUS
<1>2. /\ ProfileShape(p) /\ p.app = IF t.prof.app = NoApp THEN t.txt ELSE t.prof.app
      /\ p.store = t.prof.store /\ p.meta = t.prof.meta
  BY <1>1, LoadedBindings DEF Bound
<1>3. PICK s : s = SyncSettings(with, p)
  OBVIOUS
<1>4. /\ Shaped(s) /\ s.acfs = with.acfs /\ s.prof.file /\ s.prof.app = p.app
      /\ s.prof.store = IF p.store = NoApp THEN t.prof.store ELSE p.store
      /\ s.prof.meta = IF p.meta = NoApp THEN t.prof.meta ELSE p.meta
  BY <1>2, <1>3, SyncBindings
<1>5. CASE game.app = NoApp
  <2>1. PICK u : u = SavedDirect(with, p)
    OBVIOUS
  <2>2. /\ Shaped(u) /\ u.acfs = with.acfs /\ u.txt = with.txt /\ u.prof.file /\ u.prof.app = p.app
        /\ u.prof.store = p.store /\ u.prof.meta = p.meta
    BY <1>2, <2>1, DirectBindings
  <2>3. Emulated(with, game, portable) = u
    BY <1>1, <1>5, <2>1 DEF Emulated
  <2>4. AfterSave(t, u) /\ AfterSynthesis(t, u) /\ AfterSync(t, u)
    BY <1>2, <2>2 DEF AfterSave, AfterSynthesis, AfterSync
  <2> QED BY <2>3, <2>4
<1>6. CASE game.app # NoApp
  <2>1. PICK x, y, u : u = [s EXCEPT !.txt = x, !.ini = y] /\ x = (IF p.app = NoApp THEN game.app ELSE p.app)
                       /\ Emulated(with, game, portable) = u
    <3>1. Emulated(with, game, portable)
            = [s EXCEPT !.txt = IF p.app = NoApp THEN game.app ELSE p.app, !.ini = IF portable THEN NoExe ELSE s.ini]
      BY <1>1, <1>3, <1>6 DEF Emulated
    <3> QED BY <3>1
  <2>2. Shaped(u) /\ u.acfs = s.acfs /\ u.prof = s.prof /\ u.txt = x
    BY <1>4, <2>1 DEF Shaped, TreeShape, ProfileShape
  <2>3. AfterSave(t, u)
    BY <1>2, <1>4, <2>2 DEF AfterSave
  <2>4. AfterSynthesis(t, u)
    BY <1>4, <2>2 DEF AfterSynthesis
  <2>5. AfterSync(t, u)
    BY <1>4, <1>6, <2>1, <2>2 DEF AfterSync
  <2> QED BY <2>1, <2>3, <2>4, <2>5
<1> QED BY <1>5, <1>6

LEMMA SetupTree ==
  ASSUME NEW t, Bound(t), NEW known, NEW normalize, NEW portable
  PROVE  /\ AfterSave(t, Setup(t, known, normalize, portable)) /\ AfterSynthesis(t, Setup(t, known, normalize, portable))
         /\ AfterSync(t, Setup(t, known, normalize, portable))
<1>1. PICK game : game = Inspect(t, known)
  OBVIOUS
<1>2. game.app = AppOf(t) /\ game.profile = LoadedProfile(t)
  BY <1>1 DEF Inspect, AppOf
<1>3. PICK with : with = Synthesized(t, game)
  OBVIOUS
<1>4. Shaped(with) /\ with.txt = t.txt /\ with.prof = t.prof /\ AfterSynthesis(t, with)
  BY <1>2, <1>3, SynthesizedTree
<1>5. PICK n, e : n = Normalized(with) /\ e = Emulated(with, game, portable)
  OBVIOUS
<1>6. AfterSave(t, n) /\ AfterSynthesis(t, n) /\ AfterSync(t, n)
  BY <1>4, <1>5, NormalizedTree
<1>7. AfterSave(t, e) /\ AfterSynthesis(t, e) /\ AfterSync(t, e)
  BY <1>2, <1>4, <1>5, EmulatedTree
<1>8. Setup(t, known, normalize, portable) \in {n, e}
  BY <1>1, <1>3, <1>5 DEF Setup
<1> QED BY <1>6, <1>7, <1>8

LEMMA UserSaves ==
  ASSUME NEW t, Bound(t), NEW p, ProfileShape(p),
         p.app = IF t.prof.app = NoApp THEN t.txt ELSE t.prof.app, p.store = t.prof.store, p.meta = t.prof.meta,
         NEW u, u \in {Saved(t, p), SyncSettings(t, p)}
  PROVE  AfterSave(t, u) /\ AfterSynthesis(t, u) /\ AfterSync(t, u)
<1>1. /\ Shaped(Saved(t, p)) /\ Saved(t, p).acfs = t.acfs /\ Saved(t, p).txt = t.txt
      /\ Saved(t, p).prof.file /\ Saved(t, p).prof.app = p.app
      /\ Saved(t, p).prof.store = IF p.store = NoApp THEN t.prof.store ELSE p.store
      /\ Saved(t, p).prof.meta = IF p.meta = NoApp THEN t.prof.meta ELSE p.meta
  BY SavedBindings DEF Bound
<1>2. /\ Shaped(SyncSettings(t, p)) /\ SyncSettings(t, p).acfs = t.acfs
      /\ SyncSettings(t, p).txt = IF p.app = NoApp THEN t.txt ELSE p.app
      /\ SyncSettings(t, p).prof.file /\ SyncSettings(t, p).prof.app = p.app
      /\ SyncSettings(t, p).prof.store = IF p.store = NoApp THEN t.prof.store ELSE p.store
      /\ SyncSettings(t, p).prof.meta = IF p.meta = NoApp THEN t.prof.meta ELSE p.meta
  BY SyncBindings DEF Bound
<1>3. AfterSynthesis(t, u)
  BY <1>1, <1>2 DEF AfterSynthesis
<1>4. AfterSave(t, u) /\ AfterSync(t, u)
  BY <1>1, <1>2 DEF AfterSave, AfterSync
<1> QED BY <1>3, <1>4

LEMMA LinkedTree ==
  ASSUME NEW t, Bound(t), NEW a \in AppIDs, NEW u,
         u = SyncSettings(t, [LoadedProfile(t) EXCEPT !.app = a, !.store = a, !.meta = a])
  PROVE  Agreed(u)
<1>1. PICK p : p = [LoadedProfile(t) EXCEPT !.app = a, !.store = a, !.meta = a]
  OBVIOUS
<1>q. PICK q : q = LoadedProfile(t) /\ ProfileShape(q)
  BY LoadedBindings DEF Bound
<1>2. ProfileShape(p) /\ p.app = a /\ p.store = a /\ p.meta = a
  <2>1. p = [q EXCEPT !.app = a, !.store = a, !.meta = a]
    BY <1>1, <1>q
  <2> QED BY <1>q, <2>1 DEF ProfileShape
<1>3. a # NoApp
  BY DetectionAssumption
<1>4. /\ Shaped(u) /\ u.acfs = t.acfs /\ u.txt = a
      /\ u.prof.file /\ u.prof.app = a /\ u.prof.store = a /\ u.prof.meta = a
  <2>1. u = SyncSettings(t, p) /\ Shaped(t)
    BY <1>1 DEF Bound
  <2> QED BY <1>2, <1>3, <2>1, SyncBindings
<1> QED BY <1>3, <1>4 DEF Agreed, Bound, Own, AppNames

LEMMA UnlinkedTree ==
  ASSUME NEW t, Bound(t), NEW u, u = SavedDirect(t, [LoadedProfile(t) EXCEPT !.store = NoApp, !.meta = NoApp])
  PROVE  Agreed(u)
<1>1. PICK p : p = [LoadedProfile(t) EXCEPT !.store = NoApp, !.meta = NoApp]
  OBVIOUS
<1>q. PICK q : q = LoadedProfile(t) /\ ProfileShape(q) /\ q.app = IF t.prof.app = NoApp THEN t.txt ELSE t.prof.app
  BY LoadedBindings DEF Bound
<1>2. /\ ProfileShape(p) /\ p.app = IF t.prof.app = NoApp THEN t.txt ELSE t.prof.app
      /\ p.store = NoApp /\ p.meta = NoApp
  <2>1. p = [q EXCEPT !.store = NoApp, !.meta = NoApp]
    BY <1>1, <1>q
  <2> QED BY <1>q, <2>1 DEF ProfileShape
<1>3. /\ Shaped(u) /\ u.acfs = t.acfs /\ u.txt = t.txt
      /\ u.prof.file /\ u.prof.app = p.app /\ u.prof.store = NoApp /\ u.prof.meta = NoApp
  <2>1. u = SavedDirect(t, p) /\ Shaped(t)
    BY <1>1 DEF Bound
  <2> QED BY <1>2, <2>1, DirectBindings
<1> QED BY <1>2, <1>3 DEF Agreed, Bound, Own, AppNames

(* A steam_appid.txt that disagrees with the ACF decides when there is no profile yet, and becomes the profile's. *)
LEMMA ResetTree ==
  ASSUME NEW t, Bound(t), NEW known, NEW u, u = Setup([t EXCEPT !.prof = NoProfile], known, FALSE, FALSE)
  PROVE  Agreed(u)
<1>1. PICK v : v = [t EXCEPT !.prof = NoProfile]
  OBVIOUS
<1>2. PICK none : none = NoProfile
  OBVIOUS
<1>3. ProfileShape(none) /\ ~none.file /\ none.app = NoApp /\ none.store = NoApp /\ none.meta = NoApp
  BY <1>2 DEF NoProfile, ProfileShape
<1>4. v.acfs = t.acfs /\ v.txt = t.txt /\ v.prof = none /\ TreeShape(v)
  BY <1>1, <1>2 DEF Bound, Shaped, TreeShape
<1>5. Bound(v)
  BY <1>3, <1>4 DEF Bound, Shaped, AppNames
<1>6. AfterSave(v, u) /\ AfterSynthesis(v, u) /\ AfterSync(v, u)
  BY <1>1, <1>5, SetupTree
<1>7. CASE v.txt = NoApp
  <2>1. Agreed(v)
    BY <1>3, <1>4, <1>5, <1>7 DEF Agreed
  <2> QED BY <1>6, <2>1, WrittenAgrees
<1>8. CASE v.txt # NoApp
  <2>1. Bound(u)
    BY <1>5, <1>6, WrittenBound
  <2>2. Own(u.prof) # NoApp
    BY <1>3, <1>4, <1>6, <1>8 DEF AfterSave, Own
  <2> QED BY <2>1, <2>2 DEF Agreed
<1> QED BY <1>7, <1>8

LEMMA RevertedTree ==
  ASSUME NEW t, Agreed(t), NEW u, u = [t EXCEPT !.txt = NoApp, !.ini = NoExe]
  PROVE  Agreed(u) /\ (Established(t) => AppOf(u) = AppOf(t))
<1>1. Shaped(u) /\ u.acfs = t.acfs /\ u.txt = NoApp /\ u.prof = t.prof
  BY DEF Agreed, Bound, Shaped, TreeShape
<1>2. Agreed(u)
  BY <1>1 DEF Agreed, Bound, AppNames
<1>3. ASSUME Established(t), Own(t.prof) = NoApp PROVE t.acfs # {}
  BY <1>3 DEF Established, Own
<1> QED BY <1>1, <1>2, <1>3, AgreedApp

LEMMA ChangedBinaries ==
  ASSUME NEW t, Agreed(t), NEW more, NEW u, u = [t EXCEPT !.exes = more]
  PROVE  Agreed(u) /\ (Established(t) => AppOf(u) = AppOf(t)) /\ u.prof = t.prof /\ u.txt = t.txt
<1>1. Shaped(u) /\ u.acfs = t.acfs /\ u.txt = t.txt /\ u.prof = t.prof
  BY DEF Agreed, Bound, Shaped, TreeShape
<1>2. Agreed(u)
  BY <1>1 DEF Agreed, Bound
<1>3. ASSUME Established(t), Own(t.prof) = NoApp PROVE t.acfs # {}
  BY <1>3 DEF Established, Own
<1> QED BY <1>1, <1>2, <1>3, AgreedApp

(* Only linking, unlinking and resetting change the app that Inspect finds, as long as no exit of the game overlaps    *)
(* the user's operations.  Which of several ACF files is read, and what Steam knows, does not matter; what does is     *)
(* that steam_appid.txt and the bindings agree with it before gamux touches the directory.                              *)
THEOREM AppStays ==
  ASSUME ~ExitsOverlap, \A t \in StartTrees : Agreed(t)
  PROVE  DetectionSpec => AppKept
<1>1. DetectionInit => AppInv
  BY DEF DetectionInit, AppInv, ProfileShape, NoProfile
<1> DEFINE Stays == rebinds' = rebinds /\ Established(tree) => AppOf(tree') = AppOf(tree)
<1>2. ASSUME AppInv, [DetectionNext]_dtVars PROVE AppInv' /\ Stays
  <2>0. /\ Agreed(tree) /\ Bound(tree) /\ ProfileShape(exiting)
        /\ exiting # NoProfile =>
             /\ exiting.app = IF tree.prof.app = NoApp THEN tree.txt ELSE tree.prof.app
             /\ exiting.store = tree.prof.store /\ exiting.meta = tree.prof.meta
    BY <1>2 DEF AppInv, Agreed
  <2>1. ASSUME Free PROVE exiting = NoProfile
    BY <2>1 DEF Free
  <2>2. ASSUME exiting' = NoProfile, Agreed(tree'), Established(tree) => AppOf(tree') = AppOf(tree) PROVE AppInv' /\ Stays
    BY <2>2 DEF AppInv, ProfileShape, NoProfile
  <2>3. ASSUME exiting' = NoProfile, rebinds' # rebinds, Agreed(tree') PROVE AppInv' /\ Stays
    BY <2>3 DEF AppInv, ProfileShape, NoProfile
  <2>4. ASSUME exiting' = NoProfile, AfterSave(tree, tree'), AfterSynthesis(tree, tree'), AfterSync(tree, tree')
        PROVE  AppInv' /\ Stays
    BY <2>0, <2>2, <2>4, WrittenAgrees
  <2>5. Rebind => rebinds' # rebinds
    BY DEF Rebind
  <2>6. /\ ProfileShape(LoadedProfile(tree))
        /\ LoadedProfile(tree).app = IF tree.prof.app = NoApp THEN tree.txt ELSE tree.prof.app
        /\ LoadedProfile(tree).store = tree.prof.store /\ LoadedProfile(tree).meta = tree.prof.meta
    BY <2>0, LoadedBindings DEF Bound
  <2>7. CASE UNCHANGED dtVars
    BY <2>0, <2>7 DEF dtVars, AppInv
  <2>8. ASSUME NEW normalize \in BOOLEAN, NEW portable \in BOOLEAN, ApplySetup(normalize, portable) PROVE AppInv' /\ Stays
    <3>1. exiting' = NoProfile /\ tree' = Setup(tree, reach, normalize, portable)
      BY <2>1, <2>8 DEF ApplySetup
    <3> QED BY <2>0, <2>4, <3>1, SetupTree
  <2>9. CASE NormalizeOnly
    <3>1. exiting' = NoProfile /\ tree' = Normalized(tree)
      BY <2>1, <2>9 DEF NormalizeOnly
    <3>2. AfterSynthesis(tree, tree) /\ Shaped(tree)
      BY <2>0 DEF AfterSynthesis, Bound
    <3> QED BY <2>0, <2>4, <3>1, <3>2, NormalizedTree
  <2>10. CASE RevertEmulator
    BY <2>0, <2>1, <2>2, <2>10, RevertedTree DEF RevertEmulator
  <2>11. ASSUME NEW a \in AppIDs, LinkGameMetadata(a) PROVE AppInv' /\ Stays
    <3>1. exiting' = NoProfile /\ rebinds' # rebinds
      BY <2>1, <2>5, <2>11 DEF LinkGameMetadata
    <3>2. Agreed(tree')
      BY <2>0, <2>11, LinkedTree DEF LinkGameMetadata
    <3> QED BY <2>3, <3>1, <3>2
  <2>12. CASE UnlinkMetadata
    <3>1. exiting' = NoProfile /\ rebinds' # rebinds
      BY <2>1, <2>5, <2>12 DEF UnlinkMetadata
    <3>2. Agreed(tree')
      BY <2>0, <2>12, UnlinkedTree DEF UnlinkMetadata
    <3> QED BY <2>3, <3>1, <3>2
  <2>13. ASSUME NEW e \in ExeNames, SaveLaunchProfile(e) PROVE AppInv' /\ Stays
    <3>1. PICK p : p = [LoadedProfile(tree) EXCEPT !.exe = e]
      OBVIOUS
    <3>2. /\ ProfileShape(p) /\ p.app = LoadedProfile(tree).app
          /\ p.store = LoadedProfile(tree).store /\ p.meta = LoadedProfile(tree).meta
      BY <2>6, <3>1 DEF ProfileShape
    <3>3. exiting' = NoProfile /\ tree' = SyncSettings(tree, p)
      BY <2>1, <2>13, <3>1 DEF SaveLaunchProfile
    <3> QED BY <2>0, <2>4, <2>6, <3>2, <3>3, UserSaves
  <2>14. CASE ResetLaunchProfile
    <3>1. exiting' = NoProfile /\ rebinds' # rebinds
      BY <2>1, <2>5, <2>14 DEF ResetLaunchProfile
    <3>2. Agreed(tree')
      BY <2>0, <2>14, ResetTree DEF ResetLaunchProfile
    <3> QED BY <2>3, <3>1, <3>2
  <2>15. CASE IncrementPlaytimeLoad
    <3>1. PICK p : p = [LoadedProfile(tree) EXCEPT !.file = TRUE]
      OBVIOUS
    <3>2. /\ ProfileShape(p) /\ p.app = LoadedProfile(tree).app
          /\ p.store = LoadedProfile(tree).store /\ p.meta = LoadedProfile(tree).meta
      BY <2>6, <3>1 DEF ProfileShape
    <3>3. exiting' = p /\ tree' = tree
      BY <2>15, <3>1 DEF IncrementPlaytimeLoad
    <3> QED BY <2>0, <2>6, <3>2, <3>3 DEF AppInv
  <2>16. CASE IncrementPlaytimeSave
    <3>1. exiting # NoProfile /\ exiting' = NoProfile /\ tree' = Saved(tree, exiting)
      BY <2>16 DEF IncrementPlaytimeSave
    <3> QED BY <2>0, <2>4, <3>1, UserSaves
  <2>17. ASSUME NEW e \in ExeNames, ChangeBinary(e) PROVE AppInv' /\ Stays
    <3>1. PICK more : tree' = [tree EXCEPT !.exes = more]
      BY <2>17 DEF ChangeBinary
    <3>2. Agreed(tree') /\ (Established(tree) => AppOf(tree') = AppOf(tree)) /\ tree'.prof = tree.prof /\ tree'.txt = tree.txt
      BY <2>0, <3>1, ChangedBinaries
    <3> QED BY <2>0, <2>17, <3>2 DEF ChangeBinary, AppInv
  <2>18. ASSUME NEW a \in AppIDs, ChangeReach(a) PROVE AppInv' /\ Stays
    BY <2>0, <2>18 DEF ChangeReach, AppInv
  <2> QED BY <1>2, <2>7, <2>8, <2>9, <2>10, <2>11, <2>12, <2>13, <2>14, <2>15, <2>16, <2>17, <2>18 DEF DetectionNext
<1>3. AppOf(tree) = Inspect(tree, reach).app /\ AppOf(tree)' = Inspect(tree, reach).app'
  BY DEF AppOf, Inspect
<1>4. ASSUME AppInv, [DetectionNext]_dtVars
      PROVE  [rebinds' = rebinds /\ Established(tree) => Inspect(tree', reach').app = Inspect(tree, reach).app]_dtVars
  BY <1>2, <1>3, <1>4
<1>5. AppInv /\ [DetectionNext]_dtVars => AppInv'
  BY <1>2
<1> HIDE DEF Stays
<1> QED BY <1>1, <1>4, <1>5, PTL DEF DetectionSpec, AppKept
=============================================================================
