---------------------------- MODULE VersionCheck ----------------------------
(***************************************************************************)
(* Is the installed game up to date?  steam.CheckGameVersion, the caches   *)
(* with a time to live it goes through (cache.ttlCache), and what changes  *)
(* around them: Steam publishes builds, the game is updated or switched to *)
(* another branch, gamux is restarted.                                     *)
(*                                                                         *)
(* Builds and depot manifests are numbered in the order of publication, 0  *)
(* is none: an unknown build of the installation, a branch without a build.*)
(* Time is counted in units of the shortest time to live.                  *)
(***************************************************************************)
EXTENDS Naturals, FiniteSets

CONSTANTS
    VersionTTL,  \* of versionsCache, 30 minutes
    SteamTTL,    \* of branchesCache and depotsCache, 6 hours
    MaxNow,      \* bound: the clock
    MaxBuild,    \* bound: builds published on each branch
    MaxStatus    \* bound: statuses in the cache at any time

ASSUME VersionAssumption == {VersionTTL, SteamTTL, MaxNow, MaxStatus} \subseteq Nat

VARIABLES
    now,
    steamBuild,  \* what Steam offers on each branch
    install,     \* the installation: its branch, its build and its depot manifest
    verMem,      \* versionsCache: the records in memory,
    verFile,     \*   and in <cache>/versions
    infoMem,     \* branchesCache and depotsCache: in memory,
    infoFile,    \*   and in their files
    answer       \* the last status and whom it was given for

verVars == <<now, steamBuild, install, verMem, verFile, infoMem, infoFile, answer>>

Branches == {"public", "beta"}
Infos == {"branches", "depots"}

(* Mutant of cacheKey: the build is left out. *)
keyWithoutBuild == [install EXCEPT !.build = 0, !.manifest = 0]

(* The key of a status: build, branch and manifest of the installation it was asked for. *)
cacheKey == install

(* A status: whether Steam was consulted, the verdict, and the build of the branch it compared with. *)
Unchecked == [checked |-> FALSE, isUpToDate |-> TRUE, from |-> "public", latest |-> 0, missing |-> FALSE]

-----------------------------------------------------------------------------
(* ttlCache.get: memory first, whatever its age; then the file, if it is younger than the time to live. *)
readTTLFile(records, ttl) == {r \in records : now - r.at < ttl}

ttlGet(mem, file, ttl) == IF mem # {} THEN mem ELSE readTTLFile(file, ttl)

(* ttlCache.save and writeTTLFile: the record replaces the one of its key. *)
ttlSave(records, rec) == {r \in records : r.key # rec.key} \cup {rec}

-----------------------------------------------------------------------------
(* FetchAppBranches and FetchAppDepotMetadata: the cached builds of the branches, else Steam's if it answers, which are  *)
(* kept then; nothing where the request fails.                                                                           *)
FetchInfo(i, online) ==
    LET known == {r \in infoMem : r.key = i}
        kept == {r \in infoFile : r.key = i}
        hit == ttlGet(known, kept, SteamTTL)
    IN  IF hit # {} THEN hit
        ELSE IF online THEN {[key |-> i, at |-> now, builds |-> steamBuild]} ELSE {}

(* What the requests of one check leave in the caches; a record read from a file is promoted to memory. *)
KeepInfo(fetched) ==
    /\ infoMem' = {r \in infoMem : r.key \notin {f.key : f \in fetched}} \cup fetched
    /\ infoFile' = {r \in infoFile : r.key \notin {f.key : f \in fetched}} \cup fetched

(* The branch whose build counts: the installation's, else public, else any that has one. *)
TargetBranch(builds) ==
    CHOOSE b \in Branches :
        \/ b = install.branch /\ builds[b] # 0
        \/ builds[install.branch] = 0 /\ builds[b] # 0 /\ (builds["public"] # 0 => b = "public")

SomeBuild(builds) == \E b \in Branches : builds[b] # 0

Verdict(b, latest, upToDate, builds) ==
    [checked |-> TRUE, isUpToDate |-> upToDate, from |-> b, latest |-> latest, missing |-> builds[install.branch] = 0]

(* FetchAppBranchManifestGIDs: a depot without a manifest for the branch counts with its public one. *)
ManifestGID(builds) == IF builds[install.branch] # 0 THEN builds[install.branch] ELSE builds["public"]

(* Case A: the build is not known.  The branches are asked for display; a known manifest is compared with the depots'. *)
CompareManifest(depots) ==
    IF install.manifest # 0 /\ \E d \in depots : ManifestGID(d.builds) # 0
      THEN LET d == CHOOSE d \in depots : TRUE
               b == IF d.builds[install.branch] # 0 THEN install.branch ELSE "public"
           IN  Verdict(b, ManifestGID(d.builds), ManifestGID(d.builds) = install.manifest, d.builds)
      ELSE Unchecked

(* Case B, tier 2: the build is compared with that of the target branch. *)
CompareBuild(branches) ==
    IF \E r \in branches : SomeBuild(r.builds)
      THEN LET r == CHOOSE r \in branches : TRUE
               b == TargetBranch(r.builds)
           IN  Verdict(b, r.builds[b], install.build >= r.builds[b], r.builds)
      ELSE Unchecked

(* Every outcome is saved, also that nothing could be found out. *)
saveAndReturn(status) ==
    LET rec == [key |-> cacheKey, at |-> now, status |-> status] IN
    /\ verMem' = ttlSave(verMem, rec)
    /\ verFile' = ttlSave(verFile, rec)
    /\ Cardinality(verMem' \cup verFile') <= MaxStatus
    /\ answer' = [of |-> install, status |-> status]

VersionCached == ttlGet({r \in verMem : r.key = cacheKey}, {r \in verFile : r.key = cacheKey}, VersionTTL)

CheckGameVersionCached ==
    /\ VersionCached # {}
    /\ \E r \in VersionCached :
         /\ answer' = [of |-> install, status |-> r.status]
         /\ verMem' = ttlSave(verMem, r)
    /\ UNCHANGED <<now, steamBuild, install, verFile, infoMem, infoFile>>

CheckUnknownBuild(online) ==
    /\ VersionCached = {} /\ install.build = 0
    /\ LET branches == FetchInfo("branches", online)
           depots == IF install.manifest # 0 THEN FetchInfo("depots", online) ELSE {}
       IN  KeepInfo(branches \cup depots) /\ saveAndReturn(CompareManifest(depots))
    /\ UNCHANGED <<now, steamBuild, install>>

(* Case B, tier 1: Steam itself compares, for the public branch only. *)
CheckUpToDate ==
    /\ VersionCached = {} /\ install.build # 0 /\ install.branch = "public"
    /\ saveAndReturn(Verdict("public", steamBuild["public"], install.build >= steamBuild["public"], steamBuild))
    /\ UNCHANGED <<now, steamBuild, install, infoMem, infoFile>>

CheckBranches(online) ==
    /\ VersionCached = {} /\ install.build # 0
    /\ LET branches == FetchInfo("branches", online)
       IN  KeepInfo(branches) /\ saveAndReturn(CompareBuild(branches))
    /\ UNCHANGED <<now, steamBuild, install>>

-----------------------------------------------------------------------------
(* SetGameBranch, without the inspection that follows it. *)
SetGameBranch(b) ==
    /\ install' = [install EXCEPT !.branch = b]
    /\ UNCHANGED <<now, steamBuild, verMem, verFile, infoMem, infoFile, answer>>

(* The game is updated to what its branch offers; a tool that leaves no build behind leaves the manifest. *)
InstallBuild(knowsBuild) ==
    /\ steamBuild[install.branch] # 0
    /\ LET b == steamBuild[install.branch] IN
       install' = [install EXCEPT !.build = IF knowsBuild THEN b ELSE 0, !.manifest = IF knowsBuild THEN 0 ELSE b]
    /\ UNCHANGED <<now, steamBuild, verMem, verFile, infoMem, infoFile, answer>>

Publish(b) ==
    /\ steamBuild[b] < MaxBuild[b]
    /\ steamBuild' = [steamBuild EXCEPT ![b] = @ + 1]
    /\ UNCHANGED <<now, install, verMem, verFile, infoMem, infoFile, answer>>

Tick ==
    /\ now < MaxNow
    /\ now' = now + 1
    /\ UNCHANGED <<steamBuild, install, verMem, verFile, infoMem, infoFile, answer>>

(* gamux ends and starts again. *)
RestartGamux ==
    /\ verMem' = {} /\ infoMem' = {}
    /\ UNCHANGED <<now, steamBuild, install, verFile, infoFile, answer>>

-----------------------------------------------------------------------------
VersionInit ==
    /\ now = 0
    /\ steamBuild = [b \in Branches |-> IF b = "public" THEN 1 ELSE 0]
    /\ install \in {[branch |-> "public", build |-> n, manifest |-> 1 - n] : n \in 0 .. 1}
    /\ verMem = {} /\ verFile = {} /\ infoMem = {} /\ infoFile = {}
    /\ answer = [of |-> install, status |-> Unchecked]

VersionNext ==
    \/ CheckGameVersionCached \/ CheckUpToDate
    \/ \E online \in BOOLEAN : CheckUnknownBuild(online) \/ CheckBranches(online)
    \/ \E b \in Branches : SetGameBranch(b) \/ Publish(b)
    \/ \E knowsBuild \in BOOLEAN : InstallBuild(knowsBuild)
    \/ Tick \/ RestartGamux

VersionSpec == VersionInit /\ [][VersionNext]_verVars

(* A verdict is about the installation it is given for, however old it is and whatever was installed since: it says up *)
(* to date exactly when that installation is what the branch had to offer, a branch Steam published and not another    *)
(* one, unless the installation's branch had no build at all.                                                          *)
StatusHonest ==
    LET s == answer.status IN
    s.checked =>
        /\ s.latest \in 1 .. steamBuild[s.from]
        /\ s.from # answer.of.branch => s.missing
        /\ s.isUpToDate = IF answer.of.build # 0 THEN answer.of.build >= s.latest ELSE answer.of.manifest = s.latest

(* "GetVersionStatus retrieves cached version status if less than 30 minutes old."  It does not hold: what is in *)
(* memory is returned at any age.                                                                                *)
StatusInTime == \A r \in VersionCached : now - r.at < VersionTTL
=============================================================================
