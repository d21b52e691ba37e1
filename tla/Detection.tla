----------------------------- MODULE Detection -----------------------------
(***************************************************************************)
(* Which game a directory holds and which binary starts it.  Inspect       *)
(* (detector/detector.go) reads the answer from what lies in the tree: ACF *)
(* manifests, steam_appid.txt, ColdClientLoader.ini, the executables and   *)
(* the launch profile, asking Steam for launch options when it can.  The   *)
(* module gives Inspect as a function of the tree and has one action per   *)
(* operation that writes one of those files: setup, normalization, revert, *)
(* linking, the launch settings, the playtime kept when a game exits.      *)
(*                                                                         *)
(* Pipeline.tla has the stages of setup one by one; here a setup is one    *)
(* step.  Names, arguments, sizes and artwork are left out; the library    *)
(* cache in front of Inspect is LibraryCache.tla.                          *)
(***************************************************************************)
EXTENDS Integers, Sequences, SequencesExt, FiniteSets

CONSTANTS AppOrder,       \* the Steam AppIDs, in the order of their file names
          Executables,    \* the binaries the tree may hold, in path order
          Traits,         \* Traits[e]: what ScoreExecutable looks at
          LaunchEntries,  \* LaunchEntries[a]: Steam's launch options of app a
          Platform,       \* "windows" or "linux", from the Steam library found
          StartTrees,     \* the directories before gamux touches them
          ExitsOverlap,   \* a game's exit may overlap the user's operations
          MaxRebinds      \* bound on the user's changes of identity

VARIABLES tree,     \* the game directory
          reach,    \* apps whose Steam data can be had (online or cached)
          chosen,   \* history: the executable the user chose last
          rebinds,  \* history: identity changes the user asked for
          exiting   \* the profile a game's exit has read and not yet written

dtVars == <<tree, reach, chosen, rebinds, exiting>>

NoApp == "0"
NoExe == "no exe"
AppIDs == Range(AppOrder)
ExeNames == Range(Executables)

(* launch_profile.json: AppID, StoreAppID, MetadataID and ExePath.         *)
NoProfile == [file |-> FALSE, app |-> NoApp, store |-> NoApp, meta |-> NoApp, exe |-> NoExe]
NoACF == [at |-> "none", app |-> NoApp, exe |-> NoExe, beta |-> "public"]

(* The parts of a directory and of a profile.                              *)
TreeShape(t) ==
    t = [acfs |-> t.acfs, txt |-> t.txt, ini |-> t.ini, folder |-> t.folder, exes |-> t.exes, prof |-> t.prof]
ProfileShape(p) ==
    p = [file |-> p.file, app |-> p.app, store |-> p.store, meta |-> p.meta, exe |-> p.exe]

ASSUME DetectionAssumption ==
    /\ \A t \in StartTrees : TreeShape(t) /\ ProfileShape(t.prof)
    /\ AppOrder \in Seq(AppIDs)
    /\ NoApp \notin AppIDs /\ NoExe \notin ExeNames
    /\ Platform \in {"windows", "linux"}
    /\ ExitsOverlap \in BOOLEAN
    /\ MaxRebinds \in Nat

-----------------------------------------------------------------------------
(* Inspect                                                                 *)

Position(x, s) == CHOOSE i \in 1..Len(s) : s[i] = x

(* Where an ACF lies decides which one is read: [Manifests], then [Steam], *)
(* then steamapps, then any other place.                                   *)
Rank(at) == CASE at = "manifests" -> 3 [] at = "steam" -> 2 [] at = "steamapps" -> 1 [] OTHER -> 0

(* The walk goes through each place in lexical order; a later file         *)
(* replaces one of its own rank, except among the unranked ones.           *)
ManifestOf(acfs) ==
    LET best == {f \in acfs : \A g \in acfs : Rank(f.at) >= Rank(g.at)}
        pos(f) == Position(f.app, AppOrder)
    IN IF acfs = {} THEN NoACF
       ELSE CHOOSE f \in best : \A g \in best :
                IF Rank(f.at) = 0 THEN pos(f) <= pos(g) ELSE pos(f) >= pos(g)

(* The AppID: from the ACF, else steam_appid.txt, else a numeric folder    *)
(* name.                                                                   *)
ResolveAppID(t) ==
    LET acf == ManifestOf(t.acfs)
    IN CASE acf.app # NoApp -> acf.app
         [] acf.app = NoApp /\ t.txt # NoApp -> t.txt
         [] acf.app = NoApp /\ t.txt = NoApp /\ t.folder \in AppIDs -> t.folder
         [] OTHER -> NoApp

(* Loader wrappers never count as the game's executable.                   *)
isLoaderWrapper(e) == Traits[e].loader
Runnable(t, e) == e \in t.exes /\ ~isLoaderWrapper(e)

(* Steam's launch options for this system and branch, default ones first.  *)
filterAndBuildLaunchCandidates(entries, branch) ==
    LET fits(i)   == /\ entries[i].os = {} \/ Platform \in entries[i].os
                     /\ entries[i].beta = branch
                     /\ ~isLoaderWrapper(entries[i].exe)
        kept(d)   == [k \in 1..Len(entries) |->
                        IF fits(k) /\ (entries[k].default \/ k = 1) = d
                        THEN <<entries[k].exe>> ELSE <<>>]
    IN FlattenSeq(kept(TRUE)) \o FlattenSeq(kept(FALSE))

FetchAppLaunchOptions(app, branch, known) ==
    IF app \in known THEN filterAndBuildLaunchCandidates(LaunchEntries[app], branch) ELSE <<>>

(* The executables a store declares and the tree holds: the ACF's, else    *)
(* Steam's.                                                                *)
ManifestDeclared(t, known) ==
    LET acf  == ManifestOf(t.acfs)
        own  == IF acf.exe \in ExeNames /\ Runnable(t, acf.exe) THEN <<acf.exe>> ELSE <<>>
        here(e) == e \in t.exes
    IN IF own # <<>> THEN own
       ELSE SelectSeq(FetchAppLaunchOptions(ResolveAppID(t), acf.beta, known), here)

(* The likelihood that a binary is the game.                               *)
ScoreExecutable(e) ==
    LET x == Traits[e]
        part(c, v) == IF c THEN v ELSE 0
    IN part(x.loader, -3000) + part(x.crash, -2000) + part(x.tool, -500)
         + part(x.match = "exact", 1000) + part(x.match = "prefix", 500) + part(x.bin, 100)

(* The remaining binaries, best first; installers and crash handlers are   *)
(* not collected.                                                          *)
Heuristic(t, declared) ==
    LET rest   == {e \in t.exes : ~Traits[e].crash /\ e \notin Range(declared)}
        pos(e) == Position(e, Executables)
        before(d, e) == \/ ScoreExecutable(d) > ScoreExecutable(e)
                        \/ ScoreExecutable(d) = ScoreExecutable(e) /\ pos(d) < pos(e)
    IN SetToSortSeq(rest, before)

firstUsable(s) ==
    LET ok(e) == ~isLoaderWrapper(e)
        u == SelectSeq(s, ok)
    IN IF u = <<>> THEN NoExe ELSE Head(u)

(* The default executable: declared by the store, else named by            *)
(* ColdClientLoader.ini, else the best-scored binary.                      *)
chooseDefaultExe(declared, iniDeclared, heuristic) ==
    CASE firstUsable(declared) # NoExe -> firstUsable(declared)
      [] firstUsable(declared) = NoExe /\ iniDeclared # NoExe -> iniDeclared
      [] OTHER -> firstUsable(heuristic)

(* ColdClientLoader.ini counts when the binary it names is there.          *)
IniDeclared(t) ==
    IF t.ini \in ExeNames /\ Runnable(t, t.ini) THEN t.ini ELSE NoExe

(* Mutant of hydrateFallbacks: the ini is taken over even when the profile *)
(* names an executable.                                                    *)
hydrateIniWins(t, p) ==
    [p EXCEPT !.app = IF @ = NoApp THEN t.txt ELSE @,
              !.exe = IF t.ini # NoExe THEN t.ini ELSE @]

(* LoadProfile fills what the profile lacks from the tree: AppID from      *)
(* steam_appid.txt, ExePath from ColdClientLoader.ini.                     *)
hydrateFallbacks(t, p) ==
    [p EXCEPT !.app = IF @ = NoApp THEN t.txt ELSE @,
              !.exe = IF @ = NoExe THEN t.ini ELSE @]

LoadedProfile(t) == hydrateFallbacks(t, t.prof)

(* Mutant of ApplyProfile: no fallback from StoreAppID to AppID.           *)
ApplyProfileStoreOnly(app, p) ==
    LET bound == IF p.meta # NoApp /\ (app = NoApp \/ p.file) THEN p.meta ELSE app
    IN IF p.file /\ p.store # NoApp THEN p.store ELSE bound

(* ApplyProfile: a Steam binding counts when nothing else was found or the *)
(* profile is a file; StoreAppID, else AppID, only when it is a file.      *)
ApplyProfile(app, p) ==
    LET bound == IF p.meta # NoApp /\ (app = NoApp \/ p.file) THEN p.meta ELSE app
        own   == IF p.store # NoApp THEN p.store ELSE p.app
    IN IF p.file /\ own # NoApp THEN own ELSE bound

(* The profile's executable, else the detected one, else any candidate.    *)
EffectiveExePath(p, detected, candidates) ==
    CASE p.exe # NoExe -> p.exe
      [] p.exe = NoExe /\ detected # NoExe -> detected
      [] OTHER -> IF candidates = <<>> THEN NoExe ELSE Head(candidates)

(* What Inspect returns.                                                   *)
Inspect(t, known) ==
    LET declared == ManifestDeclared(t, known)
        found    == Heuristic(t, declared)
        p        == LoadedProfile(t)
        exe      == chooseDefaultExe(declared, IniDeclared(t), found)
    IN [app |-> ApplyProfile(ResolveAppID(t), p), declared |-> declared, exe |-> exe,
        profile |-> p, effective |-> EffectiveExePath(p, exe, declared \o found)]

-----------------------------------------------------------------------------
(* What the operations write                                               *)

(* SaveProfileDirect, and SaveProfile, which first takes over the          *)
(* bindings p lacks from the file.                                         *)
SavedDirect(t, p) == [t EXCEPT !.prof = [p EXCEPT !.file = TRUE]]

MergeMetadataAndStatsFrom(p, old) ==
    [p EXCEPT !.store = IF @ = NoApp THEN old.store ELSE @,
              !.meta  = IF @ = NoApp THEN old.meta ELSE @]

Saved(t, p) == SavedDirect(t, MergeMetadataAndStatsFrom(p, t.prof))

(* SyncSettings: save the profile, then write its AppID to every           *)
(* steam_appid.txt.                                                        *)
SyncSettings(t, p) == [Saved(t, p) EXCEPT !.txt = IF p.app = NoApp THEN @ ELSE p.app]

(* ManifestStage: an ACF for the AppID in [Manifests] unless there is one; *)
(* an ACF elsewhere stays where it is, because the consolidation is given  *)
(* the depot manifest's id instead of the ACF's path.                      *)
Synthesized(t, game) ==
    IF game.app = NoApp \/ \E f \in t.acfs : f.at = "manifests" /\ f.app = game.app THEN t
    ELSE [t EXCEPT !.acfs = @ \cup {[at |-> "manifests", app |-> game.app, exe |-> game.exe,
                                     beta |-> ManifestOf(t.acfs).beta]}]

(* NormalizeStage: a folder not named after the title is renamed once the  *)
(* title is known (from an ACF or from Steam), and the profile saved under *)
(* the new path.                                                           *)
Renames(t, game, known) ==
    /\ game.app # NoApp /\ t.folder # "title"
    /\ t.acfs # {} \/ game.app \in known
Normalized(t) == Saved([t EXCEPT !.folder = "title"], LoadedProfile(t))

(* GBEStage: without an AppID only the profile is saved.  With one,        *)
(* compat.Apply syncs the settings and writes the AppID next to the        *)
(* binaries; portable mode removes ColdClientLoader.ini.                   *)
Emulated(t, game, portable) ==
    LET p == game.profile
        s == SyncSettings(t, p)
    IN IF game.app = NoApp THEN SavedDirect(t, p)
       ELSE [s EXCEPT !.txt = IF p.app = NoApp THEN game.app ELSE p.app,
                      !.ini = IF portable THEN NoExe ELSE @]

(* A whole setup.  After a rename the emulator goes to the profile's old   *)
(* directory, not to this tree.                                            *)
Setup(t, known, normalize, portable) ==
    LET game  == Inspect(t, known)
        with  == Synthesized(t, game)
    IN IF normalize /\ Renames(with, game, known) THEN Normalized(with)
       ELSE Emulated(with, game, portable)

(* CreateGameStub: an empty folder tracked by a profile.                   *)
CreateGameStub(a) ==
    [acfs |-> {}, txt |-> NoApp, ini |-> NoExe, folder |-> "title", exes |-> {},
     prof |-> [file |-> TRUE, app |-> a, store |-> a, meta |-> a, exe |-> NoExe]]

-----------------------------------------------------------------------------
(* Operations                                                              *)

Free == exiting = NoProfile \/ ExitsOverlap
Rebind == rebinds < MaxRebinds /\ rebinds' = rebinds + 1

(* The user sets the game up, with or without renaming the folder.         *)
ApplySetup(normalize, portable) ==
    /\ Free
    /\ tree' = Setup(tree, reach, normalize, portable)
    /\ UNCHANGED <<reach, chosen, rebinds, exiting>>

(* The normalize recipe: scan, then rename.                                *)
NormalizeOnly ==
    /\ Free
    /\ Renames(tree, Inspect(tree, reach), reach)
    /\ tree' = Normalized(tree)
    /\ UNCHANGED <<reach, chosen, rebinds, exiting>>

(* gbe.Revert: steam_settings, the loader's ini and steam_appid.txt go.    *)
RevertEmulator ==
    /\ Free
    /\ tree' = [tree EXCEPT !.txt = NoApp, !.ini = NoExe]
    /\ UNCHANGED <<reach, chosen, rebinds, exiting>>

(* The user binds the game to a Steam app.                                 *)
LinkGameMetadata(a) ==
    LET p == [LoadedProfile(tree) EXCEPT !.app = a, !.store = a, !.meta = a]
    IN /\ Free /\ Rebind
       /\ tree' = SyncSettings(tree, p)
       /\ UNCHANGED <<reach, chosen, exiting>>

(* Unlinking clears StoreAppID and MetadataID, but not AppID.              *)
UnlinkMetadata ==
    /\ Free /\ Rebind
    /\ tree' = SavedDirect(tree, [LoadedProfile(tree) EXCEPT !.store = NoApp, !.meta = NoApp])
    /\ UNCHANGED <<reach, chosen, exiting>>

(* The launch settings are saved with an executable.                       *)
SaveLaunchProfile(e) ==
    /\ Free
    /\ tree' = SyncSettings(tree, [LoadedProfile(tree) EXCEPT !.exe = e])
    /\ chosen' = e
    /\ UNCHANGED <<reach, rebinds, exiting>>

(* The profile is removed and the game set up again.                       *)
ResetLaunchProfile ==
    /\ Free /\ Rebind
    /\ tree' = Setup([tree EXCEPT !.prof = NoProfile], reach, FALSE, FALSE)
    /\ chosen' = NoExe
    /\ UNCHANGED <<reach, exiting>>

(* A game exits: IncrementPlaytime reads the profile ...                   *)
IncrementPlaytimeLoad ==
    /\ exiting = NoProfile
    /\ exiting' = [LoadedProfile(tree) EXCEPT !.file = TRUE]
    /\ UNCHANGED <<tree, reach, chosen, rebinds>>

(* ... and writes it back with the playtime added.                         *)
IncrementPlaytimeSave ==
    /\ exiting # NoProfile
    /\ tree' = Saved(tree, exiting)
    /\ exiting' = NoProfile
    /\ UNCHANGED <<reach, chosen, rebinds>>

(* An update or the user adds or removes a binary.                         *)
ChangeBinary(e) ==
    /\ tree' = [tree EXCEPT !.exes = IF e \in @ THEN @ \ {e} ELSE @ \cup {e}]
    /\ UNCHANGED <<reach, chosen, rebinds, exiting>>

(* Steam becomes reachable, or unreachable with the cache expired.         *)
ChangeReach(a) ==
    /\ reach' = IF a \in reach THEN reach \ {a} ELSE reach \cup {a}
    /\ UNCHANGED <<tree, chosen, rebinds, exiting>>

DetectionInit ==
    /\ tree \in StartTrees
    /\ reach \in {{}, AppIDs}
    /\ chosen = NoExe
    /\ rebinds = 0
    /\ exiting = NoProfile

DetectionNext ==
    \/ \E normalize, portable \in BOOLEAN : ApplySetup(normalize, portable)
    \/ NormalizeOnly
    \/ RevertEmulator
    \/ \E a \in AppIDs : LinkGameMetadata(a)
    \/ UnlinkMetadata
    \/ \E e \in ExeNames : SaveLaunchProfile(e)
    \/ ResetLaunchProfile
    \/ IncrementPlaytimeLoad
    \/ IncrementPlaytimeSave
    \/ \E e \in ExeNames : ChangeBinary(e)
    \/ \E a \in AppIDs : ChangeReach(a)

DetectionSpec == DetectionInit /\ [][DetectionNext]_dtVars

-----------------------------------------------------------------------------
(* Properties                                                              *)

(* An ACF or a saved binding says which game this is.                      *)
Established(t) == t.acfs # {} \/ t.prof.app # NoApp \/ t.prof.store # NoApp

(* Nothing gamux does by itself changes which game a directory holds: once *)
(* an ACF or the profile names an app, setups, renames, reverts, exits and *)
(* Steam coming or going leave the detected AppID alone; only linking,     *)
(* unlinking and resetting change it (Inspect, ApplyProfile, ManifestStage *)
(* and SyncSettings read and write four copies of it).                     *)
AppKept ==
    [][rebinds' = rebinds /\ Established(tree)
        => Inspect(tree', reach').app = Inspect(tree, reach).app]_dtVars

(* The executable the user chose stays the one that is launched through    *)
(* setups, renames, links and playtime updates, until the profile is reset *)
(* (exe_priority.go: rescans never override it).                           *)
ChoiceKept == chosen # NoExe => Inspect(tree, reach).effective = chosen

(* An executable the store declares outranks the one ColdClientLoader.ini  *)
(* names (detector.go: "a ranked fallback (below manifest-declared         *)
(* executables), not an unconditional override").                          *)
ManifestOutranksIni ==
    LET g == Inspect(tree, reach)
    IN chosen = NoExe /\ firstUsable(g.declared) # NoExe /\ ~tree.prof.file
        => g.effective = firstUsable(g.declared)
=============================================================================
