------------------------------ MODULE Pipeline ------------------------------
(***************************************************************************)
(* The pipeline of src/pipeline: Execute runs the stages of a recipe in    *)
(* order, stops at the first error or at a cancelled context, and then     *)
(* rolls back the completed stages that can be undone, last one first.     *)
(*                                                                         *)
(* The file system is one library folder.  The game lives in a directory   *)
(* called "raw" (the name it was unpacked under) until NormalizeStage      *)
(* renames it to "clean" (the sanitized title).  A directory is abstracted *)
(* to what the stages read and write in it.                                *)
(***************************************************************************)
EXTENDS Naturals, Sequences, FiniteSets

CONSTANTS Names,       \* the recipes the environment starts
          DryRuns,     \* values of Options.DryRun
          MaxRuns,     \* bound: pipelines started one after the other
          DiskMayFail  \* a rename or a write may fail

Dirs == {"raw", "clean"}
Exes == {"main", "other"}
None == "none"

(* The recipes of runner.go.                                               *)
Recipes == [setup     |-> <<"scan", "manifest", "normalize", "steamless", "gbe">>,
            verify    |-> <<"scan", "manifest", "verify">>,
            update    |-> <<"scan", "update", "normalize", "steamless", "gbe">>,
            rollback  |-> <<"scan", "revert">>,
            normalize |-> <<"scan", "normalize">>,
            gog       |-> <<"scan">>]

(* The values of an option worth trying: one when no stage of the recipe   *)
(* reads it.                                                               *)
Choices(name, s) == IF \E i \in DOMAIN Recipes[name] : Recipes[name][i] = s THEN BOOLEAN ELSE {FALSE}

(* The stages that implement RollbackableStage.                            *)
Rollbackable == {"manifest", "normalize", "steamless", "gbe"}

ASSUME PipelineAssumption ==
    /\ Names \subseteq DOMAIN Recipes
    /\ DryRuns \subseteq BOOLEAN
    /\ MaxRuns \in Nat \ {0}
    /\ DiskMayFail \in BOOLEAN

VARIABLES disk,      \* disk[d]: the directory of that name
          cached,    \* cached[d]: the warm library cache's entry for d
          pc,        \* "idle", "run", "rollback" or "done"
          stages,    \* the recipe being executed
          next,      \* index of the stage to execute
          executed,  \* completed stages to roll back
          cancelled, \* the context given to Execute is cancelled
          opts,      \* Context.Options
          game,      \* Context.Game: its directory and its profile's GameDir
          results,   \* Context.Results
          private,   \* fields of the stage values: synthesizedACF, the rename
          before,    \* history: the disk when this pipeline started
          runs       \* history: pipelines started

vars == <<disk, cached, pc, stages, next, executed, cancelled, opts, game, results,
          private, before, runs>>

(* A directory: whether it holds the game ("game"), was only recreated by  *)
(* a MkdirAll ("stub") or is missing; the ACF of the game's AppID in       *)
(* [Manifests] ("inside", "synth" when the pipeline generated it, None; or *)
(* "foreign" for a game without a Steam AppID, which never gets one);      *)
(* whether depot manifests were fetched; the GameDir stored in             *)
(* launch_profile.json; each executable and its .ORIGINAL backup; whether  *)
(* the emulator is set up.  An ACF elsewhere is not part of the state: the *)
(* stage hands the manifest's GID, not its path, to                        *)
(* ConsolidateManifestsInDir, which therefore never finds it.              *)
Missing == [is |-> None, man |-> None, fetched |-> FALSE, profile |-> None,
            exe |-> [e \in Exes |-> "packed"], bak |-> {}, emu |-> FALSE]

Directories ==
    [is : {None, "stub", "game"}, man : {None, "foreign", "inside", "synth"},
     fetched : BOOLEAN, profile : Dirs \cup {None},
     exe : [Exes -> {"packed", "unpacked"}], bak : SUBSET Exes, emu : BOOLEAN]

NoResults == [normalized |-> FALSE, orig |-> None, renamed |-> None, acf |-> FALSE,
              unpacked |-> FALSE, patched |-> FALSE, errors |-> {}, undoErrors |-> 0]
NoPrivate == [acf |-> None, orig |-> None, renamed |-> None]
NoGame == [dir |-> None, profile |-> None, touched |-> FALSE]

Here == disk[game.dir]

-----------------------------------------------------------------------------
(* cache.InvalidateGameCache.                                              *)
Invalidated(c, ds) == [d \in Dirs |-> IF d \in ds THEN Missing ELSE c[d]]

(* compat.SaveProfileDirect: MkdirAll, then write the profile; a directory *)
(* that was renamed away comes back as a stub.                             *)
SaveProfileDirect(dk, d) ==
    [dk EXCEPT ![d].profile = d, ![d].is = IF @ = None THEN "stub" ELSE @]

(* compat.LoadProfile: the stored profile, else one for the directory.     *)
LoadProfile(dir, d) == IF dir.profile = None THEN d ELSE dir.profile

(* compat.Apply: save the profile in its GameDir, then set the emulator up *)
(* there, which may fail.                                                  *)
Applied(dk, d, ok) ==
    LET saved == SaveProfileDirect(dk, d)
    IN IF ok THEN [saved EXCEPT ![d].emu = TRUE] ELSE saved

(* gbe.Revert renames every .ORIGINAL backup to its target, executables'   *)
(* included, and removes the emulator's files.                             *)
Reverted(dir) ==
    [dir EXCEPT !.exe = [e \in Exes |-> IF e \in dir.bak THEN "packed" ELSE @[e]],
                !.bak = {}, !.emu = FALSE]

At(s) == /\ pc = "run"
         /\ next <= Len(stages)
         /\ stages[next] = s
         /\ ~cancelled

Succeed(s) ==
    /\ next' = next + 1
    /\ executed' = IF s \in Rollbackable THEN Append(executed, s) ELSE executed
    /\ UNCHANGED <<pc, stages, opts, before, runs>>

(* A stage that returns an error is not itself rolled back.                *)
Fail ==
    /\ pc' = "rollback"
    /\ results' = [results EXCEPT !.errors = @ \cup {"fatal"}]
    /\ UNCHANGED <<stages, next, executed, opts, before, runs>>

-----------------------------------------------------------------------------
(* An Operation is executed: a fresh Context on a directory of the library.*)
Start(name, path, dry, normalize, steamless, emulate) ==
    /\ pc \in {"idle", "done"}
    /\ runs < MaxRuns
    /\ disk[path].is # None
    /\ pc' = "run"
    /\ stages' = Recipes[name]
    /\ next' = 1
    /\ executed' = <<>>
    /\ cancelled' = FALSE
    /\ opts' = [path |-> path, dry |-> dry, normalize |-> normalize,
                steamless |-> steamless, emulate |-> emulate]
    /\ game' = [NoGame EXCEPT !.dir = path]
    /\ results' = NoResults
    /\ private' = NoPrivate
    /\ before' = disk
    /\ runs' = runs + 1
    /\ UNCHANGED <<disk, cached>>

(* The task is cancelled; Execute sees it before the next stage.           *)
Cancel ==
    /\ pc = "run"
    /\ ~cancelled
    /\ cancelled' = TRUE
    /\ UNCHANGED <<disk, cached, pc, stages, next, executed, opts, game, results, private,
                   before, runs>>

(* A library scan inspects a directory and stores what it found.           *)
BackgroundScan(d) ==
    /\ disk[d].is # None
    /\ cached' = [cached EXCEPT ![d] = disk[d]]
    /\ UNCHANGED <<disk, pc, stages, next, executed, cancelled, opts, game, results, private,
                   before, runs>>

(* ScanStage: detector.Inspect fails or fills Context.Game, caching it.    *)
(* The profile's GameDir is the stored one, else the directory inspected.  *)
Scan ==
    /\ At("scan")
    /\ \/ /\ game' = [dir |-> game.dir,
                      profile |-> LoadProfile(Here, game.dir),
                      touched |-> Here.bak # {} \/ Here.emu]
          /\ cached' = [cached EXCEPT ![game.dir] = Here]
          /\ Succeed("scan")
          /\ UNCHANGED results
       \/ /\ Fail
          /\ UNCHANGED <<cached, game>>
    /\ UNCHANGED <<disk, cancelled, private>>

(* ManifestStage: for a game with a Steam AppID, depot manifests may be    *)
(* fetched when [Manifests] is empty, and an ACF is generated when none is *)
(* there.  A dry run does neither but says that it generated one.          *)
Manifest ==
    LET missing == Here.man = None
        fetches == IF missing /\ ~Here.fetched /\ ~opts.dry THEN BOOLEAN ELSE {FALSE}
    IN /\ At("manifest")
       /\ \E fetch \in fetches :
            LET kept == [disk EXCEPT ![game.dir].fetched = @ \/ fetch]
            IN \/ /\ missing /\ ~opts.dry
                  /\ disk' = [kept EXCEPT ![game.dir].man = "synth"]
                  /\ private' = [private EXCEPT !.acf = game.dir]
                  /\ results' = [results EXCEPT !.acf = TRUE]
                  /\ Succeed("manifest")
               \/ /\ missing => opts.dry
                  /\ disk' = kept
                  /\ results' = [results EXCEPT !.acf = missing]
                  /\ Succeed("manifest")
                  /\ UNCHANGED private
               \/ /\ missing /\ ~opts.dry /\ DiskMayFail
                  /\ disk' = kept
                  /\ Fail
                  /\ UNCHANGED private
       /\ UNCHANGED <<cached, cancelled, game>>

(* NormalizeStage: rename the directory unless its name is already the     *)
(* clean one or that name is taken; the profile on disk (LoadProfile       *)
(* builds one when there is none) is saved with the new path.              *)
Normalize ==
    LET skip == ~opts.normalize \/ game.dir = "clean" \/ disk["clean"].is # None
        moved == [disk EXCEPT !["clean"] = Here, ![game.dir] = Missing]
    IN /\ At("normalize")
       /\ \/ /\ skip \/ opts.dry
             /\ results' = [results EXCEPT !.normalized = ~skip]
             /\ Succeed("normalize")
             /\ UNCHANGED <<disk, cached, game, private>>
          \/ /\ ~skip /\ ~opts.dry
             /\ disk' = SaveProfileDirect(moved, "clean")
             /\ cached' = Invalidated(cached, {"clean"})
             /\ game' = [game EXCEPT !.dir = "clean"]
             /\ private' = [private EXCEPT !.orig = game.dir, !.renamed = "clean"]
             /\ results' = [results EXCEPT !.normalized = TRUE, !.orig = game.dir,
                                           !.renamed = "clean"]
             /\ Succeed("normalize")
          \/ /\ ~skip /\ ~opts.dry /\ DiskMayFail
             /\ Fail
             /\ UNCHANGED <<disk, cached, game, private>>
       /\ UNCHANGED cancelled

(* The unpacker run with --in-place --backup on some executables.          *)
Unpacked(d, es) ==
    [disk EXCEPT ![d].exe = [e \in Exes |-> IF e \in es THEN "unpacked" ELSE @[e]],
                 ![d].bak = @ \cup es]

(* SteamlessStage never fails: an error is recorded and counts as nothing  *)
(* unpacked.  It works on one executable, or on the whole directory when   *)
(* the executable's path does not exist.                                   *)
Steamless ==
    /\ At("steamless")
    /\ \E target \in {{"main"}, Exes} :
         LET packed == {e \in target : Here.exe[e] = "packed"}
             act    == opts.steamless /\ ~opts.dry
         IN \/ /\ disk' = IF act THEN Unpacked(game.dir, packed) ELSE disk
               /\ results' = [results EXCEPT !.unpacked = act /\ packed # {}]
               /\ UNCHANGED cancelled
            \/ /\ act
               /\ results' = [results EXCEPT !.unpacked = FALSE, !.errors = @ \cup {"unpacker"}]
               /\ UNCHANGED <<disk, cancelled>>
            \/ /\ act            \* the context is cancelled meanwhile
               /\ \E es \in SUBSET packed : disk' = Unpacked(game.dir, es)
               /\ results' = [results EXCEPT !.unpacked = FALSE, !.errors = @ \cup {"killed"}]
               /\ cancelled' = TRUE
    /\ Succeed("steamless")
    /\ UNCHANGED <<cached, game, private>>

(* GBEStage never fails either.  compat.Apply saves the profile and sets   *)
(* the emulator up in the profile's GameDir; without emulation the game's  *)
(* directory is reverted if the scan saw backups or settings.              *)
GBE ==
    /\ At("gbe")
    /\ \/ /\ opts.dry
          /\ results' = [results EXCEPT !.patched = opts.emulate]
          /\ UNCHANGED <<disk, cached>>
       \/ /\ ~opts.dry /\ opts.emulate
          /\ \E ok \in BOOLEAN :
               /\ disk' = Applied(disk, game.profile, ok)
               /\ results' = [results EXCEPT !.patched = ok, !.errors = IF ok THEN @ ELSE @ \cup {"emulator"}]
          /\ cached' = Invalidated(cached, {game.profile})
       \/ /\ ~opts.dry /\ ~opts.emulate
          /\ disk' = SaveProfileDirect(IF game.touched
                                       THEN [disk EXCEPT ![game.dir] = Reverted(@)]
                                       ELSE disk, game.profile)
          /\ cached' = Invalidated(cached, {game.profile})
          /\ UNCHANGED results
    /\ Succeed("gbe")
    /\ UNCHANGED <<cancelled, game, private>>

(* VerifyStage only reads; it fails when the scan of the depots does.      *)
Verify ==
    /\ At("verify")
    /\ \/ Succeed("verify") /\ UNCHANGED results
       \/ Fail
    /\ UNCHANGED <<disk, cached, cancelled, game, private>>

(* UpdateStage downloads into the directory (a dry run does not); a failed *)
(* or cancelled download has replaced some of the files.                   *)
Update ==
    LET fresh(es) == [disk EXCEPT ![game.dir].exe =
                        [e \in Exes |-> IF e \in es THEN "packed" ELSE @[e]]]
    IN /\ At("update")
       /\ \E es \in (IF opts.dry THEN {{}} ELSE SUBSET Exes) : disk' = fresh(es)
       /\ \/ Succeed("update") /\ UNCHANGED results
          \/ Fail
       /\ UNCHANGED <<cached, cancelled, game, private>>

(* RevertDRMStage.                                                         *)
RevertDRM ==
    /\ At("revert")
    /\ disk' = IF opts.dry THEN disk ELSE [disk EXCEPT ![game.dir] = Reverted(@)]
    /\ results' = [results EXCEPT !.patched = FALSE]
    /\ Succeed("revert")
    /\ UNCHANGED <<cached, cancelled, game, private>>

-----------------------------------------------------------------------------
(* The loop of Execute finds the context cancelled.                        *)
Stop ==
    /\ pc = "run"
    /\ next <= Len(stages)
    /\ cancelled
    /\ pc' = "rollback"
    /\ UNCHANGED <<disk, cached, stages, next, executed, cancelled, opts, game, results,
                   private, before, runs>>

(* Mutant of Finish: the cache entries stay. *)
FinishWarm ==
    /\ pc = "run"
    /\ next > Len(stages)
    /\ pc' = "done"
    /\ UNCHANGED <<disk, cached, stages, next, executed, cancelled, opts, game, results,
                   private, before, runs>>

(* All stages done: the cache entries of every path involved are dropped.  *)
Finish ==
    /\ pc = "run"
    /\ next > Len(stages)
    /\ pc' = "done"
    /\ cached' = Invalidated(cached, {opts.path, results.orig, game.dir})
    /\ UNCHANGED <<disk, stages, next, executed, cancelled, opts, game, results, private,
                   before, runs>>

(* Mutant of UndoManifest: the results keep the flag. *)
UndoManifestQuietly ==
    /\ disk' = [d \in Dirs |-> IF d = private.acf THEN [disk[d] EXCEPT !.man = None] ELSE disk[d]]
    /\ UNCHANGED <<cached, game, results>>

(* ManifestStage.Rollback: remove the ACF at the path recorded for it.     *)
UndoManifest ==
    LET there == private.acf # None /\ disk[private.acf].man = "synth"
    IN /\ disk' = IF there THEN [disk EXCEPT ![private.acf].man = None] ELSE disk
       /\ results' = IF there THEN [results EXCEPT !.acf = FALSE] ELSE results
       /\ UNCHANGED <<cached, game>>

(* NormalizeStage.Rollback: rename back (which fails on a directory that   *)
(* exists meanwhile) and save the profile with the old path.               *)
UndoNormalize ==
    LET from == private.renamed
        to   == private.orig
    IN IF from \in Dirs /\ disk[from].is # None
       THEN \/ /\ disk[to].is = None
               /\ disk' = SaveProfileDirect([disk EXCEPT ![to] = disk[from], ![from] = Missing], to)
               /\ cached' = Invalidated(cached, {to})
               /\ game' = [game EXCEPT !.dir = to]
               /\ results' = [results EXCEPT !.normalized = FALSE, !.orig = None,
                                             !.renamed = None]
            \/ /\ DiskMayFail \/ disk[to].is # None
               /\ results' = [results EXCEPT !.undoErrors = @ + 1]
               /\ UNCHANGED <<disk, cached, game>>
       ELSE UNCHANGED <<disk, cached, game, results>>

(* SteamlessStage.Rollback: every backup of an executable in the game's    *)
(* directory is renamed back, if this run unpacked anything.               *)
UndoSteamless ==
    /\ disk' = IF results.unpacked
               THEN [disk EXCEPT ![game.dir].exe = [e \in Exes |-> IF e \in Here.bak
                                                                  THEN "packed" ELSE @[e]],
                                 ![game.dir].bak = {}]
               ELSE disk
    /\ results' = [results EXCEPT !.unpacked = FALSE]
    /\ UNCHANGED <<cached, game>>

(* Mutant of ToUndo: the oldest stage is undone first. *)
ToUndoFirst(done) == 1

(* The completed stage rollback takes next: the last one.  GBEStage ends   *)
(* the recipes it is in, so its Rollback is never called.                  *)
ToUndo(done) == Len(done)

Rollback ==
    LET i == ToUndo(executed)
    IN /\ pc = "rollback"
       /\ executed # <<>>
       /\ \/ executed[i] = "manifest" /\ UndoManifest
          \/ executed[i] = "normalize" /\ UndoNormalize
          \/ executed[i] = "steamless" /\ UndoSteamless
       /\ executed' = SubSeq(executed, 1, i - 1) \o SubSeq(executed, i + 1, Len(executed))
       /\ UNCHANGED <<pc, stages, next, cancelled, opts, private, before, runs>>

(* Execute returns the error.                                              *)
RolledOut ==
    /\ pc = "rollback"
    /\ executed = <<>>
    /\ pc' = "done"
    /\ UNCHANGED <<disk, cached, stages, next, executed, cancelled, opts, game, results,
                   private, before, runs>>

Init ==
    /\ \E man \in {None, "foreign", "inside"}, profile \in {None, "raw"} :
         disk = [d \in Dirs |->
                   IF d = "raw" THEN [Missing EXCEPT !.is = "game", !.man = man, !.profile = profile]
                   ELSE Missing]
    /\ cached = [d \in Dirs |-> Missing]
    /\ pc = "idle"
    /\ stages = <<>>
    /\ next = 1
    /\ executed = <<>>
    /\ cancelled = FALSE
    /\ opts = [path |-> None, dry |-> FALSE, normalize |-> FALSE, steamless |-> FALSE,
               emulate |-> FALSE]
    /\ game = NoGame
    /\ results = NoResults
    /\ private = NoPrivate
    /\ before = disk
    /\ runs = 0

Next ==
    \/ \E name \in Names, path \in Dirs, dry \in DryRuns :
         \E normalize \in Choices(name, "normalize"), steamless \in Choices(name, "steamless"),
            emulate \in Choices(name, "gbe") :
              Start(name, path, dry, normalize, steamless, emulate)
    \/ Cancel
    \/ \E d \in Dirs : BackgroundScan(d)
    \/ Scan \/ Manifest \/ Normalize \/ Steamless \/ GBE \/ Verify \/ Update \/ RevertDRM
    \/ Stop \/ Finish \/ Rollback \/ RolledOut

Spec == Init /\ [][Next]_vars

-----------------------------------------------------------------------------
(* Every component keeps its shape, and Execute's position is one the loop *)
(* can be at.                                                              *)
TypeOK ==
    /\ disk \in [Dirs -> Directories]
    /\ cached \in [Dirs -> Directories]
    /\ pc \in {"idle", "run", "rollback", "done"}
    /\ next \in 1 .. Len(stages) + 1
    /\ Len(executed) < next
    /\ cancelled \in BOOLEAN
    /\ game.dir \in Dirs \cup {None}

Failed == pc = "done" /\ next <= Len(stages)
Succeeded == pc = "done" /\ next > Len(stages)
Undoable == Failed /\ results.undoErrors = 0

(* What fail-fast with rollback must achieve whatever stage failed and     *)
(* whenever the task was cancelled: the game is back under the name it had *)
(* (on disk, in its profile and in memory), an ACF that was not there is   *)
(* not there, and every executable without an older backup is as it was,   *)
(* unless the update stage replaced it or the unpacker was killed between  *)
(* two executables, which the code counts as nothing unpacked.             *)
RolledBack ==
    Undoable =>
        /\ game.dir = opts.path
        /\ \A d \in Dirs :
             /\ disk[d].is = before[d].is
             /\ before[d].man = None => disk[d].man = None
             /\ before[d].profile # None => disk[d].profile = before[d].profile
             /\ \A e \in Exes \ before[d].bak : "killed" \notin results.errors =>
                  /\ e \notin disk[d].bak
                  /\ stages # Recipes["update"] => disk[d].exe[e] = before[d].exe[e]

(* The results handed to the task and to the interface describe the disk:  *)
(* a directory counts as renamed exactly when it is, an ACF as generated   *)
(* exactly when one is there that was not, and executables as unpacked     *)
(* only when their backups exist (with emulation off GBEStage may revert   *)
(* them again and leave the flag).                                         *)
ResultsTrue ==
    (pc = "done" /\ results.undoErrors = 0 /\ ~opts.dry) =>
        /\ results.normalized <=> game.dir # opts.path
        /\ results.acf <=> disk[game.dir].man = "synth" /\ before[opts.path].man = None
        /\ results.unpacked /\ opts.emulate => disk[game.dir].bak # {}

(* After a successful run the warm library cache has no entry older than   *)
(* the run for any path it touched, although library scans store entries   *)
(* while the stages work.                                                  *)
CacheFresh ==
    Succeeded =>
        \A d \in {opts.path, game.dir} : cached[d] \in {Missing, disk[d]}

(* What a finished run tells the interface and the library is what is on   *)
(* the disk (Execute's results and InvalidateGameCache).                   *)
OutcomeTrue == ResultsTrue /\ CacheFresh

(* A run that reports the emulator as applied has it where the game is.    *)
EmulatorFollows == (Succeeded /\ results.patched /\ ~opts.dry) => disk[game.dir].emu

(* A rollback undoes the file system changes of the stages it rolls back.  *)
Undone == Undoable /\ "killed" \notin results.errors /\ stages # Recipes["update"] => disk = before
=============================================================================
