----------------------------- MODULE ToolUpdate -----------------------------
(***************************************************************************)
(* The external tools gamux installs from their GitHub releases (packages  *)
(* github and tools): the Goldberg emulator, Steamless, umu-launcher and a *)
(* Proton.  An update asks for the latest release, writes its parts, and   *)
(* then the stamp by which the status tells what is installed.             *)
(*                                                                         *)
(* A behaviour is about one of the tools.  A part is a directory or file   *)
(* that an update replaces: its release, 0 when it is not there, and       *)
(* HalfWritten while, or after, only some of it was written.               *)
(***************************************************************************)
EXTENDS Naturals

CONSTANTS
  Updaters,          \* tasks or calls that update tools
  ToolCallsOverlap,  \* whether a tool is updated while another update of it is under way
  MaxRelease         \* bound: releases published

ASSUME ToolUpdateAssumption == ToolCallsOverlap \in BOOLEAN /\ MaxRelease \in Nat

Tools == {"gbe", "steamless", "umu", "proton"}
HalfWritten == MaxRelease + 1
Parts(t) ==
  [gbe |-> {"linux", "win"}, steamless |-> {"bin", "lib"}, umu |-> {"nested", "root"}, proton |-> {"dir"}][t]

VARIABLES
  tool,       \* the tool
  latest,     \* the release GitHub has
  parts,      \* what stands at each of its parts
  stamp,      \* the release its stamp names, 0 without one
  relCache,   \* its cached release, 0 when none counts
  updates,    \* the update each caller is at
  claimed     \* history: the release of the last update that reported success, 0 once another has begun to write

toolVars == <<tool, latest, parts, stamp, relCache, updates, claimed>>

NoUpdate == [release |-> 0, left |-> {}]

Whole(r) == \A p \in DOMAIN parts : parts[p] = r

-----------------------------------------------------------------------------
(* What the status compares with a release that may be an hour old, or older: the stamp ... *)
StampHasUpdate == stamp # relCache

(* ... for umu only when there is one, else any umu-run will do ... *)
UMUHasUpdate == IF stamp = 0 THEN parts["root"] = 0 ELSE StampHasUpdate

(* ... and for a Proton the version in its directory, or else the stamp there. *)
InstalledProton == IF parts["dir"] = HalfWritten THEN stamp ELSE parts["dir"]

ProtonHasUpdate == InstalledProton # relCache

HasUpdate ==
  CASE tool = "umu" -> UMUHasUpdate
    [] tool = "proton" -> ProtonHasUpdate
    [] OTHER -> StampHasUpdate

(* GetToolsStatus: a release that is not cached is fetched and cached. *)
GetToolsStatus ==
  /\ relCache = 0 /\ latest # 0
  /\ relCache' = latest
  /\ UNCHANGED <<tool, latest, parts, stamp, updates, claimed>>

ExpireRelease ==
  /\ relCache # 0
  /\ relCache' = 0
  /\ UNCHANGED <<tool, latest, parts, stamp, updates, claimed>>

-----------------------------------------------------------------------------
(* Only a Proton's update takes its release from the cache. *)
ReleaseNow == IF tool = "proton" /\ relCache # 0 THEN relCache ELSE latest

(* The emulator's update has nothing to do when the stamp names the release. *)
AlreadyCurrent == tool = "gbe" /\ stamp = latest

StartUpdate(u) ==
  /\ updates[u] = NoUpdate /\ latest > 0
  /\ ToolCallsOverlap \/ \A o \in Updaters : updates[o] = NoUpdate
  /\ relCache' = IF tool = "proton" THEN ReleaseNow ELSE relCache
  /\ IF AlreadyCurrent
     THEN claimed' = latest /\ UNCHANGED updates
     ELSE /\ updates' = [updates EXCEPT ![u] = [release |-> ReleaseNow, left |-> Parts(tool)]]
          /\ claimed' = 0
  /\ UNCHANGED <<tool, latest, parts, stamp>>

Written(u, p) == [updates EXCEPT ![u].left = @ \ {p}]

(* UpdateGBE and UpdateSteamlessAssets write their parts side by side, in place; so is umu's archive unpacked. *)
ExtractBegin(u, p) ==
  LET j == updates[u] IN
  /\ tool \in {"gbe", "steamless"} \/ p = "nested"
  /\ p \in j.left
  /\ parts' = [parts EXCEPT ![p] = HalfWritten]
  /\ UNCHANGED <<tool, latest, stamp, relCache, updates, claimed>>

ExtractEnd(u, p) ==
  LET j == updates[u] IN
  /\ tool \in {"gbe", "steamless"} /\ p \in j.left /\ parts[p] = HalfWritten
  /\ parts' = [parts EXCEPT ![p] = j.release]
  /\ updates' = Written(u, p)
  /\ UNCHANGED <<tool, latest, stamp, relCache, claimed>>

(* UpdateUMUAssets with an archive that holds umu/umu-run: extractTarArchive unpacks it ... *)
ExtractUMU(u) ==
  LET j == updates[u] IN
  /\ tool = "umu" /\ "nested" \in j.left
  /\ parts' = [parts EXCEPT !["nested"] = j.release]
  /\ updates' = Written(u, "nested")
  /\ UNCHANGED <<tool, latest, stamp, relCache, claimed>>

(* ... and copies it to umu-run where there is none yet. *)
CopyUMU(u) ==
  LET j == updates[u] IN
  /\ tool = "umu" /\ j.left = {"root"}
  /\ parts' = IF parts["root"] = 0 THEN [parts EXCEPT !["root"] = j.release] ELSE parts
  /\ updates' = Written(u, "root")
  /\ UNCHANGED <<tool, latest, stamp, relCache, claimed>>

(* UpdateProton, once all is unpacked in a directory of its own: the old one is removed file by file, its *)
(* stamp sooner or later with it ...                                                                      *)
RemoveProton(u) ==
  LET j == updates[u] IN
  /\ tool = "proton" /\ "dir" \in j.left /\ parts["dir"] # 0
  /\ \/ parts' = [parts EXCEPT !["dir"] = HalfWritten] /\ stamp' \in {stamp, 0}
     \/ parts' = [parts EXCEPT !["dir"] = 0] /\ stamp' = 0
  /\ UNCHANGED <<tool, latest, relCache, updates, claimed>>

(* ... and the new one takes its name. *)
RenameProton(u) ==
  LET j == updates[u] IN
  /\ tool = "proton" /\ "dir" \in j.left /\ parts["dir"] = 0
  /\ parts' = [parts EXCEPT !["dir"] = j.release]
  /\ updates' = Written(u, "dir")
  /\ UNCHANGED <<tool, latest, stamp, relCache, claimed>>

(* Mutant of WriteStamp: the goroutines are not waited for. *)
WriteStampUnwaited(u) ==
  LET j == updates[u] IN
  /\ j # NoUpdate
  /\ stamp' = j.release
  /\ claimed' = j.release
  /\ updates' = [updates EXCEPT ![u] = NoUpdate]
  /\ UNCHANGED <<tool, latest, parts, relCache>>

(* The stamp comes last, and the update reports success. *)
WriteStamp(u) ==
  LET j == updates[u] IN
  /\ j # NoUpdate /\ j.left = {}
  /\ stamp' = j.release
  /\ claimed' = j.release
  /\ updates' = [updates EXCEPT ![u] = NoUpdate]
  /\ UNCHANGED <<tool, latest, parts, relCache>>

(* A download or an extraction fails, the task is cancelled or the program killed. *)
FailUpdate(u) ==
  /\ updates[u] # NoUpdate /\ updates[u].left # {}
  /\ updates' = [updates EXCEPT ![u] = NoUpdate]
  /\ UNCHANGED <<tool, latest, parts, stamp, relCache, claimed>>

PublishRelease ==
  /\ latest < MaxRelease
  /\ latest' = latest + 1
  /\ UNCHANGED <<tool, parts, stamp, relCache, updates, claimed>>

-----------------------------------------------------------------------------
ToolsInit ==
  /\ tool \in Tools
  /\ latest = 0
  /\ parts = [p \in Parts(tool) |-> 0]
  /\ stamp = 0
  /\ relCache = 0
  /\ updates = [u \in Updaters |-> NoUpdate]
  /\ claimed = 0

ToolsNext ==
  \/ PublishRelease
  \/ GetToolsStatus
  \/ ExpireRelease
  \/ \E u \in Updaters :
       \/ StartUpdate(u)
       \/ \E p \in DOMAIN parts : ExtractBegin(u, p) \/ ExtractEnd(u, p)
       \/ ExtractUMU(u) \/ CopyUMU(u) \/ RemoveProton(u) \/ RenameProton(u)
       \/ WriteStamp(u) \/ FailUpdate(u)

ToolsSpec == ToolsInit /\ [][ToolsNext]_toolVars

(* After an update that reported success, and until another begins, every part is of the release it     *)
(* claims, after any number of failed or interrupted updates; and a status that knows the latest release *)
(* calls the emulator current only when it is there as a whole.                                          *)
ToolsHonest ==
  /\ tool # "umu" /\ claimed # 0 => Whole(claimed)
  /\ tool = "gbe" /\ latest # 0 /\ relCache = latest /\ ~HasUpdate => Whole(latest)

(* "UpdateUMU downloads the latest standalone umu-run executable asset into ~/.local/share/umu/umu-run": *)
(* after an update of umu that reported success the umu-run there, which launches use, is of that release. *)
UMUCurrent == tool = "umu" /\ claimed # 0 => parts["root"] = claimed
=============================================================================
