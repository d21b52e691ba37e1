----------------------------- MODULE MCLibrary -----------------------------
(* Model-checking instance of the components that keep what gamux knows    *)
(* about a game directory: its cache, its identity, its mods, its depots   *)
(* and its version.  They share no state in these models, so each          *)
(* behaviour is one of a single component, and `part' says which.          *)
EXTENDS LibraryCache, Mods, VersionCheck, Depots, Detection

CONSTANT LibraryParts

VARIABLE part


(* Components other than the chosen one start in one state and stay in it. *)
Init ==
    /\ part \in LibraryParts
    /\ LibraryInit
    /\ ModsInit
    /\ VersionInit
    /\ part # "versions" => install.build = 1
    /\ DepotsInit
    /\ part # "depots" => depDone = PlainFilter("win64")
    /\ DetectionInit
    /\ part # "tree" => tree = CreateGameStub("100") /\ reach = {}

Next ==
    \/ part = "cache" /\ LibraryNext /\ UNCHANGED <<part, modVars, verVars, depVars, dtVars>>
    \/ part = "mods" /\ ModsNext /\ UNCHANGED <<part, libVars, verVars, depVars, dtVars>>
    \/ part = "versions" /\ VersionNext /\ UNCHANGED <<part, libVars, modVars, depVars, dtVars>>
    \/ part = "depots" /\ DepotsNext /\ UNCHANGED <<part, libVars, modVars, verVars, dtVars>>
    \/ part = "tree" /\ DetectionNext /\ UNCHANGED <<part, libVars, modVars, verVars, depVars>>

Spec == Init /\ [][Next]_<<part, libVars, modVars, verVars, depVars, dtVars>>

CallerSymmetry == Permutations(Callers)

EveryPart == {"cache", "mods", "versions", "depots", "tree"}

(* Two builds of the public branch, one of a beta.                         *)
Builds == [public |-> 2, beta |-> 1]

-----------------------------------------------------------------------------
(* A base depot, one for Linux, an optional language, and three editions   *)
(* of one file for different regions; all but the last two share a file.   *)
Files == [exe |-> "exe", api |-> "exe", so |-> "lib", data |-> "data", fr |-> "data",
          ed |-> "data"]

DepotOf(lang, os, optional, script, tongue, files) ==
    [lang |-> lang, os |-> os, arch |-> "", optional |-> optional, dlc |-> FALSE, word |-> "",
     script |-> script, tongue |-> tongue, files |-> files]

SixDepots ==
    <<DepotOf("", "", FALSE, "", "", [exe |-> "h", api |-> "h", data |-> "h"]),
      DepotOf("", "linux", FALSE, "", "", [so |-> "h", data |-> "h"]),
      DepotOf("french", "", TRUE, "", "french", [fr |-> "h", data |-> "h"]),
      DepotOf("", "", FALSE, "english", "", [ed |-> "ww", data |-> "h"]),
      DepotOf("russian", "", FALSE, "russian", "", [ed |-> "ru"]),
      DepotOf("german", "", FALSE, "german", "", [ed |-> "de"])>>

Asked(platform, language, included) ==
    [platform |-> platform, language |-> language, included |-> included, excluded |-> {},
     optional |-> FALSE, meta |-> TRUE]

FiveRequests ==
    {PlainFilter("win64"), Asked("linux", "english", {}), Asked("win64", "french", {}),
     Asked("win64", "russian", {}), Asked("win64", "english", {2, 3})}

-----------------------------------------------------------------------------
(* Two apps and two binaries.  Steam starts a.exe on Windows; by its name  *)
(* b.exe is the likelier one.  The files of a tree agree on its app.       *)
TwoApps == <<"100", "200">>
TwoBinaries == <<"a.exe", "b.exe">>
TwoTraits ==
    [e \in Range(TwoBinaries) |->
        [loader |-> FALSE, crash |-> FALSE, tool |-> FALSE, bin |-> FALSE,
         match |-> IF e = "b.exe" THEN "exact" ELSE "none"]]
SteamEntries ==
    [a \in Range(TwoApps) |->
        <<[exe |-> "b.exe", os |-> {"linux"}, beta |-> "public", default |-> FALSE],
          [exe |-> "a.exe", os |-> {}, beta |-> "public", default |-> TRUE]>>]

ACF(at, exe) == [at |-> at, app |-> "100", exe |-> exe, beta |-> "public"]
Trees ==
    {[acfs |-> acfs, txt |-> txt, ini |-> ini, folder |-> "100", prof |-> NoProfile,
      exes |-> Range(TwoBinaries)] :
        acfs \in {{}, {ACF("root", NoExe)}, {ACF("manifests", "a.exe")}},
        txt \in {NoApp, "100"}, ini \in {NoExe, "b.exe"}}
    \cup {CreateGameStub("100")}
=============================================================================
