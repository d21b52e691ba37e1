-------------------------------- MODULE Mods --------------------------------
(***************************************************************************)
(* The mods of one game: the directories under the mod folder that the     *)
(* engine's topology names, the registry .gamux/mods.json of what came     *)
(* from the Steam Workshop, and the operations that list, toggle, delete,  *)
(* install and check mods (engine/mods.go, detector/mods.go).              *)
(*                                                                         *)
(* A path is a folder, a directory name and whether it ends in .disabled.  *)
(* A workshop item is put into <id>_<title>, so a new title is a new name. *)
(***************************************************************************)
EXTENDS Naturals, FiniteSets

CONSTANTS
    Items,      \* workshop items
    Titles,     \* titles an item may have
    Manual,     \* directory names of mods the user drops in by hand
    MaxTime,    \* bound: revisions of an item on the Workshop
    ModCallsOverlap \* TRUE: the front end starts a call while another one is under way

ASSUME ModsAssumption ==
    /\ "unknown" \notin Items /\ Titles # {}
    /\ MaxTime \in Nat /\ ModCallsOverlap \in BOOLEAN

VARIABLES
    modDisk,    \* what stands at each path: a revision, a mixture, or nothing
    modReg,     \* .gamux/mods.json: the entry of each registered item
    modTopo,    \* the mod folder DetectModTopology resolves
    workshop,   \* title and revision of each item on the Workshop
    modCall,    \* calls whose disk work is done and whose registry work is not
    home        \* history: where the last completed call left each item

modVars == <<modDisk, modReg, modTopo, workshop, modCall, home>>

Folders == {"mods", "plugins"}
DirNames == (Items \X Titles) \cup ({"manual"} \X Manual)
Path == [folder : Folders, dir : DirNames, off : BOOLEAN]
NoPath == [folder |-> "none", dir |-> <<>>, off |-> FALSE]
NoEntry == [path |-> NoPath, on |-> FALSE, at |-> 0, upd |-> FALSE]

Nothing == 0
Mixed == MaxTime + 1

Present == {p \in Path : modDisk[p] # Nothing}
Variant(p) == [p EXCEPT !.off = ~@]

-----------------------------------------------------------------------------
(* ScanInstalledMods: the folder's entries, each paired with the registered item of that path, and then the  *)
(* registered items that stand elsewhere, which happens when the topology changed after they were put there. *)
Matched(p) == {w \in Items : modReg[w].path = p}

Listed(p, w) == [path |-> p, item |-> w, on |-> ~p.off /\ (p.folder # modTopo => modReg[w].on)]

ScanInstalledMods ==
    (UNION {{Listed(p, w) : w \in Matched(p)} : p \in Present})
    \cup {Listed(p, "unknown") : p \in {q \in Present : q.folder = modTopo /\ Matched(q) = {}}}

(* The mods a modID names.  Of two copies of one directory name the list has the unregistered one first: its *)
(* name is the directory's, which starts with the item's number, and the list is sorted by name.             *)
Targets(d) ==
    LET named == {m \in ScanInstalledMods : m.path.dir = d}
        plain == {m \in named : m.item = "unknown"}
    IN  IF plain # {} THEN plain ELSE named

Quiet == ModCallsOverlap \/ modCall = {}

(* A call whose disk work is done and that has the registry to bring up to date: op on items, with a path. *)
Later(op, items, path) ==
    modCall' = IF items = {} THEN modCall
               ELSE modCall \cup {[op |-> op, items |-> items, path |-> path, loaded |-> FALSE, reg |-> modReg]}

(* Mutant of Registered: a toggle leaves the entry's path as it was before the rename. *)
RegisteredOldPath(k, w, entry) ==
    CASE k.op = "toggle"  -> IF entry = NoEntry THEN entry ELSE [entry EXCEPT !.on = ~k.path.off]
      [] k.op = "delete"  -> NoEntry
      [] k.op = "install" -> [path |-> k.path, on |-> TRUE, at |-> modDisk[k.path], upd |-> FALSE]
      [] k.op = "check"   -> [entry EXCEPT !.upd = entry.at > 0 /\ workshop[w].time > entry.at]

(* The registry a call writes, computed from the one it loads. *)
Registered(k, w, entry) ==
    CASE k.op = "toggle"  -> IF entry = NoEntry THEN entry ELSE [entry EXCEPT !.path = k.path, !.on = ~k.path.off]
      [] k.op = "delete"  -> NoEntry
      [] k.op = "install" -> [path |-> k.path, on |-> TRUE, at |-> modDisk[k.path], upd |-> FALSE]
      [] k.op = "check"   -> [entry EXCEPT !.upd = entry.at > 0 /\ workshop[w].time > entry.at]

-----------------------------------------------------------------------------
(* ToggleGameMod renames the path and then brings the registry up to date.  os.Rename onto a directory that holds files fails. *)
ToggleGameMod(d, enable) ==
    /\ Quiet
    /\ \E m \in Targets(d) :
         /\ m.on # enable
         /\ Variant(m.path) \notin Present
         /\ modDisk' = [modDisk EXCEPT ![m.path] = Nothing, ![Variant(m.path)] = modDisk[m.path]]
         /\ home' = [w \in Items |-> IF home[w] = m.path THEN Variant(m.path) ELSE home[w]]
         /\ Later("toggle", {m.item} \cap Items, Variant(m.path))
    /\ UNCHANGED <<modReg, modTopo, workshop>>

(* DeleteGameMod: both variants of the path go, and the entry of the same item. *)
DeleteGameMod(d) ==
    /\ Quiet
    /\ \E m \in Targets(d) :
         /\ modDisk' = [modDisk EXCEPT ![m.path] = Nothing, ![Variant(m.path)] = Nothing]
         /\ home' = [w \in Items |-> IF home[w] \in {m.path, Variant(m.path)} THEN NoPath ELSE home[w]]
         /\ Later("delete", {m.item} \cap Items, m.path)
    /\ UNCHANGED <<modReg, modTopo, workshop>>

(* InstallWorkshopMod fetches the details, downloads and extracts over whatever stands at the destination.  *)
(* An extraction that fails midway leaves a mixture there and no entry.                                     *)
Destination(w) == [folder |-> modTopo, dir |-> <<w, workshop[w].title>>, off |-> FALSE]

InstallWorkshopMod(w) ==
    /\ Quiet
    /\ modDisk' = [modDisk EXCEPT ![Destination(w)] = workshop[w].time]
    /\ home' = [home EXCEPT ![w] = Destination(w)]
    /\ Later("install", {w}, Destination(w))
    /\ UNCHANGED <<modReg, modTopo, workshop>>

downloadAndExtractModZipFails(w) ==
    /\ Quiet
    /\ modDisk' = [modDisk EXCEPT ![Destination(w)] = Mixed]
    /\ UNCHANGED <<modReg, modTopo, workshop, modCall, home>>

(* CheckGameModUpdates, once the Web API has answered: the entries of the listed items. *)
CheckGameModUpdates ==
    /\ Quiet
    /\ LET known == {m.item : m \in ScanInstalledMods} \cap Items IN known # {} /\ Later("check", known, NoPath)
    /\ UNCHANGED <<modDisk, modReg, modTopo, workshop, home>>

(* LoadModRegistry and SaveModRegistry of a call.  They are two steps: calls that overlap can lose one another's entries. *)
LoadModRegistry(k) ==
    /\ ~k.loaded
    /\ modCall' = (modCall \ {k}) \cup {[k EXCEPT !.loaded = TRUE,
                                               !.reg = [w \in Items |-> IF w \in k.items THEN Registered(k, w, modReg[w]) ELSE modReg[w]]]}
    /\ UNCHANGED <<modDisk, modReg, modTopo, workshop, home>>

SaveModRegistry(k) ==
    /\ k.loaded
    /\ modReg' = k.reg
    /\ modCall' = modCall \ {k}
    /\ UNCHANGED <<modDisk, modTopo, workshop, home>>

-----------------------------------------------------------------------------
(* The Workshop: a new revision, perhaps under a new title. *)
Revise(w, title) ==
    /\ modCall = {}
    /\ workshop[w].time < MaxTime
    /\ workshop' = [workshop EXCEPT ![w] = [title |-> title, time |-> @.time + 1]]
    /\ UNCHANGED <<modDisk, modReg, modTopo, modCall, home>>

(* The user drops a mod into the folder, or installs BepInEx, which moves the folder of a Unity game. *)
DropIn(d) ==
    /\ modCall = {}
    /\ \A p \in Present : p.dir # <<"manual", d>>
    /\ modDisk' = [modDisk EXCEPT ![[folder |-> modTopo, dir |-> <<"manual", d>>, off |-> FALSE]] = 1]
    /\ UNCHANGED <<modReg, modTopo, workshop, modCall, home>>

DetectModTopology ==
    /\ modCall = {} /\ modTopo = "mods"
    /\ modTopo' = "plugins"
    /\ UNCHANGED <<modDisk, modReg, workshop, modCall, home>>

-----------------------------------------------------------------------------
ModsInit ==
    /\ modDisk = [p \in Path |-> Nothing]
    /\ modReg = [w \in Items |-> NoEntry]
    /\ modTopo = "mods"
    /\ workshop = [w \in Items |-> [title |-> CHOOSE t \in Titles : TRUE, time |-> 1]]
    /\ modCall = {}
    /\ home = [w \in Items |-> NoPath]

ModsNext ==
    \/ \E d \in DirNames, b \in BOOLEAN : ToggleGameMod(d, b)
    \/ \E d \in DirNames : DeleteGameMod(d)
    \/ \E w \in Items : InstallWorkshopMod(w) \/ downloadAndExtractModZipFails(w)
    \/ CheckGameModUpdates
    \/ \E k \in modCall : LoadModRegistry(k) \/ SaveModRegistry(k)
    \/ \E w \in Items, t \in Titles : Revise(w, t)
    \/ \E d \in Manual : DropIn(d)
    \/ DetectModTopology

ModsSpec == ModsInit /\ [][ModsNext]_modVars

(* Between calls, the copy of a Workshop item that the last installation or toggle of it left in the game is    *)
(* listed as that item, with its on/off state, and the registry knows its revision unless a later installation  *)
(* failed midway over it.  So an update is offered for it exactly when the Workshop has a newer revision.        *)
IdentityKept ==
    modCall = {} => \A w \in Items : home[w] # NoPath =>
        /\ Listed(home[w], w) \in ScanInstalledMods
        /\ modReg[w].on = ~home[w].off
        /\ modDisk[home[w]] \in {modReg[w].at, Mixed}
=============================================================================
