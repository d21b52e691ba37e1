-------------------------------- MODULE Trash --------------------------------
(***************************************************************************)
(* Moving a game's directory to the trash: TrashGame of the desktop        *)
(* application and package util/trash.  Desktop tools are tried first; the *)
(* fallback picks a name in the trash, writes the .trashinfo of that name  *)
(* and renames the directory, or copies it file by file and then removes   *)
(* it when the trash is on another device.                                 *)
(*                                                                         *)
(* The games' directories have one base name, so that their names in the   *)
(* trash collide.  A token is one file of one game in one version.         *)
(***************************************************************************)
EXTENDS Naturals, FiniteSets

CONSTANTS
  TrashGames,         \* directories of one base name, in different libraries
  Abroad,             \* those on another device than the trash
  TrashFiles,         \* the files of each
  TrashCallsOverlap,  \* whether a game is trashed while another still is
  LaunchDuringTrash,  \* whether a game is started while it is being trashed
  MaxTrashName,       \* bound (the code's 10000): names tried before giving up
  MaxContent          \* bound: versions of a game's files

ASSUME TrashAssumption ==
  /\ Abroad \subseteq TrashGames
  /\ TrashCallsOverlap \in BOOLEAN /\ LaunchDuringTrash \in BOOLEAN
  /\ MaxTrashName \in Nat /\ MaxContent \in Nat \ {0}

VARIABLES
  home,      \* the tokens in the libraries
  bin,       \* the tokens under each name in the trash's files
  info,      \* the game whose path the .trashinfo of each name holds, "" without one
  moves,     \* the call that trashes each game: its step, its name, the files it still has to copy
  shown,     \* cachedGames: the games the library view lists
  playing,   \* the games that run
  content,   \* the newest version of each game's files
  wanted     \* history: the tokens nobody replaced by a newer version of an installed game

trashVars == <<home, bin, info, moves, shown, playing, content, wanted>>

Names == 0..MaxTrashName
Token(g, f, v) == [game |-> g, file |-> f, version |-> v]
NoMove == [step |-> "idle", name |-> 0, left |-> {}]

At(g) == {t \in home : t.game = g}
Fresh(g, v) == {Token(g, f, v) : f \in TrashFiles}

TrashInit ==
  /\ home = UNION {Fresh(g, 1) : g \in TrashGames}
  /\ bin = [n \in Names |-> {}] /\ info = [n \in Names |-> ""]
  /\ moves = [g \in TrashGames |-> NoMove]
  /\ shown = TrashGames /\ playing = {}
  /\ content = [g \in TrashGames |-> 1]
  /\ wanted = home

-----------------------------------------------------------------------------
(* A game that runs, or a directory that is not there, is refused. *)
TrashGame(g) ==
  /\ moves[g] = NoMove /\ g \notin playing /\ At(g) # {}
  /\ TrashCallsOverlap \/ \A o \in TrashGames : moves[o] = NoMove
  /\ moves' = [moves EXCEPT ![g].step = "tools"]
  /\ UNCHANGED <<home, bin, info, shown, playing, content, wanted>>

(* RemoveCachedGame, after a success only. *)
Trashed(g) ==
  /\ moves' = [moves EXCEPT ![g] = NoMove]
  /\ shown' = shown \ {g}

Failed(g) ==
  /\ moves' = [moves EXCEPT ![g] = NoMove]
  /\ UNCHANGED shown

GoOn(g, step) ==
  /\ moves' = [moves EXCEPT ![g].step = step]
  /\ UNCHANGED shown

(* Mutant of IsFree: only the .trashinfo is looked for. *)
IsFreeByInfo(n) == info[n] = ""

(* A name is free when neither its files nor its .trashinfo are there. *)
IsFree(n) == bin[n] = {} /\ info[n] = ""

FirstFree == CHOOSE n \in Names : IsFree(n) /\ \A m \in Names : IsFree(m) => n <= m

(* gio, trash-put and kioclient: one of them moves the directory and says so, *)
(* or is killed by the timeout after it did, or fails or is not installed.    *)
TrashWithContext(g) ==
  /\ moves[g].step = "tools"
  /\ \/ /\ \E n \in Names : IsFree(n)
        /\ bin' = [bin EXCEPT ![FirstFree] = At(g)]
        /\ info' = [info EXCEPT ![FirstFree] = g]
        /\ home' = home \ At(g)
        /\ Trashed(g) \/ GoOn(g, "fallback")
     \/ GoOn(g, "fallback") /\ UNCHANGED <<home, bin, info>>
  /\ UNCHANGED <<playing, content, wanted>>

findUniqueTrashName(g) ==
  /\ moves[g].step = "fallback"
  /\ IF \E n \in Names : IsFree(n)
       THEN moves' = [moves EXCEPT ![g].step = "named", ![g].name = FirstFree] /\ UNCHANGED shown
       ELSE Failed(g)
  /\ UNCHANGED <<home, bin, info, playing, content, wanted>>

(* The .trashinfo comes first; a write that fails may leave the file. *)
WriteInfo(g) ==
  /\ moves[g].step = "named"
  /\ \/ /\ info' = [info EXCEPT ![moves[g].name] = g]
        /\ Failed(g) \/ GoOn(g, "informed")
     \/ Failed(g) /\ UNCHANGED info
  /\ UNCHANGED <<home, bin, playing, content, wanted>>

(* moveOrCopy reported an error: trashXDGHome removes the .trashinfo. *)
RemoveInfo(g) ==
  /\ info' = [info EXCEPT ![moves[g].name] = ""]
  /\ Failed(g)

(* The rename.  It fails when a tool had moved the directory after all, on a   *)
(* name with files, or for any other reason; across devices the copy begins.  *)
Rename(g) ==
  /\ moves[g].step = "informed"
  /\ \/ /\ g \notin Abroad /\ At(g) # {} /\ bin[moves[g].name] = {}
        /\ bin' = [bin EXCEPT ![moves[g].name] = At(g)]
        /\ home' = home \ At(g)
        /\ Trashed(g) /\ UNCHANGED info
     \/ /\ g \in Abroad /\ At(g) # {}
        /\ moves' = [moves EXCEPT ![g].step = "copying", ![g].left = {t.file : t \in At(g)}]
        /\ UNCHANGED <<home, bin, info, shown>>
     \/ /\ g \notin Abroad \/ At(g) = {}
        /\ RemoveInfo(g) /\ UNCHANGED <<home, bin>>
  /\ UNCHANGED <<playing, content, wanted>>

(* A file of the same name is truncated; a copy that fails removes all that is *)
(* under the name, whoever put it there.                                       *)
copyPath(g) ==
  LET n == moves[g].name IN
  /\ moves[g].step = "copying"
  /\ \/ \E t \in At(g) :
          /\ t.file \in moves[g].left
          /\ bin' = [bin EXCEPT ![n] = {o \in @ : o.file # t.file} \cup {t}]
          /\ moves' = [moves EXCEPT ![g].left = @ \ {t.file},
                                    ![g].step = IF moves[g].left = {t.file} THEN "removing" ELSE @]
          /\ UNCHANGED <<info, shown>>
     \/ bin' = [bin EXCEPT ![n] = {}] /\ RemoveInfo(g)
  /\ UNCHANGED <<home, playing, content, wanted>>

(* The source is removed file by file, and may resist. *)
RemoveSource(g) ==
  /\ moves[g].step = "removing"
  /\ \/ \E t \in At(g) : home' = home \ {t} /\ UNCHANGED <<info, moves, shown>>
     \/ At(g) = {} /\ Trashed(g) /\ UNCHANGED <<home, info>>
     \/ At(g) # {} /\ RemoveInfo(g) /\ UNCHANGED home
  /\ UNCHANGED <<bin, playing, content, wanted>>

-----------------------------------------------------------------------------
(* A download puts the game back and completes with UpdateCachedGame. *)
Reinstall(g) ==
  /\ At(g) = {} /\ moves[g] = NoMove /\ content[g] < MaxContent
  /\ content' = [content EXCEPT ![g] = @ + 1]
  /\ home' = home \cup Fresh(g, content'[g])
  /\ wanted' = wanted \cup Fresh(g, content'[g])
  /\ shown' = shown \cup {g}
  /\ UNCHANGED <<bin, info, moves, playing>>

Play(g) ==
  /\ g \notin playing /\ At(g) # {}
  /\ LaunchDuringTrash \/ moves[g] = NoMove
  /\ playing' = playing \cup {g}
  /\ UNCHANGED <<home, bin, info, moves, shown, content, wanted>>

(* The game writes a file and ends. *)
Played(g) ==
  /\ g \in playing
  /\ playing' = playing \ {g}
  /\ \/ /\ content[g] < MaxContent
        /\ content' = [content EXCEPT ![g] = @ + 1]
        /\ \E t \in At(g) : LET n == Token(g, t.file, content'[g]) IN
             home' = (home \ {t}) \cup {n} /\ wanted' = (wanted \ {t}) \cup {n}
     \/ UNCHANGED <<home, content, wanted>>
  /\ UNCHANGED <<bin, info, moves, shown>>

(* gamux is killed and started again: Startup lists the directories there are. *)
KillWhileTrashing ==
  /\ \E g \in TrashGames : moves[g] # NoMove
  /\ moves' = [g \in TrashGames |-> NoMove]
  /\ shown' = {t.game : t \in home}
  /\ playing' = {}
  /\ UNCHANGED <<home, bin, info, content, wanted>>

TrashNext ==
  \/ \E g \in TrashGames :
       \/ TrashGame(g) \/ TrashWithContext(g) \/ findUniqueTrashName(g) \/ WriteInfo(g)
       \/ Rename(g) \/ copyPath(g) \/ RemoveSource(g)
       \/ Reinstall(g) \/ Play(g) \/ Played(g)
  \/ KillWhileTrashing

TrashSpec == TrashInit /\ [][TrashNext]_trashVars

-----------------------------------------------------------------------------
InTrash(t) == \E n \in Names : t \in bin[n]

(* Whatever fails, is killed or is tried again, the newest version of every *)
(* file is in its library or in the trash, and a game of which a file is    *)
(* left in a library is still listed, so that it can be tried again         *)
(* (trashXDGHome, moveOrCopy, TrashGame).                                   *)
NothingLost ==
  /\ \A t \in wanted : t \in home \/ InTrash(t)
  /\ \A t \in home : t.game \in shown

(* What is in the trash only can be restored from there: its .trashinfo     *)
(* names the game.  Not met: RemoveAll of the source may fail after a       *)
(* complete copy, and the .trashinfo goes (trash.go:168-172).               *)
Retrievable ==
  \A t \in wanted : (\A g \in TrashGames : moves[g] = NoMove) =>
    t \in home \/ \E n \in Names : t \in bin[n] /\ info[n] = t.game
==============================================================================
