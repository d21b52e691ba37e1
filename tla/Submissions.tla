---------------------------- MODULE Submissions ----------------------------
(***************************************************************************)
(* What the engine submits to the task supervisor: downloads, of which one *)
(* per game may be under way, operations on a game and batches over the    *)
(* library.  A download's options live in the closure that runs it and die *)
(* with the program; after a restart the runner registered for downloads   *)
(* puts them together again from what the task's record keeps.             *)
(*                                                                         *)
(* The supervisor is TaskLifecycle, which TaskManager implements.          *)
(***************************************************************************)
EXTENDS TaskLifecycle

CONSTANTS
  Job,            \* task -> [kind, app]; the kinds are "download", "operation" and "batch"
  Clients,        \* threads of the front end
  Betas,          \* branches beside "public"
  LibGames,       \* the games of the library
  ClicksOverlap,  \* whether SubmitDownload is called while another call is under way
  MaxKills        \* bound: kills of the program

ASSUME SubmissionsAssumption ==
  /\ Persist = {t \in Tasks : Job[t].kind = "download"} /\ Persist \subseteq IOTasks
  /\ "public" \notin Betas /\ ClicksOverlap \in BOOLEAN /\ MaxKills \in Nat

VARIABLES
  asked,      \* history: the branch named by the request of a download, "" for none
  held,       \* the branch in the options its closure holds, "lost" without a closure
  meta,       \* Task.Metadata["branch"]
  fetched,    \* the branch option a download that works was started with
  profBranch, \* LaunchProfile.Branch of each game
  click,      \* SubmitDownload of each client: the request that found no active download
  found,      \* the games a batch's scan has listed
  tried,      \* those it has acted upon
  kills       \* how often the program was killed

subVars == <<life, asked, held, meta, fetched, profBranch, click, found, tried, kills>>

Apps == {Job[t].app : t \in Persist}
NoClick == [app |-> "", branch |-> ""]
BranchOptions == Betas \cup {"", "public"}

downloadVars == <<asked, held, meta, fetched, profBranch>>
batchVars == <<found, tried>>

-----------------------------------------------------------------------------
(* Mutant of ActiveDownload: only a download that works counts. *)
ActiveDownloadRunning(a) == \E t \in Persist : Job[t].app = a /\ life[t] = "active"

(* The list holds a running, queued or paused download of the game. *)
ActiveDownload(a) == \E t \in Persist : Job[t].app = a /\ life[t] \in {"waiting", "active"}

(* SubmitDownload looks the list through; a game with an active download keeps it. *)
SubmitDownloadLook(c, a, b) ==
  /\ click[c] = NoClick
  /\ ClicksOverlap \/ \A o \in Clients : click[o] = NoClick
  /\ ~ActiveDownload(a)
  /\ click' = [click EXCEPT ![c] = [app |-> a, branch |-> b]]
  /\ UNCHANGED <<life, downloadVars, batchVars, kills>>

(* Mutant of TaskSpecBranch: the record does not keep the branch. *)
TaskSpecNone(b) == ""

(* DownloadOperation.TaskSpec: of the options only the branch goes into the record. *)
TaskSpecBranch(b) == b

(* ... and then hands the operation to the supervisor. *)
SubmitDownload(c, t) ==
  /\ click[c] # NoClick /\ t \in Persist /\ Job[t].app = click[c].app
  /\ Enlist(t)
  /\ asked' = [asked EXCEPT ![t] = click[c].branch]
  /\ held' = [held EXCEPT ![t] = click[c].branch]
  /\ meta' = [meta EXCEPT ![t] = TaskSpecBranch(click[c].branch)]
  /\ click' = [click EXCEPT ![c] = NoClick]
  /\ UNCHANGED <<fetched, profBranch, batchVars, kills>>

(* SubmitApply, SubmitUpdate, SubmitVerify, SubmitNormalize, SubmitRollback, SubmitToolUpdate, *)
(* SubmitWorkshop and SubmitBatchLibraryOp submit whatever else is under way.                  *)
SubmitOther(t) ==
  /\ t \notin Persist
  /\ Enlist(t)
  /\ UNCHANGED <<downloadVars, click, batchVars, kills>>

(* The closure's options, or those the registered runner makes of the record and the profile. *)
RunBranch(t) ==
  CASE held[t] # "lost" -> held[t]
    [] held[t] = "lost" /\ meta[t] # "" -> meta[t]
    [] OTHER -> profBranch[Job[t].app]

(* DownloadGame: without a branch the profile's counts, and "public" without that. *)
TargetOf(t) ==
  CASE RunBranch(t) # "" -> RunBranch(t)
    [] RunBranch(t) = "" /\ profBranch[Job[t].app] # "" -> profBranch[Job[t].app]
    [] OTHER -> "public"

ExecuteDownload(t) ==
  /\ t \in Persist
  /\ Begin(t)
  /\ fetched' = [fetched EXCEPT ![t] = [option |-> RunBranch(t), branch |-> TargetOf(t)]]
  /\ UNCHANGED <<asked, held, meta, profBranch, click, batchVars, kills>>

(* A download that succeeds writes its branch option into the profile, unless it is "public". *)
EndDownload(t, e) ==
  /\ t \in Persist
  /\ Turn(t, "active", e)
  /\ profBranch' = IF e = "completed" /\ fetched[t].option \in Betas
                   THEN [profBranch EXCEPT ![Job[t].app] = fetched[t].option] ELSE profBranch
  /\ UNCHANGED <<asked, held, meta, fetched, click, batchVars, kills>>

SetGameBranch_(a, b) ==
  /\ profBranch' = [profBranch EXCEPT ![a] = b]
  /\ UNCHANGED <<life, asked, held, meta, fetched, click, batchVars, kills>>

(* Cancel and Remove of a task that waits. *)
Withdraw(t) ==
  /\ Turn(t, "waiting", "cancelled") \/ Leave(t)
  /\ UNCHANGED <<downloadVars, click, batchVars, kills>>

-----------------------------------------------------------------------------
(* BatchLibraryOperation.Execute. *)

BatchScan(t) ==
  /\ Job[t].kind = "batch"
  /\ Begin(t)
  /\ found' = [found EXCEPT ![t] = LibGames]
  /\ UNCHANGED <<downloadVars, click, tried, kills>>

(* The action on the next game, whether it succeeds or not. *)
BatchAction(t, g) ==
  /\ life[t] = "active" /\ g \in found[t] \ tried[t]
  /\ tried' = [tried EXCEPT ![t] = @ \cup {g}]
  /\ UNCHANGED <<life, downloadVars, click, found, kills>>

(* Mutant of BatchEnd: the first game that fails ends the batch without an error. *)
BatchEndAnywhere(t, e) ==
  /\ Job[t].kind = "batch"
  /\ Turn(t, "active", e)
  /\ UNCHANGED <<downloadVars, click, batchVars, kills>>

(* All games were tried, or the context was found cancelled between two of them. *)
BatchEnd(t, e) ==
  /\ Job[t].kind = "batch"
  /\ e = "cancelled" \/ (e = "completed" /\ tried[t] = found[t]) \/ (e = "failed" /\ tried[t] = {})
  /\ Turn(t, "active", e)
  /\ UNCHANGED <<downloadVars, click, batchVars, kills>>

OperationStep(t) ==
  /\ Job[t].kind = "operation"
  /\ Begin(t) \/ \E e \in Ends : Turn(t, "active", e)
  /\ UNCHANGED <<downloadVars, click, batchVars, kills>>

-----------------------------------------------------------------------------
(* The program is killed and started again: the closures and the calls under way are gone. *)
KillAndStart ==
  /\ kills < MaxKills
  /\ kills' = kills + 1
  /\ life' \in [Tasks -> {"new", "waiting", "gone"} \cup Ends]
  /\ Recover
  /\ held' = [t \in Tasks |-> "lost"]
  /\ click' = [c \in Clients |-> NoClick]
  /\ UNCHANGED <<asked, meta, fetched, profBranch, batchVars>>

SubmissionsInit ==
  /\ LifeInit
  /\ asked = [t \in Tasks |-> ""]
  /\ held = [t \in Tasks |-> "lost"]
  /\ meta = [t \in Tasks |-> ""]
  /\ fetched = [t \in Tasks |-> [option |-> "", branch |-> ""]]
  /\ profBranch = [a \in Apps |-> ""]
  /\ click = [c \in Clients |-> NoClick]
  /\ found = [t \in Tasks |-> {}]
  /\ tried = [t \in Tasks |-> {}]
  /\ kills = 0

SubmissionsNext ==
  \/ \E c \in Clients, a \in Apps, b \in BranchOptions : SubmitDownloadLook(c, a, b)
  \/ \E c \in Clients, t \in Tasks : SubmitDownload(c, t)
  \/ \E t \in Tasks : SubmitOther(t) \/ ExecuteDownload(t) \/ Withdraw(t) \/ BatchScan(t) \/ OperationStep(t)
  \/ \E t \in Tasks, e \in Ends : EndDownload(t, e) \/ BatchEnd(t, e)
  \/ \E t \in Tasks, g \in LibGames : BatchAction(t, g)
  \/ \E a \in Apps, b \in Betas \cup {"public"} : SetGameBranch_(a, b)
  \/ KillAndStart

SubmissionsSpec == SubmissionsInit /\ [][SubmissionsNext]_subVars

-----------------------------------------------------------------------------
(* At most one download of a game waits or works, through pauses, kills and restarts: two would write  *)
(* the same files and the same checkpoint.  It takes calls of SubmitDownload that do not overlap.      *)
OneDownloadPerGame ==
  \A t, u \in Persist :
    t # u /\ Job[t].app = Job[u].app => ~{life[t], life[u]} \subseteq {"waiting", "active"}

(* A download that was asked for a branch fetches that branch, also when it is resumed after a restart *)
(* and whatever branch the game's profile was set to meanwhile.                                        *)
BranchKept ==
  \A t \in Persist : life[t] = "active" /\ asked[t] # "" => fetched[t].branch = asked[t]

(* A batch that ends as completed has tried every game its scan found, those after a failing one too.  *)
BatchReaches ==
  \A t \in Tasks : Job[t].kind = "batch" /\ life[t] = "completed" => tried[t] = found[t]
=============================================================================
