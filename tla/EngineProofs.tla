---------------------------- MODULE EngineProofs ----------------------------
(* Proofs about what the engine does on request: the tasks it submits, the   *)
(* tools it updates, the games it trashes, and the personas and Wine prefixes *)
(* it launches with.                                                          *)
EXTENDS Submissions, ToolUpdate, Trash, Profiles, LaunchPlan, WellFoundedInduction, SequenceTheorems, TLAPS

-----------------------------------------------------------------------------
(* Submissions *)

Lives == {"new", "waiting", "active", "gone"} \cup Ends
Pending == {"waiting", "active"}

SubType ==
  /\ life \in [Tasks -> Lives]
  /\ asked \in [Tasks -> BranchOptions]
  /\ held \in [Tasks -> BranchOptions \cup {"lost"}]
  /\ meta \in [Tasks -> BranchOptions]
  /\ fetched \in [Tasks -> [option : BranchOptions, branch : BranchOptions]]
  /\ profBranch \in [Apps -> BranchOptions]
  /\ click \in [Clients -> [app : Apps, branch : BranchOptions] \cup {NoClick}]
  /\ found \in [Tasks -> SUBSET LibGames]
  /\ tried \in [Tasks -> SUBSET LibGames]
  /\ kills \in 0..MaxKills

(* A request that waits to be handed over found no download of its game, and none came since: *)
(* it is the only one.                                                                         *)
ClickInv ==
  /\ \A c, d \in Clients : click[c] # NoClick /\ click[d] # NoClick => c = d
  /\ \A c \in Clients : click[c] # NoClick => ~ActiveDownload(click[c].app)

(* The record of a download that has not ended names the branch it was asked for, and so does *)
(* the closure as long as there is one.                                                        *)
BranchInv ==
  \A t \in Persist : life[t] \in Pending => meta[t] = asked[t] /\ held[t] \in {asked[t], "lost"}

(* What a task's step does to the life of the others and its own. *)
LEMMA TurnLife ==
  ASSUME life \in [Tasks -> Lives], NEW t \in Tasks, NEW from, NEW to \in Lives, Turn(t, from, to)
  PROVE  /\ life' \in [Tasks -> Lives] /\ life[t] = from /\ life'[t] = to
         /\ \A u \in Tasks \ {t} : life'[u] = life[u]
BY DEF Turn

(* A kill and restart give no task a life that it could not have had. *)
LEMMA RecoverLife ==
  ASSUME life \in [Tasks -> Lives], KillAndStart
  PROVE  /\ life' \in [Tasks -> Lives]
         /\ \A t \in Tasks : life'[t] # "active"
         /\ \A t \in Tasks : life'[t] = "waiting" => life[t] \in Pending
         /\ \A t \in Tasks : life'[t] = "completed" => life[t] = "completed"
<1>1. life' \in [Tasks -> Lives] /\ \A t \in Tasks : life'[t] # "active"
  BY DEF KillAndStart, Lives, Ends
<1>2. ASSUME NEW t \in Tasks, life'[t] = "waiting" PROVE life[t] \in Pending
  BY <1>2 DEF KillAndStart, Recover, AfterKill, Pending
<1>3. ASSUME NEW t \in Tasks, life'[t] = "completed" PROVE life[t] = "completed"
  BY <1>3 DEF KillAndStart, Recover, AfterKill
<1> QED BY <1>1, <1>2, <1>3

(* The branch a download is started with and the one it fetches are branches. *)
LEMMA BranchType ==
  ASSUME SubType, NEW t \in Persist
  PROVE  RunBranch(t) \in BranchOptions /\ TargetOf(t) \in BranchOptions
<1>1. t \in Tasks /\ Job[t].app \in Apps
  BY SubmissionsAssumption DEF Apps
<1>2. profBranch[Job[t].app] \in BranchOptions /\ meta[t] \in BranchOptions /\ held[t] \in BranchOptions \cup {"lost"}
  BY <1>1 DEF SubType
<1>3. RunBranch(t) \in BranchOptions
  BY <1>2 DEF RunBranch
<1> QED BY <1>2, <1>3 DEF TargetOf, BranchOptions

LEMMA SubTypeStep ==
  ASSUME SubType, [SubmissionsNext]_subVars
  PROVE  SubType'
<1> USE DEF downloadVars, batchVars, Lives, Ends
<1>p. Persist \subseteq Tasks
  BY SubmissionsAssumption
<1>0. CASE UNCHANGED subVars
  BY <1>0 DEF SubType, subVars
<1>1. ASSUME NEW c \in Clients, NEW a \in Apps, NEW b \in BranchOptions, SubmitDownloadLook(c, a, b) PROVE SubType'
  BY <1>1 DEF SubType, SubmitDownloadLook
<1>2. ASSUME NEW c \in Clients, NEW t \in Tasks, SubmitDownload(c, t) PROVE SubType'
  <2>1. click[c].branch \in BranchOptions
    BY <1>2 DEF SubType, SubmitDownload
  <2> QED BY <1>2, <2>1 DEF SubType, SubmitDownload, Enlist, Turn, TaskSpecBranch
<1>3. ASSUME NEW t \in Tasks, SubmitOther(t) PROVE SubType'
  BY <1>3 DEF SubType, SubmitOther, Enlist, Turn
<1>4. ASSUME NEW t \in Tasks, ExecuteDownload(t) PROVE SubType'
  BY <1>4, BranchType DEF SubType, ExecuteDownload, Begin, Turn
<1>5. ASSUME NEW t \in Tasks, Withdraw(t) PROVE SubType'
  BY <1>5 DEF SubType, Withdraw, Leave, Turn
<1>6. ASSUME NEW t \in Tasks, BatchScan(t) PROVE SubType'
  BY <1>6 DEF SubType, BatchScan, Begin, Turn
<1>7. ASSUME NEW t \in Tasks, OperationStep(t) PROVE SubType'
  BY <1>7 DEF SubType, OperationStep, Begin, Turn
<1>8. ASSUME NEW t \in Tasks, NEW e \in Ends, EndDownload(t, e) PROVE SubType'
  <2>1. fetched[t].option \in BranchOptions
    BY DEF SubType
  <2> QED BY <1>8, <2>1 DEF SubType, EndDownload, Turn
<1>9. ASSUME NEW t \in Tasks, NEW e \in Ends, BatchEnd(t, e) PROVE SubType'
  BY <1>9 DEF SubType, BatchEnd, Turn
<1>10. ASSUME NEW t \in Tasks, NEW g \in LibGames, BatchAction(t, g) PROVE SubType'
  BY <1>10 DEF SubType, BatchAction
<1>11. ASSUME NEW a \in Apps, NEW b \in Betas \cup {"public"}, SetGameBranch_(a, b) PROVE SubType'
  BY <1>11 DEF SubType, SetGameBranch_, BranchOptions
<1>12. CASE KillAndStart
  <2>1. kills' \in 0..MaxKills
    BY <1>12, SubmissionsAssumption DEF SubType, KillAndStart
  <2> QED BY <1>12, <2>1, RecoverLife DEF SubType, KillAndStart
<1> QED BY <1>0, <1>1, <1>2, <1>3, <1>4, <1>5, <1>6, <1>7, <1>8, <1>9, <1>10, <1>11, <1>12 DEF SubmissionsNext

LEMMA SubTypeInit == SubmissionsInit => SubType
<1>1. SUFFICES ASSUME SubmissionsInit PROVE SubType
  OBVIOUS
<1>2. "" \in BranchOptions /\ "new" \in Lives
  BY DEF BranchOptions, Lives
<1>3. kills \in 0..MaxKills
  <2>1. kills = 0 /\ MaxKills \in Nat
    BY <1>1, SubmissionsAssumption DEF SubmissionsInit
  <2> QED BY <2>1
<1> QED BY <1>1, <1>2, <1>3 DEF SubmissionsInit, LifeInit, SubType

(* Which downloads wait or work after a step: besides one that is handed over, only those before it. *)
LEMMA PendingStep ==
  ASSUME SubType, [SubmissionsNext]_subVars, NEW t \in Persist, life'[t] \in Pending,
         ~\E c \in Clients : SubmitDownload(c, t)
  PROVE  life[t] \in Pending
<1> USE DEF Pending, SubType, Turn, Ends
<1>p. t \in Tasks /\ Job[t].kind = "download"
  BY SubmissionsAssumption
<1>0. CASE UNCHANGED subVars
  BY <1>0, <1>p DEF subVars
<1>1. ASSUME NEW c \in Clients, NEW a \in Apps, NEW b \in BranchOptions, SubmitDownloadLook(c, a, b) PROVE life[t] \in Pending
  BY <1>1, <1>p DEF SubmitDownloadLook
<1>2. ASSUME NEW c \in Clients, NEW u \in Tasks, SubmitDownload(c, u) PROVE life[t] \in Pending
  BY <1>2, <1>p DEF SubmitDownload, Enlist
<1>3. ASSUME NEW u \in Tasks, SubmitOther(u) PROVE life[t] \in Pending
  BY <1>3, <1>p DEF SubmitOther, Enlist
<1>4. ASSUME NEW u \in Tasks, ExecuteDownload(u) PROVE life[t] \in Pending
  BY <1>4, <1>p DEF ExecuteDownload, Begin
<1>5. ASSUME NEW u \in Tasks, Withdraw(u) PROVE life[t] \in Pending
  BY <1>5, <1>p DEF Withdraw, Leave
<1>6. ASSUME NEW u \in Tasks, BatchScan(u) PROVE life[t] \in Pending
  BY <1>6, <1>p DEF BatchScan, Begin
<1>7. ASSUME NEW u \in Tasks, OperationStep(u) PROVE life[t] \in Pending
  BY <1>7, <1>p DEF OperationStep, Begin
<1>8. ASSUME NEW u \in Tasks, NEW e \in Ends, EndDownload(u, e) PROVE life[t] \in Pending
  BY <1>8, <1>p DEF EndDownload
<1>9. ASSUME NEW u \in Tasks, NEW e \in Ends, BatchEnd(u, e) PROVE life[t] \in Pending
  BY <1>9, <1>p DEF BatchEnd
<1>10. ASSUME NEW u \in Tasks, NEW g \in LibGames, BatchAction(u, g) PROVE life[t] \in Pending
  BY <1>10, <1>p DEF BatchAction
<1>11. ASSUME NEW a \in Apps, NEW b \in Betas \cup {"public"}, SetGameBranch_(a, b) PROVE life[t] \in Pending
  BY <1>11, <1>p DEF SetGameBranch_
<1>12. CASE KillAndStart
  BY <1>12, <1>p, RecoverLife
<1> QED BY <1>0, <1>1, <1>2, <1>3, <1>4, <1>5, <1>6, <1>7, <1>8, <1>9, <1>10, <1>11, <1>12 DEF SubmissionsNext

(* Calls that do not overlap keep a game's downloads apart. *)
LEMMA ClickStep ==
  ASSUME ~ClicksOverlap, SubType, ClickInv, OneDownloadPerGame, [SubmissionsNext]_subVars
  PROVE  ClickInv' /\ OneDownloadPerGame'
<1>1. CASE \E c \in Clients, t \in Tasks : SubmitDownload(c, t)
  <2>1. PICK c \in Clients, t \in Tasks : SubmitDownload(c, t)
    BY <1>1
  <2>2. /\ click[c] # NoClick /\ click' = [click EXCEPT ![c] = NoClick]
        /\ t \in Persist /\ Job[t].app = click[c].app /\ \A u \in Tasks \ {t} : life'[u] = life[u]
    BY <2>1 DEF SubmitDownload, Enlist, Turn, SubType
  <2>3. \A d \in Clients : click'[d] = NoClick
    BY <2>2 DEF ClickInv, SubType
  <2>4. \A u \in Persist : Job[u].app = Job[t].app => life[u] \notin Pending
    BY <2>2 DEF ClickInv, ActiveDownload, Pending
  <2>5. OneDownloadPerGame'
    BY <2>2, <2>4, SubmissionsAssumption DEF OneDownloadPerGame, Pending
  <2> QED BY <2>3, <2>5 DEF ClickInv
<1>2. CASE ~\E c \in Clients, t \in Tasks : SubmitDownload(c, t)
  <2>1. \A t \in Persist : life'[t] \in Pending => life[t] \in Pending
    BY <1>2, PendingStep, SubmissionsAssumption
  <2>2. OneDownloadPerGame'
    BY <2>1 DEF OneDownloadPerGame, Pending
  <2>3. \A a \in Apps : ~ActiveDownload(a) => ~ActiveDownload(a)'
    BY <2>1 DEF ActiveDownload, Pending
  <2>4. CASE \E c \in Clients, a \in Apps, b \in BranchOptions : SubmitDownloadLook(c, a, b)
    <3>1. PICK c \in Clients, a \in Apps, b \in BranchOptions : SubmitDownloadLook(c, a, b)
      BY <2>4
    <3>2. /\ \A d \in Clients \ {c} : click'[d] = NoClick
          /\ click'[c].app = a /\ ~ActiveDownload(a)
      BY <3>1 DEF SubmitDownloadLook, SubType
    <3> QED BY <2>2, <2>3, <3>2 DEF ClickInv
  <2>5. CASE \A c \in Clients : click'[c] \in {click[c], NoClick}
    <3>1. \A c \in Clients : click[c] # NoClick => click[c].app \in Apps
      BY DEF SubType
    <3> QED BY <2>2, <2>3, <2>5, <3>1 DEF ClickInv
  <2>6. (\E c \in Clients, a \in Apps, b \in BranchOptions : SubmitDownloadLook(c, a, b))
          \/ \A c \in Clients : click'[c] \in {click[c], NoClick}
    BY <1>2 DEF SubmissionsNext, subVars, downloadVars, batchVars, SubmitOther, ExecuteDownload, Withdraw, BatchScan, OperationStep,
         EndDownload, BatchEnd, BatchAction, SetGameBranch_, KillAndStart
  <2> QED BY <2>4, <2>5, <2>6
<1> QED BY <1>1, <1>2

(* The record and the closure keep the branch, and a download starts with it. *)
LEMMA BranchStep ==
  ASSUME SubType, BranchInv, BranchKept, [SubmissionsNext]_subVars
  PROVE  BranchInv' /\ BranchKept'
<1> USE DEF Pending, SubType, Turn, Ends, downloadVars, batchVars
<1>p. Persist \subseteq Tasks /\ \A t \in Persist : Job[t].kind = "download"
  BY SubmissionsAssumption
<1>0. CASE UNCHANGED subVars
  BY <1>0, <1>p DEF BranchInv, BranchKept, subVars
<1>1. ASSUME NEW c \in Clients, NEW a \in Apps, NEW b \in BranchOptions, SubmitDownloadLook(c, a, b) PROVE BranchInv' /\ BranchKept'
  BY <1>1, <1>p DEF BranchInv, BranchKept, SubmitDownloadLook
<1>2. ASSUME NEW c \in Clients, NEW t \in Tasks, SubmitDownload(c, t) PROVE BranchInv' /\ BranchKept'
  BY <1>2, <1>p DEF BranchInv, BranchKept, SubmitDownload, Enlist, TaskSpecBranch
<1>3. ASSUME NEW t \in Tasks, SubmitOther(t) PROVE BranchInv' /\ BranchKept'
  BY <1>3, <1>p DEF BranchInv, BranchKept, SubmitOther, Enlist
<1>4. ASSUME NEW t \in Tasks, ExecuteDownload(t) PROVE BranchInv' /\ BranchKept'
  <2>1. t \in Persist /\ life[t] = "waiting" /\ meta[t] = asked[t] /\ held[t] \in {asked[t], "lost"}
    BY <1>4 DEF ExecuteDownload, Begin, BranchInv
  <2>2. asked[t] # "" => TargetOf(t) = asked[t]
    BY <2>1 DEF TargetOf, RunBranch
  <2>3. fetched'[t].branch = TargetOf(t) /\ \A u \in Tasks \ {t} : fetched'[u] = fetched[u] /\ life'[u] = life[u]
    BY <1>4 DEF ExecuteDownload, Begin
  <2>4. UNCHANGED <<asked, held, meta>>
    BY <1>4 DEF ExecuteDownload
  <2>5. BranchKept'
    BY <1>p, <2>2, <2>3, <2>4 DEF BranchKept
  <2>6. BranchInv'
    BY <1>p, <2>1, <2>3, <2>4 DEF BranchInv
  <2> QED BY <2>5, <2>6
<1>5. ASSUME NEW t \in Tasks, Withdraw(t) PROVE BranchInv' /\ BranchKept'
  BY <1>5, <1>p DEF BranchInv, BranchKept, Withdraw, Leave
<1>6. ASSUME NEW t \in Tasks, BatchScan(t) PROVE BranchInv' /\ BranchKept'
  BY <1>6, <1>p DEF BranchInv, BranchKept, BatchScan, Begin
<1>7. ASSUME NEW t \in Tasks, OperationStep(t) PROVE BranchInv' /\ BranchKept'
  BY <1>7, <1>p DEF BranchInv, BranchKept, OperationStep, Begin
<1>8. ASSUME NEW t \in Tasks, NEW e \in Ends, EndDownload(t, e) PROVE BranchInv' /\ BranchKept'
  BY <1>8, <1>p DEF BranchInv, BranchKept, EndDownload
<1>9. ASSUME NEW t \in Tasks, NEW e \in Ends, BatchEnd(t, e) PROVE BranchInv' /\ BranchKept'
  BY <1>9, <1>p DEF BranchInv, BranchKept, BatchEnd
<1>10. ASSUME NEW t \in Tasks, NEW g \in LibGames, BatchAction(t, g) PROVE BranchInv' /\ BranchKept'
  BY <1>10, <1>p DEF BranchInv, BranchKept, BatchAction
<1>11. ASSUME NEW a \in Apps, NEW b \in Betas \cup {"public"}, SetGameBranch_(a, b) PROVE BranchInv' /\ BranchKept'
  BY <1>11, <1>p DEF BranchInv, BranchKept, SetGameBranch_
<1>12. CASE KillAndStart
  <2>1. UNCHANGED <<asked, meta>> /\ \A t \in Tasks : held'[t] = "lost"
    BY <1>12 DEF KillAndStart
  <2> QED BY <1>12, <1>p, <2>1, RecoverLife DEF BranchInv, BranchKept
<1> QED BY <1>0, <1>1, <1>2, <1>3, <1>4, <1>5, <1>6, <1>7, <1>8, <1>9, <1>10, <1>11, <1>12 DEF SubmissionsNext

(* A batch that completed is not touched any more. *)
LEMMA BatchStep ==
  ASSUME SubType, BatchReaches, [SubmissionsNext]_subVars
  PROVE  BatchReaches'
<1> USE DEF SubType, Turn, Ends, downloadVars, batchVars
<1>p. Persist \subseteq Tasks /\ \A t \in Persist : Job[t].kind = "download"
  BY SubmissionsAssumption
<1>0. CASE UNCHANGED subVars
  BY <1>0, <1>p DEF BatchReaches, subVars
<1>1. ASSUME NEW c \in Clients, NEW a \in Apps, NEW b \in BranchOptions, SubmitDownloadLook(c, a, b) PROVE BatchReaches'
  BY <1>1, <1>p DEF BatchReaches, SubmitDownloadLook
<1>2. ASSUME NEW c \in Clients, NEW t \in Tasks, SubmitDownload(c, t) PROVE BatchReaches'
  BY <1>2, <1>p DEF BatchReaches, SubmitDownload, Enlist
<1>3. ASSUME NEW t \in Tasks, SubmitOther(t) PROVE BatchReaches'
  BY <1>3, <1>p DEF BatchReaches, SubmitOther, Enlist
<1>4. ASSUME NEW t \in Tasks, ExecuteDownload(t) PROVE BatchReaches'
  BY <1>4, <1>p DEF BatchReaches, ExecuteDownload, Begin
<1>5. ASSUME NEW t \in Tasks, Withdraw(t) PROVE BatchReaches'
  BY <1>5, <1>p DEF BatchReaches, Withdraw, Leave
<1>6. ASSUME NEW t \in Tasks, BatchScan(t) PROVE BatchReaches'
  BY <1>6, <1>p DEF BatchReaches, BatchScan, Begin
<1>7. ASSUME NEW t \in Tasks, OperationStep(t) PROVE BatchReaches'
  BY <1>7, <1>p DEF BatchReaches, OperationStep, Begin
<1>8. ASSUME NEW t \in Tasks, NEW e \in Ends, EndDownload(t, e) PROVE BatchReaches'
  BY <1>8, <1>p DEF BatchReaches, EndDownload
<1>9. ASSUME NEW t \in Tasks, NEW e \in Ends, BatchEnd(t, e) PROVE BatchReaches'
  BY <1>9, <1>p DEF BatchReaches, BatchEnd
<1>10. ASSUME NEW t \in Tasks, NEW g \in LibGames, BatchAction(t, g) PROVE BatchReaches'
  BY <1>10, <1>p DEF BatchReaches, BatchAction
<1>11. ASSUME NEW a \in Apps, NEW b \in Betas \cup {"public"}, SetGameBranch_(a, b) PROVE BatchReaches'
  BY <1>11, <1>p DEF BatchReaches, SetGameBranch_
<1>12. CASE KillAndStart
  <2>1. UNCHANGED <<found, tried>>
    BY <1>12 DEF KillAndStart
  <2> QED BY <1>12, <2>1, RecoverLife DEF BatchReaches
<1> QED BY <1>0, <1>1, <1>2, <1>3, <1>4, <1>5, <1>6, <1>7, <1>8, <1>9, <1>10, <1>11, <1>12 DEF SubmissionsNext

(* SubmitDownload keeps two downloads of one game from being under way together, through pauses, *)
(* kills and restarts, when its calls do not overlap.                                            *)
THEOREM DownloadsExclusive ==
  ASSUME ~ClicksOverlap
  PROVE  SubmissionsSpec => []OneDownloadPerGame
<1>1. SubmissionsInit => SubType /\ ClickInv /\ OneDownloadPerGame
  <2>1. SUFFICES ASSUME SubmissionsInit PROVE ClickInv /\ OneDownloadPerGame
    BY SubTypeInit
  <2>2. \A t \in Persist : life[t] = "new"
    BY <2>1, SubmissionsAssumption DEF SubmissionsInit, LifeInit
  <2> QED BY <2>1, <2>2 DEF SubmissionsInit, ClickInv, OneDownloadPerGame
<1>2. SubType /\ ClickInv /\ OneDownloadPerGame /\ [SubmissionsNext]_subVars => SubType' /\ ClickInv' /\ OneDownloadPerGame'
  BY SubTypeStep, ClickStep
<1> QED BY <1>1, <1>2, PTL DEF SubmissionsSpec

(* A download fetches the branch it was asked for, whether its closure still holds the options or *)
(* the registered runner puts them together again from the record after a restart.                *)
THEOREM BranchSurvives == SubmissionsSpec => []BranchKept
<1>1. SubmissionsInit => SubType /\ BranchInv /\ BranchKept
  <2>1. SUFFICES ASSUME SubmissionsInit PROVE BranchInv /\ BranchKept
    BY SubTypeInit
  <2>2. \A t \in Persist : life[t] = "new"
    BY <2>1, SubmissionsAssumption DEF SubmissionsInit, LifeInit
  <2> QED BY <2>2 DEF BranchInv, BranchKept, Pending
<1>2. SubType /\ BranchInv /\ BranchKept /\ [SubmissionsNext]_subVars => SubType' /\ BranchInv' /\ BranchKept'
  BY SubTypeStep, BranchStep
<1> QED BY <1>1, <1>2, PTL DEF SubmissionsSpec

(* A batch reported as completed has tried every game it found, the ones behind a failing one too. *)
THEOREM BatchComplete == SubmissionsSpec => []BatchReaches
<1>1. SubmissionsInit => SubType /\ BatchReaches
  BY SubTypeInit DEF SubmissionsInit, LifeInit, BatchReaches
<1>2. SubType /\ BatchReaches /\ [SubmissionsNext]_subVars => SubType' /\ BatchReaches'
  BY SubTypeStep, BatchStep
<1> QED BY <1>1, <1>2, PTL DEF SubmissionsSpec

-----------------------------------------------------------------------------
(* Tool updates *)

ToolsType ==
  /\ tool \in Tools
  /\ latest \in Nat /\ stamp \in Nat /\ relCache \in Nat /\ claimed \in Nat
  /\ parts \in [Parts(tool) -> Nat]
  /\ updates \in [Updaters -> [release : Nat, left : SUBSET Parts(tool)]]

(* One update at a time.  The parts it has done with are of its release and nothing is claimed  *)
(* meanwhile; the emulator is not updated while its stamp names the latest release.             *)
UpdateInv ==
  /\ \A u, v \in Updaters : updates[u] # NoUpdate /\ updates[v] # NoUpdate => u = v
  /\ \A u \in Updaters : updates[u] # NoUpdate =>
       /\ claimed = 0
       /\ updates[u].release # 0 /\ updates[u].release <= latest
       /\ tool # "umu" => \A p \in Parts(tool) \ updates[u].left : parts[p] = updates[u].release
       /\ tool = "gbe" => stamp # latest
  /\ stamp <= latest /\ relCache <= latest

(* What an update that reported success claims, and what the emulator's stamp says, is there. *)
ClaimInv ==
  /\ tool # "umu" /\ claimed # 0 => Whole(claimed)
  /\ tool = "gbe" /\ stamp = latest /\ latest # 0 => Whole(latest)

LEMMA ToolsTypeStep ==
  ASSUME ToolsType, [ToolsNext]_toolVars
  PROVE  ToolsType'
<1> USE ToolUpdateAssumption DEF ToolsType, NoUpdate, HalfWritten
<1>0. CASE UNCHANGED toolVars
  BY <1>0 DEF toolVars
<1>1. CASE PublishRelease
  BY <1>1 DEF PublishRelease
<1>2. CASE GetToolsStatus
  BY <1>2 DEF GetToolsStatus
<1>3. CASE ExpireRelease
  BY <1>3 DEF ExpireRelease
<1>4. ASSUME NEW u \in Updaters, StartUpdate(u) PROVE ToolsType'
  BY <1>4 DEF StartUpdate, ReleaseNow, AlreadyCurrent
<1>5. ASSUME NEW u \in Updaters, NEW p \in DOMAIN parts, ExtractBegin(u, p) PROVE ToolsType'
  BY <1>5 DEF ExtractBegin
<1>6. ASSUME NEW u \in Updaters, NEW p \in DOMAIN parts, ExtractEnd(u, p) PROVE ToolsType'
  BY <1>6 DEF ExtractEnd, Written
<1>7. ASSUME NEW u \in Updaters, ExtractUMU(u) PROVE ToolsType'
  BY <1>7 DEF ExtractUMU, Written
<1>8. ASSUME NEW u \in Updaters, CopyUMU(u) PROVE ToolsType'
  BY <1>8 DEF CopyUMU, Written
<1>9. ASSUME NEW u \in Updaters, RemoveProton(u) PROVE ToolsType'
  BY <1>9 DEF RemoveProton
<1>10. ASSUME NEW u \in Updaters, RenameProton(u) PROVE ToolsType'
  BY <1>10 DEF RenameProton, Written
<1>11. ASSUME NEW u \in Updaters, WriteStamp(u) PROVE ToolsType'
  BY <1>11 DEF WriteStamp
<1>12. ASSUME NEW u \in Updaters, FailUpdate(u) PROVE ToolsType'
  BY <1>12 DEF FailUpdate
<1> QED BY <1>0, <1>1, <1>2, <1>3, <1>4, <1>5, <1>6, <1>7, <1>8, <1>9, <1>10, <1>11, <1>12 DEF ToolsNext

(* A part is done with: written with the update's release, or whatever the update of umu leaves there. *)
LEMMA PartDone ==
  ASSUME ToolsType, UpdateInv, ClaimInv, NEW u \in Updaters, NEW p \in updates[u].left, updates' = Written(u, p),
         UNCHANGED <<tool, latest, stamp, relCache, claimed>>,
         tool = "umu" \/ parts' = [parts EXCEPT ![p] = updates[u].release]
  PROVE  UpdateInv' /\ ClaimInv'
<1>1. updates[u] # NoUpdate /\ claimed = 0 /\ p \in Parts(tool)
  BY DEF ToolsType, UpdateInv, NoUpdate
<1>2. /\ updates'[u].release = updates[u].release /\ updates'[u].left = updates[u].left \ {p}
      /\ \A v \in Updaters \ {u} : updates'[v] = updates[v] /\ updates[v] = NoUpdate
  BY <1>1 DEF ToolsType, Written, UpdateInv
<1>3. tool # "umu" => \A q \in Parts(tool) \ updates'[u].left : parts'[q] = updates[u].release
  BY <1>1, <1>2 DEF ToolsType, UpdateInv
<1>4. tool = "gbe" => stamp # latest
  BY <1>1 DEF UpdateInv
<1>5. UpdateInv'
  BY <1>1, <1>2, <1>3 DEF UpdateInv
<1>6. ClaimInv'
  BY <1>1, <1>4 DEF ClaimInv
<1> QED BY <1>5, <1>6

LEMMA UpdateStep ==
  ASSUME ~ToolCallsOverlap, ToolsType, UpdateInv, ClaimInv, [ToolsNext]_toolVars
  PROVE  UpdateInv' /\ ClaimInv'
<1> USE ToolUpdateAssumption DEF ToolsType
<1>0. CASE UNCHANGED toolVars
  BY <1>0 DEF UpdateInv, ClaimInv, Whole, NoUpdate, toolVars
<1>1. CASE PublishRelease
  BY <1>1 DEF UpdateInv, ClaimInv, Whole, NoUpdate, PublishRelease
<1>2. CASE GetToolsStatus
  BY <1>2 DEF UpdateInv, ClaimInv, Whole, NoUpdate, GetToolsStatus
<1>3. CASE ExpireRelease
  BY <1>3 DEF UpdateInv, ClaimInv, Whole, NoUpdate, ExpireRelease
<1>4. ASSUME NEW u \in Updaters, StartUpdate(u) PROVE UpdateInv' /\ ClaimInv'
  <2>1. \A o \in Updaters : updates[o] = NoUpdate
    BY <1>4 DEF StartUpdate
  <2>2. UNCHANGED <<tool, latest, parts, stamp>> /\ relCache' <= latest
    BY <1>4 DEF StartUpdate, ReleaseNow, UpdateInv
  <2>3. CASE AlreadyCurrent
    <3>1. claimed' = latest /\ updates' = updates /\ tool = "gbe" /\ stamp = latest /\ latest # 0
      BY <1>4, <2>3 DEF StartUpdate, AlreadyCurrent
    <3> QED BY <2>1, <2>2, <3>1 DEF UpdateInv, ClaimInv, Whole
  <2>4. CASE ~AlreadyCurrent
    <3>1. claimed' = 0 /\ ReleaseNow # 0 /\ ReleaseNow <= latest /\ (tool = "gbe" => stamp # latest)
      BY <1>4, <2>4 DEF StartUpdate, AlreadyCurrent, ReleaseNow, UpdateInv
    <3>2. /\ updates'[u].release = ReleaseNow /\ updates'[u].left = Parts(tool)
          /\ \A o \in Updaters \ {u} : updates'[o] = NoUpdate
      BY <1>4, <2>1, <2>4 DEF StartUpdate
    <3>3. UpdateInv'
      BY <2>2, <3>1, <3>2 DEF UpdateInv
    <3> QED BY <2>2, <3>1, <3>3 DEF ClaimInv, Whole
  <2> QED BY <2>3, <2>4
<1>5. ASSUME NEW u \in Updaters, NEW p \in DOMAIN parts, ExtractBegin(u, p) PROVE UpdateInv' /\ ClaimInv'
  BY <1>5 DEF UpdateInv, ClaimInv, Whole, NoUpdate, ExtractBegin
<1>6. ASSUME NEW u \in Updaters, NEW p \in DOMAIN parts, ExtractEnd(u, p) PROVE UpdateInv' /\ ClaimInv'
  BY <1>6, PartDone DEF ExtractEnd
<1>7. ASSUME NEW u \in Updaters, ExtractUMU(u) PROVE UpdateInv' /\ ClaimInv'
  BY <1>7, PartDone DEF ExtractUMU
<1>8. ASSUME NEW u \in Updaters, CopyUMU(u) PROVE UpdateInv' /\ ClaimInv'
  BY <1>8, PartDone DEF CopyUMU
<1>9. ASSUME NEW u \in Updaters, RemoveProton(u) PROVE UpdateInv' /\ ClaimInv'
  BY <1>9 DEF UpdateInv, ClaimInv, Whole, NoUpdate, RemoveProton
<1>10. ASSUME NEW u \in Updaters, RenameProton(u) PROVE UpdateInv' /\ ClaimInv'
  BY <1>10, PartDone DEF RenameProton
<1>11. ASSUME NEW u \in Updaters, WriteStamp(u) PROVE UpdateInv' /\ ClaimInv'
  BY <1>11 DEF UpdateInv, ClaimInv, Whole, NoUpdate, WriteStamp
<1>12. ASSUME NEW u \in Updaters, FailUpdate(u) PROVE UpdateInv' /\ ClaimInv'
  BY <1>12 DEF UpdateInv, ClaimInv, Whole, NoUpdate, FailUpdate
<1> QED BY <1>0, <1>1, <1>2, <1>3, <1>4, <1>5, <1>6, <1>7, <1>8, <1>9, <1>10, <1>11, <1>12 DEF ToolsNext

(* An update reports success only when every part is of the release it names, and the status *)
(* calls the emulator current only when it is there as a whole, after any number of failed    *)
(* and interrupted updates, when a tool is updated by one call at a time.                     *)
THEOREM UpdatesHonest ==
  ASSUME ~ToolCallsOverlap
  PROVE  ToolsSpec => []ToolsHonest
<1>1. ToolsInit => ToolsType /\ UpdateInv /\ ClaimInv
  BY DEF ToolsInit, ToolsType, UpdateInv, ClaimInv, NoUpdate
<1>2. ToolsType /\ UpdateInv /\ ClaimInv /\ [ToolsNext]_toolVars => ToolsType' /\ UpdateInv' /\ ClaimInv'
  BY ToolsTypeStep, UpdateStep
<1>3. ClaimInv => ToolsHonest
  BY DEF ClaimInv, ToolsHonest, HasUpdate, StampHasUpdate
<1> QED BY <1>1, <1>2, <1>3, PTL DEF ToolsSpec

-----------------------------------------------------------------------------
(* The trash *)

Steps == {"idle", "tools", "fallback", "named", "informed", "copying", "removing"}

Entry == [step : Steps, name : Names, left : SUBSET TrashFiles]

TrashType ==
  /\ home \subseteq [game : TrashGames, file : TrashFiles, version : Nat]
  /\ bin \in [Names -> SUBSET [game : TrashGames, file : TrashFiles, version : Nat]]
  /\ moves \in [TrashGames -> Entry]
  /\ content \in [TrashGames -> Nat]

(* A library holds one version of each file, one call is under way, and the game it trashes does not run. *)
Settled ==
  /\ \A t, u \in home : t.game = u.game /\ t.file = u.file => t = u
  /\ \A g, o \in TrashGames : moves[g] # NoMove /\ moves[o] # NoMove => g = o
  /\ \A g \in TrashGames : g \in playing => moves[g] = NoMove

(* Nothing is under a name that was picked but what the call that picked it copied, and every file  *)
(* that is not to be copied any more is there.                                                      *)
MoveOk(g) ==
  LET there == bin[moves[g].name] IN
  /\ moves[g].step \in {"named", "informed"} => there = {}
  /\ moves[g].step = "copying" =>
       there \subseteq At(g) /\ \A t \in At(g) : t.file \in moves[g].left \/ t \in there
  /\ moves[g].step = "removing" => At(g) \subseteq there

MoveInv == \A g \in TrashGames : MoveOk(g)

TrashInv == TrashType /\ Settled /\ MoveInv /\ NothingLost

(* A set of numbers that is not empty has a least element. *)
LEMMA LeastElement ==
  ASSUME NEW S \in SUBSET Nat, S # {}
  PROVE  \E n \in S : \A m \in S : n <= m
<1>1. PICK n \in S : \A m \in S : ~(<<m, n>> \in OpToRel(<, Nat))
  BY WFMin, NatLessThanWellFounded
<1>2. \A m \in S : ~(m < n)
  BY <1>1 DEF OpToRel
<1> QED BY <1>2

(* The name that is picked is free when there is a free one. *)
LEMMA FirstFreeIsFree ==
  ASSUME NEW n \in Names, IsFree(n)
  PROVE  FirstFree \in Names /\ IsFree(FirstFree)
<1>1. Names \subseteq Nat
  BY TrashAssumption DEF Names
<1>2. PICK k \in {m \in Names : IsFree(m)} : \A m \in {p \in Names : IsFree(p)} : k <= m
  BY <1>1, LeastElement
<1> QED BY <1>2 DEF FirstFree

(* Only the entry of g changes. *)
Only(g) == moves' \in [TrashGames -> Entry] /\ \A o \in TrashGames \ {g} : moves'[o] = moves[o]

(* How a call changes its entry. *)
LEMMA MoveEntries ==
  ASSUME TrashType, NEW g \in TrashGames
  PROVE  /\ Trashed(g) \/ Failed(g) => Only(g) /\ moves'[g] = NoMove
         /\ \A s \in Steps : GoOn(g, s) =>
              Only(g) /\ moves'[g].step = s /\ moves'[g].name = moves[g].name /\ moves'[g].left = moves[g].left
<1>1. NoMove \in Entry
  BY TrashAssumption DEF NoMove, Steps, Names, Entry
<1>2. moves \in [TrashGames -> Entry]
  BY DEF TrashType
<1>3. ASSUME Trashed(g) \/ Failed(g) PROVE Only(g) /\ moves'[g] = NoMove
  BY <1>1, <1>2, <1>3 DEF Trashed, Failed, Only
<1>4. ASSUME NEW s \in Steps, GoOn(g, s)
      PROVE  Only(g) /\ moves'[g].step = s /\ moves'[g].name = moves[g].name /\ moves'[g].left = moves[g].left
  BY <1>2, <1>4 DEF GoOn, Only, Entry
<1> QED BY <1>3, <1>4

(* A step of the only call there is: the others have nothing that could go wrong. *)
LEMMA OneCall ==
  ASSUME Settled, NEW g \in TrashGames, moves[g] # NoMove, Only(g), playing' = playing, home' \subseteq home, MoveOk(g)'
  PROVE  Settled' /\ MoveInv'
<1>1. \A o \in TrashGames \ {g} : moves'[o] = NoMove
  BY DEF Settled, Only
<1>2. \A o \in TrashGames \ {g} : MoveOk(o)'
  BY <1>1 DEF MoveOk, NoMove
<1>3. Settled'
  BY <1>1 DEF Settled
<1> QED BY <1>2, <1>3 DEF MoveInv

(* What is in the libraries and in the trash stays somewhere. *)
LEMMA Kept ==
  ASSUME NothingLost, wanted' = wanted, \A t : t \in home \/ InTrash(t) => t \in home' \/ InTrash(t)',
         \A t \in home' : t.game \in shown'
  PROVE  NothingLost'
BY DEF NothingLost

LEMMA TrashStep ==
  ASSUME ~TrashCallsOverlap, ~LaunchDuringTrash, TrashInv, [TrashNext]_trashVars
  PROVE  TrashInv'
<1> USE DEF TrashInv
<1>0. CASE UNCHANGED trashVars
  BY <1>0 DEF trashVars, TrashType, Settled, MoveInv, MoveOk, NothingLost, At, InTrash
<1>1. ASSUME NEW g \in TrashGames, TrashGame(g) PROVE TrashInv'
  <2>1. Only(g) /\ moves'[g].step = "tools"
    BY <1>1 DEF TrashGame, TrashType, Steps, Entry, Only
  <2>2. \A o \in TrashGames \ {g} : moves'[o] = NoMove
    BY <1>1, <2>1 DEF TrashGame, Only
  <2>3. MoveInv'
    BY <2>1, <2>2 DEF MoveInv, MoveOk, NoMove
  <2> QED BY <1>1, <2>1, <2>2, <2>3 DEF TrashGame, TrashType, Settled, NothingLost, InTrash, Only
<1>2. ASSUME NEW g \in TrashGames, TrashWithContext(g) PROVE TrashInv'
  <2>1. moves[g] # NoMove /\ "fallback" \in Steps
    BY <1>2 DEF TrashWithContext, NoMove, Steps
  <2>2. Only(g) /\ moves'[g].step \in {"idle", "fallback"}
    BY <1>2, <2>1, MoveEntries DEF TrashWithContext, NoMove
  <2>3. MoveOk(g)'
    BY <2>2 DEF MoveOk
  <2>4. CASE UNCHANGED <<home, bin, info>> /\ GoOn(g, "fallback")
    <3>1. Settled' /\ MoveInv'
      BY <1>2, <2>1, <2>2, <2>3, <2>4, OneCall DEF TrashWithContext
    <3> QED BY <1>2, <2>2, <2>4, <3>1 DEF TrashWithContext, GoOn, TrashType, NothingLost, InTrash, Only
  <2>5. CASE /\ \E n \in Names : IsFree(n)
             /\ bin' = [bin EXCEPT ![FirstFree] = At(g)]
             /\ info' = [info EXCEPT ![FirstFree] = g]
             /\ home' = home \ At(g)
             /\ Trashed(g) \/ GoOn(g, "fallback")
    <3>1. FirstFree \in Names /\ bin[FirstFree] = {}
      BY <2>5, FirstFreeIsFree DEF IsFree
    <3>2. TrashType'
      BY <1>2, <2>2, <2>5, <3>1 DEF TrashType, TrashWithContext, At, Only
    <3>3. Settled' /\ MoveInv'
      BY <1>2, <2>1, <2>2, <2>3, <2>5, OneCall DEF TrashWithContext
    <3>4. \A t : InTrash(t) \/ t \in At(g) => InTrash(t)'
      BY <2>5, <3>1 DEF InTrash, TrashType
    <3>5. \A t \in home' : t.game \in shown'
      BY <2>5 DEF Trashed, GoOn, NothingLost, At
    <3>6. NothingLost'
      BY <1>2, <2>5, <3>4, <3>5, Kept DEF TrashWithContext
    <3> QED BY <3>2, <3>3, <3>6
  <2> QED BY <1>2, <2>4, <2>5 DEF TrashWithContext
<1>3. ASSUME NEW g \in TrashGames, findUniqueTrashName(g) PROVE TrashInv'
  <2>1. moves[g] # NoMove
    BY <1>3 DEF findUniqueTrashName, NoMove
  <2>2. Only(g) /\ MoveOk(g)' /\ UNCHANGED shown
    <3>1. CASE \E n \in Names : IsFree(n)
      <4>1. FirstFree \in Names /\ bin[FirstFree] = {}
        BY <3>1, FirstFreeIsFree DEF IsFree
      <4>2. Only(g) /\ moves'[g].step = "named" /\ moves'[g].name = FirstFree
        BY <1>3, <3>1, <4>1 DEF findUniqueTrashName, TrashType, Steps, Entry, Only
      <4> QED BY <1>3, <3>1, <4>1, <4>2 DEF findUniqueTrashName, MoveOk
    <3>2. CASE Failed(g)
      <4>1. Only(g) /\ moves'[g] = NoMove
        BY <3>2, MoveEntries
      <4> QED BY <3>2, <4>1 DEF MoveOk, NoMove, Failed
    <3> QED BY <1>3, <3>1, <3>2 DEF findUniqueTrashName
  <2>3. Settled' /\ MoveInv'
    BY <1>3, <2>1, <2>2, OneCall DEF findUniqueTrashName
  <2> QED BY <1>3, <2>2, <2>3 DEF findUniqueTrashName, TrashType, NothingLost, InTrash, Only
<1>4. ASSUME NEW g \in TrashGames, WriteInfo(g) PROVE TrashInv'
  <2>1. moves[g] # NoMove /\ "informed" \in Steps
    BY <1>4 DEF WriteInfo, NoMove, Steps
  <2>2. Only(g) /\ (moves'[g] = NoMove \/ (moves'[g].step = "informed" /\ moves'[g].name = moves[g].name))
    <3>1. Failed(g) \/ GoOn(g, "informed")
      BY <1>4 DEF WriteInfo
    <3>2. CASE Failed(g)
      BY <3>2, MoveEntries
    <3>3. CASE GoOn(g, "informed")
      BY <2>1, <3>3, MoveEntries
    <3> QED BY <3>1, <3>2, <3>3
  <2>a. UNCHANGED <<home, bin, playing, content, wanted, shown>>
    BY <1>4 DEF WriteInfo, Failed, GoOn, TrashType
  <2>3. MoveOk(g)'
    BY <1>4, <2>2, <2>a DEF WriteInfo, MoveInv, MoveOk, NoMove
  <2>4. Settled' /\ MoveInv'
    BY <2>1, <2>2, <2>a, <2>3, OneCall
  <2> QED BY <2>2, <2>a, <2>4 DEF TrashType, NothingLost, InTrash, Only
<1>5. ASSUME NEW g \in TrashGames, Rename(g) PROVE TrashInv'
  <2>1. moves[g] # NoMove /\ "copying" \in Steps /\ moves[g].name \in Names /\ bin[moves[g].name] = {}
    <3>1. moves[g].step = "informed" /\ MoveOk(g)
      BY <1>5 DEF Rename, MoveInv
    <3> QED BY <1>5, <3>1 DEF NoMove, MoveOk, TrashType, Entry, Steps
  <2>2. CASE /\ bin' = [bin EXCEPT ![moves[g].name] = At(g)]
             /\ home' = home \ At(g)
             /\ Trashed(g) /\ UNCHANGED info
    <3>1. Only(g) /\ MoveOk(g)'
      BY <2>2, MoveEntries DEF MoveOk, NoMove
    <3>2. Settled' /\ MoveInv'
      BY <1>5, <2>1, <2>2, <3>1, OneCall DEF Rename
    <3>3. TrashType'
      BY <1>5, <2>1, <2>2, <3>1 DEF TrashType, Rename, At, Only
    <3>4. \A t : InTrash(t) \/ t \in At(g) => InTrash(t)'
      BY <2>1, <2>2 DEF InTrash, TrashType
    <3>5. \A t \in home' : t.game \in shown'
      BY <2>2 DEF Trashed, NothingLost, At
    <3>6. NothingLost'
      BY <1>5, <2>2, <3>4, <3>5, Kept DEF Rename
    <3> QED BY <3>2, <3>3, <3>6
  <2>3. CASE /\ moves' = [moves EXCEPT ![g].step = "copying", ![g].left = {t.file : t \in At(g)}]
             /\ UNCHANGED <<home, bin, info, shown>>
    <3>1. {t.file : t \in At(g)} \in SUBSET TrashFiles
      BY DEF At, TrashType
    <3>2. Only(g) /\ moves'[g].step = "copying" /\ moves'[g].name = moves[g].name
          /\ moves'[g].left = {t.file : t \in At(g)}
      BY <2>1, <2>3, <3>1 DEF TrashType, Entry, Only
    <3>3. MoveOk(g)'
      BY <2>1, <2>3, <3>2 DEF MoveOk, At
    <3>4. Settled' /\ MoveInv'
      BY <1>5, <2>1, <2>3, <3>2, <3>3, OneCall DEF Rename
    <3> QED BY <1>5, <2>3, <3>2, <3>4 DEF Rename, TrashType, NothingLost, InTrash, Only
  <2>4. CASE RemoveInfo(g) /\ UNCHANGED <<home, bin>>
    <3>1. Only(g) /\ MoveOk(g)'
      <4>1. Only(g) /\ moves'[g] = NoMove
        BY <2>4, MoveEntries DEF RemoveInfo
      <4> QED BY <4>1 DEF MoveOk, NoMove
    <3>2. Settled' /\ MoveInv'
      BY <1>5, <2>1, <2>4, <3>1, OneCall DEF Rename
    <3> QED BY <1>5, <2>4, <3>1, <3>2 DEF Rename, RemoveInfo, Failed, TrashType, NothingLost, InTrash, Only
  <2> QED BY <1>5, <2>2, <2>3, <2>4 DEF Rename
<1>6. ASSUME NEW g \in TrashGames, copyPath(g) PROVE TrashInv'
  <2>1. /\ moves[g] # NoMove /\ moves[g].name \in Names /\ UNCHANGED <<home, playing, content, wanted>>
        /\ bin[moves[g].name] \subseteq At(g)
        /\ \A t \in At(g) : t.file \in moves[g].left \/ t \in bin[moves[g].name]
    <3>1. moves[g].step = "copying" /\ MoveOk(g)
      BY <1>6 DEF copyPath, MoveInv
    <3> QED BY <1>6, <3>1 DEF copyPath, NoMove, MoveOk, TrashType, Entry
  <2>2. ASSUME NEW b \in SUBSET At(g), bin' = [bin EXCEPT ![moves[g].name] = b],
               Only(g), MoveOk(g)', UNCHANGED shown
        PROVE  TrashInv'
    <3>1. Settled' /\ MoveInv'
      BY <2>1, <2>2, OneCall
    <3>2. TrashType'
      BY <2>1, <2>2 DEF TrashType, At, Only
    <3>3. \A t : InTrash(t) => t \in home' \/ InTrash(t)'
      BY <2>1, <2>2 DEF InTrash, TrashType, At
    <3>4. NothingLost'
      BY <2>1, <2>2, <3>3, Kept DEF NothingLost
    <3> QED BY <3>1, <3>2, <3>4
  <2>3. ASSUME NEW t \in At(g), t.file \in moves[g].left,
               bin' = [bin EXCEPT ![moves[g].name] = {o \in @ : o.file # t.file} \cup {t}],
               moves' = [moves EXCEPT ![g].left = @ \ {t.file},
                                      ![g].step = IF moves[g].left = {t.file} THEN "removing" ELSE @],
               UNCHANGED <<info, shown>>
        PROVE  TrashInv'
    <3>1. PICK b : b = {o \in bin[moves[g].name] : o.file # t.file} \cup {t}
      OBVIOUS
    <3>2. bin' = [bin EXCEPT ![moves[g].name] = b] /\ bin'[moves[g].name] = b
      BY <2>1, <2>3, <3>1 DEF TrashType
    <3>3. /\ Only(g) /\ moves'[g].name = moves[g].name /\ moves'[g].left = moves[g].left \ {t.file}
          /\ moves'[g].step = IF moves[g].left = {t.file} THEN "removing" ELSE "copying"
      <4>1. moves[g] \in Entry /\ moves[g].step = "copying"
        BY <1>6 DEF copyPath, TrashType
      <4>2. PICK e : e = [step |-> IF moves[g].left = {t.file} THEN "removing" ELSE "copying",
                          name |-> moves[g].name, left |-> moves[g].left \ {t.file}]
        OBVIOUS
      <4>3. e \in Entry
        BY <4>1, <4>2 DEF Entry, Steps
      <4>4. moves' = [moves EXCEPT ![g] = e]
        <5>1. moves'[g] = e
          BY <2>3, <4>1, <4>2 DEF TrashType, Entry
        <5> QED BY <2>3, <5>1 DEF TrashType
      <4> QED BY <4>2, <4>3, <4>4 DEF TrashType, Only
    <3>4. b \subseteq At(g) /\ \A u \in At(g) : u.file \in moves[g].left \ {t.file} \/ u \in b
      BY <2>1, <2>3, <3>1 DEF Settled, At
    <3>5. MoveOk(g)'
      BY <2>1, <3>2, <3>3, <3>4 DEF MoveOk, At
    <3> QED BY <2>2, <2>3, <3>2, <3>3, <3>4, <3>5 DEF TrashType
  <2>4. CASE bin' = [bin EXCEPT ![moves[g].name] = {}] /\ RemoveInfo(g)
    <3>1. Only(g) /\ MoveOk(g)' /\ UNCHANGED shown
      <4>1. Only(g) /\ moves'[g] = NoMove
        BY <2>4, MoveEntries DEF RemoveInfo
      <4> QED BY <2>4, <4>1 DEF RemoveInfo, Failed, MoveOk, NoMove, TrashType
    <3>2. {} \in SUBSET At(g)
      OBVIOUS
    <3> QED BY <2>2, <2>4, <3>1, <3>2
  <2> QED BY <1>6, <2>3, <2>4 DEF copyPath
<1>7. ASSUME NEW g \in TrashGames, RemoveSource(g) PROVE TrashInv'
  <2>1. /\ moves[g] # NoMove /\ moves[g].name \in Names /\ UNCHANGED <<bin, playing, content, wanted>>
        /\ At(g) \subseteq bin[moves[g].name] /\ moves[g].step = "removing"
    <3>1. moves[g].step = "removing" /\ MoveOk(g)
      BY <1>7 DEF RemoveSource, MoveInv
    <3> QED BY <1>7, <3>1 DEF RemoveSource, NoMove, MoveOk, TrashType, Entry
  <2>2. ASSUME NEW t \in At(g), home' = home \ {t}, UNCHANGED <<info, moves, shown>>
        PROVE  TrashInv'
    <3>1. Only(g) /\ MoveOk(g)'
      BY <2>1, <2>2 DEF Only, MoveOk, TrashType, At
    <3>2. Settled' /\ MoveInv'
      BY <2>1, <2>2, <3>1, OneCall
    <3>3. InTrash(t)' /\ \A u : InTrash(u) => InTrash(u)'
      BY <2>1, <2>2 DEF InTrash
    <3>4. NothingLost'
      BY <2>1, <2>2, <3>3, Kept DEF NothingLost
    <3> QED BY <2>1, <2>2, <3>2, <3>4 DEF TrashType
  <2>3. ASSUME Trashed(g) \/ Failed(g), UNCHANGED home, \A t \in home : t.game \in shown'
        PROVE  TrashInv'
    <3>1. Only(g) /\ MoveOk(g)'
      BY <2>3, MoveEntries DEF MoveOk, NoMove
    <3>2. Settled' /\ MoveInv'
      BY <2>1, <2>3, <3>1, OneCall
    <3> QED BY <2>1, <2>3, <3>1, <3>2 DEF Only, TrashType, NothingLost, InTrash
  <2>4. CASE At(g) = {} /\ Trashed(g) /\ UNCHANGED <<home, info>>
    BY <2>3, <2>4 DEF Trashed, At, NothingLost, TrashType
  <2>5. CASE RemoveInfo(g) /\ UNCHANGED home
    BY <2>3, <2>5 DEF RemoveInfo, Failed, NothingLost, TrashType
  <2> QED BY <1>7, <2>2, <2>4, <2>5 DEF RemoveSource
<1>8. ASSUME NEW g \in TrashGames, Reinstall(g) PROVE TrashInv'
  <2>1. content' \in [TrashGames -> Nat] /\ Fresh(g, content'[g]) \subseteq [game : TrashGames, file : TrashFiles, version : Nat]
    BY <1>8 DEF Reinstall, TrashType, Fresh, Token
  <2>2. TrashType'
    BY <1>8, <2>1 DEF Reinstall, TrashType
  <2>3. \A t \in Fresh(g, content'[g]) : t.game = g
    BY DEF Fresh, Token
  <2>4. \A t, u \in Fresh(g, content'[g]) : t.file = u.file => t = u
    BY DEF Fresh, Token
  <2>5. Settled'
    BY <1>8, <2>3, <2>4 DEF Reinstall, Settled, At
  <2>6. MoveInv'
    BY <1>8, <2>3 DEF Reinstall, MoveInv, MoveOk, At, NoMove
  <2> QED BY <1>8, <2>2, <2>3, <2>5, <2>6 DEF Reinstall, NothingLost, InTrash
<1>9. ASSUME NEW g \in TrashGames, Play(g) PROVE TrashInv'
  BY <1>9 DEF Play, TrashType, Settled, MoveInv, MoveOk, NothingLost, At, InTrash
<1>10. ASSUME NEW g \in TrashGames, Played(g) PROVE TrashInv'
  <2>1. moves[g] = NoMove
    BY <1>10 DEF Played, Settled
  <2>2. CASE UNCHANGED <<home, content, wanted>>
    BY <1>10, <2>2 DEF Played, TrashType, Settled, MoveInv, MoveOk, NothingLost, At, InTrash
  <2>3. ASSUME NEW t \in At(g), content' = [content EXCEPT ![g] = @ + 1], NEW n, n = Token(g, t.file, content'[g]),
               home' = (home \ {t}) \cup {n}, wanted' = (wanted \ {t}) \cup {n}
        PROVE  TrashInv'
    <3>1. t \in home /\ t.game = g /\ n.game = g /\ n.file = t.file /\ n \in [game : TrashGames, file : TrashFiles, version : Nat]
      BY <2>3 DEF At, Token, TrashType
    <3>2. TrashType'
      BY <1>10, <2>3, <3>1 DEF Played, TrashType
    <3>3. Settled'
      BY <1>10, <2>3, <3>1 DEF Played, Settled
    <3>4. MoveInv'
      BY <1>10, <2>1, <2>3, <3>1 DEF Played, MoveInv, MoveOk, At, NoMove
    <3> QED BY <1>10, <2>3, <3>1, <3>2, <3>3, <3>4 DEF Played, NothingLost, InTrash
  <2> QED BY <1>10, <2>2, <2>3 DEF Played
<1>11. CASE KillWhileTrashing
  <2>1. moves' \in [TrashGames -> Entry] /\ \A g \in TrashGames : moves'[g] = NoMove
    BY <1>11, TrashAssumption DEF KillWhileTrashing, NoMove, Entry, Steps, Names
  <2>2. MoveInv'
    BY <2>1 DEF MoveInv, MoveOk, NoMove
  <2> QED BY <1>11, <2>1, <2>2 DEF KillWhileTrashing, TrashType, Settled, NothingLost, InTrash
<1> QED BY <1>0, <1>1, <1>2, <1>3, <1>4, <1>5, <1>6, <1>7, <1>8, <1>9, <1>10, <1>11 DEF TrashNext

(* When games are trashed one at a time and none is started meanwhile, the newest version of every *)
(* file is in its library or in the trash, and a game with a file in a library is listed, whatever  *)
(* fails, is killed or is repeated, and whatever names the trash already holds (TrashGame,           *)
(* trashXDGHome, moveOrCopy).                                                                        *)
THEOREM TrashLosesNothing ==
  ASSUME ~TrashCallsOverlap, ~LaunchDuringTrash
  PROVE  TrashSpec => []NothingLost
<1>1. TrashInit => TrashInv
  <2>1. SUFFICES ASSUME TrashInit PROVE TrashInv
    OBVIOUS
  <2>2. NoMove \in Entry
    BY TrashAssumption DEF NoMove, Entry, Steps, Names
  <2>a. ASSUME NEW t \in home PROVE t \in [game : TrashGames, file : TrashFiles, version : Nat] /\ t.version = 1
    <3>1. PICK g \in TrashGames, f \in TrashFiles : t = [game |-> g, file |-> f, version |-> 1]
      BY <2>1 DEF TrashInit, Fresh, Token
    <3> QED BY <3>1
  <2>3. TrashType
    BY <2>1, <2>2, <2>a DEF TrashInit, TrashType
  <2>4. Settled
    <3>1. \A t, u \in home : t.game = u.game /\ t.file = u.file => t = u
      BY <2>a
    <3>2. playing = {} /\ \A g \in TrashGames : moves[g] = NoMove
      BY <2>1 DEF TrashInit
    <3> QED BY <3>1, <3>2 DEF Settled
  <2>5. MoveInv
    BY <2>1 DEF TrashInit, MoveInv, MoveOk, NoMove
  <2>6. NothingLost
    BY <2>1, <2>a DEF TrashInit, NothingLost
  <2> QED BY <2>3, <2>4, <2>5, <2>6 DEF TrashInv
<1>2. TrashInv /\ [TrashNext]_trashVars => TrashInv'
  BY TrashStep
<1>3. TrashInv => NothingLost
  BY DEF TrashInv
<1> QED BY <1>1, <1>2, <1>3, PTL DEF TrashSpec

-----------------------------------------------------------------------------
(* Profiles *)

PersonaOrNone == Personas \cup {Unused}

ProfType ==
  /\ profiles \in [Ids -> PersonaOrNone] /\ homes \in [Ids -> PersonaOrNone]
  /\ activeID \in Ids
  /\ profFile \in [profiles : [Ids -> PersonaOrNone], active : Ids]

(* What may follow the two steps of Materialize(i): the user's own file, or the start of the active profile's game. *)
Follows(x, i) ==
  \/ x = Step("start", i, Unused) /\ i = activeID
  \/ \E p \in Personas : x = Step("host", main, p)

(* What a call under way has still to do.  A persona that was read is still that of the profile, and a *)
(* game that is about to start finds it.                                                               *)
CallOk(s) ==
  \/ \E i \in Existing :
       \/ s = <<Step("read", i, Unused), Step("write", i, Unused)>>
       \/ s = <<Step("write", i, profiles[i])>>
       \/ \E x : Follows(x, i) /\ \/ s = <<Step("read", i, Unused), Step("write", i, Unused), x>>
                                  \/ s = <<Step("write", i, profiles[i]), x>>
  \/ s = <<Step("start", activeID, Unused)>> /\ homes[activeID] = profiles[activeID]
  \/ \E p \in Personas : s = <<Step("host", main, p)>>
  \/ \E i \in Ids \ {main} : s = <<Step("remove", i, Unused)>>

ProfInv ==
  /\ ProfType
  /\ {main, activeID} \subseteq Existing /\ homes[main] # Unused
  /\ \A c, d \in profCalls : c = d
  /\ \A s \in profCalls : CallOk(s)
  /\ LaunchPersona

(* Short tuples. *)
LEMMA Tuples ==
  ASSUME NEW a, NEW b, NEW c
  PROVE  /\ Head(<<a>>) = a /\ Head(<<a, b>>) = a /\ Head(<<a, b, c>>) = a
         /\ Tail(<<a>>) = <<>> /\ Tail(<<a, b>>) = <<b>> /\ Tail(<<a, b, c>>) = <<b, c>>
         /\ <<a>> # <<>> /\ <<a, b>> # <<>> /\ <<a, b, c>> # <<>>
OBVIOUS

LEMMA TupleAppend ==
  ASSUME NEW a, NEW b, NEW c
  PROVE  <<a, b>> \o <<c>> = <<a, b, c>> /\ <<a, b>> \o <<>> = <<a, b>>
<1> DEFINE S == {a, b, c}
<1>1. <<a, b>> \in Seq(S) /\ <<c>> \in Seq(S) /\ <<a, b, c>> \in Seq(S)
  OBVIOUS
<1>2. <<a, b>> \o <<c>> \in Seq(S)
  BY <1>1
<1>3. PICK s \in Seq(S) : s = <<a, b>> \o <<c>>
  BY <1>2
<1>4. Len(s) = 3 /\ s[1] = a /\ s[2] = b /\ s[3] = c
  BY <1>1, <1>3
<1>5. s = <<a, b, c>>
  BY <1>1, <1>4, SeqEqual
<1>6. <<a, b>> \o <<>> = <<a, b>>
  BY <1>1
<1> QED BY <1>3, <1>5, <1>6

(* The persona that was read goes into the step that writes it. *)
LEMMA ReadInto ==
  ASSUME NEW i, NEW v, NEW t, t = <<Step("write", i, Unused)>>
  PROVE  [t EXCEPT ![1].with = v] = <<Step("write", i, v)>>
<1>1. [<<Step("write", i, Unused)>> EXCEPT ![1].with = v] = <<Step("write", i, v)>>
  BY DEF Step
<1> QED BY <1>1

(* A call that starts when none is under way. *)
LEMMA CallStart ==
  ASSUME ProfInv, profCalls = {}, ProfType', {main, activeID'} \subseteq Existing', homes' = homes,
         launched' = launched, NEW s, CallOk(s)', profCalls' = {s} \/ profCalls' = {}
  PROVE  ProfInv'
BY DEF ProfInv, LaunchPersona

(* After a step of the only call. *)
LEMMA CallGoesOn ==
  ASSUME ProfInv, NEW s \in profCalls, NEW r, Advance(s, r), r = <<>> \/ CallOk(r)', homes'[main] # Unused,
         UNCHANGED <<profiles, activeID, profFile>>, homes' \in [Ids -> PersonaOrNone], LaunchPersona'
  PROVE  ProfInv'
<1>1. profCalls' \subseteq {r} /\ (profCalls' # {} => r # <<>>)
  BY DEF ProfInv, Advance
<1>2. ProfType' /\ {main, activeID'} \subseteq Existing'
  BY DEF ProfInv, ProfType, Existing
<1> QED BY <1>1, <1>2 DEF ProfInv

LEMMA PerformStep ==
  ASSUME ProfInv, NEW s \in profCalls, Perform(s)
  PROVE  ProfInv'
<1>0. /\ ProfType /\ CallOk(s) /\ homes[main] # Unused /\ main \in Ids /\ Existing \subseteq Ids /\ {main, activeID} \subseteq Existing
      /\ LaunchPersona
  BY ProfilesAssumption DEF ProfInv, Ids, main, Existing
<1>u. UNCHANGED <<profiles, activeID, profFile>>
  BY DEF Perform
<1>1. ASSUME NEW i \in Existing, NEW r, Head(s) = Step("read", i, Unused), CallOk([Tail(s) EXCEPT ![1].with = profiles[i]])'
      PROVE  ProfInv'
  <2>1. Head(s).do = "read" /\ Head(s).id = i
    BY <1>1 DEF Step
  <2>2. Advance(s, [Tail(s) EXCEPT ![1].with = profiles[i]]) /\ UNCHANGED <<homes, launched>>
    BY <2>1 DEF Perform
  <2> QED BY <1>0, <1>1, <1>u, <2>2, CallGoesOn DEF ProfType, LaunchPersona
<1>2. ASSUME NEW i \in Ids, NEW v, NEW do \in {"write", "host"}, Head(s) = Step(do, i, v), v \in Personas,
             homes' = [homes EXCEPT ![i] = v] => Tail(s) = <<>> \/ CallOk(Tail(s))'
      PROVE  ProfInv'
  <2>1. Head(s).do \in {"write", "host"} /\ Head(s).id = i /\ Head(s).with = v
    BY <1>2 DEF Step
  <2>2. Advance(s, Tail(s)) /\ homes' = [homes EXCEPT ![i] = v] /\ UNCHANGED launched
    BY <2>1 DEF Perform, SaveGSEUserConfigToPath
  <2>3. v # Unused
    BY <1>2, ProfilesAssumption
  <2>4. homes' \in [Ids -> PersonaOrNone] /\ homes'[main] # Unused
    BY <1>0, <1>2, <2>2, <2>3 DEF ProfType, PersonaOrNone
  <2> QED BY <1>0, <1>2, <1>u, <2>2, <2>4, CallGoesOn DEF LaunchPersona
<1>3. ASSUME NEW i \in Existing, NEW x, Follows(x, i), s = <<Step("read", i, Unused), Step("write", i, Unused), x>> PROVE ProfInv'
  <2>1. Head(s) = Step("read", i, Unused) /\ Tail(s) = <<Step("write", i, Unused), x>>
    BY <1>3, Tuples
  <2>2. [Tail(s) EXCEPT ![1].with = profiles[i]] = <<Step("write", i, profiles[i]), x>>
    <3>1. PICK t : t = Tail(s)
      OBVIOUS
    <3>2. PICK v : v = profiles[i]
      OBVIOUS
    <3>3. t = <<Step("write", i, Unused), x>>
      BY <2>1, <3>1
    <3>4. [<<Step("write", i, Unused), x>> EXCEPT ![1].with = v] = <<Step("write", i, v), x>>
      BY DEF Step
    <3>5. [t EXCEPT ![1].with = v] = <<Step("write", i, v), x>>
      BY <3>3, <3>4
    <3> QED BY <3>1, <3>2, <3>5
  <2>3. CallOk([Tail(s) EXCEPT ![1].with = profiles[i]])'
    BY <1>3, <1>u, <2>2 DEF CallOk, Follows, Existing
  <2> QED BY <1>1, <2>1, <2>3
<1>4. ASSUME NEW i \in Existing, s = <<Step("read", i, Unused), Step("write", i, Unused)>> PROVE ProfInv'
  <2>1. Head(s) = Step("read", i, Unused) /\ Tail(s) = <<Step("write", i, Unused)>>
    BY <1>4, Tuples
  <2>2. [Tail(s) EXCEPT ![1].with = profiles[i]] = <<Step("write", i, profiles[i])>>
    BY <2>1, ReadInto
  <2>3. CallOk([Tail(s) EXCEPT ![1].with = profiles[i]])'
    BY <1>4, <1>u, <2>2 DEF CallOk, Existing
  <2> QED BY <1>1, <2>1, <2>3
<1>5. ASSUME NEW i \in Existing, NEW x, Follows(x, i), s = <<Step("write", i, profiles[i]), x>> PROVE ProfInv'
  <2>1. Head(s) = Step("write", i, profiles[i]) /\ Tail(s) = <<x>>
    BY <1>5, Tuples
  <2>2. i \in Ids /\ profiles[i] \in Personas
    BY <1>0 DEF Existing, ProfType, PersonaOrNone
  <2>3. homes' = [homes EXCEPT ![i] = profiles[i]] => CallOk(Tail(s))'
    <3>1. SUFFICES ASSUME homes' = [homes EXCEPT ![i] = profiles[i]] PROVE CallOk(<<x>>)'
      BY <2>1
    <3>2. CASE x = Step("start", i, Unused) /\ i = activeID
      BY <1>0, <1>u, <2>2, <3>1, <3>2 DEF CallOk, ProfType
    <3>3. CASE \E p \in Personas : x = Step("host", main, p)
      BY <3>3 DEF CallOk
    <3> QED BY <1>5, <3>2, <3>3 DEF Follows
  <2> QED BY <1>2, <2>1, <2>2, <2>3
<1>6. ASSUME NEW i \in Existing, s = <<Step("write", i, profiles[i])>> PROVE ProfInv'
  <2>1. Head(s) = Step("write", i, profiles[i]) /\ Tail(s) = <<>>
    BY <1>6, Tuples
  <2>2. i \in Ids /\ profiles[i] \in Personas
    BY <1>0 DEF Existing, ProfType, PersonaOrNone
  <2> QED BY <1>2, <2>1, <2>2
<1>7. CASE s = <<Step("start", activeID, Unused)>> /\ homes[activeID] = profiles[activeID]
  <2>1. Head(s) = Step("start", activeID, Unused) /\ Tail(s) = <<>>
    BY <1>7, Tuples
  <2>2. Head(s).do = "start" /\ Head(s).id = activeID
    BY <2>1 DEF Step
  <2>3. /\ Advance(s, Tail(s)) /\ UNCHANGED homes
        /\ launched' = [id |-> activeID, want |-> profiles[activeID], found |-> homes[activeID]]
    BY <2>2 DEF Perform
  <2>4. LaunchPersona'
    BY <1>7, <2>3 DEF LaunchPersona
  <2> QED BY <1>0, <1>u, <2>1, <2>3, <2>4, CallGoesOn DEF ProfType
<1>8. ASSUME NEW p \in Personas, s = <<Step("host", main, p)>> PROVE ProfInv'
  <2>1. Head(s) = Step("host", main, p) /\ Tail(s) = <<>>
    BY <1>8, Tuples
  <2> QED BY <1>0, <1>2, <2>1
<1>9. ASSUME NEW i \in Ids \ {main}, s = <<Step("remove", i, Unused)>> PROVE ProfInv'
  <2>1. Head(s) = Step("remove", i, Unused) /\ Tail(s) = <<>>
    BY <1>9, Tuples
  <2>2. Head(s).do = "remove" /\ Head(s).id = i
    BY <2>1 DEF Step
  <2>3. Advance(s, Tail(s)) /\ homes' = [homes EXCEPT ![i] = Unused] /\ UNCHANGED launched
    BY <2>2 DEF Perform
  <2>4. homes' \in [Ids -> PersonaOrNone] /\ homes'[main] # Unused
    BY <1>0, <2>3, <1>9 DEF ProfType, PersonaOrNone
  <2> QED BY <1>0, <1>u, <2>1, <2>3, <2>4, CallGoesOn DEF LaunchPersona
<1> QED BY <1>0, <1>3, <1>4, <1>5, <1>6, <1>7, <1>8, <1>9 DEF CallOk

(* What saveLocked leaves: the file as it was or as the list is now, and the rest of the call or nothing of it. *)
LEMMA Saved ==
  ASSUME ProfInv, profCalls = {}, NEW r, saveLocked(r), profiles' \in [Ids -> PersonaOrNone], activeID' \in Ids,
         {main, activeID'} \subseteq Existing', homes' = homes, launched' = launched, r = <<>> \/ CallOk(r)'
  PROVE  ProfInv'
<1>1. ProfType'
  BY DEF ProfInv, ProfType, saveLocked
<1>2. profCalls' \subseteq {r} /\ (profCalls' # {} => r # <<>>)
  BY DEF saveLocked, Go
<1> QED BY <1>1, <1>2 DEF ProfInv, LaunchPersona

LEMMA ProfStep ==
  ASSUME ~ProfileCallsOverlap, ~ExplicitLaunch, ProfInv, [ProfilesNext]_profVars
  PROVE  ProfInv'
<1>t. /\ profiles \in [Ids -> PersonaOrNone] /\ activeID \in Existing /\ main \in Existing /\ Existing \subseteq Ids
      /\ \A p \in Personas : p # Unused /\ p \in PersonaOrNone
      /\ Unused \in PersonaOrNone
  BY ProfilesAssumption DEF ProfInv, ProfType, Existing, PersonaOrNone
<1>m. ASSUME NEW i, i \in Existing' PROVE CallOk(Materialize(i))'
  BY <1>m DEF Materialize, CallOk
<1>0. CASE UNCHANGED profVars
  <2>1. ProfType' /\ Existing' = Existing
    BY <1>0 DEF profVars, ProfInv, ProfType, Existing
  <2>2. \A s : CallOk(s) => CallOk(s)'
    BY <1>0, <2>1 DEF profVars, CallOk, Follows
  <2> QED BY <1>0, <2>1, <2>2 DEF profVars, ProfInv, LaunchPersona
<1>1. ASSUME NEW id \in Ids, SetActive(id) PROVE ProfInv'
  <2>1. profCalls = {} /\ activeID' = id /\ Existing' = Existing /\ id \in Existing /\ saveLocked(Materialize(id))
        /\ UNCHANGED <<profiles, homes, launched>>
    BY <1>1 DEF SetActive, Free, Existing
  <2> QED BY <1>t, <1>m, <2>1, Saved
<1>2. ASSUME NEW id \in Ids, DeleteProfile(id) PROVE ProfInv'
  <2>1. /\ profCalls = {} /\ id # main /\ profiles' = [profiles EXCEPT ![id] = Unused]
        /\ activeID' = IF activeID = id THEN main ELSE activeID
        /\ UNCHANGED <<homes, launched>> /\ saveLocked(<<Step("remove", id, Unused)>>)
    BY <1>2 DEF DeleteProfile, Free
  <2>2. profiles' \in [Ids -> PersonaOrNone] /\ {main, activeID'} \subseteq Existing' /\ activeID' \in Ids
    BY <1>t, <2>1 DEF Existing
  <2>3. CallOk(<<Step("remove", id, Unused)>>)'
    BY <2>1 DEF CallOk
  <2> QED BY <2>1, <2>2, <2>3, Saved
<1>3. ASSUME NEW id \in Ids, LaunchGame(id) PROVE ProfInv'
  <2>1. /\ profCalls = {} /\ id = activeID /\ UNCHANGED <<profiles, activeID, profFile, homes, launched>>
        /\ Go(Materialize(activeID) \o <<Step("start", id, Unused)>>)
    BY <1>3 DEF LaunchGame, Free
  <2>2. PICK r : r = <<Step("read", activeID, Unused), Step("write", activeID, Unused), Step("start", activeID, Unused)>>
    OBVIOUS
  <2>3. Materialize(activeID) \o <<Step("start", id, Unused)>> = r
    BY <2>1, <2>2, TupleAppend DEF Materialize
  <2>4. ProfType' /\ Existing' = Existing
    BY <2>1 DEF ProfInv, ProfType, Existing
  <2>5. CallOk(r)'
    BY <1>t, <2>1, <2>2, <2>4 DEF CallOk, Follows
  <2>6. profCalls' = {r} \/ profCalls' = {}
    BY <2>1, <2>3 DEF Go
  <2> QED BY <1>t, <2>1, <2>4, <2>5, <2>6, CallStart
<1>4. ASSUME NEW p \in Personas, Create(p) PROVE ProfInv'
  <2>1. PICK id \in Ids : /\ profiles' = [profiles EXCEPT ![id] = p]
                          /\ UNCHANGED <<activeID, homes, launched>> /\ saveLocked(Materialize(id)) /\ profCalls = {}
    BY <1>4 DEF Create, Free
  <2>2. profiles' \in [Ids -> PersonaOrNone] /\ {main, activeID', id} \subseteq Existing' /\ activeID' \in Ids
    BY <1>t, <2>1 DEF Existing
  <2> QED BY <1>m, <2>1, <2>2, Saved
<1>5. ASSUME NEW id \in Ids, NEW p \in Personas, NEW r, profCalls = {}, Update(id, p, r),
             r = <<>> \/ (id = activeID /\ \E q \in Personas : r = <<Step("host", main, q)>>)
      PROVE  ProfInv'
  <2>1. /\ profiles' = [profiles EXCEPT ![id] = p] /\ UNCHANGED <<activeID, homes, launched>> /\ id \in Existing
        /\ saveLocked((IF id \in {activeID, main} THEN Materialize(id) ELSE <<>>) \o r)
    BY <1>5 DEF Update
  <2>2. profiles' \in [Ids -> PersonaOrNone] /\ {main, activeID', id} \subseteq Existing' /\ activeID' \in Ids
    BY <1>t, <2>1 DEF Existing
  <2>3. PICK k : k = (IF id \in {activeID, main} THEN Materialize(id) ELSE <<>>) \o r
    OBVIOUS
  <2>4. k = <<>> \/ CallOk(k)'
    <3>1. CASE r = <<>> /\ id \in {activeID, main}
      <4>1. k = Materialize(id)
        BY <2>3, <3>1, TupleAppend DEF Materialize
      <4> QED BY <1>m, <2>2, <4>1
    <3>2. CASE r = <<>> /\ id \notin {activeID, main}
      BY <2>3, <3>2
    <3>3. ASSUME NEW q \in Personas, r = <<Step("host", main, q)>>, id = activeID PROVE CallOk(k)'
      <4>1. k = <<Step("read", id, Unused), Step("write", id, Unused), Step("host", main, q)>>
        BY <2>3, <3>3, TupleAppend DEF Materialize
      <4>2. Follows(Step("host", main, q), id)'
        BY DEF Follows
      <4> QED BY <2>2, <4>1, <4>2 DEF CallOk
    <3> QED BY <1>5, <3>1, <3>2, <3>3
  <2> QED BY <1>5, <2>1, <2>2, <2>3, <2>4, Saved
<1>6. ASSUME NEW id \in Ids, NEW p \in Personas, SaveProfile(id, p) PROVE ProfInv'
  BY <1>5, <1>6 DEF SaveProfile, Free
<1>7. ASSUME NEW p \in Personas, SaveGSEUserConfig(p) PROVE ProfInv'
  BY <1>t, <1>5, <1>7 DEF SaveGSEUserConfig, Free
<1>8. ASSUME NEW s \in profCalls, Perform(s) PROVE ProfInv'
  BY <1>8, PerformStep
<1>9. CASE Load
  <2>1. /\ profiles' = [profFile.profiles EXCEPT ![main] = IF @ = Unused THEN homes[main] ELSE @]
        /\ activeID' = IF profFile.profiles[profFile.active] = Unused THEN main ELSE profFile.active
        /\ profCalls' = {} /\ launched' = NoLaunch /\ UNCHANGED <<profFile, homes>>
    BY <1>9 DEF Load
  <2>2. profFile.profiles \in [Ids -> PersonaOrNone] /\ profFile.active \in Ids /\ homes[main] \in PersonaOrNone \ {Unused}
    BY <1>t DEF ProfInv, ProfType
  <2>3. profiles' \in [Ids -> PersonaOrNone] /\ activeID' \in Ids /\ {main, activeID'} \subseteq Existing'
    BY <1>t, <2>1, <2>2 DEF Existing
  <2>4. LaunchPersona'
    BY <2>1 DEF LaunchPersona, NoLaunch
  <2> QED BY <2>1, <2>3, <2>4 DEF ProfInv, ProfType
<1> QED BY <1>0, <1>1, <1>2, <1>3, <1>4, <1>6, <1>7, <1>8, <1>9 DEF ProfilesNext

(* A game that is started for the active profile finds the persona of that profile in its home, after  *)
(* any sequence of edits, deletions, failed saves and restarts, when the front end makes its calls one *)
(* after the other (Materialize in LaunchGame).                                                        *)
THEOREM LaunchesAsActive ==
  ASSUME ~ProfileCallsOverlap, ~ExplicitLaunch
  PROVE  ProfilesSpec => []LaunchPersona
<1>1. ProfilesInit => ProfInv
  <2>1. SUFFICES ASSUME ProfilesInit PROVE ProfInv
    OBVIOUS
  <2>2. PICK p, q \in Personas : /\ profiles = [i \in Ids |-> CASE i = main -> p [] i = 2 -> q [] OTHER -> Unused]
                                 /\ homes = [i \in Ids |-> IF i = main THEN p ELSE Unused]
    BY <2>1 DEF ProfilesInit
  <2>3. main \in Ids /\ p # Unused /\ activeID = main
    BY <2>1, ProfilesAssumption DEF ProfilesInit, Ids, main
  <2>4. ProfType
    BY <2>1, <2>2, <2>3 DEF ProfilesInit, ProfType, PersonaOrNone
  <2>5. profiles[main] # Unused /\ homes[main] # Unused
    BY <2>2, <2>3 DEF main
  <2> QED BY <2>1, <2>3, <2>4, <2>5 DEF ProfilesInit, ProfInv, Existing, LaunchPersona, NoLaunch
<1>2. ProfInv /\ [ProfilesNext]_profVars => ProfInv'
  BY ProfStep
<1>3. ProfInv => LaunchPersona
  BY DEF ProfInv
<1> QED BY <1>1, <1>2, <1>3, PTL DEF ProfilesSpec


-----------------------------------------------------------------------------
(* Launches and their prefixes *)

PlanModes == {Unset, "loader", "portable", "none"}
PlanForces == {Unset, "on", "off"}
PlanProfiles ==
  {p \in [Options -> PlanModes \cup PlanForces \cup PrefixChoices] :
      p.operating_mode \in PlanModes /\ p.wine_prefix \in PrefixChoices \cup {Unset} /\ p.force \in PlanForces}
Dirs == [Prefixes -> PlanGames \cup {Clean, "nobody"}]

PlanType ==
  /\ planProfile \in [PlanGames -> PlanProfiles]
  /\ planConfig \in [operating_mode : {"loader", "standalone"}, wine_prefix : PrefixChoices \cup {Unset}]
  /\ steamDir \in Dirs
  /\ gseLink \in [Prefixes -> Players \cup {Unset}]
  /\ \A l \in plays : l.windows => l.prefix \in Prefixes

PlanInv == PlanType /\ PrefixAsPlanned

RunnerOf(cfg, p, exe) ==
  IF p.runner \notin {Unset, "auto"} THEN p.runner
  ELSE IF OrElse(p.platform, exe) = "linux" THEN "linux" ELSE OrElse(cfg.runner, "umu")
PrefixOf(cfg, p, exe) ==
  IF RunnerOf(cfg, p, exe) = "linux" THEN p.wine_prefix ELSE OrElse(p.wine_prefix, cfg.wine_prefix)

(* What the profile's options come to when the command line sets none. *)
Effective(cfg, p, exe, o) ==
  /\ o.platform = OrElse(p.platform, exe)
  /\ o.runner = RunnerOf(cfg, p, exe)
  /\ o.operating_mode = OrElse(p.operating_mode, OrElse(cfg.operating_mode, "loader"))
  /\ o.wine_prefix = PrefixOf(cfg, p, exe)
  /\ o.force = p.force
  /\ o.proton_path = p.proton_path
  /\ o.inhibit_sleep = OrElse(p.inhibit_sleep, cfg.inhibit_sleep)
  /\ \A f \in Toggles \ {"inhibit_sleep"} : o[f] = IF p[f] = Unset /\ cfg[f] = "on" THEN "on" ELSE p[f]

LEMMA EffectiveOptions ==
  ASSUME NEW cfg, NEW p, NEW exe
  PROVE  Effective(cfg, p, exe, ResolveEffectiveOptions(cfg, NoOptions, p, exe))
<1>0. PICK o : o = ResolveEffectiveOptions(cfg, NoOptions, p, exe)
  OBVIOUS
<1>1. PICK m : m = MergeFrom(NoOptions, p)
  OBVIOUS
<1>2. m = [f \in Options |-> p[f]]
  BY <1>1 DEF MergeFrom, NoOptions
<1>3. /\ "platform" \in Options /\ "runner" \in Options /\ "operating_mode" \in Options /\ "wine_prefix" \in Options
      /\ "force" \in Options
  BY DEF Options
<1>4. /\ m.platform = p.platform /\ m.runner = p.runner /\ m.operating_mode = p.operating_mode
      /\ m.wine_prefix = p.wine_prefix /\ m.force = p.force
  BY <1>2, <1>3
<1>5. PICK platform : platform = OrElse(p.platform, exe)
  OBVIOUS
<1>6. PICK runner : runner = IF p.runner \notin {Unset, "auto"} THEN p.runner
                             ELSE IF platform = "linux" THEN "linux" ELSE OrElse(cfg.runner, "umu")
  OBVIOUS
<1>7. o = [f \in Options |->
            CASE f = "platform" -> platform
              [] f = "runner" -> runner
              [] f = "operating_mode" -> OrElse(m[f], OrElse(cfg[f], "loader"))
              [] f = "wine_prefix" -> IF runner = "linux" THEN m[f] ELSE OrElse(m[f], cfg[f])
              [] f = "inhibit_sleep" -> OrElse(m[f], cfg[f])
              [] f \in Toggles \ {"inhibit_sleep"} -> IF m[f] = Unset /\ cfg[f] = "on" THEN "on" ELSE m[f]
              [] OTHER -> m[f]]
  BY <1>0, <1>1, <1>4, <1>5, <1>6 DEF ResolveEffectiveOptions
<1>8. o.platform = platform /\ o.runner = runner
  BY <1>3, <1>7 DEF Toggles
<1>9. o.operating_mode = OrElse(m.operating_mode, OrElse(cfg.operating_mode, "loader"))
  BY <1>3, <1>7 DEF Toggles
<1>10. o.wine_prefix = IF runner = "linux" THEN m.wine_prefix ELSE OrElse(m.wine_prefix, cfg.wine_prefix)
  BY <1>3, <1>7 DEF Toggles
<1>11. o.force = m.force
  BY <1>3, <1>7 DEF Toggles
<1>12. o.proton_path = p.proton_path
  <2>1. "proton_path" \in Options
    BY DEF Options
  <2> QED BY <1>2, <1>7, <2>1 DEF Toggles
<1>13. o.inhibit_sleep = OrElse(p.inhibit_sleep, cfg.inhibit_sleep)
  <2>1. "inhibit_sleep" \in Options
    BY DEF Options, Toggles
  <2> QED BY <1>2, <1>7, <2>1 DEF Toggles
<1>14. ASSUME NEW f \in Toggles \ {"inhibit_sleep"}
       PROVE  o[f] = IF p[f] = Unset /\ cfg[f] = "on" THEN "on" ELSE p[f]
  <2>1. f \in Options /\ f \notin {"platform", "runner", "operating_mode", "wine_prefix", "inhibit_sleep"}
    BY DEF Options, Toggles
  <2> QED BY <1>2, <1>7, <2>1
<1> QED BY <1>0, <1>4, <1>5, <1>6, <1>8, <1>9, <1>10, <1>11, <1>12, <1>13, <1>14 DEF RunnerOf, PrefixOf, Effective

LEMMA SpecOk ==
  ASSUME PlanType, NEW g \in PlanGames, NEW player \in Players, NEW p \in PlanProfiles,
         NEW s, s = LaunchSpec(g, player, p)
  PROVE  /\ s.game = g /\ s.player = player /\ s.force = p.force /\ s.prefix \in Prefixes
         /\ s.mode \in {"loader", "portable", "none"}
         /\ s.mode = NormalizeOperatingMode(OrElse(p.operating_mode, planConfig.operating_mode))
         /\ (s.redirect <=> s.windows /\ s.mode = "loader" /\ ShouldEmulate(g, p.force))
<1>1. PICK o : o = ResolveEffectiveOptions(Config, NoOptions, p, Exe(g))
  OBVIOUS
<1>2. /\ Config.operating_mode = planConfig.operating_mode /\ Config.wine_prefix = planConfig.wine_prefix
  BY DEF Config, NoOptions, Options
<1>3. /\ planConfig.operating_mode \in {"loader", "standalone"} /\ planConfig.wine_prefix \in PrefixChoices \cup {Unset}
  BY DEF PlanType
<1>4. p.operating_mode \in PlanModes /\ p.wine_prefix \in PrefixChoices \cup {Unset}
  BY DEF PlanProfiles
<1>5. /\ o.operating_mode = OrElse(p.operating_mode, OrElse(planConfig.operating_mode, "loader"))
      /\ o.wine_prefix \in {p.wine_prefix, OrElse(p.wine_prefix, planConfig.wine_prefix)}
      /\ o.force = p.force
  BY <1>1, <1>2, EffectiveOptions DEF Effective, PrefixOf
<1>6. o.operating_mode = OrElse(p.operating_mode, planConfig.operating_mode)
  BY <1>3, <1>5 DEF OrElse, Unset
<1>7. /\ s.game = g /\ s.player = player /\ s.force = o.force /\ s.mode = NormalizeOperatingMode(o.operating_mode)
      /\ s.prefix = PrefixDir(g, player, o.wine_prefix) /\ s.windows = UsesPrefix(o)
      /\ s.redirect = (UsesPrefix(o) /\ NormalizeOperatingMode(o.operating_mode) = "loader" /\ ShouldEmulate(g, o.force))
  BY <1>1 DEF LaunchSpec
<1>8. s.mode \in {"loader", "portable", "none"}
  BY <1>3, <1>4, <1>6, <1>7 DEF NormalizeOperatingMode, OrElse, PlanModes, Unset
<1>9. o.wine_prefix \in PrefixChoices \cup {Unset}
  BY <1>3, <1>4, <1>5 DEF OrElse
<1>10. PrefixDir(g, player, o.wine_prefix) \in Prefixes
  BY <1>3, <1>9, PlanAssumption DEF PrefixDir, OwnPrefix, Prefixes
<1> QED BY <1>5, <1>6, <1>7, <1>8, <1>10

(* Two profiles that differ in no option a launch looks at make the same launch. *)
LEMMA SameLaunch ==
  ASSUME PlanType, NEW g, NEW player, NEW p \in PlanProfiles, NEW q \in PlanProfiles,
         q.wine_prefix = p.wine_prefix, q.force = p.force, q.platform = p.platform, q.runner = p.runner,
         q.operating_mode \in {"loader", "portable", "none"},
         q.operating_mode = NormalizeOperatingMode(OrElse(p.operating_mode, planConfig.operating_mode))
  PROVE  LaunchSpec(g, player, q) = LaunchSpec(g, player, p)
<1>1. PICK o : o = ResolveEffectiveOptions(Config, NoOptions, p, Exe(g))
  OBVIOUS
<1>2. PICK u : u = ResolveEffectiveOptions(Config, NoOptions, q, Exe(g))
  OBVIOUS
<1>0. Effective(Config, p, Exe(g), o) /\ Effective(Config, q, Exe(g), u)
  BY <1>1, <1>2, EffectiveOptions
<1>3. u.platform = o.platform /\ u.runner = o.runner /\ u.wine_prefix = o.wine_prefix /\ u.force = o.force
  BY <1>0 DEF Effective, RunnerOf, PrefixOf
<1>4. NormalizeOperatingMode(u.operating_mode) = NormalizeOperatingMode(o.operating_mode)
  <2>1. Config.operating_mode = planConfig.operating_mode
    BY DEF Config, NoOptions, Options
  <2>2. planConfig.operating_mode \in {"loader", "standalone"}
    BY DEF PlanType
  <2>3. /\ u.operating_mode = OrElse(q.operating_mode, OrElse(planConfig.operating_mode, "loader"))
        /\ o.operating_mode = OrElse(p.operating_mode, OrElse(planConfig.operating_mode, "loader"))
    BY <1>0, <2>1 DEF Effective
  <2> QED BY <2>2, <2>3 DEF OrElse, Unset, NormalizeOperatingMode
<1>5. UsesPrefix(u) = UsesPrefix(o)
  BY <1>3 DEF UsesPrefix
<1> QED BY <1>1, <1>2, <1>3, <1>4, <1>5 DEF LaunchSpec

(* The mode that ApplyGame pins in the profile is the one that was in effect: the launch stays what it was. *)
LEMMA PinnedMode ==
  ASSUME PlanType, NEW g \in PlanGames, NEW player \in Players, NEW p \in PlanProfiles,
         NEW mode, mode = LaunchSpec(g, "p1", p).mode, NEW q, q = [p EXCEPT !.operating_mode = mode]
  PROVE  q \in PlanProfiles /\ LaunchSpec(g, player, q) = LaunchSpec(g, player, p) /\ q.wine_prefix = p.wine_prefix
         /\ q.force = p.force
<1>1. PICK s : s = LaunchSpec(g, "p1", p)
  OBVIOUS
<1>2. /\ mode \in {"loader", "portable", "none"}
      /\ mode = NormalizeOperatingMode(OrElse(p.operating_mode, planConfig.operating_mode))
  BY <1>1, SpecOk, PlanAssumption
<1>3. {"operating_mode", "wine_prefix", "force", "platform", "runner"} \subseteq Options
  BY DEF Options
<1>4. /\ p \in [Options -> PlanModes \cup PlanForces \cup PrefixChoices]
      /\ p.wine_prefix \in PrefixChoices \cup {Unset} /\ p.force \in PlanForces /\ mode \in PlanModes
  BY <1>2 DEF PlanProfiles, PlanModes
<1>5. /\ q.operating_mode = mode /\ q.wine_prefix = p.wine_prefix /\ q.force = p.force
      /\ q.platform = p.platform /\ q.runner = p.runner
      /\ q \in [Options -> PlanModes \cup PlanForces \cup PrefixChoices]
  BY <1>3, <1>4
<1>6. q \in PlanProfiles
  BY <1>4, <1>5 DEF PlanProfiles
<1>7. LaunchSpec(g, player, q) = LaunchSpec(g, player, p)
  BY <1>2, <1>5, <1>6, SameLaunch
<1> QED BY <1>5, <1>6, <1>7

(* What preparing a prefix makes of its Steam directory; the others stay. *)
LEMMA PreparedPrefix ==
  ASSUME NEW dirs \in Dirs, NEW s, s.game \in PlanGames, s.prefix \in Prefixes, s.mode \in {"loader", "portable", "none"},
         NEW setUp, NEW made, made = Prepared(dirs, s, setUp)
  PROVE  /\ made \in Dirs
         /\ \A path \in Prefixes : path # s.prefix => made[path] = dirs[path]
         /\ s.windows /\ s.mode = "none" => made[s.prefix] = Clean
         /\ s.windows /\ s.mode = "loader" /\ ~ShouldEmulate(s.game, s.force) => made[s.prefix] = Clean
         /\ s.windows /\ s.mode = "loader" /\ ShouldEmulate(s.game, s.force) /\ s.game \in setUp => made[s.prefix] = s.game
<1>1. PICK d : d = EnsuredSteamDir(dirs[s.prefix], s.game, s.mode, s.force, setUp)
  OBVIOUS
<1>2. /\ d \in PlanGames \cup {Clean, "nobody"}
      /\ s.mode = "none" => d = Clean
      /\ s.mode = "loader" /\ ~ShouldEmulate(s.game, s.force) => d = Clean
      /\ s.mode = "loader" /\ ShouldEmulate(s.game, s.force) /\ s.game \in setUp => d = s.game
  <2>1. dirs[s.prefix] \in PlanGames \cup {Clean, "nobody"}
    BY DEF Dirs
  <2> QED BY <1>1, <2>1 DEF EnsuredSteamDir, SetupWinePrefixSteamDir
<1>3. CASE s.windows
  <2>1. made = [dirs EXCEPT ![s.prefix] = d]
    BY <1>1, <1>3 DEF Prepared
  <2> QED BY <1>2, <2>1 DEF Dirs
<1>4. CASE ~s.windows
  <2>1. made = dirs
    BY <1>4 DEF Prepared
  <2> QED BY <1>4, <2>1
<1> QED BY <1>3, <1>4

LEMMA AppliedPrefix ==
  ASSUME PlanType, NEW g \in PlanGames, NEW player \in Players, NEW p \in PlanProfiles, NEW dirs \in Dirs,
         NEW a, a = ApplyPrefix(g, p, dirs), NEW s, s = LaunchSpec(g, "p1", p)
  PROVE  /\ a.profile \in PlanProfiles /\ a.profile.wine_prefix = p.wine_prefix /\ a.profile.force = p.force
         /\ LaunchSpec(g, player, a.profile) = LaunchSpec(g, player, p)
         /\ a.dirs \in Dirs
         /\ \A path \in Prefixes : path # <<p.wine_prefix>> /\ path # s.prefix => a.dirs[path] = dirs[path]
         /\ ShouldEmulate(g, p.force) /\ s.mode = "loader" => g \in a.setUp
<1>1. /\ s.game = g /\ s.prefix \in Prefixes /\ s.mode \in {"loader", "portable", "none"}
  BY SpecOk, PlanAssumption
<1>2. PICK emulate : emulate = (ShouldEmulate(g, p.force) /\ s.mode # "none")
  OBVIOUS
<1>3. PICK setUp : setUp = IF emulate THEN applied \cup {g} ELSE applied \ {g}
  OBVIOUS
<1>4. PICK own : own = p.wine_prefix
  OBVIOUS
<1>5. PICK d : d = IF ~emulate THEN Clean
                   ELSE IF s.mode = "loader" /\ Exe(g) # "linux" THEN SetupWinePrefixSteamDir(dirs[<<own>>], g, setUp)
                   ELSE dirs[<<own>>]
  OBVIOUS
<1>6. PICK touched : touched = IF own = Unset THEN dirs ELSE [dirs EXCEPT ![<<own>>] = d]
  OBVIOUS
<1>7. a = [setUp |-> setUp, profile |-> [p EXCEPT !.operating_mode = s.mode],
           dirs |-> IF emulate THEN Prepared(touched, s, setUp) ELSE touched]
  BY <1>2, <1>3, <1>4, <1>5, <1>6 DEF ApplyPrefix
<1>8. /\ a.setUp = setUp /\ a.profile = [p EXCEPT !.operating_mode = s.mode]
      /\ a.dirs = IF emulate THEN Prepared(touched, s, setUp) ELSE touched
  BY <1>7
<1>9. touched \in Dirs /\ \A path \in Prefixes : path # <<own>> => touched[path] = dirs[path]
  <2>1. own = Unset \/ <<own>> \in Prefixes
    BY <1>4 DEF PlanProfiles, Prefixes
  <2>2. <<own>> \in Prefixes => d \in PlanGames \cup {Clean, "nobody"}
    <3>1. <<own>> \in Prefixes => dirs[<<own>>] \in PlanGames \cup {Clean, "nobody"}
      BY DEF Dirs
    <3> QED BY <1>5, <3>1 DEF SetupWinePrefixSteamDir
  <2>3. CASE own = Unset
    BY <1>6, <2>3
  <2>4. CASE own # Unset
    <3>1. touched = [dirs EXCEPT ![<<own>>] = d]
      BY <1>6, <2>4
    <3>2. d \in PlanGames \cup {Clean, "nobody"} /\ <<own>> \in Prefixes
      BY <2>1, <2>2, <2>4
    <3>3. PICK x \in Prefixes : x = <<own>>
      BY <3>2
    <3>4. touched = [dirs EXCEPT ![x] = d]
      BY <3>1, <3>3
    <3> QED BY <3>2, <3>3, <3>4 DEF Dirs
  <2> QED BY <2>3, <2>4
<1>10. PICK made : made = Prepared(touched, s, setUp)
  OBVIOUS
<1>11. made \in Dirs /\ \A path \in Prefixes : path # s.prefix => made[path] = touched[path]
  BY <1>1, <1>9, <1>10, PreparedPrefix
<1>12. a.dirs \in Dirs /\ \A path \in Prefixes : path # <<own>> /\ path # s.prefix => a.dirs[path] = dirs[path]
  BY <1>8, <1>9, <1>10, <1>11
<1>13. PICK mode : mode = s.mode
  OBVIOUS
<1>14. PICK q : q = [p EXCEPT !.operating_mode = mode]
  OBVIOUS
<1>15. /\ q \in PlanProfiles /\ LaunchSpec(g, player, q) = LaunchSpec(g, player, p) /\ q.wine_prefix = p.wine_prefix
       /\ q.force = p.force
  BY <1>13, <1>14, PinnedMode
<1>16. a.profile = q
  BY <1>8, <1>13, <1>14
<1>17. ShouldEmulate(g, p.force) /\ s.mode = "loader" => g \in a.setUp
  BY <1>2, <1>3, <1>8
<1> QED BY <1>4, <1>12, <1>15, <1>16, <1>17

(* A step that leaves the prefixes in use alone and starts at most s, whose prefix is as planned. *)
LEMMA PlanStep ==
  ASSUME PlanInv,
         planProfile' \in [PlanGames -> PlanProfiles],
         planConfig' \in [operating_mode : {"loader", "standalone"}, wine_prefix : PrefixChoices \cup {Unset}],
         steamDir' \in Dirs, gseLink' \in [Prefixes -> Players \cup {Unset}],
         \A l \in plays : l.windows => steamDir'[l.prefix] = steamDir[l.prefix] /\ gseLink'[l.prefix] = gseLink[l.prefix],
         NEW s, plays' \subseteq plays \cup {s},
         s \in plays' \ plays /\ s.windows =>
           /\ s.prefix \in Prefixes
           /\ s.redirect => steamDir'[s.prefix] = s.game
           /\ s.mode = "none" \/ (s.mode = "loader" /\ ~s.redirect) => steamDir'[s.prefix] = Clean
           /\ gseLink'[s.prefix] = s.player
  PROVE  PlanInv'
<1>1. PlanType'
  <2>1. \A l \in plays' : l.windows => l.prefix \in Prefixes
    BY DEF PlanInv, PlanType
  <2> QED BY <2>1 DEF PlanType
<1>2. ASSUME NEW l \in plays', l.windows
      PROVE  /\ l.redirect => steamDir'[l.prefix] = l.game
             /\ l.mode = "none" \/ (l.mode = "loader" /\ ~l.redirect) => steamDir'[l.prefix] = Clean
             /\ gseLink'[l.prefix] = l.player
  <2>1. CASE l \in plays
    BY <1>2, <2>1 DEF PlanInv, PrefixAsPlanned
  <2>2. CASE l \notin plays
    BY <1>2, <2>2
  <2> QED BY <2>1, <2>2
<1> QED BY <1>1, <1>2 DEF PlanInv, PrefixAsPlanned

(* The prefix whose saves link a launch sets. *)
LEMMA LinkedPrefix ==
  ASSUME PlanType, NEW s, s.prefix \in Prefixes, s.player \in Players
  PROVE  /\ Linked(s) \in [Prefixes -> Players \cup {Unset}]
         /\ s.windows => Linked(s)[s.prefix] = s.player
         /\ \A path \in Prefixes : path # s.prefix => Linked(s)[path] = gseLink[path]
<1>1. CASE s.windows
  BY <1>1 DEF Linked, PlanType
<1>2. CASE ~s.windows
  BY <1>2 DEF Linked, PlanType
<1> QED BY <1>1, <1>2

(* Prefixes that no running game uses are not theirs. *)
LEMMA NotInUse ==
  ASSUME PlanType, NEW path, ~InUse(path), NEW l \in plays, l.windows
  PROVE  l.prefix \in Prefixes /\ l.prefix # path
BY DEF InUse, PlanType

LEMMA LaunchStep ==
  ASSUME PlanInv, PlanApart, NEW g \in PlanGames, NEW player \in Players, EnsureAndLaunchGame(g, player)
  PROVE  PlanInv'
<1>t. PlanType /\ steamDir \in Dirs /\ planProfile \in [PlanGames -> PlanProfiles]
  BY DEF PlanInv, PlanType
<1>0. PICK p \in PlanProfiles : p = planProfile[g]
  BY <1>t
<1>1. PICK made : made = IF g \in applied THEN [setUp |-> applied, profile |-> p, dirs |-> steamDir]
                         ELSE ApplyPrefix(g, p, steamDir)
  OBVIOUS
<1>2. PICK s : s = LaunchSpec(g, player, made.profile)
  OBVIOUS
<1>3. PICK u : u = LaunchSpec(g, "p1", made.profile)
  OBVIOUS
<1>4. /\ planProfile' = [planProfile EXCEPT ![g] = made.profile]
      /\ Undisturbed(s) /\ Undisturbed(u)
      /\ steamDir' = Prepared(made.dirs, s, made.setUp)
      /\ gseLink' = Linked(s)
      /\ plays' = plays \cup {s}
      /\ UNCHANGED planConfig
  BY <1>0, <1>1, <1>2, <1>3 DEF EnsureAndLaunchGame
<1>5. /\ made.profile \in PlanProfiles /\ made.dirs \in Dirs
      /\ \A path \in Prefixes : path # <<made.profile.wine_prefix>> /\ path # u.prefix => made.dirs[path] = steamDir[path]
      /\ ShouldEmulate(g, made.profile.force) /\ s.mode = "loader" => g \in made.setUp
  <2>1. CASE g \in applied
    <3>1. made.setUp = applied /\ made.profile = p /\ made.dirs = steamDir
      BY <1>1, <2>1
    <3> QED BY <1>t, <2>1, <3>1
  <2>2. CASE g \notin applied
    <3>1. PICK v : v = LaunchSpec(g, "p1", p)
      OBVIOUS
    <3>2. made = ApplyPrefix(g, p, steamDir)
      BY <1>1, <2>2
    <3>3. /\ made.profile \in PlanProfiles /\ made.profile.wine_prefix = p.wine_prefix /\ made.profile.force = p.force
          /\ made.dirs \in Dirs
          /\ LaunchSpec(g, player, made.profile) = LaunchSpec(g, player, p)
          /\ \A path \in Prefixes : path # <<p.wine_prefix>> /\ path # v.prefix => made.dirs[path] = steamDir[path]
          /\ ShouldEmulate(g, p.force) /\ v.mode = "loader" => g \in made.setUp
      BY <1>t, <3>1, <3>2, AppliedPrefix
    <3>4. LaunchSpec(g, "p1", made.profile) = LaunchSpec(g, "p1", p)
      BY <1>t, <3>1, <3>2, AppliedPrefix, PlanAssumption
    <3>5. v.mode = s.mode /\ u = v
      <4>1. s = LaunchSpec(g, player, p)
        BY <1>2, <3>3
      <4>2. s.mode = NormalizeOperatingMode(OrElse(p.operating_mode, planConfig.operating_mode))
        BY <1>t, <4>1, SpecOk
      <4>3. v.mode = NormalizeOperatingMode(OrElse(p.operating_mode, planConfig.operating_mode))
        BY <1>t, <3>1, SpecOk, PlanAssumption
      <4> QED BY <1>3, <3>1, <3>4, <4>2, <4>3
    <3> QED BY <3>3, <3>5
  <2> QED BY <2>1, <2>2
<1>6. PICK q \in PlanProfiles : q = made.profile
  BY <1>5
<1>7. /\ s.game = g /\ s.player = player /\ s.force = q.force /\ s.prefix \in Prefixes
      /\ s.mode \in {"loader", "portable", "none"}
      /\ (s.redirect <=> s.windows /\ s.mode = "loader" /\ ShouldEmulate(g, q.force))
  BY <1>t, <1>2, <1>6, SpecOk
<1>8. u.game = g /\ u.prefix \in Prefixes
  BY <1>t, <1>3, <1>6, SpecOk, PlanAssumption
<1>9. planProfile' \in [PlanGames -> PlanProfiles] /\ planProfile'[g] = q
  BY <1>t, <1>4, <1>6
<1>10. ~InUse(s.prefix) /\ ~InUse(u.prefix) /\ ~InUse(<<q.wine_prefix>>)
  BY <1>4, <1>7, <1>8, <1>9 DEF Undisturbed
<1>11. PICK dirs \in Dirs : dirs = made.dirs
  BY <1>5
<1>12. PICK setUp : setUp = made.setUp
  OBVIOUS
<1>13. /\ steamDir' \in Dirs
       /\ \A path \in Prefixes : path # s.prefix => steamDir'[path] = dirs[path]
       /\ s.windows /\ s.mode = "none" => steamDir'[s.prefix] = Clean
       /\ s.windows /\ s.mode = "loader" /\ ~ShouldEmulate(s.game, s.force) => steamDir'[s.prefix] = Clean
       /\ s.windows /\ s.mode = "loader" /\ ShouldEmulate(s.game, s.force) /\ s.game \in setUp => steamDir'[s.prefix] = s.game
  <2>1. steamDir' = Prepared(dirs, s, setUp)
    BY <1>4, <1>11, <1>12
  <2> QED BY <1>7, <2>1, PreparedPrefix
<1>14. /\ gseLink' \in [Prefixes -> Players \cup {Unset}]
       /\ s.windows => gseLink'[s.prefix] = s.player
       /\ \A path \in Prefixes : path # s.prefix => gseLink'[path] = gseLink[path]
  BY <1>t, <1>4, <1>7, LinkedPrefix
<1>15. \A l \in plays : l.windows => steamDir'[l.prefix] = steamDir[l.prefix] /\ gseLink'[l.prefix] = gseLink[l.prefix]
  <2>1. SUFFICES ASSUME NEW l \in plays, l.windows
                 PROVE  steamDir'[l.prefix] = steamDir[l.prefix] /\ gseLink'[l.prefix] = gseLink[l.prefix]
    OBVIOUS
  <2>2. l.prefix \in Prefixes /\ l.prefix # s.prefix /\ l.prefix # u.prefix /\ l.prefix # <<q.wine_prefix>>
    BY <1>t, <1>10, <2>1, NotInUse
  <2> QED BY <1>5, <1>6, <1>11, <1>13, <1>14, <2>2
<1>16. planConfig' \in [operating_mode : {"loader", "standalone"}, wine_prefix : PrefixChoices \cup {Unset}]
  BY <1>t, <1>4 DEF PlanType
<1>17. s.windows =>
           /\ s.prefix \in Prefixes
           /\ s.redirect => steamDir'[s.prefix] = s.game
           /\ s.mode = "none" \/ (s.mode = "loader" /\ ~s.redirect) => steamDir'[s.prefix] = Clean
           /\ gseLink'[s.prefix] = s.player
  BY <1>5, <1>6, <1>7, <1>12, <1>13, <1>14
<1>18. plays' \subseteq plays \cup {s}
  BY <1>4
<1> QED BY <1>9, <1>13, <1>14, <1>15, <1>16, <1>17, <1>18, PlanStep

LEMMA SeatStep ==
  ASSUME PlanInv, PlanApart, NEW g \in PlanGames, NEW player \in Players, buildSeatCommand(g, player)
  PROVE  PlanInv'
<1>t. PlanType /\ steamDir \in Dirs /\ planProfile \in [PlanGames -> PlanProfiles]
  BY DEF PlanInv, PlanType
<1>0. PICK p \in PlanProfiles : p = planProfile[g]
  BY <1>t
<1>1. PICK path \in Prefixes : path = PrefixDir(g, player, Unset)
  <2>1. planConfig.wine_prefix \in PrefixChoices \cup {Unset}
    BY <1>t DEF PlanType
  <2>2. PrefixDir(g, player, Unset) \in {OwnPrefix("p1", g), OwnPrefix(player, g), <<planConfig.wine_prefix>>}
        /\ (PrefixDir(g, player, Unset) = <<planConfig.wine_prefix>> => planConfig.wine_prefix # Unset)
    BY DEF PrefixDir, OwnPrefix, Unset
  <2>3. PrefixDir(g, player, Unset) \in Prefixes
    BY <2>1, <2>2, PlanAssumption DEF OwnPrefix, Prefixes
  <2> QED BY <2>3
<1>2. PICK v : v = LaunchSpec(g, player, p)
  OBVIOUS
<1>3. PICK s : s = [v EXCEPT !.prefix = path]
  OBVIOUS
<1>4. /\ v.game = g /\ v.player = player /\ v.force = p.force /\ v.mode \in {"loader", "portable", "none"}
      /\ (v.redirect <=> v.windows /\ v.mode = "loader" /\ ShouldEmulate(g, p.force))
  BY <1>t, <1>2, SpecOk
<1>5. /\ s.game = g /\ s.player = player /\ s.force = p.force /\ s.prefix = path /\ s.mode \in {"loader", "portable", "none"}
      /\ (s.redirect <=> s.windows /\ s.mode = "loader" /\ ShouldEmulate(g, p.force))
  <2>1. /\ s.game = v.game /\ s.player = v.player /\ s.force = v.force /\ s.prefix = path /\ s.mode = v.mode
        /\ s.redirect = v.redirect /\ s.windows = v.windows
    BY <1>2, <1>3 DEF LaunchSpec
  <2> QED BY <1>4, <2>1
<1>6. PICK d : d = EnsuredSteamDir(steamDir[path], g, s.mode, Unset, applied)
  OBVIOUS
<1>7. PICK first : first = [steamDir EXCEPT ![path] = d]
  OBVIOUS
<1>8. /\ UNCHANGED <<planProfile, planConfig>>
      /\ s.redirect => g \in applied
      /\ Undisturbed(s)
      /\ steamDir' = Prepared(first, s, applied)
      /\ gseLink' = [gseLink EXCEPT ![path] = player]
      /\ plays' = plays \cup {s}
  BY <1>0, <1>1, <1>2, <1>3, <1>6, <1>7 DEF buildSeatCommand
<1>9. first \in Dirs /\ \A x \in Prefixes : x # path => first[x] = steamDir[x]
  <2>1. steamDir[path] \in PlanGames \cup {Clean, "nobody"}
    BY <1>t DEF Dirs
  <2>2. d \in PlanGames \cup {Clean, "nobody"}
    BY <1>6, <2>1 DEF EnsuredSteamDir, SetupWinePrefixSteamDir
  <2> QED BY <1>t, <1>7, <2>2 DEF Dirs
<1>10. ~InUse(path)
  BY <1>5, <1>8 DEF Undisturbed
<1>13. /\ steamDir' \in Dirs
       /\ \A x \in Prefixes : x # s.prefix => steamDir'[x] = first[x]
       /\ s.windows /\ s.mode = "none" => steamDir'[s.prefix] = Clean
       /\ s.windows /\ s.mode = "loader" /\ ~ShouldEmulate(s.game, s.force) => steamDir'[s.prefix] = Clean
       /\ s.windows /\ s.mode = "loader" /\ ShouldEmulate(s.game, s.force) /\ s.game \in applied => steamDir'[s.prefix] = s.game
  BY <1>5, <1>8, <1>9, PreparedPrefix
<1>14. /\ gseLink' \in [Prefixes -> Players \cup {Unset}] /\ gseLink'[path] = player
       /\ \A x \in Prefixes : x # path => gseLink'[x] = gseLink[x]
  BY <1>t, <1>8 DEF PlanType
<1>15. \A l \in plays : l.windows => steamDir'[l.prefix] = steamDir[l.prefix] /\ gseLink'[l.prefix] = gseLink[l.prefix]
  <2>1. SUFFICES ASSUME NEW l \in plays, l.windows
                 PROVE  steamDir'[l.prefix] = steamDir[l.prefix] /\ gseLink'[l.prefix] = gseLink[l.prefix]
    OBVIOUS
  <2>2. l.prefix \in Prefixes /\ l.prefix # path
    BY <1>t, <1>10, <2>1, NotInUse
  <2> QED BY <1>5, <1>9, <1>13, <1>14, <2>2
<1>16. /\ planConfig' \in [operating_mode : {"loader", "standalone"}, wine_prefix : PrefixChoices \cup {Unset}]
       /\ planProfile' \in [PlanGames -> PlanProfiles]
  BY <1>t, <1>8 DEF PlanType
<1>17. s.windows =>
           /\ s.prefix \in Prefixes
           /\ s.redirect => steamDir'[s.prefix] = s.game
           /\ s.mode = "none" \/ (s.mode = "loader" /\ ~s.redirect) => steamDir'[s.prefix] = Clean
           /\ gseLink'[s.prefix] = s.player
  BY <1>5, <1>8, <1>13, <1>14
<1>18. plays' \subseteq plays \cup {s}
  BY <1>8
<1> QED BY <1>13, <1>14, <1>15, <1>16, <1>17, <1>18, PlanStep

LEMMA PreviewStep ==
  ASSUME PlanInv, PlanApart, NEW g \in PlanGames, PreviewLaunch(g)
  PROVE  PlanInv'
<1>t. PlanType /\ steamDir \in Dirs /\ planProfile \in [PlanGames -> PlanProfiles]
  BY DEF PlanInv, PlanType
<1>0. PICK p \in PlanProfiles : p = planProfile[g]
  BY <1>t
<1>1. PICK s : s = LaunchSpec(g, "p1", p)
  OBVIOUS
<1>2. /\ UNCHANGED <<planProfile, planConfig, plays>>
      /\ Undisturbed(s)
      /\ steamDir' = Prepared(steamDir, s, applied)
      /\ gseLink' = Linked(s)
  BY <1>0, <1>1 DEF PreviewLaunch
<1>3. s.game = g /\ s.player = "p1" /\ s.prefix \in Prefixes /\ s.mode \in {"loader", "portable", "none"}
  BY <1>t, <1>1, SpecOk, PlanAssumption
<1>4. ~InUse(s.prefix)
  BY <1>2 DEF Undisturbed
<1>5. steamDir' \in Dirs /\ \A x \in Prefixes : x # s.prefix => steamDir'[x] = steamDir[x]
  BY <1>t, <1>2, <1>3, PreparedPrefix
<1>6. /\ gseLink' \in [Prefixes -> Players \cup {Unset}]
      /\ \A path \in Prefixes : path # s.prefix => gseLink'[path] = gseLink[path]
  BY <1>t, <1>2, <1>3, LinkedPrefix, PlanAssumption
<1>7. \A l \in plays : l.windows => steamDir'[l.prefix] = steamDir[l.prefix] /\ gseLink'[l.prefix] = gseLink[l.prefix]
  BY <1>t, <1>4, <1>5, <1>6, NotInUse
<1>8. /\ planConfig' \in [operating_mode : {"loader", "standalone"}, wine_prefix : PrefixChoices \cup {Unset}]
      /\ planProfile' \in [PlanGames -> PlanProfiles]
  BY <1>t, <1>2 DEF PlanType
<1> QED BY <1>2, <1>5, <1>6, <1>7, <1>8, PlanStep

LEMMA SaveProfileStep ==
  ASSUME PlanInv, PlanApart, NEW g \in PlanGames, NEW mode \in Modes, NEW prefix \in PrefixChoices \cup {Unset},
         NEW force \in {Unset, "on", "off"}, SaveLaunchProfile(g, mode, prefix, force)
  PROVE  PlanInv'
<1>t. PlanType /\ steamDir \in Dirs /\ planProfile \in [PlanGames -> PlanProfiles]
  BY DEF PlanInv, PlanType
<1>0. PICK old \in PlanProfiles : old = planProfile[g]
  BY <1>t
<1>1. PICK m \in PlanModes : m = NormalizeOperatingMode(mode)
  BY DEF Modes, PlanModes, NormalizeOperatingMode, Unset
<1>2. PICK p : p = [old EXCEPT !.operating_mode = m, !.wine_prefix = prefix, !.force = force]
  OBVIOUS
<1>3. p \in PlanProfiles /\ p.wine_prefix = prefix
  <2>1. {"operating_mode", "wine_prefix", "force"} \subseteq Options
    BY DEF Options
  <2>2. old \in [Options -> PlanModes \cup PlanForces \cup PrefixChoices]
    BY DEF PlanProfiles
  <2>3. m \in PlanModes /\ force \in PlanForces /\ prefix \in PlanModes \cup PlanForces \cup PrefixChoices
    BY DEF PlanForces
  <2>4. p \in [Options -> PlanModes \cup PlanForces \cup PrefixChoices]
        /\ p.operating_mode = m /\ p.wine_prefix = prefix /\ p.force = force
    BY <1>2, <2>1, <2>2, <2>3
  <2> QED BY <2>3, <2>4 DEF PlanProfiles
<1>4. PICK s : s = LaunchSpec(g, "p1", p)
  OBVIOUS
<1>5. PICK dirs : dirs = Prepared(steamDir, s, applied)
  OBVIOUS
<1>6. PICK changed : changed = (mode # Unset /\ p.operating_mode # NormalizeOperatingMode(planProfile[g].operating_mode))
  OBVIOUS
<1>7. PICK made : made = IF changed /\ s.mode # "none" THEN ApplyPrefix(g, p, dirs)
                         ELSE [setUp |-> IF changed THEN applied \ {g} ELSE applied, profile |-> p, dirs |-> dirs]
  OBVIOUS
<1>8. /\ planProfile' = [planProfile EXCEPT ![g] = made.profile]
      /\ Undisturbed(s)
      /\ steamDir' = made.dirs
      /\ gseLink' = Linked(s)
      /\ UNCHANGED <<planConfig, plays>>
  <2>1. p = [planProfile[g] EXCEPT !.operating_mode = NormalizeOperatingMode(mode), !.wine_prefix = prefix, !.force = force]
    BY <1>0, <1>1, <1>2
  <2> HIDE <1>2
  <2> QED BY <1>4, <1>5, <1>6, <1>7, <2>1 DEF SaveLaunchProfile
<1>9. s.game = g /\ s.player = "p1" /\ s.prefix \in Prefixes /\ s.mode \in {"loader", "portable", "none"}
  BY <1>t, <1>3, <1>4, SpecOk, PlanAssumption
<1>10. dirs \in Dirs /\ \A x \in Prefixes : x # s.prefix => dirs[x] = steamDir[x]
  BY <1>t, <1>5, <1>9, PreparedPrefix
<1>11. /\ made.profile \in PlanProfiles /\ made.profile.wine_prefix = prefix /\ made.dirs \in Dirs
       /\ \A x \in Prefixes : x # <<prefix>> /\ x # s.prefix => made.dirs[x] = dirs[x]
  <2>1. CASE changed /\ s.mode # "none"
    <3>1. made = ApplyPrefix(g, p, dirs)
      BY <1>7, <2>1
    <3> QED BY <1>t, <1>3, <1>4, <1>10, <3>1, AppliedPrefix, PlanAssumption
  <2>2. CASE ~(changed /\ s.mode # "none")
    <3>1. made.profile = p /\ made.dirs = dirs
      BY <1>7, <2>2
    <3> QED BY <1>3, <1>10, <3>1
  <2> QED BY <2>1, <2>2
<1>12. planProfile' \in [PlanGames -> PlanProfiles] /\ planProfile'[g].wine_prefix = prefix
  BY <1>t, <1>8, <1>11
<1>13. ~InUse(s.prefix) /\ ~InUse(<<prefix>>)
  BY <1>8, <1>9, <1>12 DEF Undisturbed
<1>14. /\ gseLink' \in [Prefixes -> Players \cup {Unset}]
       /\ \A path \in Prefixes : path # s.prefix => gseLink'[path] = gseLink[path]
  BY <1>t, <1>8, <1>9, LinkedPrefix, PlanAssumption
<1>15. \A l \in plays : l.windows => steamDir'[l.prefix] = steamDir[l.prefix] /\ gseLink'[l.prefix] = gseLink[l.prefix]
  <2>1. SUFFICES ASSUME NEW l \in plays, l.windows
                 PROVE  steamDir'[l.prefix] = steamDir[l.prefix] /\ gseLink'[l.prefix] = gseLink[l.prefix]
    OBVIOUS
  <2>2. l.prefix \in Prefixes /\ l.prefix # s.prefix /\ l.prefix # <<prefix>>
    BY <1>t, <1>13, <2>1, NotInUse
  <2> QED BY <1>8, <1>10, <1>11, <1>14, <2>2
<1>16. planConfig' \in [operating_mode : {"loader", "standalone"}, wine_prefix : PrefixChoices \cup {Unset}]
  BY <1>t, <1>8 DEF PlanType
<1>17. steamDir' \in Dirs /\ plays' = plays
  BY <1>8, <1>11
<1> QED BY <1>12, <1>14, <1>15, <1>16, <1>17, PlanStep

LEMMA PlanInvInit == PlanInit => PlanInv
<1>1. SUFFICES ASSUME PlanInit PROVE PlanInv
  OBVIOUS
<1>2. NoOptions \in PlanProfiles
  BY DEF NoOptions, PlanProfiles, PlanModes, PlanForces, Options
<1>3. PlanType
  BY <1>1, <1>2 DEF PlanInit, PlanType, Dirs
<1> QED BY <1>1, <1>3 DEF PlanInv, PlanInit, PrefixAsPlanned

LEMMA PlanInvNext == ASSUME PlanApart PROVE PlanInv /\ [PlanNext]_planVars => PlanInv'
<1>1. SUFFICES ASSUME PlanInv, [PlanNext]_planVars PROVE PlanInv'
  OBVIOUS
<1>2. ASSUME NEW g \in PlanGames, NEW p \in Players, EnsureAndLaunchGame(g, p) \/ buildSeatCommand(g, p) PROVE PlanInv'
  BY <1>1, <1>2, LaunchStep, SeatStep
<1>3. ASSUME NEW g \in PlanGames, PreviewLaunch(g) PROVE PlanInv'
  BY <1>1, <1>3, PreviewStep
<1>4. ASSUME NEW g \in PlanGames, NEW m \in Modes, NEW c \in PrefixChoices \cup {Unset}, NEW f \in {Unset, "on", "off"},
             SaveLaunchProfile(g, m, c, f)
      PROVE  PlanInv'
  BY <1>1, <1>4, SaveProfileStep
<1>5. ASSUME NEW m \in {"loader", "standalone"}, NEW c \in PrefixChoices \cup {Unset}, UpdatePlanConfig(m, c) PROVE PlanInv'
  <2>1. /\ planConfig' \in [operating_mode : {"loader", "standalone"}, wine_prefix : PrefixChoices \cup {Unset}]
        /\ UNCHANGED <<planProfile, steamDir, gseLink, plays>>
    BY <1>5 DEF UpdatePlanConfig
  <2> QED BY <1>1, <2>1 DEF PlanInv, PlanType, PrefixAsPlanned
<1>6. ASSUME NEW l \in plays, GameExits(l) PROVE PlanInv'
  BY <1>1, <1>6 DEF GameExits, PlanInv, PlanType, PrefixAsPlanned
<1>7. CASE UNCHANGED planVars
  BY <1>1, <1>7 DEF planVars, PlanInv, PlanType, PrefixAsPlanned
<1> QED BY <1>1, <1>2, <1>3, <1>4, <1>5, <1>6, <1>7 DEF PlanNext

(* When no preview, edit or second launch reaches a prefix in use, EnsureAndLaunchGame and buildSeatCommand start every *)
(* Windows game in a prefix made for its command line: the emulator is there with the settings of this game exactly     *)
(* when libraries are redirected to it, and the saves are the player's, for any games, players and chosen prefixes.     *)
THEOREM PrefixesAsPlanned == ASSUME PlanApart PROVE PlanSpec => []PrefixAsPlanned
<1>1. PlanInit => PlanInv
  BY PlanInvInit
<1>2. PlanInv /\ [PlanNext]_planVars => PlanInv'
  BY PlanInvNext
<1>3. PlanInv => PrefixAsPlanned
  BY DEF PlanInv
<1> QED BY <1>1, <1>2, <1>3, PTL DEF PlanSpec

-----------------------------------------------------------------------------
(* What is said of a launch before it is made *)

(* An option that the profile leaves unset changes nothing, and one that it sets to what the configuration has        *)
(* changes nothing either.                                                                                            *)
LEMMA PreviewComplete ==
  ASSUME NEW cfg, NEW p, p = [f \in Options |-> p[f]], NEW exe
  PROVE  OverridesComplete(cfg, p, exe)
<1>1. PICK with : with = ResolveEffectiveOptions(cfg, NoOptions, p, exe)
  OBVIOUS
<1>2. Effective(cfg, p, exe, with)
  BY <1>1, EffectiveOptions
<1>3. ASSUME NEW f \in (Toggles \ {"gamescope"}) \cup {"operating_mode", "wine_prefix", "proton_path"}, NEW bare,
             bare = ResolveEffectiveOptions(cfg, NoOptions, [p EXCEPT ![f] = Unset], exe),
             CASE f \in Toggles -> (with[f] = "on") # (bare[f] = "on")
               [] f = "operating_mode" -> NormalizeOperatingMode(with[f]) # NormalizeOperatingMode(bare[f])
               [] f = "wine_prefix" -> with.runner # "linux" /\ with[f] # bare[f]
               [] OTHER -> with[f] # bare[f]
      PROVE  f \in DetectOverrides(p, cfg)
  <2>1. f \in Options /\ f \in Previewed
    BY DEF Options, Toggles, Previewed
  <2>2. PICK q : q = [p EXCEPT ![f] = Unset]
    OBVIOUS
  <2>3. q[f] = Unset /\ \A g \in Options \ {f} : q[g] = p[g]
    BY <2>1, <2>2
  <2>4. Effective(cfg, q, exe, bare)
    BY <1>3, <2>2, EffectiveOptions
  <2>5. p[f] # Unset
    <3>1. SUFFICES ASSUME p[f] = Unset PROVE FALSE
      OBVIOUS
    <3>2. q = p
      BY <2>1, <2>2, <3>1
    <3>3. bare = with
      BY <1>1, <1>3, <2>2, <3>2
    <3> QED BY <1>3, <3>3
  <2>6. CASE f = "inhibit_sleep"
    <3>1. with[f] = p[f] /\ bare[f] = cfg[f]
      BY <1>2, <2>3, <2>4, <2>5, <2>6 DEF Effective, OrElse
    <3>2. (p[f] = "on") # (cfg[f] = "on")
      BY <1>3, <2>6, <3>1 DEF Toggles
    <3> QED BY <2>1, <2>5, <2>6, <3>2 DEF DetectOverrides, Toggles
  <2>7. CASE f \in Toggles \ {"inhibit_sleep"}
    <3>1. with[f] = p[f] /\ (bare[f] = "on" <=> cfg[f] = "on")
      BY <1>2, <2>3, <2>4, <2>5, <2>7 DEF Effective, Unset
    <3>2. (with[f] = "on") # (bare[f] = "on")
      <4>1. f \in Toggles /\ f \notin {"operating_mode", "wine_prefix"}
        BY <2>7 DEF Toggles
      <4> QED BY <1>3, <4>1
    <3>3. (p[f] = "on") # (cfg[f] = "on")
      BY <3>1, <3>2
    <3>4. f \in Toggles /\ f \notin {"operating_mode", "wine_prefix", "proton_path"}
      BY <2>7 DEF Toggles
    <3> QED BY <2>1, <2>5, <3>3, <3>4 DEF DetectOverrides
  <2>8. CASE f = "operating_mode"
    <3>1. with[f] = p[f] /\ bare[f] = OrElse(cfg[f], "loader")
      BY <1>2, <2>3, <2>4, <2>5, <2>8 DEF Effective, OrElse
    <3>2. NormalizeOperatingMode(p[f]) # NormalizeOperatingMode(OrElse(cfg[f], "loader"))
      BY <1>3, <2>8, <3>1 DEF Toggles
    <3>3. NormalizeOperatingMode(p[f]) # NormalizeOperatingMode(cfg[f])
      BY <2>5, <3>2 DEF NormalizeOperatingMode, OrElse, Unset
    <3> QED BY <2>1, <2>5, <2>8, <3>3 DEF DetectOverrides, Toggles
  <2>9. CASE f = "wine_prefix"
    <3>1. with.runner # "linux" /\ with[f] # bare[f]
      BY <1>3, <2>9 DEF Toggles
    <3>2. q.runner = p.runner /\ q.platform = p.platform
      BY <2>3, <2>9 DEF Options
    <3>3. with.runner = bare.runner
      BY <1>2, <2>4, <3>2 DEF Effective, RunnerOf
    <3>4. with[f] = p[f] /\ bare[f] = cfg[f]
      BY <1>2, <2>3, <2>4, <2>5, <2>9, <3>1, <3>3 DEF Effective, PrefixOf, OrElse
    <3> QED BY <2>1, <2>5, <2>9, <3>1, <3>4 DEF DetectOverrides, Toggles
  <2>10. CASE f = "proton_path"
    BY <2>1, <2>5, <2>10 DEF DetectOverrides, Toggles
  <2> QED BY <2>6, <2>7, <2>8, <2>9, <2>10
<1> QED BY <1>1, <1>3 DEF OverridesComplete

(* Every wrapper is one of four programs, and none of them is a runner. *)
LEMMA WrapperList ==
  ASSUME NEW o, NEW programs
  PROVE  /\ Wrappers(o, programs) \in Seq({"systemd-inhibit", "gamescope", "gamemoderun", "mangohud"})
         /\ o.runner = "linux" /\ o.platform = "linux" => Wrappers(o, programs) \in {<<>>, <<"gamescope">>}
<1> DEFINE W == {"systemd-inhibit", "gamescope", "gamemoderun", "mangohud"}
           windows == o.platform # "linux" \/ o.runner # "linux"
           if(cond, w) == IF cond /\ w \in programs THEN <<w>> ELSE <<>>
           a == if(windows /\ o.inhibit_sleep = "on", "systemd-inhibit")
           b == if(o.gamescope = "on", "gamescope")
           c == if(windows, "gamemoderun")
           d == if(windows /\ o.mangohud = "on", "mangohud")
<1>1. Wrappers(o, programs) = a \o b \o c \o d
  BY DEF Wrappers
<1>2. a \in Seq(W) /\ b \in Seq(W) /\ c \in Seq(W) /\ d \in Seq(W)
  <2>1. <<>> \in Seq(W) /\ \A w \in W : <<w>> \in Seq(W)
    OBVIOUS
  <2>2. a \in {<<>>, <<"systemd-inhibit">>} /\ b \in {<<>>, <<"gamescope">>}
        /\ c \in {<<>>, <<"gamemoderun">>} /\ d \in {<<>>, <<"mangohud">>}
    OBVIOUS
  <2> HIDE DEF a, b, c, d
  <2> QED BY <2>1, <2>2
<1>3. ~windows => a = <<>> /\ c = <<>> /\ d = <<>>
  OBVIOUS
<1>4. b \in {<<>>, <<"gamescope">>}
  OBVIOUS
<1> HIDE DEF a, b, c, d
<1>5. a \o b \o c \o d \in Seq(W)
  BY <1>2
<1>6. ~windows => a \o b \o c \o d = b
  BY <1>2, <1>3
<1> QED BY <1>1, <1>4, <1>5, <1>6

Adapters == {"umu", "wine", "proton"}

LEMMA CommandFits ==
  ASSUME NEW cfg, NEW profile, NEW exe, NEW programs
  PROVE  CommandHasPrefix(cfg, profile, exe, programs)
<1>1. PICK o : o = ResolveEffectiveOptions(cfg, NoOptions, profile, exe)
  OBVIOUS
<1>2. PICK c : c = Command(o, programs)
  OBVIOUS
<1>3. PICK adapter : adapter = ResolveRunner(o.runner, o.platform)
  OBVIOUS
<1>4. PICK args : args = BuildArgs(adapter, programs)
  OBVIOUS
<1>5. PICK w : w = Wrappers(o, programs)
  OBVIOUS
<1>6. adapter \in Adapters \cup {"linux"}
  BY <1>3 DEF ResolveRunner, Adapters
<1>7. o.runner # "linux" => (UsesPrefix(o) <=> adapter \in Adapters)
  BY <1>3 DEF ResolveRunner, UsesPrefix, Adapters, Unset
<1>8. o.runner = "linux" /\ o.platform = "linux" => adapter = "linux"
  BY <1>3 DEF ResolveRunner
<1>9. \/ args = <<>>
      \/ args = <<"exe">> /\ adapter = "linux"
      \/ args = <<adapter, "exe">> /\ adapter \in Adapters
  BY <1>4, <1>6 DEF BuildArgs, Adapters
<1>10. /\ w \in Seq({"systemd-inhibit", "gamescope", "gamemoderun", "mangohud"})
       /\ o.runner = "linux" /\ o.platform = "linux" => w \in {<<>>, <<"gamescope">>}
  BY <1>5, WrapperList
<1>11. c = IF args = <<>> THEN <<>> ELSE w \o args
  BY <1>2, <1>3, <1>4, <1>5 DEF Command
<1>12. ASSUME c # <<>>
       PROVE  /\ c[Len(c)] = "exe"
              /\ o.runner = "linux" \/ (UsesPrefix(o) <=> \E r \in Adapters : \E i \in 1 .. Len(c) : c[i] = r)
              /\ o.runner = "linux" /\ o.platform = "linux" => c \in {<<"exe">>, <<"gamescope", "exe">>}
  <2>1. args # <<>> /\ c = w \o args
    BY <1>11, <1>12
  <2>2. CASE args = <<"exe">> /\ adapter = "linux"
    <3>1. Len(c) = Len(w) + 1 /\ c[Len(c)] = "exe" /\ \A i \in 1 .. Len(w) : c[i] = w[i]
      BY <1>10, <2>1, <2>2
    <3>2. \A i \in 1 .. Len(c) : c[i] \notin Adapters
      BY <1>10, <3>1 DEF Adapters
    <3>3. w = <<>> => c = <<"exe">>
      BY <2>1, <2>2
    <3>4. w = <<"gamescope">> => c = <<"gamescope", "exe">>
      <4>1. <<"gamescope">> \o <<"exe">> = <<"gamescope", "exe">>
        <5>1. <<"gamescope">> \in Seq({"gamescope", "exe"}) /\ <<"exe">> \in Seq({"gamescope", "exe"})
              /\ <<"gamescope", "exe">> \in Seq({"gamescope", "exe"})
          OBVIOUS
        <5>0. <<"gamescope">> \o <<"exe">> \in Seq({"gamescope", "exe"})
          BY <5>1, ConcatProperties
        <5>2. PICK s \in Seq({"gamescope", "exe"}) : s = <<"gamescope">> \o <<"exe">>
          BY <5>0
        <5>3. Len(s) = 2 /\ s[1] = "gamescope" /\ s[2] = "exe"
          BY <5>1, <5>2
        <5>4. s = <<"gamescope", "exe">>
          BY <5>1, <5>3, SeqEqual
        <5> QED BY <5>2, <5>4
      <4> QED BY <2>1, <2>2, <4>1
    <3>5. adapter \notin Adapters
      BY <2>2 DEF Adapters
    <3> QED BY <1>7, <1>10, <3>1, <3>2, <3>3, <3>4, <3>5
  <2>3. CASE args = <<adapter, "exe">> /\ adapter \in Adapters
    <3>1. Len(c) = Len(w) + 2 /\ c[Len(c)] = "exe" /\ c[Len(w) + 1] = adapter /\ Len(w) \in Nat
      BY <1>10, <2>1, <2>3
    <3>2. Len(w) + 1 \in 1 .. Len(c)
      BY <3>1
    <3>3. adapter # "linux"
      BY <2>3 DEF Adapters
    <3> QED BY <1>7, <1>8, <2>3, <3>1, <3>2, <3>3
  <2> QED BY <1>9, <2>1, <2>2, <2>3
<1>13. o.runner = "linux" \/ (UsesPrefix(o) = \E r \in {"umu", "wine", "proton"} : \E i \in 1 .. Len(c) : c[i] = r) \/ c = <<>>
  BY <1>12 DEF UsesPrefix, Adapters
<1> HIDE DEF Adapters
<1> QED BY <1>1, <1>2, <1>12, <1>13 DEF CommandHasPrefix

(* For every configuration, profile, executable and set of installed programs: DetectOverrides names every option     *)
(* with which the profile changes what ResolveEffectiveOptions makes of the launch; and BuildLaunchSpec prepares a    *)
(* prefix exactly for the commands whose adapter runs in one, with the game last, inside every wrapper.               *)
THEOREM LaunchesExplained == OptionsSpec => []LaunchExplained
<1>1. options \in Requests => LaunchExplained
  BY RequestsAssumption, PreviewComplete, CommandFits DEF LaunchExplained
<1>2. options \in Requests /\ [UNCHANGED options]_options => (options \in Requests)'
  OBVIOUS
<1> QED BY <1>1, <1>2, PTL DEF OptionsSpec
=============================================================================
