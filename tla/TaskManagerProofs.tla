------------------------- MODULE TaskManagerProofs -------------------------
(***************************************************************************)
(* Proofs about the task manager, for any sets of tasks and any pool       *)
(* sizes, and about the event bus it reports on.                           *)
(***************************************************************************)
EXTENDS TaskManager, EventBus, Integers, Sequences, SequencesExt, FiniteSetTheorems, SequenceTheorems, TLAPS

-----------------------------------------------------------------------------
(* What the list operations of the models do to the elements of a list. *)

Elems(s) == {s[i] : i \in DOMAIN s}

(* A member of SeqOf(S, n) is a sequence over S. *)
LEMMA SeqOfType ==
  ASSUME NEW S, NEW n \in Nat, NEW r \in SeqOf(S, n)
  PROVE  r \in Seq(S)
<1>1. PICK m \in 0..n : r \in [1..m -> S]
  BY DEF SeqOf
<1> QED
  BY <1>1, SeqDef

(* The elements of a sequence over S are in S. *)
LEMMA ElemsType ==
  ASSUME NEW S, NEW s \in Seq(S)
  PROVE  Elems(s) \subseteq S
BY LenProperties DEF Elems

(* A concatenation has the elements of both parts. *)
LEMMA ConcatElems ==
  ASSUME NEW S, NEW s \in Seq(S), NEW r \in Seq(S)
  PROVE  /\ s \o r \in Seq(S)
         /\ Elems(s \o r) = Elems(s) \cup Elems(r)
<1> DEFINE c == s \o r
<1>1. /\ c \in Seq(S) /\ DOMAIN c = 1..(Len(s) + Len(r))
      /\ DOMAIN s = 1..Len(s) /\ DOMAIN r = 1..Len(r)
      /\ Len(s) \in Nat /\ Len(r) \in Nat
  BY ConcatProperties, LenProperties
<1>2. \A k \in 1..Len(s) : c[k] = s[k] /\ k \in 1..(Len(s) + Len(r))
  BY ConcatProperties, <1>1
<1>3. \A k \in 1..Len(r) : c[Len(s) + k] = r[k] /\ Len(s) + k \in 1..(Len(s) + Len(r))
  <2>1. SUFFICES ASSUME NEW k \in 1..Len(r)
                 PROVE  c[Len(s) + k] = r[k] /\ Len(s) + k \in 1..(Len(s) + Len(r))
    OBVIOUS
  <2>2. /\ Len(s) + k \in 1..(Len(s) + Len(r))
        /\ ~(Len(s) + k <= Len(s))
        /\ Len(s) + k - Len(s) = k
    BY <1>1
  <2> QED BY <2>2, ConcatProperties
<1>4. ASSUME NEW k \in 1..(Len(s) + Len(r))
      PROVE  k \in 1..Len(s) \/ \E j \in 1..Len(r) : k = Len(s) + j
  <2>1. CASE k <= Len(s) BY <2>1, <1>1
  <2>2. CASE k > Len(s)
    <3>1. k - Len(s) \in 1..Len(r) /\ k = Len(s) + (k - Len(s))
      BY <2>2, <1>1
    <3> QED BY <3>1
  <2> QED BY <2>1, <2>2, <1>1
<1>5. Elems(c) \subseteq Elems(s) \cup Elems(r)
  <2>1. SUFFICES ASSUME NEW k \in 1..(Len(s) + Len(r))
                 PROVE  c[k] \in Elems(s) \cup Elems(r)
    BY <1>1 DEF Elems
  <2>2. CASE k \in 1..Len(s) BY <2>2, <1>1, <1>2 DEF Elems
  <2>3. CASE \E j \in 1..Len(r) : k = Len(s) + j
    BY <2>3, <1>1, <1>3 DEF Elems
  <2> QED BY <2>2, <2>3, <1>4
<1>6. Elems(s) \cup Elems(r) \subseteq Elems(c)
  <2> HIDE DEF c
  <2> QED BY <1>1, <1>2, <1>3 DEF Elems
<1> QED BY <1>1, <1>5, <1>6

(* A subsequence has the elements between its bounds. *)
LEMMA SubSeqElems ==
  ASSUME NEW S, NEW s \in Seq(S), NEW m \in Int, NEW n \in Int, 1 <= m, n <= Len(s)
  PROVE  /\ SubSeq(s, m, n) \in Seq(S)
         /\ Elems(SubSeq(s, m, n)) = {s[k] : k \in m..n}
<1> DEFINE b == SubSeq(s, m, n)
<1>1. DOMAIN s = 1..Len(s) /\ Len(s) \in Nat /\ \A k \in m..n : s[k] \in S
  BY LenProperties, ElementOfSeq
<1>2. /\ b \in Seq(S)
      /\ Len(b) = IF m <= n THEN n-m+1 ELSE 0
      /\ \A k \in 1..(n-m+1) : b[k] = s[m+k-1]
  BY <1>1, SubSeqProperties
<1> HIDE DEF b
<1>3. DOMAIN b = 1..(n-m+1)
  <2>1. DOMAIN b = 1..Len(b)
    BY <1>2, LenProperties
  <2>2. CASE m <= n BY <2>1, <2>2, <1>2
  <2>3. CASE ~(m <= n)
    <3>1. 1..(n-m+1) = {} /\ 1..0 = {}
      BY <2>3
    <3> QED BY <3>1, <2>3, <2>1, <1>2
  <2> QED BY <2>2, <2>3
<1>4. ASSUME NEW k \in 1..(n-m+1) PROVE b[k] \in {s[j] : j \in m..n}
  <2>1. m+k-1 \in m..n
    OBVIOUS
  <2> QED BY <2>1, <1>2
<1>5. ASSUME NEW j \in m..n PROVE s[j] \in Elems(b)
  <2>1. j-m+1 \in 1..(n-m+1) /\ m + (j-m+1) - 1 = j
    OBVIOUS
  <2>2. b[j-m+1] = s[j]
    BY <2>1, <1>2
  <2> QED BY <2>1, <2>2, <1>3 DEF Elems
<1>6. Elems(b) \subseteq {s[k] : k \in m..n}
  BY <1>3, <1>4 DEF Elems
<1>7. {s[k] : k \in m..n} \subseteq Elems(b)
  BY <1>5
<1> QED BY <1>2, <1>6, <1>7 DEF b

(* Append adds one element. *)
LEMMA AppendElems ==
  ASSUME NEW S, NEW s \in Seq(S), NEW e \in S
  PROVE  /\ Append(s, e) \in Seq(S)
         /\ Elems(Append(s, e)) = Elems(s) \cup {e}
<1> DEFINE o == <<e>>
<1>1. o \in Seq(S) /\ Elems(o) = {e}
  BY DEF Elems
<1>2. Append(s, e) = s \o o
  BY AppendIsConcat
<1> HIDE DEF o
<1> QED BY <1>1, <1>2, ConcatElems

(* InsertAt, within the list, adds one element. *)
LEMMA InsertAtElems ==
  ASSUME NEW S, NEW s \in Seq(S), NEW i \in DOMAIN s, NEW e \in S
  PROVE  /\ InsertAt(s, i, e) \in Seq(S)
         /\ Elems(InsertAt(s, i, e)) = Elems(s) \cup {e}
<1> DEFINE a == SubSeq(s, 1, i-1)
           b == SubSeq(s, i, Len(s))
           o == <<e>>
           ao == a \o o
<1>1. DOMAIN s = 1..Len(s) /\ Len(s) \in Nat /\ i \in Int /\ 1 <= i /\ i <= Len(s)
  BY LenProperties
<1>2. a \in Seq(S) /\ Elems(a) = {s[k] : k \in 1..(i-1)}
  BY <1>1, SubSeqElems
<1>3. b \in Seq(S) /\ Elems(b) = {s[k] : k \in i..Len(s)}
  BY <1>1, SubSeqElems
<1>4. o \in Seq(S) /\ Elems(o) = {e}
  BY DEF Elems
<1>5. InsertAt(s, i, e) = ao \o b
  BY DEF InsertAt
<1> HIDE DEF a, b, o
<1>6. ao \in Seq(S) /\ Elems(ao) = Elems(a) \cup {e}
  BY <1>2, <1>4, ConcatElems
<1> HIDE DEF ao
<1>7. ao \o b \in Seq(S) /\ Elems(ao \o b) = (Elems(a) \cup {e}) \cup Elems(b)
  BY <1>3, <1>6, ConcatElems
<1>8. 1..Len(s) = (1..(i-1)) \cup (i..Len(s))
  BY <1>1
<1>9. Elems(s) = Elems(a) \cup Elems(b)
  BY <1>1, <1>2, <1>3, <1>8 DEF Elems
<1> QED BY <1>5, <1>7, <1>9

(* RemoveAt, within the list, adds nothing. *)
LEMMA RemoveAtElems ==
  ASSUME NEW S, NEW s \in Seq(S), NEW i \in DOMAIN s
  PROVE  /\ RemoveAt(s, i) \in Seq(S)
         /\ Elems(RemoveAt(s, i)) \subseteq Elems(s)
         /\ Elems(s) \ {s[i]} \subseteq Elems(RemoveAt(s, i))
<1> DEFINE a == SubSeq(s, 1, i-1)
           b == SubSeq(s, i+1, Len(s))
<1>1. DOMAIN s = 1..Len(s) /\ Len(s) \in Nat /\ i \in Int /\ 1 <= i /\ i <= Len(s)
  BY LenProperties
<1>2. a \in Seq(S) /\ Elems(a) = {s[k] : k \in 1..(i-1)}
  BY <1>1, SubSeqElems
<1>3. b \in Seq(S) /\ Elems(b) = {s[k] : k \in (i+1)..Len(s)}
  BY <1>1, SubSeqElems
<1>4. RemoveAt(s, i) = a \o b
  BY DEF RemoveAt
<1> HIDE DEF a, b
<1>5. a \o b \in Seq(S) /\ Elems(a \o b) = Elems(a) \cup Elems(b)
  BY <1>2, <1>3, ConcatElems
<1>6. 1..(i-1) \subseteq 1..Len(s) /\ (i+1)..Len(s) \subseteq 1..Len(s)
  BY <1>1
<1>7. Elems(a) \cup Elems(b) \subseteq Elems(s)
  BY <1>1, <1>2, <1>3, <1>6 DEF Elems
<1>8. Elems(s) \ {s[i]} \subseteq Elems(a) \cup Elems(b)
  <2>1. ASSUME NEW k \in 1..Len(s), s[k] # s[i] PROVE k \in 1..(i-1) \/ k \in (i+1)..Len(s)
    BY <1>1, <2>1
  <2> QED BY <1>1, <1>2, <1>3, <2>1 DEF Elems
<1> QED BY <1>4, <1>5, <1>7, <1>8

-----------------------------------------------------------------------------
(* The list and the file *)

LEMMA SelectionElems ==
  ASSUME NEW r, NEW s, NEW K, IsSelection(r, s, K)
  PROVE  Elems(r) = Elems(s) \cap K
BY DEF IsSelection, Elems

LEMMA ListedElems == Listed = Elems(tasks) /\ Listed' = Elems(tasks')
BY DEF Listed, Elems

(* Saving a list of tasks leaves a well-formed file. *)
LEMMA SaveType ==
  ASSUME NEW list \in Seq(Tasks), NEW st \in [Tasks -> Status], SavedOK, Save(list, st)
  PROVE  SavedOK'
<1>1. CASE SaveMayFail /\ UNCHANGED saved
  BY <1>1 DEF SavedOK
<1>2. ASSUME NEW r \in SeqOf(Persist, Len(list)),
             saved' = [order |-> r, status |-> [t \in {r[i] : i \in DOMAIN r} |-> st[t]]]
      PROVE  SavedOK'
  <2>1. r \in Seq(Persist)
    BY SeqOfType, LenProperties
  <2>2. {r[i] : i \in DOMAIN r} \subseteq Tasks
    BY <2>1, ElemsType, TaskSets DEF Elems
  <2>3. saved'.order = r /\ saved'.status = [t \in {r[i] : i \in DOMAIN r} |-> st[t]]
    BY <1>2
  <2> QED BY <2>1, <2>2, <2>3 DEF SavedOK
<1> QED BY <1>1, <1>2 DEF Save

(* The list after each operation that changes it. *)
LEMMA SubmitList ==
  ASSUME tasks \in Seq(Tasks), NEW t \in Tasks, NEW priority \in BOOLEAN, Submit(t, priority)
  PROVE  tasks' \in Seq(Tasks) /\ Listed' = Listed \cup {t}
<1> DEFINE queued == {i \in DOMAIN tasks : status[tasks[i]] = "queued"}
<1>1. CASE tasks' = Append(tasks, t)
  BY <1>1, AppendElems, ListedElems
<1>2. ASSUME NEW i \in queued, tasks' = InsertAt(tasks, i, t)
      PROVE  tasks' \in Seq(Tasks) /\ Listed' = Listed \cup {t}
  <2>1. i \in DOMAIN tasks
    OBVIOUS
  <2> QED BY <1>2, <2>1, InsertAtElems, ListedElems
<1> QED BY <1>1, <1>2 DEF Submit

LEMMA RemoveList ==
  ASSUME tasks \in Seq(Tasks), NEW i \in DOMAIN tasks, Remove_(i)
  PROVE  tasks' \in Seq(Tasks) /\ Listed' \subseteq Listed
BY RemoveAtElems, ListedElems DEF Remove_

LEMMA ReorderList ==
  ASSUME tasks \in Seq(Tasks), scene \in SceneType, NEW ids \in Orders, Reorder(ids)
  PROVE  tasks' \in Seq(Tasks) /\ Listed' \subseteq Listed
<1> DEFINE Named == {ids[i] : i \in DOMAIN ids} \cap {t \in Listed : status[t] = "queued"}
<1>0. Len(ids) \in Nat /\ Len(tasks) \in Nat
  <2>1. IsFiniteSet(scene.tasks)
    BY TaskSets, FS_Subset DEF SceneType
  <2>2. Cardinality(scene.tasks) \in Nat
    BY <2>1, FS_CardinalityType
  <2>3. ids \in Seq(scene.tasks)
    BY <2>2, SeqOfType DEF Orders
  <2> QED BY <2>3, LenProperties
<1>1. PICK first \in SeqOf(Named, Len(ids)), rest \in SeqOf(Listed \ Named, Len(tasks)) :
        tasks' = first \o rest
  BY DEF Reorder
<1>2. first \in Seq(Named) /\ rest \in Seq(Listed \ Named)
  BY <1>0, <1>1, SeqOfType
<1>3. first \in Seq(Listed) /\ rest \in Seq(Listed)
  BY <1>2, SeqMonotonic
<1>4. tasks' \in Seq(Listed)
  BY <1>1, <1>3, ConcatElems
<1>5. Listed \subseteq Tasks
  BY ElemsType, ListedElems
<1> QED BY <1>4, <1>5, SeqMonotonic, ElemsType, ListedElems

LEMMA ClearList ==
  ASSUME tasks \in Seq(Tasks), ClearFinished
  PROVE  tasks' \in Seq(Tasks) /\ Listed' \subseteq Listed
<1>1. tasks' \in SeqOf(Listed, Len(tasks))
  BY DEF ClearFinished
<1>2. tasks' \in Seq(Listed)
  BY <1>1, SeqOfType, LenProperties
<1>3. Listed \subseteq Tasks
  BY ElemsType, ListedElems
<1> QED BY <1>2, <1>3, SeqMonotonic, ElemsType, ListedElems

-----------------------------------------------------------------------------
(* Type correctness *)

LEMMA NotifiedType == TypeOK => Notified \in BOOLEAN
BY Zenon DEF TypeOK, Notified

(* Every step keeps every variable within its type. *)
LEMMA TypeStep ==
  ASSUME TypeOK, [Next]_vars
  PROVE  TypeOK'
<1> USE TaskSets DEF managerVars, shutdownVars, schedVars, workerVars, outsideVars,
        Status, Active, Terminal, Events, Outcome, Worker, Holding, Cancellable, Registered, InRun, Pools
<1>0. CASE UNCHANGED vars
  BY <1>0 DEF TypeOK, SavedOK, vars
<1>1. ASSUME NEW t \in Tasks, SubmitOpen(t) PROVE TypeOK'
  BY <1>1 DEF TypeOK, SavedOK, SubmitOpen
<1>2. ASSUME NEW t \in Tasks, NEW priority \in BOOLEAN, Submit(t, priority) PROVE TypeOK'
  <2>1. tasks' \in Seq(Tasks)
    BY <1>2, SubmitList DEF TypeOK
  <2>2. status' \in [Tasks -> Status]
    BY <1>2 DEF TypeOK, Submit
  <2>3. SavedOK'
    BY <1>2, <2>1, <2>2, SaveType DEF TypeOK, Submit
  <2> QED BY <1>2, <2>1, <2>2, <2>3 DEF TypeOK, Submit
<1>3. ASSUME NEW t \in Tasks, SubmitNotify(t) PROVE TypeOK'
  <2>1. notify' \in BOOLEAN
    BY <1>3, NotifiedType DEF TypeOK, SubmitNotify
  <2> QED BY <1>3, <2>1 DEF TypeOK, SavedOK, SubmitNotify
<1>4. ASSUME NEW t \in Tasks, Pause(t) PROVE TypeOK'
  <2>1. tasks' \in Seq(Tasks)
    BY <1>4 DEF TypeOK, Pause
  <2>2. status' \in [Tasks -> Status]
    BY <1>4 DEF TypeOK, Pause
  <2>3. SavedOK'
    BY <1>4, <2>1, <2>2, SaveType DEF TypeOK, Pause
  <2> QED BY <1>4, <2>1, <2>2, <2>3 DEF TypeOK, Pause
<1>5. ASSUME NEW t \in Tasks, Resume(t) PROVE TypeOK'
  <2>1. tasks' \in Seq(Tasks)
    BY <1>5 DEF TypeOK, Resume
  <2>2. status' \in [Tasks -> Status]
    BY <1>5 DEF TypeOK, Resume
  <2>3. SavedOK'
    BY <1>5, <2>1, <2>2, SaveType DEF TypeOK, Resume
  <2>4. notify' \in BOOLEAN
    BY <1>5, NotifiedType DEF TypeOK, Resume
  <2>5. worker' \in [Tasks -> Worker] /\ paused' \subseteq Tasks
    BY <1>5 DEF TypeOK, Resume, Unpause
  <2> QED BY <1>5, <2>1, <2>2, <2>3, <2>4, <2>5 DEF TypeOK, Resume
<1>6. ASSUME NEW t \in Tasks, CancelActive(t) PROVE TypeOK'
  BY <1>6 DEF TypeOK, SavedOK, CancelActive, Unpause
<1>7. ASSUME NEW t \in Tasks, CancelQueued(t) PROVE TypeOK'
  <2>1. tasks' \in Seq(Tasks)
    BY <1>7 DEF TypeOK, CancelQueued
  <2>2. status' \in [Tasks -> Status]
    BY <1>7 DEF TypeOK, CancelQueued
  <2>3. SavedOK'
    BY <1>7, <2>1, <2>2, SaveType DEF TypeOK, CancelQueued
  <2> QED BY <1>7, <2>1, <2>2, <2>3 DEF TypeOK, CancelQueued
<1>8. ASSUME NEW i \in DOMAIN tasks, Remove_(i) PROVE TypeOK'
  <2>1. tasks' \in Seq(Tasks)
    BY <1>8, RemoveList DEF TypeOK
  <2>2. status' \in [Tasks -> Status]
    BY <1>8 DEF TypeOK, Remove_
  <2>3. SavedOK'
    BY <1>8, <2>1, <2>2, SaveType DEF TypeOK, Remove_
  <2> QED BY <1>8, <2>1, <2>2, <2>3 DEF TypeOK, Remove_
<1>9. ASSUME NEW ids \in Orders, Reorder(ids) PROVE TypeOK'
  <2>1. tasks' \in Seq(Tasks)
    BY <1>9, ReorderList, SceneSet DEF TypeOK
  <2>2. status' \in [Tasks -> Status]
    BY <1>9 DEF TypeOK, Reorder
  <2>3. SavedOK'
    BY <1>9, <2>1, <2>2, SaveType DEF TypeOK, Reorder
  <2>4. notify' \in BOOLEAN
    BY <1>9, NotifiedType DEF TypeOK, Reorder
  <2> QED BY <1>9, <2>1, <2>2, <2>3, <2>4 DEF TypeOK, Reorder
<1>10. CASE ClearFinished
  <2>1. tasks' \in Seq(Tasks)
    BY <1>10, ClearList DEF TypeOK
  <2>2. status' \in [Tasks -> Status]
    BY <1>10 DEF TypeOK, ClearFinished
  <2>3. SavedOK'
    BY <1>10, <2>1, <2>2, SaveType DEF TypeOK, ClearFinished
  <2> QED BY <1>10, <2>1, <2>2, <2>3 DEF TypeOK, ClearFinished
<1>11. CASE ShutdownBegin
  BY <1>11 DEF TypeOK, SavedOK, ShutdownBegin
<1>12. CASE ShutdownCollect
  BY <1>12 DEF TypeOK, SavedOK, ShutdownCollect
<1>13. ASSUME NEW t \in Tasks, ShutdownCancel(t) PROVE TypeOK'
  BY <1>13 DEF TypeOK, SavedOK, ShutdownCancel
<1>14. CASE SchedulerWake
  <2>1. notify' \in BOOLEAN
    BY <1>14 DEF SchedulerWake
  <2> QED BY <1>14, <2>1 DEF TypeOK, SavedOK, SchedulerWake
<1>15. CASE SchedulerStop
  BY <1>15 DEF TypeOK, SavedOK, SchedulerStop
<1>16. CASE SchedulerEnter
  BY <1>16 DEF TypeOK, SavedOK, SchedulerEnter
<1>17. CASE SchedulerStart
  <2>0. tasks[pos] \in Tasks
    BY <1>17, LenProperties DEF TypeOK, SchedulerStart
  <2>1. tasks' \in Seq(Tasks)
    BY <1>17, <2>0 DEF TypeOK, SchedulerStart
  <2>2. status' \in [Tasks -> Status]
    BY <1>17, <2>0 DEF TypeOK, SchedulerStart
  <2>3. SavedOK'
    BY <1>17, <2>0, <2>1, <2>2, SaveType DEF TypeOK, SchedulerStart
  <2>4. sem' \in [Pools -> Int] /\ pos' \in Nat
    BY <1>17, <2>0 DEF TypeOK, SchedulerStart, Pool
  <2> QED BY <1>17, <2>0, <2>1, <2>2, <2>3, <2>4 DEF TypeOK, SchedulerStart
<1>18. CASE SchedulerSkip
  BY <1>18 DEF TypeOK, SavedOK, SchedulerSkip
<1>19. CASE SchedulerLeave
  BY <1>19 DEF TypeOK, SavedOK, SchedulerLeave
<1>20. ASSUME NEW t \in Tasks, WorkerRegister(t) PROVE TypeOK'
  <2>1. worker' \in [Tasks -> Worker] /\ outcome' \in [Tasks -> Outcome]
    BY <1>20 DEF TypeOK, WorkerRegister
  <2>2. ctrl' \subseteq Tasks /\ paused' \subseteq Tasks
    BY <1>20 DEF TypeOK, WorkerRegister
  <2> QED BY <1>20, <2>1, <2>2 DEF TypeOK, SavedOK, WorkerRegister
<1>21. ASSUME NEW t \in Tasks, Check(t) PROVE TypeOK'
  <2>1. worker' \in [Tasks -> Worker] /\ outcome' \in [Tasks -> Outcome]
    BY <1>21 DEF TypeOK, Check, ReturnCanceled
  <2> QED BY <1>21, <2>1 DEF TypeOK, SavedOK, Check
<1>22. ASSUME NEW t \in Tasks, CheckLoop(t) PROVE TypeOK'
  <2>1. worker' \in [Tasks -> Worker] /\ outcome' \in [Tasks -> Outcome]
    BY <1>22 DEF TypeOK, CheckLoop, ReturnCanceled
  <2> QED BY <1>22, <2>1 DEF TypeOK, SavedOK, CheckLoop
<1>23. ASSUME NEW t \in Tasks, Report(t) PROVE TypeOK'
  BY <1>23 DEF TypeOK, SavedOK, Report
<1>24. ASSUME NEW t \in Tasks, ReportEmit(t) PROVE TypeOK'
  BY <1>24 DEF TypeOK, SavedOK, ReportEmit
<1>25. ASSUME NEW t \in Tasks, NEW out \in {"ok", "err", "canceled"}, RunReturn(t, out) PROVE TypeOK'
  BY <1>25 DEF TypeOK, SavedOK, RunReturn
<1>26. ASSUME NEW t \in Tasks, WorkerFinish(t) PROVE TypeOK'
  <2>1. tasks' \in Seq(Tasks)
    BY <1>26 DEF TypeOK, WorkerFinish
  <2>2. status' \in [Tasks -> Status]
    BY <1>26 DEF TypeOK, WorkerFinish, EndStatus
  <2>3. SavedOK'
    BY <1>26, <2>1, <2>2, SaveType DEF TypeOK, WorkerFinish
  <2> QED BY <1>26, <2>1, <2>2, <2>3 DEF TypeOK, WorkerFinish, EndStatus
<1>27. ASSUME NEW t \in Tasks, WorkerRelease(t) PROVE TypeOK'
  <2>1. sem' \in [Pools -> Int]
    BY <1>27 DEF TypeOK, WorkerRelease, Pool
  <2> QED BY <1>27, <2>1 DEF TypeOK, SavedOK, WorkerRelease
<1>28. ASSUME NEW t \in Tasks, WorkerNotify(t) PROVE TypeOK'
  <2>1. notify' \in BOOLEAN
    BY <1>28, NotifiedType DEF TypeOK, WorkerNotify
  <2> QED BY <1>28, <2>1 DEF TypeOK, SavedOK, WorkerNotify
<1>29. ASSUME NEW s \in SyncTasks, RunSyncStart(s) PROVE TypeOK'
  BY <1>29 DEF TypeOK, SavedOK, RunSyncStart
<1>30. ASSUME NEW s \in SyncTasks, RunSyncReport(s) PROVE TypeOK'
  BY <1>30 DEF TypeOK, SavedOK, RunSyncReport
<1>31. ASSUME NEW s \in SyncTasks, RunSyncFinish(s) PROVE TypeOK'
  BY <1>31 DEF TypeOK, SavedOK, RunSyncFinish
<1>32. CASE Restart
  <2>1. tasks' \in Seq(Tasks)
    BY <1>32, SeqMonotonic DEF TypeOK, SavedOK, Restart
  <2>2. \A t \in {saved.order[i] : i \in DOMAIN saved.order} : saved.status[t] \in Status
    BY DEF TypeOK, SavedOK
  <2>3. status' \in [Tasks -> Status]
    BY <1>32, <2>2 DEF TypeOK, Restart, Recovered
  <2>4. notify' \in BOOLEAN /\ closed' \in BOOLEAN
    BY <1>32 DEF Restart
  <2>5. restarts' \in 0..MaxRestarts
    BY <1>32, PoolSizes DEF TypeOK, Restart
  <2> QED BY <1>32, <2>1, <2>3, <2>4, <2>5 DEF TypeOK, SavedOK, Restart
<1> QED
  BY <1>0, <1>1, <1>2, <1>3, <1>4, <1>5, <1>6, <1>7, <1>8, <1>9, <1>10, <1>11, <1>12, <1>13, <1>14, <1>15, <1>16, <1>17, <1>18, <1>19, <1>20, <1>21, <1>22, <1>23, <1>24, <1>25, <1>26, <1>27, <1>28, <1>29, <1>30, <1>31, <1>32
     DEF Next, FrontEnd, Shutdown, Scheduler, WorkerStep, RunStep, RunSync

LEMMA InitType == Init => TypeOK
<1>1. SUFFICES ASSUME Init PROVE TypeOK
  OBVIOUS
<1>2. saved.order = <<>> /\ saved.status = [t \in {} |-> "queued"]
  BY <1>1 DEF Init
<1>3. SavedOK
  <2>1. {saved.order[i] : i \in DOMAIN saved.order} = {}
    BY <1>2
  <2>2. saved.order \in Seq(Persist)
    BY <1>2, EmptySeq
  <2> QED BY <1>2, <2>1, <2>2 DEF SavedOK
<1>4. tasks \in Seq(Tasks)
  BY <1>1, EmptySeq DEF Init
<1>5. restarts \in 0..MaxRestarts
  BY <1>1, PoolSizes DEF Init
<1>6. notify \in BOOLEAN /\ closed \in BOOLEAN
  BY <1>1 DEF Init
<1> QED BY <1>1, <1>3, <1>4, <1>5, <1>6
    DEF Init, TypeOK, Status, Active, Terminal, Events, Outcome, Worker, Pools

(* The values of every variable stay within their types, whatever the front end, *)
(* the scheduler, the workers and kills of the program do.                       *)
THEOREM TypeCorrect == Spec => []TypeOK
<1>1. Init => TypeOK
  BY InitType
<1>2. TypeOK /\ [Next]_vars => TypeOK'
  BY TypeStep
<1> QED BY <1>1, <1>2, PTL DEF Spec

-----------------------------------------------------------------------------
(* Workers, controllers and statuses *)

(* Every step keeps the maps and the statuses in agreement with the workers. *)
LEMMA WorkerInvStep ==
  ASSUME TypeOK, WorkerInv, NewInv, [Next]_vars
  PROVE  WorkerInv'
<1> USE DEF managerVars, shutdownVars, schedVars, workerVars, outsideVars,
        Status, Active, Terminal, Worker, Holding, Cancellable, Registered, InRun
<1>0. CASE UNCHANGED vars
  BY <1>0 DEF WorkerInv, vars
<1>1. ASSUME NEW t \in Tasks, SubmitOpen(t) PROVE WorkerInv'
  BY <1>1 DEF TypeOK, WorkerInv, SubmitOpen
<1>2. ASSUME NEW t \in Tasks, NEW priority \in BOOLEAN, Submit(t, priority) PROVE WorkerInv'
  BY <1>2 DEF TypeOK, WorkerInv, NewInv, Submit
<1>3. ASSUME NEW t \in Tasks, SubmitNotify(t) PROVE WorkerInv'
  BY <1>3 DEF TypeOK, WorkerInv, SubmitNotify
<1>4. ASSUME NEW t \in Tasks, Pause(t) PROVE WorkerInv'
  BY <1>4 DEF TypeOK, WorkerInv, Pause
<1>5. ASSUME NEW t \in Tasks, Resume(t) PROVE WorkerInv'
  BY <1>5 DEF TypeOK, WorkerInv, Resume, Unpause
<1>6. ASSUME NEW t \in Tasks, CancelActive(t) PROVE WorkerInv'
  BY <1>6 DEF TypeOK, WorkerInv, CancelActive, Unpause
<1>7. ASSUME NEW t \in Tasks, CancelQueued(t) PROVE WorkerInv'
  BY <1>7 DEF TypeOK, WorkerInv, CancelQueued
<1>8. ASSUME NEW i \in DOMAIN tasks, Remove_(i) PROVE WorkerInv'
  BY <1>8 DEF TypeOK, WorkerInv, Remove_
<1>9. ASSUME NEW ids \in Orders, Reorder(ids) PROVE WorkerInv'
  BY <1>9 DEF TypeOK, WorkerInv, Reorder
<1>10. CASE ClearFinished
  BY <1>10 DEF TypeOK, WorkerInv, ClearFinished
<1>11. CASE ShutdownBegin
  BY <1>11 DEF TypeOK, WorkerInv, ShutdownBegin
<1>12. CASE ShutdownCollect
  BY <1>12 DEF TypeOK, WorkerInv, ShutdownCollect
<1>13. ASSUME NEW t \in Tasks, ShutdownCancel(t) PROVE WorkerInv'
  BY <1>13 DEF TypeOK, WorkerInv, ShutdownCancel
<1>14. CASE SchedulerWake
  BY <1>14 DEF TypeOK, WorkerInv, SchedulerWake
<1>15. CASE SchedulerStop
  BY <1>15 DEF TypeOK, WorkerInv, SchedulerStop
<1>16. CASE SchedulerEnter
  BY <1>16 DEF TypeOK, WorkerInv, SchedulerEnter
<1>17. CASE SchedulerStart
  <2>1. tasks[pos] \in Tasks
    BY <1>17, LenProperties DEF TypeOK, SchedulerStart
  <2> QED BY <1>17, <2>1 DEF TypeOK, WorkerInv, SchedulerStart
<1>18. CASE SchedulerSkip
  BY <1>18 DEF TypeOK, WorkerInv, SchedulerSkip
<1>19. CASE SchedulerLeave
  BY <1>19 DEF TypeOK, WorkerInv, SchedulerLeave
<1>20. ASSUME NEW t \in Tasks, WorkerRegister(t) PROVE WorkerInv'
  BY <1>20 DEF TypeOK, WorkerInv, WorkerRegister
<1>21. ASSUME NEW t \in Tasks, Check(t) PROVE WorkerInv'
  BY <1>21 DEF TypeOK, WorkerInv, Check, ReturnCanceled
<1>22. ASSUME NEW t \in Tasks, CheckLoop(t) PROVE WorkerInv'
  BY <1>22 DEF TypeOK, WorkerInv, CheckLoop, ReturnCanceled
<1>23. ASSUME NEW t \in Tasks, Report(t) PROVE WorkerInv'
  BY <1>23 DEF TypeOK, WorkerInv, Report
<1>24. ASSUME NEW t \in Tasks, ReportEmit(t) PROVE WorkerInv'
  BY <1>24 DEF TypeOK, WorkerInv, ReportEmit
<1>25. ASSUME NEW t \in Tasks, NEW out \in {"ok", "err", "canceled"}, RunReturn(t, out) PROVE WorkerInv'
  BY <1>25 DEF TypeOK, WorkerInv, RunReturn
<1>26. ASSUME NEW t \in Tasks, WorkerFinish(t) PROVE WorkerInv'
  BY <1>26 DEF TypeOK, WorkerInv, WorkerFinish, EndStatus
<1>27. ASSUME NEW t \in Tasks, WorkerRelease(t) PROVE WorkerInv'
  BY <1>27 DEF TypeOK, WorkerInv, WorkerRelease
<1>28. ASSUME NEW t \in Tasks, WorkerNotify(t) PROVE WorkerInv'
  BY <1>28 DEF TypeOK, WorkerInv, WorkerNotify
<1>29. ASSUME NEW s \in SyncTasks, RunSyncStart(s) PROVE WorkerInv'
  BY <1>29 DEF TypeOK, WorkerInv, RunSyncStart
<1>30. ASSUME NEW s \in SyncTasks, RunSyncReport(s) PROVE WorkerInv'
  BY <1>30 DEF TypeOK, WorkerInv, RunSyncReport
<1>31. ASSUME NEW s \in SyncTasks, RunSyncFinish(s) PROVE WorkerInv'
  BY <1>31 DEF TypeOK, WorkerInv, RunSyncFinish
<1>32. CASE Restart
  BY <1>32 DEF TypeOK, WorkerInv, Restart
<1> QED
  BY <1>0, <1>1, <1>2, <1>3, <1>4, <1>5, <1>6, <1>7, <1>8, <1>9, <1>10,
     <1>11, <1>12, <1>13, <1>14, <1>15, <1>16, <1>17, <1>18, <1>19, <1>20,
     <1>21, <1>22, <1>23, <1>24, <1>25, <1>26, <1>27, <1>28, <1>29, <1>30,
     <1>31, <1>32
     DEF Next, FrontEnd, Shutdown, Scheduler, WorkerStep, RunStep, RunSync

(* Saving a list without new tasks leaves a file without new tasks. *)
LEMMA SaveNew ==
  ASSUME tasks' \in Seq(Tasks), NEW st, Save(tasks', st),
         \A u \in Listed' : st[u] # "new",
         \A i \in DOMAIN saved.order : saved.status[saved.order[i]] # "new"
  PROVE  \A i \in DOMAIN saved'.order : saved'.status[saved'.order[i]] # "new"
<1>1. CASE SaveMayFail /\ UNCHANGED saved
  BY <1>1
<1>2. ASSUME NEW r \in SeqOf(Persist, Len(tasks')), IsSelection(r, tasks', Persist),
             saved' = [order |-> r, status |-> [t \in {r[i] : i \in DOMAIN r} |-> st[t]]]
      PROVE  \A i \in DOMAIN saved'.order : saved'.status[saved'.order[i]] # "new"
  <2>1. \A i \in DOMAIN r : r[i] \in Listed'
    BY <1>2 DEF IsSelection, Listed
  <2>2. saved'.order = r /\ saved'.status = [t \in {r[i] : i \in DOMAIN r} |-> st[t]]
    BY <1>2
  <2> QED BY <2>1, <2>2
<1> QED BY <1>1, <1>2 DEF Save

(* Every step keeps listed and saved tasks apart from new ones. *)
LEMMA NewInvStep ==
  ASSUME TypeOK, WorkerInv, NewInv, [Next]_vars
  PROVE  NewInv'
<1> USE DEF managerVars, shutdownVars, schedVars, workerVars, outsideVars
<1>0. CASE UNCHANGED vars
  BY <1>0 DEF NewInv, Listed, vars
<1>1. ASSUME NEW t \in Tasks, SubmitOpen(t) PROVE NewInv'
  BY <1>1 DEF TypeOK, NewInv, Listed, SubmitOpen
<1>2. ASSUME NEW t \in Tasks, NEW priority \in BOOLEAN, Submit(t, priority) PROVE NewInv'
  <2>0. tasks' \in Seq(Tasks) /\ Listed' = Listed \cup {t} /\ Listed \subseteq Tasks
    BY <1>2, SubmitList, ListedElems, ElemsType DEF TypeOK
  <2>1. tasks' \in Seq(Tasks) /\ \A u \in Listed' : status'[u] # "new"
    BY <1>2, <2>0 DEF TypeOK, NewInv, Submit
  <2>3. Save(tasks', status')
    BY <1>2 DEF Submit
  <2>2. \A k \in DOMAIN saved'.order : saved'.status[saved'.order[k]] # "new"
    BY <2>1, <2>3, SaveNew DEF NewInv
  <2> QED BY <1>2, <2>1, <2>2 DEF TypeOK, NewInv, Submit
<1>3. ASSUME NEW t \in Tasks, SubmitNotify(t) PROVE NewInv'
  BY <1>3 DEF TypeOK, NewInv, Listed, SubmitNotify
<1>4. ASSUME NEW t \in Tasks, Pause(t) PROVE NewInv'
  <2>1. tasks' \in Seq(Tasks) /\ \A u \in Listed' : status'[u] # "new"
    BY <1>4 DEF TypeOK, NewInv, Pause, Listed
  <2>3. Save(tasks', status')
    BY <1>4 DEF Pause
  <2>2. \A k \in DOMAIN saved'.order : saved'.status[saved'.order[k]] # "new"
    BY <2>1, <2>3, SaveNew DEF NewInv
  <2> QED BY <1>4, <2>1, <2>2 DEF TypeOK, NewInv, Pause, Listed
<1>5. ASSUME NEW t \in Tasks, Resume(t) PROVE NewInv'
  <2>1. tasks' \in Seq(Tasks) /\ \A u \in Listed' : status'[u] # "new"
    BY <1>5 DEF TypeOK, NewInv, Resume, Listed
  <2>3. Save(tasks', status')
    BY <1>5 DEF Resume
  <2>2. \A k \in DOMAIN saved'.order : saved'.status[saved'.order[k]] # "new"
    BY <2>1, <2>3, SaveNew DEF NewInv
  <2> QED BY <1>5, <2>1, <2>2 DEF TypeOK, NewInv, Resume, Listed
<1>6. ASSUME NEW t \in Tasks, CancelActive(t) PROVE NewInv'
  BY <1>6 DEF TypeOK, NewInv, Listed, CancelActive
<1>7. ASSUME NEW t \in Tasks, CancelQueued(t) PROVE NewInv'
  <2>1. tasks' \in Seq(Tasks) /\ \A u \in Listed' : status'[u] # "new"
    BY <1>7 DEF TypeOK, NewInv, CancelQueued, Listed
  <2>3. Save(tasks', status')
    BY <1>7 DEF CancelQueued
  <2>2. \A k \in DOMAIN saved'.order : saved'.status[saved'.order[k]] # "new"
    BY <2>1, <2>3, SaveNew DEF NewInv
  <2> QED BY <1>7, <2>1, <2>2 DEF TypeOK, NewInv, CancelQueued, Listed
<1>8. ASSUME NEW i \in DOMAIN tasks, Remove_(i) PROVE NewInv'
  <2>1. tasks' \in Seq(Tasks) /\ \A u \in Listed' : status'[u] # "new"
    BY <1>8, RemoveList DEF TypeOK, NewInv, Remove_
  <2>3. Save(tasks', status) /\ status' = status
    BY <1>8 DEF Remove_
  <2>2. \A k \in DOMAIN saved'.order : saved'.status[saved'.order[k]] # "new"
    BY <2>1, <2>3, SaveNew DEF NewInv
  <2> QED BY <1>8, <2>1, <2>2 DEF TypeOK, NewInv, Remove_
<1>9. ASSUME NEW ids \in Orders, Reorder(ids) PROVE NewInv'
  <2>0. tasks' \in Seq(Tasks) /\ Listed' \subseteq Listed
    BY <1>9, ReorderList, SceneSet DEF TypeOK
  <2>3. Save(tasks', status) /\ status' = status
    BY <1>9 DEF Reorder
  <2>1. tasks' \in Seq(Tasks) /\ \A u \in Listed' : status[u] # "new"
    BY <2>0 DEF NewInv
  <2>2. \A k \in DOMAIN saved'.order : saved'.status[saved'.order[k]] # "new"
    BY <2>3, <2>1, SaveNew DEF NewInv
  <2> QED BY <1>9, <2>3, <2>1, <2>2 DEF NewInv, Reorder
<1>10. CASE ClearFinished
  <2>1. tasks' \in Seq(Tasks) /\ \A u \in Listed' : status'[u] # "new"
    BY <1>10, ClearList DEF TypeOK, NewInv, ClearFinished
  <2>3. Save(tasks', status) /\ status' = status
    BY <1>10 DEF ClearFinished
  <2>2. \A k \in DOMAIN saved'.order : saved'.status[saved'.order[k]] # "new"
    BY <2>1, <2>3, SaveNew DEF NewInv
  <2> QED BY <1>10, <2>1, <2>2 DEF TypeOK, NewInv, ClearFinished
<1>11. CASE ShutdownBegin
  BY <1>11 DEF TypeOK, NewInv, Listed, ShutdownBegin
<1>12. CASE ShutdownCollect
  BY <1>12 DEF TypeOK, NewInv, Listed, ShutdownCollect
<1>13. ASSUME NEW t \in Tasks, ShutdownCancel(t) PROVE NewInv'
  BY <1>13 DEF TypeOK, NewInv, Listed, ShutdownCancel
<1>14. CASE SchedulerWake
  BY <1>14 DEF TypeOK, NewInv, Listed, SchedulerWake
<1>15. CASE SchedulerStop
  BY <1>15 DEF TypeOK, NewInv, Listed, SchedulerStop
<1>16. CASE SchedulerEnter
  BY <1>16 DEF TypeOK, NewInv, Listed, SchedulerEnter
<1>17. CASE SchedulerStart
  <2>1. tasks' \in Seq(Tasks) /\ \A u \in Listed' : status'[u] # "new"
    BY <1>17 DEF TypeOK, NewInv, SchedulerStart, Listed
  <2>3. Save(tasks', status')
    BY <1>17 DEF SchedulerStart
  <2>2. \A k \in DOMAIN saved'.order : saved'.status[saved'.order[k]] # "new"
    BY <2>1, <2>3, SaveNew DEF NewInv
  <2> QED BY <1>17, <2>1, <2>2 DEF TypeOK, NewInv, SchedulerStart, Listed
<1>18. CASE SchedulerSkip
  BY <1>18 DEF TypeOK, NewInv, Listed, SchedulerSkip
<1>19. CASE SchedulerLeave
  BY <1>19 DEF TypeOK, NewInv, Listed, SchedulerLeave
<1>20. ASSUME NEW t \in Tasks, WorkerRegister(t) PROVE NewInv'
  BY <1>20 DEF TypeOK, NewInv, Listed, WorkerRegister
<1>21. ASSUME NEW t \in Tasks, Check(t) PROVE NewInv'
  BY <1>21 DEF TypeOK, NewInv, Listed, Check
<1>22. ASSUME NEW t \in Tasks, CheckLoop(t) PROVE NewInv'
  BY <1>22 DEF TypeOK, NewInv, Listed, CheckLoop
<1>23. ASSUME NEW t \in Tasks, Report(t) PROVE NewInv'
  BY <1>23 DEF TypeOK, NewInv, Listed, Report
<1>24. ASSUME NEW t \in Tasks, ReportEmit(t) PROVE NewInv'
  BY <1>24 DEF TypeOK, NewInv, Listed, ReportEmit
<1>25. ASSUME NEW t \in Tasks, NEW out \in {"ok", "err", "canceled"}, RunReturn(t, out) PROVE NewInv'
  BY <1>25 DEF TypeOK, NewInv, Listed, RunReturn
<1>26. ASSUME NEW t \in Tasks, WorkerFinish(t) PROVE NewInv'
  <2>0. EndStatus(t) # "new" /\ status[t] # "new"
    BY <1>26 DEF EndStatus, WorkerFinish, WorkerInv, Cancellable, Registered
  <2>1. tasks' \in Seq(Tasks) /\ \A u \in Listed' : status'[u] # "new"
    BY <1>26, <2>0 DEF TypeOK, NewInv, WorkerFinish, Listed
  <2>3. Save(tasks', status')
    BY <1>26 DEF WorkerFinish
  <2>2. \A k \in DOMAIN saved'.order : saved'.status[saved'.order[k]] # "new"
    BY <2>1, <2>3, SaveNew DEF NewInv
  <2> QED BY <1>26, <2>0, <2>1, <2>2 DEF TypeOK, NewInv, WorkerFinish, Listed
<1>27. ASSUME NEW t \in Tasks, WorkerRelease(t) PROVE NewInv'
  BY <1>27 DEF TypeOK, NewInv, Listed, WorkerRelease
<1>28. ASSUME NEW t \in Tasks, WorkerNotify(t) PROVE NewInv'
  BY <1>28 DEF TypeOK, NewInv, Listed, WorkerNotify
<1>29. ASSUME NEW s \in SyncTasks, RunSyncStart(s) PROVE NewInv'
  BY <1>29 DEF TypeOK, NewInv, Listed, RunSyncStart
<1>30. ASSUME NEW s \in SyncTasks, RunSyncReport(s) PROVE NewInv'
  BY <1>30 DEF TypeOK, NewInv, Listed, RunSyncReport
<1>31. ASSUME NEW s \in SyncTasks, RunSyncFinish(s) PROVE NewInv'
  BY <1>31 DEF TypeOK, NewInv, Listed, RunSyncFinish
<1>32. CASE Restart
  <2>1. \A u \in Listed' : status'[u] # "new"
    BY <1>32, TaskSets, ElemsType DEF TypeOK, SavedOK, NewInv, Restart, Listed, Recovered, Elems
  <2> QED BY <1>32, <2>1 DEF NewInv, Restart
<1> QED
  BY <1>0, <1>1, <1>2, <1>3, <1>4, <1>5, <1>6, <1>7, <1>8, <1>9, <1>10,
     <1>11, <1>12, <1>13, <1>14, <1>15, <1>16, <1>17, <1>18, <1>19, <1>20,
     <1>21, <1>22, <1>23, <1>24, <1>25, <1>26, <1>27, <1>28, <1>29, <1>30,
     <1>31, <1>32
     DEF Next, FrontEnd, Shutdown, Scheduler, WorkerStep, RunStep, RunSync

-----------------------------------------------------------------------------
(* Slots *)

Held(p) == {t \in Tasks : Pool(t) = p /\ worker[t] \in Holding}

LEMMA HeldFinite == \A p \in Pools : IsFiniteSet(Held(p)) /\ Cardinality(Held(p)) \in Nat
BY TaskSets, FS_Subset, FS_CardinalityType DEF Held

(* A step after which the same workers hold a slot. *)
LEMMA HeldSame ==
  ASSUME SlotAccounting, sem' = sem,
         \A t \in Tasks : worker'[t] \in Holding <=> worker[t] \in Holding
  PROVE  SlotAccounting'
<1>1. \A p \in Pools : Held(p)' = Held(p)
  BY DEF Held
<1> QED BY <1>1 DEF SlotAccounting, Held

(* A slot is taken with the start of a worker and given back with its release, *)
(* and in no other step.                                                       *)
LEMMA SlotStep ==
  ASSUME TypeOK, WorkerInv, SlotAccounting, [Next]_vars
  PROVE  SlotAccounting'
<1> USE DEF managerVars, shutdownVars, schedVars, workerVars, outsideVars,
        Holding, Cancellable, Registered, InRun
<1>0. CASE UNCHANGED vars
  BY <1>0, HeldSame DEF vars
<1>1. ASSUME NEW t \in Tasks, SubmitOpen(t) PROVE SlotAccounting'
  BY <1>1, HeldSame DEF TypeOK, SubmitOpen
<1>2. ASSUME NEW t \in Tasks, NEW priority \in BOOLEAN, Submit(t, priority) PROVE SlotAccounting'
  BY <1>2, HeldSame DEF TypeOK, Submit
<1>3. ASSUME NEW t \in Tasks, SubmitNotify(t) PROVE SlotAccounting'
  BY <1>3, HeldSame DEF TypeOK, SubmitNotify
<1>4. ASSUME NEW t \in Tasks, Pause(t) PROVE SlotAccounting'
  BY <1>4, HeldSame DEF TypeOK, Pause
<1>5. ASSUME NEW t \in Tasks, Resume(t) PROVE SlotAccounting'
  BY <1>5, HeldSame DEF TypeOK, Resume, Unpause
<1>6. ASSUME NEW t \in Tasks, CancelActive(t) PROVE SlotAccounting'
  BY <1>6, HeldSame DEF TypeOK, CancelActive, Unpause
<1>7. ASSUME NEW t \in Tasks, CancelQueued(t) PROVE SlotAccounting'
  BY <1>7, HeldSame DEF TypeOK, CancelQueued
<1>8. ASSUME NEW i \in DOMAIN tasks, Remove_(i) PROVE SlotAccounting'
  BY <1>8, HeldSame DEF TypeOK, Remove_
<1>9. ASSUME NEW ids \in Orders, Reorder(ids) PROVE SlotAccounting'
  BY <1>9, HeldSame DEF TypeOK, Reorder
<1>10. CASE ClearFinished
  BY <1>10, HeldSame DEF TypeOK, ClearFinished
<1>11. CASE ShutdownBegin
  BY <1>11, HeldSame DEF TypeOK, ShutdownBegin
<1>12. CASE ShutdownCollect
  BY <1>12, HeldSame DEF TypeOK, ShutdownCollect
<1>13. ASSUME NEW t \in Tasks, ShutdownCancel(t) PROVE SlotAccounting'
  BY <1>13, HeldSame DEF TypeOK, ShutdownCancel
<1>14. CASE SchedulerWake
  BY <1>14, HeldSame DEF TypeOK, SchedulerWake
<1>15. CASE SchedulerStop
  BY <1>15, HeldSame DEF TypeOK, SchedulerStop
<1>16. CASE SchedulerEnter
  BY <1>16, HeldSame DEF TypeOK, SchedulerEnter
<1>17. CASE SchedulerStart
  <2>0. PICK t \in Tasks : t = tasks[pos]
    BY <1>17, LenProperties DEF TypeOK, SchedulerStart
  <2>1. worker[t] \notin Holding
    BY <1>17, <2>0 DEF TypeOK, WorkerInv, Terminal, SchedulerStart
  <2> DEFINE q == Pool(t)
  <2>2. q \in Pools /\ sem[q] < Capacity(q) /\ sem' = [sem EXCEPT ![q] = sem[q] + 1]
    BY <1>17, <2>0 DEF SchedulerStart, Pool, Pools
  <2>3. worker' = [worker EXCEPT ![t] = "spawned"]
    BY <1>17, <2>0 DEF SchedulerStart
  <2>4. t \notin Held(q) /\ Held(q)' = Held(q) \cup {t} /\ \A p \in Pools \ {q} : Held(p)' = Held(p)
    BY <2>1, <2>3 DEF Held, TypeOK
  <2>5. Cardinality(Held(q)') = Cardinality(Held(q)) + 1
    BY <2>2, <2>4, HeldFinite, FS_AddElement
  <2>6. Capacity(q) \in Nat
    BY PoolSizes DEF Capacity
  <2>8. /\ \A p \in Pools : sem[p] = Cardinality(Held(p)) /\ sem[p] <= Capacity(p)
        /\ sem \in [Pools -> Int]
    BY DEF SlotAccounting, Held, TypeOK
  <2> HIDE DEF q
  <2>7. ASSUME NEW p \in Pools PROVE sem'[p] = Cardinality(Held(p)') /\ sem'[p] <= Capacity(p)
    <3>1. CASE p = q BY <3>1, <2>2, <2>5, <2>6, <2>8
    <3>2. CASE p # q BY <3>2, <2>2, <2>4, <2>8
    <3> QED BY <3>1, <3>2
  <2> QED BY <2>7 DEF SlotAccounting, Held
<1>18. CASE SchedulerSkip
  BY <1>18, HeldSame DEF TypeOK, SchedulerSkip
<1>19. CASE SchedulerLeave
  BY <1>19, HeldSame DEF TypeOK, SchedulerLeave
<1>20. ASSUME NEW t \in Tasks, WorkerRegister(t) PROVE SlotAccounting'
  BY <1>20, HeldSame DEF TypeOK, WorkerRegister
<1>21. ASSUME NEW t \in Tasks, Check(t) PROVE SlotAccounting'
  BY <1>21, HeldSame DEF TypeOK, Check, ReturnCanceled
<1>22. ASSUME NEW t \in Tasks, CheckLoop(t) PROVE SlotAccounting'
  BY <1>22, HeldSame DEF TypeOK, CheckLoop, ReturnCanceled
<1>23. ASSUME NEW t \in Tasks, Report(t) PROVE SlotAccounting'
  BY <1>23, HeldSame DEF TypeOK, Report
<1>24. ASSUME NEW t \in Tasks, ReportEmit(t) PROVE SlotAccounting'
  BY <1>24, HeldSame DEF TypeOK, ReportEmit
<1>25. ASSUME NEW t \in Tasks, NEW out \in {"ok", "err", "canceled"}, RunReturn(t, out) PROVE SlotAccounting'
  BY <1>25, HeldSame DEF TypeOK, RunReturn
<1>26. ASSUME NEW t \in Tasks, WorkerFinish(t) PROVE SlotAccounting'
  BY <1>26, HeldSame DEF TypeOK, WorkerFinish
<1>27. ASSUME NEW t \in Tasks, WorkerRelease(t) PROVE SlotAccounting'
  <2> DEFINE q == Pool(t)
  <2>1. q \in Pools /\ sem' = [sem EXCEPT ![q] = sem[q] - 1] /\ worker' = [worker EXCEPT ![t] = "released"]
    BY <1>27 DEF WorkerRelease, Pool, Pools
  <2>2. t \in Held(q) /\ Held(q)' = Held(q) \ {t} /\ \A p \in Pools \ {q} : Held(p)' = Held(p)
    BY <1>27, <2>1 DEF Held, TypeOK, WorkerRelease
  <2>3. Cardinality(Held(q)') = Cardinality(Held(q)) - 1
    BY <2>1, <2>2, HeldFinite, FS_RemoveElement
  <2>4. Capacity(q) \in Nat
    BY PoolSizes DEF Capacity
  <2>6. /\ \A p \in Pools : sem[p] = Cardinality(Held(p)) /\ sem[p] <= Capacity(p)
        /\ sem \in [Pools -> Int]
    BY DEF SlotAccounting, Held, TypeOK
  <2> HIDE DEF q
  <2>5. ASSUME NEW p \in Pools PROVE sem'[p] = Cardinality(Held(p)') /\ sem'[p] <= Capacity(p)
    <3>1. CASE p = q BY <3>1, <2>1, <2>3, <2>4, <2>6
    <3>2. CASE p # q BY <3>2, <2>1, <2>2, <2>6
    <3> QED BY <3>1, <3>2
  <2> QED BY <2>5 DEF SlotAccounting, Held
<1>28. ASSUME NEW t \in Tasks, WorkerNotify(t) PROVE SlotAccounting'
  BY <1>28, HeldSame DEF TypeOK, WorkerNotify
<1>29. ASSUME NEW s \in SyncTasks, RunSyncStart(s) PROVE SlotAccounting'
  BY <1>29, HeldSame DEF TypeOK, RunSyncStart
<1>30. ASSUME NEW s \in SyncTasks, RunSyncReport(s) PROVE SlotAccounting'
  BY <1>30, HeldSame DEF TypeOK, RunSyncReport
<1>31. ASSUME NEW s \in SyncTasks, RunSyncFinish(s) PROVE SlotAccounting'
  BY <1>31, HeldSame DEF TypeOK, RunSyncFinish
<1>32. CASE Restart
  <2>1. \A p \in Pools : Held(p)' = {}
    BY <1>32 DEF Held, Restart
  <2>2. \A p \in Pools : 0 <= Capacity(p)
    BY PoolSizes DEF Capacity
  <2> QED BY <1>32, <2>1, <2>2, FS_EmptySet DEF SlotAccounting, Held, Restart
<1> QED
  BY <1>0, <1>1, <1>2, <1>3, <1>4, <1>5, <1>6, <1>7, <1>8, <1>9, <1>10,
     <1>11, <1>12, <1>13, <1>14, <1>15, <1>16, <1>17, <1>18, <1>19, <1>20,
     <1>21, <1>22, <1>23, <1>24, <1>25, <1>26, <1>27, <1>28, <1>29, <1>30,
     <1>31, <1>32
     DEF Next, FrontEnd, Shutdown, Scheduler, WorkerStep, RunStep, RunSync

-----------------------------------------------------------------------------
(* Events *)

(* Every step keeps the last event in agreement with the status. *)
LEMMA EventStep ==
  ASSUME TypeOK, WorkerInv, NewInv, TerminalEventLast, [Next]_vars
  PROVE  TerminalEventLast'
<1> USE DEF managerVars, shutdownVars, schedVars, workerVars, outsideVars,
        Status, Events, Active, Terminal, Cancellable, Registered, InRun
<1>0. CASE UNCHANGED vars
  BY <1>0 DEF TypeOK, TerminalEventLast, vars
<1>1. ASSUME NEW t \in Tasks, SubmitOpen(t) PROVE TerminalEventLast'
  BY <1>1 DEF TypeOK, TerminalEventLast, SubmitOpen
<1>2. ASSUME NEW t \in Tasks, NEW priority \in BOOLEAN, Submit(t, priority) PROVE TerminalEventLast'
  BY <1>2 DEF TypeOK, NewInv, TerminalEventLast, Submit
<1>3. ASSUME NEW t \in Tasks, SubmitNotify(t) PROVE TerminalEventLast'
  BY <1>3 DEF TypeOK, TerminalEventLast, SubmitNotify
<1>4. ASSUME NEW t \in Tasks, Pause(t) PROVE TerminalEventLast'
  BY <1>4 DEF TypeOK, TerminalEventLast, Pause
<1>5. ASSUME NEW t \in Tasks, Resume(t) PROVE TerminalEventLast'
  BY <1>5 DEF TypeOK, TerminalEventLast, Resume, Unpause
<1>6. ASSUME NEW t \in Tasks, CancelActive(t) PROVE TerminalEventLast'
  BY <1>6 DEF TypeOK, TerminalEventLast, CancelActive, Unpause
<1>7. ASSUME NEW t \in Tasks, CancelQueued(t) PROVE TerminalEventLast'
  BY <1>7 DEF TypeOK, TerminalEventLast, CancelQueued
<1>8. ASSUME NEW i \in DOMAIN tasks, Remove_(i) PROVE TerminalEventLast'
  BY <1>8 DEF TypeOK, TerminalEventLast, Remove_
<1>9. ASSUME NEW ids \in Orders, Reorder(ids) PROVE TerminalEventLast'
  BY <1>9 DEF TypeOK, TerminalEventLast, Reorder
<1>10. CASE ClearFinished
  BY <1>10 DEF TypeOK, TerminalEventLast, ClearFinished
<1>11. CASE ShutdownBegin
  BY <1>11 DEF TypeOK, TerminalEventLast, ShutdownBegin
<1>12. CASE ShutdownCollect
  BY <1>12 DEF TypeOK, TerminalEventLast, ShutdownCollect
<1>13. ASSUME NEW t \in Tasks, ShutdownCancel(t) PROVE TerminalEventLast'
  BY <1>13 DEF TypeOK, TerminalEventLast, ShutdownCancel
<1>14. CASE SchedulerWake
  BY <1>14 DEF TypeOK, TerminalEventLast, SchedulerWake
<1>15. CASE SchedulerStop
  BY <1>15 DEF TypeOK, TerminalEventLast, SchedulerStop
<1>16. CASE SchedulerEnter
  BY <1>16 DEF TypeOK, TerminalEventLast, SchedulerEnter
<1>17. CASE SchedulerStart
  <2>1. tasks[pos] \in Tasks
    BY <1>17, LenProperties DEF TypeOK, SchedulerStart
  <2> QED BY <1>17, <2>1 DEF TypeOK, TerminalEventLast, SchedulerStart
<1>18. CASE SchedulerSkip
  BY <1>18 DEF TypeOK, TerminalEventLast, SchedulerSkip
<1>19. CASE SchedulerLeave
  BY <1>19 DEF TypeOK, TerminalEventLast, SchedulerLeave
<1>20. ASSUME NEW t \in Tasks, WorkerRegister(t) PROVE TerminalEventLast'
  BY <1>20 DEF TypeOK, TerminalEventLast, WorkerRegister
<1>21. ASSUME NEW t \in Tasks, Check(t) PROVE TerminalEventLast'
  BY <1>21 DEF TypeOK, TerminalEventLast, Check, ReturnCanceled
<1>22. ASSUME NEW t \in Tasks, CheckLoop(t) PROVE TerminalEventLast'
  BY <1>22 DEF TypeOK, TerminalEventLast, CheckLoop, ReturnCanceled
<1>23. ASSUME NEW t \in Tasks, Report(t) PROVE TerminalEventLast'
  BY <1>23 DEF TypeOK, TerminalEventLast, Report
<1>24. ASSUME NEW t \in Tasks, ReportEmit(t) PROVE TerminalEventLast'
  BY <1>24 DEF TypeOK, WorkerInv, TerminalEventLast, ReportEmit
<1>25. ASSUME NEW t \in Tasks, NEW out \in {"ok", "err", "canceled"}, RunReturn(t, out) PROVE TerminalEventLast'
  BY <1>25 DEF TypeOK, TerminalEventLast, RunReturn
<1>26. ASSUME NEW t \in Tasks, WorkerFinish(t) PROVE TerminalEventLast'
  BY <1>26 DEF TypeOK, TerminalEventLast, WorkerFinish, EndStatus
<1>27. ASSUME NEW t \in Tasks, WorkerRelease(t) PROVE TerminalEventLast'
  BY <1>27 DEF TypeOK, TerminalEventLast, WorkerRelease
<1>28. ASSUME NEW t \in Tasks, WorkerNotify(t) PROVE TerminalEventLast'
  BY <1>28 DEF TypeOK, TerminalEventLast, WorkerNotify
<1>29. ASSUME NEW s \in SyncTasks, RunSyncStart(s) PROVE TerminalEventLast'
  BY <1>29 DEF TypeOK, TerminalEventLast, RunSyncStart
<1>30. ASSUME NEW s \in SyncTasks, RunSyncReport(s) PROVE TerminalEventLast'
  BY <1>30 DEF TypeOK, TerminalEventLast, RunSyncReport
<1>31. ASSUME NEW s \in SyncTasks, RunSyncFinish(s) PROVE TerminalEventLast'
  BY <1>31 DEF TypeOK, TerminalEventLast, RunSyncFinish
<1>32. CASE Restart
  BY <1>32 DEF TypeOK, TerminalEventLast, Restart
<1> QED
  BY <1>0, <1>1, <1>2, <1>3, <1>4, <1>5, <1>6, <1>7, <1>8, <1>9, <1>10,
     <1>11, <1>12, <1>13, <1>14, <1>15, <1>16, <1>17, <1>18, <1>19, <1>20,
     <1>21, <1>22, <1>23, <1>24, <1>25, <1>26, <1>27, <1>28, <1>29, <1>30,
     <1>31, <1>32
     DEF Next, FrontEnd, Shutdown, Scheduler, WorkerStep, RunStep, RunSync

-----------------------------------------------------------------------------
(* Shutdown *)

(* Closed is set first, and once Shutdown has collected the cancel functions under the lock *)
(* no pass of the scheduler is under way and none will be.                                   *)
ShutInv ==
  /\ closed <=> shut # "no"
  /\ shut = "cancelling" => sched # "pass"

(* Every step keeps Shutdown in step with the scheduler ... *)
LEMMA ShutStep ==
  ASSUME TypeOK, ShutInv, [Next]_vars
  PROVE  ShutInv'
<1> USE DEF managerVars, shutdownVars, schedVars, workerVars, outsideVars
<1>0. CASE UNCHANGED vars
  BY <1>0 DEF TypeOK, ShutInv, LockFree, vars
<1>1. ASSUME NEW t \in Tasks, SubmitOpen(t) PROVE ShutInv'
  BY <1>1 DEF TypeOK, ShutInv, LockFree, SubmitOpen
<1>2. ASSUME NEW t \in Tasks, NEW priority \in BOOLEAN, Submit(t, priority) PROVE ShutInv'
  BY <1>2 DEF TypeOK, ShutInv, LockFree, Submit
<1>3. ASSUME NEW t \in Tasks, SubmitNotify(t) PROVE ShutInv'
  BY <1>3 DEF TypeOK, ShutInv, LockFree, SubmitNotify
<1>4. ASSUME NEW t \in Tasks, Pause(t) PROVE ShutInv'
  BY <1>4 DEF TypeOK, ShutInv, LockFree, Pause
<1>5. ASSUME NEW t \in Tasks, Resume(t) PROVE ShutInv'
  BY <1>5 DEF TypeOK, ShutInv, LockFree, Resume, Unpause
<1>6. ASSUME NEW t \in Tasks, CancelActive(t) PROVE ShutInv'
  BY <1>6 DEF TypeOK, ShutInv, LockFree, CancelActive, Unpause
<1>7. ASSUME NEW t \in Tasks, CancelQueued(t) PROVE ShutInv'
  BY <1>7 DEF TypeOK, ShutInv, LockFree, CancelQueued
<1>8. ASSUME NEW i \in DOMAIN tasks, Remove_(i) PROVE ShutInv'
  BY <1>8 DEF TypeOK, ShutInv, LockFree, Remove_
<1>9. ASSUME NEW ids \in Orders, Reorder(ids) PROVE ShutInv'
  BY <1>9 DEF TypeOK, ShutInv, LockFree, Reorder
<1>10. CASE ClearFinished
  BY <1>10 DEF TypeOK, ShutInv, LockFree, ClearFinished
<1>11. CASE ShutdownBegin
  BY <1>11 DEF TypeOK, ShutInv, LockFree, ShutdownBegin
<1>12. CASE ShutdownCollect
  BY <1>12 DEF TypeOK, ShutInv, LockFree, ShutdownCollect
<1>13. ASSUME NEW t \in Tasks, ShutdownCancel(t) PROVE ShutInv'
  BY <1>13 DEF TypeOK, ShutInv, LockFree, ShutdownCancel
<1>14. CASE SchedulerWake
  BY <1>14 DEF TypeOK, ShutInv, LockFree, SchedulerWake
<1>15. CASE SchedulerStop
  BY <1>15 DEF TypeOK, ShutInv, LockFree, SchedulerStop
<1>16. CASE SchedulerEnter
  BY <1>16 DEF TypeOK, ShutInv, LockFree, SchedulerEnter
<1>17. CASE SchedulerStart
  BY <1>17 DEF TypeOK, ShutInv, LockFree, SchedulerStart
<1>18. CASE SchedulerSkip
  BY <1>18 DEF TypeOK, ShutInv, LockFree, SchedulerSkip
<1>19. CASE SchedulerLeave
  BY <1>19 DEF TypeOK, ShutInv, LockFree, SchedulerLeave
<1>20. ASSUME NEW t \in Tasks, WorkerRegister(t) PROVE ShutInv'
  BY <1>20 DEF TypeOK, ShutInv, LockFree, WorkerRegister
<1>21. ASSUME NEW t \in Tasks, Check(t) PROVE ShutInv'
  BY <1>21 DEF TypeOK, ShutInv, LockFree, Check, ReturnCanceled
<1>22. ASSUME NEW t \in Tasks, CheckLoop(t) PROVE ShutInv'
  BY <1>22 DEF TypeOK, ShutInv, LockFree, CheckLoop, ReturnCanceled
<1>23. ASSUME NEW t \in Tasks, Report(t) PROVE ShutInv'
  BY <1>23 DEF TypeOK, ShutInv, LockFree, Report
<1>24. ASSUME NEW t \in Tasks, ReportEmit(t) PROVE ShutInv'
  BY <1>24 DEF TypeOK, ShutInv, LockFree, ReportEmit
<1>25. ASSUME NEW t \in Tasks, NEW out \in {"ok", "err", "canceled"}, RunReturn(t, out) PROVE ShutInv'
  BY <1>25 DEF TypeOK, ShutInv, LockFree, RunReturn
<1>26. ASSUME NEW t \in Tasks, WorkerFinish(t) PROVE ShutInv'
  BY <1>26 DEF TypeOK, ShutInv, LockFree, WorkerFinish, EndStatus
<1>27. ASSUME NEW t \in Tasks, WorkerRelease(t) PROVE ShutInv'
  BY <1>27 DEF TypeOK, ShutInv, LockFree, WorkerRelease
<1>28. ASSUME NEW t \in Tasks, WorkerNotify(t) PROVE ShutInv'
  BY <1>28 DEF TypeOK, ShutInv, LockFree, WorkerNotify
<1>29. ASSUME NEW s \in SyncTasks, RunSyncStart(s) PROVE ShutInv'
  BY <1>29 DEF TypeOK, ShutInv, LockFree, RunSyncStart
<1>30. ASSUME NEW s \in SyncTasks, RunSyncReport(s) PROVE ShutInv'
  BY <1>30 DEF TypeOK, ShutInv, LockFree, RunSyncReport
<1>31. ASSUME NEW s \in SyncTasks, RunSyncFinish(s) PROVE ShutInv'
  BY <1>31 DEF TypeOK, ShutInv, LockFree, RunSyncFinish
<1>32. CASE Restart
  BY <1>32 DEF TypeOK, ShutInv, LockFree, Restart
<1> QED
  BY <1>0, <1>1, <1>2, <1>3, <1>4, <1>5, <1>6, <1>7, <1>8, <1>9, <1>10,
     <1>11, <1>12, <1>13, <1>14, <1>15, <1>16, <1>17, <1>18, <1>19, <1>20,
     <1>21, <1>22, <1>23, <1>24, <1>25, <1>26, <1>27, <1>28, <1>29, <1>30,
     <1>31, <1>32
     DEF Next, FrontEnd, Shutdown, Scheduler, WorkerStep, RunStep, RunSync

(* ... and so starts no worker that Shutdown does not reach. *)
LEMMA ReachStep ==
  ASSUME TypeOK, WorkerInv, ShutInv, ShutdownReachesAll, [Next]_vars
  PROVE  ShutdownReachesAll'
<1> USE DEF managerVars, shutdownVars, schedVars, workerVars, outsideVars,
        Cancellable, Registered, InRun
<1>0. CASE UNCHANGED vars
  BY <1>0 DEF TypeOK, WorkerInv, ShutInv, ShutdownReachesAll, vars
<1>1. ASSUME NEW t \in Tasks, SubmitOpen(t) PROVE ShutdownReachesAll'
  BY <1>1 DEF TypeOK, WorkerInv, ShutInv, ShutdownReachesAll, SubmitOpen
<1>2. ASSUME NEW t \in Tasks, NEW priority \in BOOLEAN, Submit(t, priority) PROVE ShutdownReachesAll'
  BY <1>2 DEF TypeOK, WorkerInv, ShutInv, ShutdownReachesAll, Submit
<1>3. ASSUME NEW t \in Tasks, SubmitNotify(t) PROVE ShutdownReachesAll'
  BY <1>3 DEF TypeOK, WorkerInv, ShutInv, ShutdownReachesAll, SubmitNotify
<1>4. ASSUME NEW t \in Tasks, Pause(t) PROVE ShutdownReachesAll'
  BY <1>4 DEF TypeOK, WorkerInv, ShutInv, ShutdownReachesAll, Pause
<1>5. ASSUME NEW t \in Tasks, Resume(t) PROVE ShutdownReachesAll'
  BY <1>5 DEF TypeOK, WorkerInv, ShutInv, ShutdownReachesAll, Resume, Unpause
<1>6. ASSUME NEW t \in Tasks, CancelActive(t) PROVE ShutdownReachesAll'
  BY <1>6 DEF TypeOK, WorkerInv, ShutInv, ShutdownReachesAll, CancelActive, Unpause
<1>7. ASSUME NEW t \in Tasks, CancelQueued(t) PROVE ShutdownReachesAll'
  BY <1>7 DEF TypeOK, WorkerInv, ShutInv, ShutdownReachesAll, CancelQueued
<1>8. ASSUME NEW i \in DOMAIN tasks, Remove_(i) PROVE ShutdownReachesAll'
  BY <1>8 DEF TypeOK, WorkerInv, ShutInv, ShutdownReachesAll, Remove_
<1>9. ASSUME NEW ids \in Orders, Reorder(ids) PROVE ShutdownReachesAll'
  BY <1>9 DEF TypeOK, WorkerInv, ShutInv, ShutdownReachesAll, Reorder
<1>10. CASE ClearFinished
  BY <1>10 DEF TypeOK, WorkerInv, ShutInv, ShutdownReachesAll, ClearFinished
<1>11. CASE ShutdownBegin
  BY <1>11 DEF TypeOK, WorkerInv, ShutInv, ShutdownReachesAll, ShutdownBegin
<1>12. CASE ShutdownCollect
  BY <1>12 DEF TypeOK, WorkerInv, ShutInv, ShutdownReachesAll, ShutdownCollect
<1>13. ASSUME NEW t \in Tasks, ShutdownCancel(t) PROVE ShutdownReachesAll'
  BY <1>13 DEF TypeOK, WorkerInv, ShutInv, ShutdownReachesAll, ShutdownCancel
<1>14. CASE SchedulerWake
  BY <1>14 DEF TypeOK, WorkerInv, ShutInv, ShutdownReachesAll, SchedulerWake
<1>15. CASE SchedulerStop
  BY <1>15 DEF TypeOK, WorkerInv, ShutInv, ShutdownReachesAll, SchedulerStop
<1>16. CASE SchedulerEnter
  BY <1>16 DEF TypeOK, WorkerInv, ShutInv, ShutdownReachesAll, SchedulerEnter
<1>17. CASE SchedulerStart
  BY <1>17 DEF TypeOK, WorkerInv, ShutInv, ShutdownReachesAll, SchedulerStart
<1>18. CASE SchedulerSkip
  BY <1>18 DEF TypeOK, WorkerInv, ShutInv, ShutdownReachesAll, SchedulerSkip
<1>19. CASE SchedulerLeave
  BY <1>19 DEF TypeOK, WorkerInv, ShutInv, ShutdownReachesAll, SchedulerLeave
<1>20. ASSUME NEW t \in Tasks, WorkerRegister(t) PROVE ShutdownReachesAll'
  BY <1>20 DEF TypeOK, WorkerInv, ShutInv, ShutdownReachesAll, WorkerRegister
<1>21. ASSUME NEW t \in Tasks, Check(t) PROVE ShutdownReachesAll'
  BY <1>21 DEF TypeOK, WorkerInv, ShutInv, ShutdownReachesAll, Check, ReturnCanceled
<1>22. ASSUME NEW t \in Tasks, CheckLoop(t) PROVE ShutdownReachesAll'
  BY <1>22 DEF TypeOK, WorkerInv, ShutInv, ShutdownReachesAll, CheckLoop, ReturnCanceled
<1>23. ASSUME NEW t \in Tasks, Report(t) PROVE ShutdownReachesAll'
  BY <1>23 DEF TypeOK, WorkerInv, ShutInv, ShutdownReachesAll, Report
<1>24. ASSUME NEW t \in Tasks, ReportEmit(t) PROVE ShutdownReachesAll'
  BY <1>24 DEF TypeOK, WorkerInv, ShutInv, ShutdownReachesAll, ReportEmit
<1>25. ASSUME NEW t \in Tasks, NEW out \in {"ok", "err", "canceled"}, RunReturn(t, out) PROVE ShutdownReachesAll'
  BY <1>25 DEF TypeOK, WorkerInv, ShutInv, ShutdownReachesAll, RunReturn
<1>26. ASSUME NEW t \in Tasks, WorkerFinish(t) PROVE ShutdownReachesAll'
  BY <1>26 DEF TypeOK, WorkerInv, ShutInv, ShutdownReachesAll, WorkerFinish, EndStatus
<1>27. ASSUME NEW t \in Tasks, WorkerRelease(t) PROVE ShutdownReachesAll'
  BY <1>27 DEF TypeOK, WorkerInv, ShutInv, ShutdownReachesAll, WorkerRelease
<1>28. ASSUME NEW t \in Tasks, WorkerNotify(t) PROVE ShutdownReachesAll'
  BY <1>28 DEF TypeOK, WorkerInv, ShutInv, ShutdownReachesAll, WorkerNotify
<1>29. ASSUME NEW s \in SyncTasks, RunSyncStart(s) PROVE ShutdownReachesAll'
  BY <1>29 DEF TypeOK, WorkerInv, ShutInv, ShutdownReachesAll, RunSyncStart
<1>30. ASSUME NEW s \in SyncTasks, RunSyncReport(s) PROVE ShutdownReachesAll'
  BY <1>30 DEF TypeOK, WorkerInv, ShutInv, ShutdownReachesAll, RunSyncReport
<1>31. ASSUME NEW s \in SyncTasks, RunSyncFinish(s) PROVE ShutdownReachesAll'
  BY <1>31 DEF TypeOK, WorkerInv, ShutInv, ShutdownReachesAll, RunSyncFinish
<1>32. CASE Restart
  BY <1>32 DEF TypeOK, WorkerInv, ShutInv, ShutdownReachesAll, Restart
<1> QED
  BY <1>0, <1>1, <1>2, <1>3, <1>4, <1>5, <1>6, <1>7, <1>8, <1>9, <1>10,
     <1>11, <1>12, <1>13, <1>14, <1>15, <1>16, <1>17, <1>18, <1>19, <1>20,
     <1>21, <1>22, <1>23, <1>24, <1>25, <1>26, <1>27, <1>28, <1>29, <1>30,
     <1>31, <1>32
     DEF Next, FrontEnd, Shutdown, Scheduler, WorkerStep, RunStep, RunSync

-----------------------------------------------------------------------------
(* The safety theorems *)

(* The inductive invariant: types, agreement of the maps and statuses with the  *)
(* workers, new tasks apart from listed ones, and the slots of both pools.      *)
THEOREM Safety == Spec => []IInv
<1>1. Init => IInv
  <2>1. SUFFICES ASSUME Init PROVE IInv
    OBVIOUS
  <2>2. TypeOK
    BY <2>1, InitType
  <2>3. WorkerInv
    BY <2>1 DEF Init, WorkerInv, Cancellable, Registered, InRun
  <2>4. NewInv
    BY <2>1 DEF Init, NewInv, Listed
  <2>5. \A p \in Pools : Held(p) = {} /\ 0 <= Capacity(p)
    BY <2>1, PoolSizes DEF Init, Held, Holding, Cancellable, Registered, InRun, Capacity
  <2>6. SlotAccounting
    BY <2>1, <2>5, FS_EmptySet DEF Init, SlotAccounting, Held
  <2> QED BY <2>2, <2>3, <2>4, <2>6 DEF IInv
<1>2. IInv /\ [Next]_vars => IInv'
  BY TypeStep, WorkerInvStep, NewInvStep, SlotStep DEF IInv
<1> QED BY <1>1, <1>2, PTL DEF Spec

(* No pool is ever overdrawn and every slot taken belongs to a worker, for any  *)
(* pool sizes and any number of tasks.                                          *)
THEOREM SlotsCorrect == Spec => []SlotAccounting
<1>1. IInv => SlotAccounting
  BY DEF IInv
<1> QED BY <1>1, Safety, PTL

(* The scheduler never starts a task that still has a worker. *)
THEOREM SingleWorker == Spec => []NoDoubleStart
<1>1. IInv => NoDoubleStart
  BY DEF IInv, TypeOK, WorkerInv, NoDoubleStart, Worker, Holding, Cancellable, Terminal
<1> QED BY <1>1, Safety, PTL

(* A task that is listed as ended has no worker that is still to run. *)
THEOREM EndedStopped == Spec => []FinishedMeansStopped
<1>1. IInv => FinishedMeansStopped
  BY DEF IInv, WorkerInv, FinishedMeansStopped, Terminal
<1> QED BY <1>1, Safety, PTL

(* The inductive invariant of the events and of Shutdown, on top of IInv. *)
LEMMA SafetyMore == Spec => [](IInv /\ TerminalEventLast /\ ShutInv /\ ShutdownReachesAll)
<1>1. Init => TerminalEventLast /\ ShutInv /\ ShutdownReachesAll
  BY DEF Init, TerminalEventLast, ShutInv, ShutdownReachesAll
<1>2. IInv /\ TerminalEventLast /\ ShutInv /\ ShutdownReachesAll /\ [Next]_vars
        => TerminalEventLast' /\ ShutInv' /\ ShutdownReachesAll'
  BY EventStep, ShutStep, ReachStep DEF IInv
<1> QED BY <1>1, <1>2, Safety, PTL DEF Spec

(* The event that reports a task's end is the last one of the task and agrees with its   *)
(* status, although handleProgress, handleStep and handleStage emit after the unlock.     *)
THEOREM EndReportedLast == Spec => []TerminalEventLast
BY SafetyMore, PTL

(* Once Shutdown has collected the cancel functions every worker that has not ended is    *)
(* cancelled or about to be, however its steps fall between those of schedulerLoop.       *)
THEOREM ShutdownComplete == Spec => []ShutdownReachesAll
BY SafetyMore, PTL

-----------------------------------------------------------------------------
(* Wake-ups of the scheduler *)

(* The pass counts from the first task of the list. *)
PassInv == sched = "pass" => pos >= 1

LEMMA PassStep ==
  ASSUME TypeOK, PassInv, [Next]_vars
  PROVE  PassInv'
<1> USE DEF managerVars, shutdownVars, schedVars, workerVars, outsideVars
<1>0. CASE UNCHANGED vars
  BY <1>0 DEF TypeOK, PassInv, vars
<1>1. ASSUME NEW t \in Tasks, SubmitOpen(t) PROVE PassInv'
  BY <1>1 DEF TypeOK, PassInv, SubmitOpen
<1>2. ASSUME NEW t \in Tasks, NEW priority \in BOOLEAN, Submit(t, priority) PROVE PassInv'
  BY <1>2 DEF TypeOK, PassInv, Submit
<1>3. ASSUME NEW t \in Tasks, SubmitNotify(t) PROVE PassInv'
  BY <1>3 DEF TypeOK, PassInv, SubmitNotify
<1>4. ASSUME NEW t \in Tasks, Pause(t) PROVE PassInv'
  BY <1>4 DEF TypeOK, PassInv, Pause
<1>5. ASSUME NEW t \in Tasks, Resume(t) PROVE PassInv'
  BY <1>5 DEF TypeOK, PassInv, Resume, Unpause
<1>6. ASSUME NEW t \in Tasks, CancelActive(t) PROVE PassInv'
  BY <1>6 DEF TypeOK, PassInv, CancelActive, Unpause
<1>7. ASSUME NEW t \in Tasks, CancelQueued(t) PROVE PassInv'
  BY <1>7 DEF TypeOK, PassInv, CancelQueued
<1>8. ASSUME NEW i \in DOMAIN tasks, Remove_(i) PROVE PassInv'
  BY <1>8 DEF TypeOK, PassInv, Remove_
<1>9. ASSUME NEW ids \in Orders, Reorder(ids) PROVE PassInv'
  BY <1>9 DEF TypeOK, PassInv, Reorder
<1>10. CASE ClearFinished
  BY <1>10 DEF TypeOK, PassInv, ClearFinished
<1>11. CASE ShutdownBegin
  BY <1>11 DEF TypeOK, PassInv, ShutdownBegin
<1>12. CASE ShutdownCollect
  BY <1>12 DEF TypeOK, PassInv, ShutdownCollect
<1>13. ASSUME NEW t \in Tasks, ShutdownCancel(t) PROVE PassInv'
  BY <1>13 DEF TypeOK, PassInv, ShutdownCancel
<1>14. CASE SchedulerWake
  BY <1>14 DEF TypeOK, PassInv, SchedulerWake
<1>15. CASE SchedulerStop
  BY <1>15 DEF TypeOK, PassInv, SchedulerStop
<1>16. CASE SchedulerEnter
  BY <1>16 DEF TypeOK, PassInv, SchedulerEnter
<1>17. CASE SchedulerStart
  BY <1>17 DEF TypeOK, PassInv, SchedulerStart
<1>18. CASE SchedulerSkip
  BY <1>18 DEF TypeOK, PassInv, SchedulerSkip
<1>19. CASE SchedulerLeave
  BY <1>19 DEF TypeOK, PassInv, SchedulerLeave
<1>20. ASSUME NEW t \in Tasks, WorkerRegister(t) PROVE PassInv'
  BY <1>20 DEF TypeOK, PassInv, WorkerRegister
<1>21. ASSUME NEW t \in Tasks, Check(t) PROVE PassInv'
  BY <1>21 DEF TypeOK, PassInv, Check, ReturnCanceled
<1>22. ASSUME NEW t \in Tasks, CheckLoop(t) PROVE PassInv'
  BY <1>22 DEF TypeOK, PassInv, CheckLoop, ReturnCanceled
<1>23. ASSUME NEW t \in Tasks, Report(t) PROVE PassInv'
  BY <1>23 DEF TypeOK, PassInv, Report
<1>24. ASSUME NEW t \in Tasks, ReportEmit(t) PROVE PassInv'
  BY <1>24 DEF TypeOK, PassInv, ReportEmit
<1>25. ASSUME NEW t \in Tasks, NEW out \in {"ok", "err", "canceled"}, RunReturn(t, out) PROVE PassInv'
  BY <1>25 DEF TypeOK, PassInv, RunReturn
<1>26. ASSUME NEW t \in Tasks, WorkerFinish(t) PROVE PassInv'
  BY <1>26 DEF TypeOK, PassInv, WorkerFinish, EndStatus
<1>27. ASSUME NEW t \in Tasks, WorkerRelease(t) PROVE PassInv'
  BY <1>27 DEF TypeOK, PassInv, WorkerRelease
<1>28. ASSUME NEW t \in Tasks, WorkerNotify(t) PROVE PassInv'
  BY <1>28 DEF TypeOK, PassInv, WorkerNotify
<1>29. ASSUME NEW s \in SyncTasks, RunSyncStart(s) PROVE PassInv'
  BY <1>29 DEF TypeOK, PassInv, RunSyncStart
<1>30. ASSUME NEW s \in SyncTasks, RunSyncReport(s) PROVE PassInv'
  BY <1>30 DEF TypeOK, PassInv, RunSyncReport
<1>31. ASSUME NEW s \in SyncTasks, RunSyncFinish(s) PROVE PassInv'
  BY <1>31 DEF TypeOK, PassInv, RunSyncFinish
<1>32. CASE Restart
  BY <1>32 DEF TypeOK, PassInv, Restart
<1> QED
  BY <1>0, <1>1, <1>2, <1>3, <1>4, <1>5, <1>6, <1>7, <1>8, <1>9, <1>10,
     <1>11, <1>12, <1>13, <1>14, <1>15, <1>16, <1>17, <1>18, <1>19, <1>20,
     <1>21, <1>22, <1>23, <1>24, <1>25, <1>26, <1>27, <1>28, <1>29, <1>30,
     <1>31, <1>32
     DEF Next, FrontEnd, Shutdown, Scheduler, WorkerStep, RunStep, RunSync

(* A step that makes no task startable and takes no pending wake-up away. *)
LEMMA WakeSame ==
  ASSUME NoLostWakeup, UNCHANGED <<tasks, status, sem, closed, sched, pos, notify>>,
         \A u \in Tasks : submit[u] = "listed" => submit'[u] = "listed",
         \A u \in Tasks : worker[u] = "released" => worker'[u] = "released"
  PROVE  NoLostWakeup'
BY DEF NoLostWakeup, Listed

(* Every step keeps a wake-up pending for every queued task that could start. *)
LEMMA WakeStep ==
  ASSUME TypeOK, WorkerInv, PassInv, NoLostWakeup, [Next]_vars
  PROVE  NoLostWakeup'
<1>a. Listed \subseteq Tasks
  BY ListedElems, ElemsType DEF TypeOK
<1> USE DEF managerVars, shutdownVars, schedVars, workerVars, outsideVars
<1>0. CASE UNCHANGED vars
  BY <1>0, WakeSame DEF TypeOK, vars
<1>1. ASSUME NEW t \in Tasks, SubmitOpen(t) PROVE NoLostWakeup'
  BY <1>1, WakeSame DEF TypeOK, SubmitOpen
<1>2. ASSUME NEW t \in Tasks, NEW priority \in BOOLEAN, Submit(t, priority) PROVE NoLostWakeup'
  <2>1. submit'[t] = "listed"
    BY <1>2 DEF TypeOK, Submit
  <2> QED BY <2>1 DEF NoLostWakeup
<1>3. ASSUME NEW t \in Tasks, SubmitNotify(t) PROVE NoLostWakeup'
  <2>1. closed' \/ notify'
    BY <1>3 DEF TypeOK, SubmitNotify, Notified
  <2> QED BY <2>1 DEF NoLostWakeup
<1>4. ASSUME NEW t \in Tasks, Pause(t) PROVE NoLostWakeup'
  <2>1. Listed' = Listed /\ \A u \in Listed : status'[u] = "queued" => status[u] = "queued"
    BY <1>4, <1>a DEF TypeOK, Pause, Listed
  <2> QED BY <1>4, <2>1 DEF NoLostWakeup, Pause
<1>5. ASSUME NEW t \in Tasks, Resume(t) PROVE NoLostWakeup'
  <2>1. CASE t \in ctrl
    <3>1. Listed' = Listed /\ \A u \in Listed : status'[u] = "queued" => status[u] = "queued"
      BY <1>5, <1>a, <2>1 DEF TypeOK, Resume, Listed
    <3>2. \A u \in Tasks : worker[u] = "released" => worker'[u] = "released"
      BY <1>5, <2>1 DEF TypeOK, Resume, Unpause
    <3> QED BY <1>5, <2>1, <3>1, <3>2 DEF NoLostWakeup, Resume
  <2>2. CASE t \notin ctrl
    <3>1. closed' \/ notify'
      BY <1>5, <2>2 DEF TypeOK, Resume, Notified
    <3> QED BY <3>1 DEF NoLostWakeup
  <2> QED BY <2>1, <2>2
<1>6. ASSUME NEW t \in Tasks, CancelActive(t) PROVE NoLostWakeup'
  BY <1>6, WakeSame DEF TypeOK, CancelActive, Unpause
<1>7. ASSUME NEW t \in Tasks, CancelQueued(t) PROVE NoLostWakeup'
  <2>1. Listed' = Listed /\ \A u \in Listed : status'[u] = "queued" => status[u] = "queued"
    BY <1>7, <1>a DEF TypeOK, CancelQueued, Listed
  <2> QED BY <1>7, <2>1 DEF NoLostWakeup, CancelQueued
<1>8. ASSUME NEW i \in DOMAIN tasks, Remove_(i) PROVE NoLostWakeup'
  <2>1. Listed' \subseteq Listed
    BY <1>8, RemoveList DEF TypeOK
  <2> QED BY <1>8, <2>1 DEF NoLostWakeup, Remove_, LockFree
<1>9. ASSUME NEW ids \in Orders, Reorder(ids) PROVE NoLostWakeup'
  <2>1. closed' \/ notify'
    BY <1>9 DEF TypeOK, Reorder, Notified
  <2> QED BY <2>1 DEF NoLostWakeup
<1>10. CASE ClearFinished
  <2>1. Listed' \subseteq Listed
    BY <1>10, ClearList DEF TypeOK
  <2> QED BY <1>10, <2>1 DEF NoLostWakeup, ClearFinished, LockFree
<1>11. CASE ShutdownBegin
  BY <1>11 DEF NoLostWakeup, ShutdownBegin
<1>12. CASE ShutdownCollect
  BY <1>12, WakeSame DEF TypeOK, ShutdownCollect
<1>13. ASSUME NEW t \in Tasks, ShutdownCancel(t) PROVE NoLostWakeup'
  BY <1>13, WakeSame DEF TypeOK, ShutdownCancel
<1>14. CASE SchedulerWake
  BY <1>14 DEF NoLostWakeup, SchedulerWake
<1>15. CASE SchedulerStop
  BY <1>15 DEF NoLostWakeup, SchedulerStop
<1>16. CASE SchedulerEnter
  <2>1. \A t \in Listed : \E i \in DOMAIN tasks : tasks[i] = t /\ i >= 1
    BY LenProperties DEF TypeOK, Listed
  <2> QED BY <1>16, <2>1 DEF NoLostWakeup, SchedulerEnter, Listed
<1>17. CASE SchedulerStart
  <2>0. tasks[pos] \in Tasks /\ sem \in [Pools -> Int] /\ pos \in Nat /\ DOMAIN tasks = 1..Len(tasks) /\ Len(tasks) \in Nat
    BY <1>17, LenProperties DEF TypeOK, SchedulerStart
  <2>1. /\ Listed' = Listed /\ closed' = closed /\ notify' = notify /\ sched' = sched /\ tasks' = tasks /\ submit' = submit
        /\ pos' = pos + 1 /\ sched = "pass"
    BY <1>17 DEF SchedulerStart, Listed
  <2>2. \A u \in Listed : status'[u] = "queued" => status[u] = "queued" /\ u # tasks[pos]
    BY <1>17, <1>a, <2>0 DEF SchedulerStart, TypeOK
  <2>3. \A p \in Pools : sem'[p] < Capacity(p) => sem[p] < Capacity(p)
    <3>1. \A p \in Pools : Capacity(p) \in Nat
      BY PoolSizes DEF Capacity
    <3> QED BY <1>17, <2>0, <3>1 DEF SchedulerStart
  <2>4. \A u \in Tasks : worker[u] = "released" => worker'[u] = "released" \/ u = tasks[pos]
    BY <1>17, <2>0 DEF SchedulerStart, TypeOK
  <2>5. worker[tasks[pos]] # "released"
    BY <1>17, <2>0 DEF SchedulerStart, WorkerInv, Terminal
  <2>6. ASSUME NEW u \in Listed, NEW i \in DOMAIN tasks, tasks[i] = u, i >= pos, u # tasks[pos] PROVE i >= pos + 1
    BY <2>0, <2>6
  <2>7. \A u \in Tasks : Pool(u) \in Pools
    BY DEF Pool, Pools
  <2>8. SUFFICES ASSUME NEW u \in Listed, status'[u] = "queued", sem'[Pool(u)] < Capacity(Pool(u)), ~closed
                 PROVE  \/ notify
                        \/ \E i \in DOMAIN tasks : tasks[i] = u /\ i >= pos + 1
                        \/ \E v \in Tasks : submit[v] = "listed" \/ worker'[v] = "released"
    BY <2>1 DEF NoLostWakeup
  <2>9. status[u] = "queued" /\ sem[Pool(u)] < Capacity(Pool(u)) /\ u # tasks[pos]
    BY <1>a, <2>2, <2>3, <2>7, <2>8
  <2> QED BY <2>1, <2>4, <2>5, <2>6, <2>8, <2>9 DEF NoLostWakeup
<1>18. CASE SchedulerSkip
  <2>0. pos \in Nat /\ DOMAIN tasks = 1..Len(tasks) /\ Len(tasks) \in Nat /\ sem \in [Pools -> Int]
    BY LenProperties DEF TypeOK
  <2>1. /\ Listed' = Listed /\ UNCHANGED <<closed, notify, sched, tasks, submit, worker, status, sem>>
        /\ pos' = pos + 1 /\ sched = "pass"
    BY <1>18 DEF SchedulerSkip, Listed
  <2>2. ASSUME NEW u \in Listed, status[u] = "queued", sem[Pool(u)] < Capacity(Pool(u)) PROVE u # tasks[pos]
    <3>1. Pool(u) \in Pools /\ Capacity(Pool(u)) \in Nat
      BY PoolSizes DEF Pool, Pools, Capacity
    <3>2. ~(sem[Pool(u)] >= Capacity(Pool(u)))
      BY <2>0, <2>2, <3>1
    <3> QED BY <1>18, <2>2, <3>2 DEF SchedulerSkip
  <2>3. ASSUME NEW u \in Listed, NEW i \in DOMAIN tasks, tasks[i] = u, i >= pos, u # tasks[pos] PROVE i >= pos + 1
    BY <2>0, <2>3
  <2> QED BY <2>1, <2>2, <2>3 DEF NoLostWakeup
<1>19. CASE SchedulerLeave
  <2>0. pos \in Nat /\ DOMAIN tasks = 1..Len(tasks) /\ Len(tasks) \in Nat
    BY LenProperties DEF TypeOK
  <2>1. \A i \in DOMAIN tasks : ~(i >= pos)
    BY <1>19, <2>0 DEF SchedulerLeave, PassInv
  <2> QED BY <1>19, <2>1 DEF NoLostWakeup, SchedulerLeave, Listed
<1>20. ASSUME NEW t \in Tasks, WorkerRegister(t) PROVE NoLostWakeup'
  BY <1>20, WakeSame DEF TypeOK, WorkerRegister
<1>21. ASSUME NEW t \in Tasks, Check(t) PROVE NoLostWakeup'
  BY <1>21, WakeSame DEF TypeOK, Check, ReturnCanceled
<1>22. ASSUME NEW t \in Tasks, CheckLoop(t) PROVE NoLostWakeup'
  BY <1>22, WakeSame DEF TypeOK, CheckLoop, ReturnCanceled
<1>23. ASSUME NEW t \in Tasks, Report(t) PROVE NoLostWakeup'
  BY <1>23, WakeSame DEF TypeOK, Report
<1>24. ASSUME NEW t \in Tasks, ReportEmit(t) PROVE NoLostWakeup'
  BY <1>24, WakeSame DEF TypeOK, ReportEmit
<1>25. ASSUME NEW t \in Tasks, NEW out \in {"ok", "err", "canceled"}, RunReturn(t, out) PROVE NoLostWakeup'
  BY <1>25, WakeSame DEF TypeOK, RunReturn
<1>26. ASSUME NEW t \in Tasks, WorkerFinish(t) PROVE NoLostWakeup'
  <2>1. Listed' = Listed /\ \A u \in Listed : status'[u] = "queued" => status[u] = "queued"
    BY <1>26, <1>a DEF TypeOK, WorkerFinish, EndStatus, Listed
  <2>2. \A u \in Tasks : worker[u] = "released" => worker'[u] = "released"
    BY <1>26 DEF TypeOK, WorkerFinish
  <2> QED BY <1>26, <2>1, <2>2 DEF NoLostWakeup, WorkerFinish
<1>27. ASSUME NEW t \in Tasks, WorkerRelease(t) PROVE NoLostWakeup'
  <2>1. worker'[t] = "released"
    BY <1>27 DEF TypeOK, WorkerRelease
  <2> QED BY <2>1 DEF NoLostWakeup
<1>28. ASSUME NEW t \in Tasks, WorkerNotify(t) PROVE NoLostWakeup'
  <2>1. closed' \/ notify'
    BY <1>28 DEF TypeOK, WorkerNotify, Notified
  <2> QED BY <2>1 DEF NoLostWakeup
<1>29. ASSUME NEW s \in SyncTasks, RunSyncStart(s) PROVE NoLostWakeup'
  BY <1>29, WakeSame DEF TypeOK, RunSyncStart
<1>30. ASSUME NEW s \in SyncTasks, RunSyncReport(s) PROVE NoLostWakeup'
  BY <1>30, WakeSame DEF TypeOK, RunSyncReport
<1>31. ASSUME NEW s \in SyncTasks, RunSyncFinish(s) PROVE NoLostWakeup'
  BY <1>31, WakeSame DEF TypeOK, RunSyncFinish
<1>32. CASE Restart
  <2>1. \A u \in Listed' : status'[u] # "queued"
    BY <1>32, TaskSets, ElemsType DEF TypeOK, SavedOK, Restart, Listed, Recovered, Elems
  <2> QED BY <2>1 DEF NoLostWakeup
<1> QED
  BY <1>0, <1>1, <1>2, <1>3, <1>4, <1>5, <1>6, <1>7, <1>8, <1>9, <1>10,
     <1>11, <1>12, <1>13, <1>14, <1>15, <1>16, <1>17, <1>18, <1>19, <1>20,
     <1>21, <1>22, <1>23, <1>24, <1>25, <1>26, <1>27, <1>28, <1>29, <1>30,
     <1>31, <1>32
     DEF Next, FrontEnd, Shutdown, Scheduler, WorkerStep, RunStep, RunSync

(* No queued task that could start is ever forgotten: schedulerLoop is awake, has a token to  *)
(* wake up by, or gets one from a Submit or a worker that is on its way to notifyScheduler.    *)
THEOREM NoTaskForgotten == Spec => []NoLostWakeup
<1>1. Init => PassInv /\ NoLostWakeup
  BY DEF Init, PassInv, NoLostWakeup, Listed
<1>2. IInv /\ PassInv /\ NoLostWakeup /\ [Next]_vars => PassInv' /\ NoLostWakeup'
  BY PassStep, WakeStep DEF IInv
<1> QED BY <1>1, <1>2, Safety, PTL DEF Spec

-----------------------------------------------------------------------------
(* The file *)

(* Saving leaves a file that recovers what the list would. *)
LEMMA SaveStore ==
  ASSUME ~SaveMayFail, Save(tasks', status')
  PROVE  StoreCurrent'
<1>1. PICK r \in SeqOf(Persist, Len(tasks')) :
        /\ IsSelection(r, tasks', Persist)
        /\ saved' = [order |-> r, status |-> [t \in {r[i] : i \in DOMAIN r} |-> status'[t]]]
  BY DEF Save
<1>2. saved'.order = r /\ saved'.status = [t \in {r[i] : i \in DOMAIN r} |-> status'[t]]
  BY <1>1
<1> QED BY <1>1, <1>2 DEF StoreCurrent

LEMMA StoreSame ==
  ASSUME StoreCurrent, UNCHANGED <<tasks, status, saved>>
  PROVE  StoreCurrent'
BY DEF StoreCurrent

(* Every step that changes the list or a status writes the file. *)
LEMMA StoreStep ==
  ASSUME ~SaveMayFail, TypeOK, StoreCurrent, [Next]_vars
  PROVE  StoreCurrent'
<1> USE DEF managerVars, shutdownVars, schedVars, workerVars, outsideVars
<1>0. CASE UNCHANGED vars
  BY <1>0, StoreSame DEF vars
<1>1. ASSUME NEW t \in Tasks, SubmitOpen(t) PROVE StoreCurrent'
  BY <1>1, StoreSame DEF SubmitOpen
<1>2. ASSUME NEW t \in Tasks, NEW priority \in BOOLEAN, Submit(t, priority) PROVE StoreCurrent'
  <2>1. Save(tasks', status')
    BY <1>2 DEF Submit
  <2> QED BY <2>1, SaveStore
<1>3. ASSUME NEW t \in Tasks, SubmitNotify(t) PROVE StoreCurrent'
  BY <1>3, StoreSame DEF SubmitNotify
<1>4. ASSUME NEW t \in Tasks, Pause(t) PROVE StoreCurrent'
  <2>1. Save(tasks', status')
    BY <1>4 DEF Pause
  <2> QED BY <2>1, SaveStore
<1>5. ASSUME NEW t \in Tasks, Resume(t) PROVE StoreCurrent'
  <2>1. Save(tasks', status')
    BY <1>5 DEF Resume
  <2> QED BY <2>1, SaveStore
<1>6. ASSUME NEW t \in Tasks, CancelActive(t) PROVE StoreCurrent'
  BY <1>6, StoreSame DEF CancelActive
<1>7. ASSUME NEW t \in Tasks, CancelQueued(t) PROVE StoreCurrent'
  <2>1. Save(tasks', status')
    BY <1>7 DEF CancelQueued
  <2> QED BY <2>1, SaveStore
<1>8. ASSUME NEW i \in DOMAIN tasks, Remove_(i) PROVE StoreCurrent'
  <2>1. Save(tasks', status')
    BY <1>8 DEF Remove_
  <2> QED BY <2>1, SaveStore
<1>9. ASSUME NEW ids \in Orders, Reorder(ids) PROVE StoreCurrent'
  <2>1. Save(tasks', status')
    BY <1>9 DEF Reorder
  <2> QED BY <2>1, SaveStore
<1>10. CASE ClearFinished
  <2>1. Save(tasks', status')
    BY <1>10 DEF ClearFinished
  <2> QED BY <2>1, SaveStore
<1>11. CASE ShutdownBegin
  BY <1>11, StoreSame DEF ShutdownBegin
<1>12. CASE ShutdownCollect
  BY <1>12, StoreSame DEF ShutdownCollect
<1>13. ASSUME NEW t \in Tasks, ShutdownCancel(t) PROVE StoreCurrent'
  BY <1>13, StoreSame DEF ShutdownCancel
<1>14. CASE SchedulerWake
  BY <1>14, StoreSame DEF SchedulerWake
<1>15. CASE SchedulerStop
  BY <1>15, StoreSame DEF SchedulerStop
<1>16. CASE SchedulerEnter
  BY <1>16, StoreSame DEF SchedulerEnter
<1>17. CASE SchedulerStart
  <2>1. Save(tasks', status')
    BY <1>17 DEF SchedulerStart
  <2> QED BY <2>1, SaveStore
<1>18. CASE SchedulerSkip
  BY <1>18, StoreSame DEF SchedulerSkip
<1>19. CASE SchedulerLeave
  BY <1>19, StoreSame DEF SchedulerLeave
<1>20. ASSUME NEW t \in Tasks, WorkerRegister(t) PROVE StoreCurrent'
  BY <1>20, StoreSame DEF WorkerRegister
<1>21. ASSUME NEW t \in Tasks, Check(t) PROVE StoreCurrent'
  BY <1>21, StoreSame DEF Check
<1>22. ASSUME NEW t \in Tasks, CheckLoop(t) PROVE StoreCurrent'
  BY <1>22, StoreSame DEF CheckLoop
<1>23. ASSUME NEW t \in Tasks, Report(t) PROVE StoreCurrent'
  BY <1>23, StoreSame DEF Report
<1>24. ASSUME NEW t \in Tasks, ReportEmit(t) PROVE StoreCurrent'
  BY <1>24, StoreSame DEF ReportEmit
<1>25. ASSUME NEW t \in Tasks, NEW out \in {"ok", "err", "canceled"}, RunReturn(t, out) PROVE StoreCurrent'
  BY <1>25, StoreSame DEF RunReturn
<1>26. ASSUME NEW t \in Tasks, WorkerFinish(t) PROVE StoreCurrent'
  <2>1. Save(tasks', status')
    BY <1>26 DEF WorkerFinish
  <2> QED BY <2>1, SaveStore
<1>27. ASSUME NEW t \in Tasks, WorkerRelease(t) PROVE StoreCurrent'
  BY <1>27, StoreSame DEF WorkerRelease
<1>28. ASSUME NEW t \in Tasks, WorkerNotify(t) PROVE StoreCurrent'
  BY <1>28, StoreSame DEF WorkerNotify
<1>29. ASSUME NEW s \in SyncTasks, RunSyncStart(s) PROVE StoreCurrent'
  BY <1>29, StoreSame DEF RunSyncStart
<1>30. ASSUME NEW s \in SyncTasks, RunSyncReport(s) PROVE StoreCurrent'
  BY <1>30, StoreSame DEF RunSyncReport
<1>31. ASSUME NEW s \in SyncTasks, RunSyncFinish(s) PROVE StoreCurrent'
  BY <1>31, StoreSame DEF RunSyncFinish
<1>32. CASE Restart
  <2>1. tasks' = saved.order /\ saved' = saved
    BY <1>32 DEF Restart
  <2>2. IsSelection(saved.order, saved.order, Persist)
    BY DEF TypeOK, SavedOK, IsSelection
  <2>3. ASSUME NEW i \in DOMAIN saved.order
        PROVE  Recovered(saved.status[saved.order[i]]) = Recovered(status'[saved.order[i]])
    <3>1. saved.order[i] \in Tasks
      BY TaskSets, ElemsType DEF TypeOK, SavedOK, Elems
    <3>2. status'[saved.order[i]] = Recovered(saved.status[saved.order[i]])
      BY <1>32, <3>1 DEF Restart
    <3> QED BY <3>2 DEF Recovered
  <2> QED BY <2>1, <2>2, <2>3 DEF StoreCurrent
<1> QED
  BY <1>0, <1>1, <1>2, <1>3, <1>4, <1>5, <1>6, <1>7, <1>8, <1>9, <1>10,
     <1>11, <1>12, <1>13, <1>14, <1>15, <1>16, <1>17, <1>18, <1>19, <1>20,
     <1>21, <1>22, <1>23, <1>24, <1>25, <1>26, <1>27, <1>28, <1>29, <1>30,
     <1>31, <1>32
     DEF Next, FrontEnd, Shutdown, Scheduler, WorkerStep, RunStep, RunSync

(* The file is as good as the list whenever a kill comes, when writes of the file succeed. *)
THEOREM KillLosesNothing ==
  ASSUME ~SaveMayFail
  PROVE  Spec => []StoreCurrent
<1>1. Init => StoreCurrent
  <2>1. SUFFICES ASSUME Init PROVE StoreCurrent
    OBVIOUS
  <2>2. saved.order = <<>> /\ tasks = <<>>
    BY <2>1 DEF Init
  <2> QED BY <2>2 DEF StoreCurrent, IsSelection
<1>2. TypeOK /\ StoreCurrent /\ [Next]_vars => StoreCurrent'
  BY StoreStep
<1> QED BY <1>1, <1>2, TypeCorrect, PTL DEF Spec

-----------------------------------------------------------------------------
(* Who is listed after Reorder and ClearFinished *)

LEMMA ReorderKeeps ==
  ASSUME tasks \in Seq(Tasks), scene \in SceneType, NEW ids \in Orders, Reorder(ids)
  PROVE  Listed' = Listed
<1> DEFINE Named == {ids[i] : i \in DOMAIN ids} \cap {t \in Listed : status[t] = "queued"}
<1>0. Len(ids) \in Nat /\ Len(tasks) \in Nat
  <2>1. IsFiniteSet(scene.tasks)
    BY TaskSets, FS_Subset DEF SceneType
  <2>2. Cardinality(scene.tasks) \in Nat
    BY <2>1, FS_CardinalityType
  <2>3. ids \in Seq(scene.tasks)
    BY <2>2, SeqOfType DEF Orders
  <2> QED BY <2>3, LenProperties
<1>1. PICK first \in SeqOf(Named, Len(ids)) :
        /\ IsSelection(first, ids, Named)
        /\ \E rest \in SeqOf(Listed \ Named, Len(tasks)) :
             IsSelection(rest, tasks, Listed \ Named) /\ tasks' = first \o rest
  BY DEF Reorder
<1>2. PICK rest \in SeqOf(Listed \ Named, Len(tasks)) :
        IsSelection(rest, tasks, Listed \ Named) /\ tasks' = first \o rest
  BY <1>1
<1>3. Elems(first) = Elems(ids) \cap Named /\ Elems(rest) = Elems(tasks) \cap (Listed \ Named)
  BY <1>1, <1>2, SelectionElems
<1>4. Elems(first) = Named /\ Elems(rest) = Listed \ Named
  BY <1>3, ListedElems DEF Elems
<1>5. first \in Seq(Listed) /\ rest \in Seq(Listed)
  <2>1. first \in Seq(Named) /\ rest \in Seq(Listed \ Named)
    BY <1>0, <1>1, <1>2, SeqOfType
  <2> QED BY <2>1, SeqMonotonic
<1>6. Elems(tasks') = Elems(first) \cup Elems(rest)
  BY <1>2, <1>5, ConcatElems
<1> QED BY <1>4, <1>6, ListedElems

LEMMA ClearKeeps ==
  ASSUME ClearFinished
  PROVE  Listed' = {t \in Listed : status[t] \in Active}
<1>1. IsSelection(tasks', tasks, {t \in Listed : status[t] \in Active})
  BY DEF ClearFinished
<1> QED BY <1>1, SelectionElems, ListedElems

-----------------------------------------------------------------------------
(* The supervisor implements TaskLifecycle *)

Lives == [t \in Tasks |-> LifeOf(t)]

(* One task goes on from one state to another. *)
LEMMA LifeTurn ==
  ASSUME NEW t \in Tasks, NEW from, NEW to, LifeOf(t) = from, LifeOf(t)' = to,
         \A u \in Tasks \ {t} : LifeOf(u)' = LifeOf(u)
  PROVE  Life!Turn(t, from, to)
BY DEF Life!Turn

(* A step that changes neither a status, nor who is listed, nor who may still call Run. *)
LEMMA LifeStutter ==
  ASSUME status' = status, Listed' = Listed,
         \A u \in Tasks : worker'[u] \in Cancellable <=> worker[u] \in Cancellable
  PROVE  UNCHANGED Lives
BY DEF Lives, LifeOf

(* A task is at work exactly while its worker may still call Run. *)
LEMMA LifeActive ==
  ASSUME IInv, NEW t \in Tasks
  PROVE  LifeOf(t) = "active" <=> worker[t] \in Cancellable
BY DEF IInv, WorkerInv, LifeOf, Terminal

(* A kill and the next start leave each task one of the lives that TaskLifecycle allows. *)
LEMMA RestartRecovers ==
  ASSUME TypeOK, WorkerInv, NewInv, StoreCurrent, Restart
  PROVE  Life!Recover
<1> DEFINE loaded == {saved.order[i] : i \in DOMAIN saved.order}
<1>1. Listed' = loaded /\ loaded = Listed \cap Persist /\ loaded \subseteq Tasks
  <2>1. Listed' = loaded
    BY DEF Restart, Listed
  <2>2. loaded = Listed \cap Persist
    BY SelectionElems, ListedElems DEF StoreCurrent, Elems
  <2> QED BY <2>1, <2>2, TaskSets
<1>2. \A t \in Tasks : worker'[t] \notin Cancellable
  BY DEF Restart, Cancellable, Registered, InRun
<1>3. \A t \in loaded : status'[t] = Recovered(status[t])
  BY <1>1 DEF StoreCurrent, Restart
<1>4. \A t \in Tasks \ loaded : status'[t] = status[t]
  BY DEF Restart
<1>5. \A t \in loaded : status[t] # "new"
  BY <1>1 DEF NewInv
<1> HIDE DEF loaded
<1>6. ASSUME NEW t \in Tasks PROVE LifeOf(t)' \in Life!AfterKill(t)
  <2> USE DEF Terminal, Active
  <2>0. status[t] \in Status
    BY DEF TypeOK
  <2>1. CASE LifeOf(t) = "active"
    <3>1. status[t] \in {"running", "paused"}
      BY <2>0, <2>1 DEF LifeOf, WorkerInv, Status
    <3>2. CASE t \in loaded
      <4>1. LifeOf(t)' = "waiting"
        BY <1>1, <1>2, <1>3, <3>1, <3>2 DEF LifeOf, Recovered
      <4> QED BY <1>1, <2>1, <3>2, <4>1 DEF Life!AfterKill
    <3>3. CASE t \notin loaded
      <4>1. LifeOf(t)' = "gone"
        BY <1>1, <1>2, <1>4, <3>1, <3>3 DEF LifeOf
      <4> QED BY <2>1, <4>1 DEF Life!AfterKill
    <3> QED BY <3>2, <3>3
  <2>2. CASE LifeOf(t) = "waiting"
    <3>1. t \in Listed /\ status[t] \in Active
      BY <2>0, <2>2 DEF LifeOf, Status
    <3>2. CASE t \in Persist
      <4>1. LifeOf(t)' = "waiting"
        BY <1>1, <1>2, <1>3, <3>1, <3>2 DEF LifeOf, Recovered
      <4> QED BY <2>2, <3>2, <4>1 DEF Life!AfterKill
    <3>3. CASE t \notin Persist
      <4>1. LifeOf(t)' = "gone"
        BY <1>1, <1>2, <1>4, <3>1, <3>3 DEF LifeOf
      <4> QED BY <2>2, <3>3, <4>1 DEF Life!AfterKill
    <3> QED BY <3>2, <3>3
  <2>3. CASE LifeOf(t) \notin {"active", "waiting"}
    <3>1. Life!AfterKill(t) = {LifeOf(t)}
      BY <2>3 DEF Life!AfterKill
    <3>2. CASE status[t] \in Terminal \cup {"new"}
      <4>1. status'[t] = status[t]
        BY <1>3, <1>4, <1>5, <3>2 DEF Recovered
      <4>2. worker[t] \notin Cancellable /\ worker'[t] \notin Cancellable
        BY <1>2, <3>2 DEF WorkerInv
      <4> QED BY <3>1, <3>2, <4>1, <4>2 DEF LifeOf
    <3>3. CASE status[t] \in Active
      <4>1. LifeOf(t) = "gone" /\ t \notin Listed
        BY <2>3, <3>3 DEF LifeOf
      <4>2. LifeOf(t)' = "gone"
        BY <1>1, <1>2, <1>4, <3>3, <4>1 DEF LifeOf
      <4> QED BY <3>1, <4>1, <4>2
    <3> QED BY <2>0, <3>2, <3>3 DEF Status
  <2> QED BY <2>1, <2>2, <2>3
<1> QED BY <1>6 DEF Life!Recover

(* Every step of the supervisor is a step of TaskLifecycle or leaves every life as it was. *)
LEMMA LifeStep ==
  ASSUME ~SaveMayFail, IInv, StoreCurrent, [Next]_vars
  PROVE  UNCHANGED Lives \/ Life!Recover
           \/ \E t \in Tasks : Life!Enlist(t) \/ Life!Begin(t) \/ Life!End(t) \/ Life!Leave(t)
<1> DEFINE Goal == UNCHANGED Lives \/ Life!Recover
             \/ \E t \in Tasks : Life!Enlist(t) \/ Life!Begin(t) \/ Life!End(t) \/ Life!Leave(t)
<1>a. TypeOK /\ WorkerInv /\ NewInv
  BY DEF IInv
<1>b. Listed \subseteq Tasks
  BY <1>a, ListedElems, ElemsType DEF TypeOK
<1> USE DEF managerVars, shutdownVars, schedVars, workerVars, outsideVars
<1>0. CASE UNCHANGED vars
  BY <1>0, <1>a, LifeStutter DEF vars, Listed, Cancellable, Registered, InRun, TypeOK
<1>1. ASSUME NEW t \in Tasks, SubmitOpen(t) PROVE Goal
  BY <1>1, <1>a, LifeStutter DEF SubmitOpen, Listed, Cancellable, Registered, InRun, TypeOK
<1>2. ASSUME NEW t \in Tasks, NEW priority \in BOOLEAN, Submit(t, priority) PROVE Goal
  <2>1. Listed' = Listed \cup {t}
    BY <1>2, <1>a, SubmitList DEF TypeOK
  <2>2. status[t] = "new" /\ status' = [status EXCEPT ![t] = "queued"] /\ worker' = worker
    BY <1>2, <1>a DEF NewInv, Submit
  <2>3. worker[t] \notin Cancellable
    BY <1>a, <2>2 DEF WorkerInv
  <2>4. LifeOf(t) = "new" /\ LifeOf(t)' = "waiting"
    BY <1>a, <2>1, <2>2, <2>3 DEF TypeOK, LifeOf, Terminal, Active
  <2>5. \A u \in Tasks \ {t} : LifeOf(u)' = LifeOf(u)
    BY <1>a, <2>1, <2>2 DEF TypeOK, LifeOf
  <2>6. Life!Enlist(t)
    BY <2>4, <2>5, LifeTurn DEF Life!Enlist
  <2> QED BY <2>6
<1>3. ASSUME NEW t \in Tasks, SubmitNotify(t) PROVE Goal
  BY <1>3, <1>a, LifeStutter DEF SubmitNotify, Listed, Cancellable, Registered, InRun, TypeOK
<1>4. ASSUME NEW t \in Tasks, Pause(t) PROVE Goal
  <2>1. Listed' = Listed /\ worker' = worker
    BY <1>4 DEF Pause, Listed
  <2>2. status[t] \in Active /\ status'[t] \in Active /\ status' = [status EXCEPT ![t] = status'[t]]
    BY <1>4, <1>a DEF TypeOK, Pause, Active
  <2>3. \A u \in Tasks : LifeOf(u)' = LifeOf(u)
    BY <1>a, <2>1, <2>2 DEF TypeOK, LifeOf, Terminal, Active
  <2> QED BY <2>3 DEF Lives
<1>5. ASSUME NEW t \in Tasks, Resume(t) PROVE Goal
  <2>1. Listed' = Listed
    BY <1>5 DEF Resume, Listed
  <2>2. status[t] \in Active /\ status'[t] \in Active /\ status' = [status EXCEPT ![t] = status'[t]]
    BY <1>5, <1>a DEF TypeOK, Resume, Active
  <2>4. \A u \in Tasks : worker'[u] \in Cancellable <=> worker[u] \in Cancellable
    BY <1>5, <1>a DEF TypeOK, Resume, Unpause, Cancellable, Registered, InRun
  <2>3. \A u \in Tasks : LifeOf(u)' = LifeOf(u)
    BY <1>a, <2>1, <2>2, <2>4 DEF TypeOK, LifeOf, Terminal, Active
  <2> QED BY <2>3 DEF Lives
<1>6. ASSUME NEW t \in Tasks, CancelActive(t) PROVE Goal
  BY <1>6, <1>a, LifeStutter DEF CancelActive, Unpause, Listed, Cancellable, Registered, InRun, TypeOK
<1>7. ASSUME NEW t \in Tasks, CancelQueued(t) PROVE Goal
  <2>1. Listed' = Listed /\ worker' = worker /\ status' = [status EXCEPT ![t] = "cancelled"]
    BY <1>7 DEF CancelQueued, Listed
  <2>2. t \in Listed /\ worker[t] \notin Cancellable /\ status[t] \in Active
    BY <1>7, <1>a DEF TypeOK, NewInv, WorkerInv, CancelQueued, Status
  <2>3. LifeOf(t) = "waiting" /\ LifeOf(t)' = "cancelled"
    BY <1>a, <2>1, <2>2 DEF TypeOK, LifeOf, Terminal, Active
  <2>4. \A u \in Tasks \ {t} : LifeOf(u)' = LifeOf(u)
    BY <1>a, <2>1 DEF TypeOK, LifeOf
  <2>5. Life!End(t)
    BY <2>3, <2>4, LifeTurn DEF Life!End
  <2> QED BY <2>5
<1>8. ASSUME NEW i \in DOMAIN tasks, Remove_(i) PROVE Goal
  <2>1. PICK t \in Tasks : t = tasks[i] /\ t \in Listed
    BY <1>b DEF Listed
  <2>2. Listed' \subseteq Listed /\ Listed \ {t} \subseteq Listed' /\ status' = status /\ worker' = worker
    BY <1>8, <1>a, <2>1, RemoveAtElems, ListedElems DEF TypeOK, Remove_
  <2>3. \A u \in Tasks \ {t} : LifeOf(u)' = LifeOf(u)
    BY <2>2 DEF LifeOf
  <2>4. CASE LifeOf(t)' = LifeOf(t)
    BY <2>3, <2>4 DEF Lives
  <2>5. CASE LifeOf(t)' # LifeOf(t)
    <3>1. LifeOf(t) = "waiting" /\ LifeOf(t)' = "gone"
      BY <2>1, <2>2, <2>5 DEF LifeOf
    <3>2. Life!Leave(t)
      BY <2>1, <2>3, <3>1, LifeTurn DEF Life!Leave
    <3> QED BY <2>1, <3>2
  <2> QED BY <2>4, <2>5
<1>9. ASSUME NEW ids \in Orders, Reorder(ids) PROVE Goal
  <2>1. Listed' = Listed
    BY <1>9, <1>a, ReorderKeeps, SceneSet DEF TypeOK
  <2> QED BY <1>9, <2>1, LifeStutter DEF Reorder
<1>10. CASE ClearFinished
  <2>1. Listed' = {u \in Listed : status[u] \in Active} /\ status' = status /\ worker' = worker
    BY <1>10, ClearKeeps DEF ClearFinished
  <2>2. \A u \in Tasks : LifeOf(u)' = LifeOf(u)
    BY <2>1 DEF LifeOf
  <2> QED BY <2>2 DEF Lives
<1>11. CASE ShutdownBegin
  BY <1>11, <1>a, LifeStutter DEF ShutdownBegin, Listed, Cancellable, Registered, InRun, TypeOK
<1>12. CASE ShutdownCollect
  BY <1>12, <1>a, LifeStutter DEF ShutdownCollect, Listed, Cancellable, Registered, InRun, TypeOK
<1>13. ASSUME NEW t \in Tasks, ShutdownCancel(t) PROVE Goal
  BY <1>13, <1>a, LifeStutter DEF ShutdownCancel, Listed, Cancellable, Registered, InRun, TypeOK
<1>14. CASE SchedulerWake
  BY <1>14, <1>a, LifeStutter DEF SchedulerWake, Listed, Cancellable, Registered, InRun, TypeOK
<1>15. CASE SchedulerStop
  BY <1>15, <1>a, LifeStutter DEF SchedulerStop, Listed, Cancellable, Registered, InRun, TypeOK
<1>16. CASE SchedulerEnter
  BY <1>16, <1>a, LifeStutter DEF SchedulerEnter, Listed, Cancellable, Registered, InRun, TypeOK
<1>17. CASE SchedulerStart
  <2>0. PICK t \in Tasks : t = tasks[pos] /\ t \in Listed
    BY <1>17, <1>b DEF SchedulerStart, Listed
  <2>1. /\ Listed' = Listed /\ status[t] = "queued" /\ sem[Pool(t)] < Capacity(Pool(t))
        /\ status' = [status EXCEPT ![t] = "running"] /\ worker' = [worker EXCEPT ![t] = "spawned"]
    BY <1>17, <2>0 DEF SchedulerStart, Listed
  <2>2. worker[t] \notin Cancellable
    BY <1>a, <2>0, <2>1 DEF WorkerInv
  <2>3. LifeOf(t) = "waiting" /\ LifeOf(t)' = "active"
    BY <1>a, <2>0, <2>1, <2>2 DEF TypeOK, LifeOf, Terminal, Active, Cancellable
  <2>4. \A u \in Tasks \ {t} : LifeOf(u)' = LifeOf(u)
    BY <1>a, <2>1 DEF TypeOK, LifeOf
  <2>5. Life!Turn(t, "waiting", "active")
    BY <2>0, <2>3, <2>4, LifeTurn
  <2>6. Cardinality(Life!Rivals(t)) < Life!Slots(t)
    <3> DEFINE p == Pool(t)
    <3>1. p \in Pools /\ Capacity(p) = Life!Slots(t) /\ Capacity(p) \in Nat
      BY PoolSizes DEF Pool, Pools, Capacity, Life!Slots
    <3>2. sem[p] = Cardinality(Held(p)) /\ sem[p] < Capacity(p)
      BY <2>1, <3>1 DEF IInv, SlotAccounting, Held
    <3>3. Life!Rivals(t) \subseteq Held(p)
      BY LifeActive DEF Life!Rivals, Held, Holding, Pool
    <3>4. Cardinality(Life!Rivals(t)) \in Nat /\ Cardinality(Life!Rivals(t)) <= Cardinality(Held(p))
      BY <3>1, <3>3, HeldFinite, FS_Subset, FS_CardinalityType
    <3> HIDE DEF p
    <3> QED BY <3>1, <3>2, <3>4, HeldFinite
  <2>7. Life!Begin(t)
    BY <2>5, <2>6 DEF Life!Begin, Life!Cardinality, Cardinality
  <2> QED BY <2>0, <2>7
<1>18. CASE SchedulerSkip
  BY <1>18, <1>a, LifeStutter DEF SchedulerSkip, Listed, Cancellable, Registered, InRun, TypeOK
<1>19. CASE SchedulerLeave
  BY <1>19, <1>a, LifeStutter DEF SchedulerLeave, Listed, Cancellable, Registered, InRun, TypeOK
<1>20. ASSUME NEW t \in Tasks, WorkerRegister(t) PROVE Goal
  BY <1>20, <1>a, LifeStutter DEF WorkerRegister, Listed, Cancellable, Registered, InRun, TypeOK
<1>21. ASSUME NEW t \in Tasks, Check(t) PROVE Goal
  BY <1>21, <1>a, LifeStutter DEF Check, ReturnCanceled, Listed, Cancellable, Registered, InRun, TypeOK
<1>22. ASSUME NEW t \in Tasks, CheckLoop(t) PROVE Goal
  BY <1>22, <1>a, LifeStutter DEF CheckLoop, ReturnCanceled, Listed, Cancellable, Registered, InRun, TypeOK
<1>23. ASSUME NEW t \in Tasks, Report(t) PROVE Goal
  BY <1>23, <1>a, LifeStutter DEF Report, Listed, Cancellable, Registered, InRun, TypeOK
<1>24. ASSUME NEW t \in Tasks, ReportEmit(t) PROVE Goal
  BY <1>24, <1>a, LifeStutter DEF ReportEmit, Listed, Cancellable, Registered, InRun, TypeOK
<1>25. ASSUME NEW t \in Tasks, NEW out \in {"ok", "err", "canceled"}, RunReturn(t, out) PROVE Goal
  BY <1>25, <1>a, LifeStutter DEF RunReturn, Listed, Cancellable, Registered, InRun, TypeOK
<1>26. ASSUME NEW t \in Tasks, WorkerFinish(t) PROVE Goal
  <2>1. Listed' = Listed /\ status' = [status EXCEPT ![t] = EndStatus(t)] /\ worker' = [worker EXCEPT ![t] = "finished"]
    BY <1>26 DEF WorkerFinish, Listed
  <2>2. EndStatus(t) \in Terminal /\ EndStatus(t) \in Life!Ends
    BY DEF EndStatus, Terminal, Life!Ends
  <2>3. worker[t] \in Cancellable
    BY <1>26 DEF WorkerFinish, Cancellable, Registered
  <2>4. LifeOf(t) = "active" /\ LifeOf(t)' = EndStatus(t)
    <3>1. LifeOf(t) = "active"
      BY <2>3, LifeActive
    <3>2. status'[t] = EndStatus(t)
      BY <1>a, <2>1 DEF TypeOK
    <3>3. worker'[t] \notin Cancellable
      BY <1>a, <2>1 DEF TypeOK, Cancellable, Registered, InRun
    <3> QED BY <2>2, <3>1, <3>2, <3>3 DEF LifeOf, Terminal, Active
  <2>5. \A u \in Tasks \ {t} : LifeOf(u)' = LifeOf(u)
    BY <1>a, <2>1 DEF TypeOK, LifeOf
  <2>6. Life!End(t)
    BY <2>2, <2>4, <2>5, LifeTurn DEF Life!End
  <2> QED BY <2>6
<1>27. ASSUME NEW t \in Tasks, WorkerRelease(t) PROVE Goal
  BY <1>27, <1>a, LifeStutter DEF WorkerRelease, Listed, Cancellable, Registered, InRun, TypeOK
<1>28. ASSUME NEW t \in Tasks, WorkerNotify(t) PROVE Goal
  BY <1>28, <1>a, LifeStutter DEF WorkerNotify, Listed, Cancellable, Registered, InRun, TypeOK
<1>29. ASSUME NEW s \in SyncTasks, RunSyncStart(s) PROVE Goal
  BY <1>29, <1>a, LifeStutter DEF RunSyncStart, Listed, Cancellable, Registered, InRun, TypeOK
<1>30. ASSUME NEW s \in SyncTasks, RunSyncReport(s) PROVE Goal
  BY <1>30, <1>a, LifeStutter DEF RunSyncReport, Listed, Cancellable, Registered, InRun, TypeOK
<1>31. ASSUME NEW s \in SyncTasks, RunSyncFinish(s) PROVE Goal
  BY <1>31, <1>a, LifeStutter DEF RunSyncFinish, Listed, Cancellable, Registered, InRun, TypeOK
<1>32. CASE Restart
  <2>1. Life!Recover
    BY <1>32, <1>a, RestartRecovers
  <2> QED BY <2>1
<1> QED
  BY <1>0, <1>1, <1>2, <1>3, <1>4, <1>5, <1>6, <1>7, <1>8, <1>9, <1>10,
     <1>11, <1>12, <1>13, <1>14, <1>15, <1>16, <1>17, <1>18, <1>19, <1>20,
     <1>21, <1>22, <1>23, <1>24, <1>25, <1>26, <1>27, <1>28, <1>29, <1>30,
     <1>31, <1>32
     DEF Next, FrontEnd, Shutdown, Scheduler, WorkerStep, RunStep, RunSync

(* Every behaviour of the supervisor is one of TaskLifecycle: a task ends once and stays as it  *)
(* ended, works only in a slot of its pool, and a kill and restart lose no persistent task,     *)
(* revive none that ended and leave none at work, when writes of the file succeed.              *)
THEOREM ImplementsLifecycle ==
  ASSUME ~SaveMayFail
  PROVE  Spec => Lifecycle
<1>1. Init => Life!LifeInit
  <2>1. SUFFICES ASSUME Init PROVE Life!LifeInit
    OBVIOUS
  <2>2. \A t \in Tasks : LifeOf(t) = "new"
    BY <2>1 DEF Init, LifeOf, Active, Cancellable, Registered, InRun
  <2> QED BY <2>2 DEF Life!LifeInit
<1>2. IInv /\ StoreCurrent /\ [Next]_vars => [Life!LifeNext]_Lives
  BY LifeStep DEF Life!LifeNext, Lives
<1>3. [Life!LifeNext]_Lives <=> [Life!LifeNext]_[t \in Tasks |-> LifeOf(t)]
  BY DEF Lives
<1> QED BY <1>1, <1>2, <1>3, Safety, KillLosesNothing, PTL DEF Spec, Lifecycle, Life!LifeSpec

-----------------------------------------------------------------------------
(* The event bus: what a subscriber receives. *)

(* What a subscriber has received and what waits for it, in order. *)
Seen(s) == got[s] \o channel[s]

(* The event a publisher is sending is its newest; without one there is nowhere to send it. *)
SendInv ==
  /\ \A p \in Publishers : Len(sent[p]) <= MaxEvents
  /\ \A p \in Publishers : current[p] # NoEvent =>
       Len(sent[p]) > 0 /\ current[p] = [pub |-> p, n |-> Len(sent[p]), type |-> sent[p][Len(sent[p])]]
  /\ \A p \in Publishers : targets[p] # {} => current[p] # NoEvent

(* A channel is open while its subscription is registered; one that was never made has seen nothing. *)
OpenInv ==
  /\ subscribers = open
  /\ \A s \in open : over[s] = Unlimited
  /\ \A s \in Subs : loop[s] = "none" =>
       s \notin open /\ Seen(s) = <<>> /\ over[s] = Unlimited /\ \A p \in Publishers : s \notin targets[p]

(* An event was published before it is seen, and before the subscription was cancelled; the one that *)
(* is still to be sent to a subscription is newer than all it has seen of that publisher.            *)
SeenInv ==
  /\ \A s \in Subs : \A i \in DOMAIN Seen(s) :
       LET ev == Seen(s)[i] IN ev.n <= Len(sent[ev.pub]) /\ ev.n <= over[s][ev.pub]
  /\ \A p \in Publishers : \A s \in targets[p] : \A i \in DOMAIN Seen(s) :
       Seen(s)[i].pub = p => Seen(s)[i].n < Len(sent[p])

(* Of each publisher, the events that are seen are in order. *)
OrderInv ==
  \A s \in Subs : \A i, j \in DOMAIN Seen(s) :
    i < j /\ Seen(s)[i].pub = Seen(s)[j].pub => Seen(s)[i].n < Seen(s)[j].n

(* The n-th event of p is seen, dropped, unwanted, or on its way to s. *)
Accounted(p, s, n) ==
  LET ev == [pub |-> p, n |-> n, type |-> sent[p][n]] IN
  \/ \E j \in DOMAIN Seen(s) : Seen(s)[j] = ev
  \/ <<s, ev>> \in dropped
  \/ ~Wanted(s, ev)
  \/ current[p] = ev /\ s \in targets[p]

GapInv ==
  \A p \in Publishers, s \in subscribers : \A i \in DOMAIN Seen(s) :
    Seen(s)[i].pub = p => \A n \in (Seen(s)[i].n)..Len(sent[p]) : Accounted(p, s, n)

BusInv == BusTypeOK /\ SendInv /\ OpenInv /\ SeenInv /\ OrderInv /\ GapInv

(* The bound on all publishers bounds each of them. *)
LEMMA RoomForOne ==
  ASSUME sent \in [Publishers -> Seq(Types)], NEW p \in Publishers,
         Cardinality(UNION {{<<q, i>> : i \in DOMAIN sent[q]} : q \in Publishers}) < MaxEvents
  PROVE  Len(sent[p]) < MaxEvents
<1> DEFINE Of(q) == {<<q, i>> : i \in DOMAIN sent[q]}
           All == UNION {Of(q) : q \in Publishers}
<1>1. \A q \in Publishers : IsFiniteSet(Of(q)) /\ Cardinality(Of(q)) = Len(sent[q])
  <2>1. SUFFICES ASSUME NEW q \in Publishers PROVE IsFiniteSet(Of(q)) /\ Cardinality(Of(q)) = Len(sent[q])
    OBVIOUS
  <2>2. PICK f : f = [i \in 1..Len(sent[q]) |-> <<q, i>>]
    OBVIOUS
  <2>3. Len(sent[q]) \in Nat /\ DOMAIN sent[q] = 1..Len(sent[q])
    OBVIOUS
  <2>4. f \in Bijection(1..Len(sent[q]), Of(q))
    BY <2>2, <2>3 DEF Bijection, Injection, Surjection, IsInjective
  <2>5. ExistsBijection(1..Len(sent[q]), Of(q))
    BY <2>4 DEF ExistsBijection
  <2>6. IsFiniteSet(1..Len(sent[q])) /\ Cardinality(1..Len(sent[q])) = Len(sent[q])
    <3>1. PICK n \in Nat : n = Len(sent[q])
      BY <2>3
    <3>2. 1 \in Int /\ n \in Int /\ (IF 1 > n THEN 0 ELSE n - 1 + 1) = n
      OBVIOUS
    <3>3. IsFiniteSet(1..n) /\ Cardinality(1..n) = n
      BY <3>2, FS_Interval
    <3> QED BY <3>1, <3>3
  <2> QED BY <2>5, <2>6, FS_Bijection
<1>2. IsFiniteSet({Of(q) : q \in Publishers})
  <2> HIDE DEF Of
  <2>1. PICK f : f = [q \in Publishers |-> Of(q)]
    OBVIOUS
  <2>2. f \in Surjection(Publishers, {Of(q) : q \in Publishers})
    BY <2>1 DEF Surjection
  <2> QED BY <2>2, BusSets, FS_Surjection
<1>3. IsFiniteSet(All)
  BY <1>1, <1>2, FS_UNION
<1>4. Of(p) \subseteq All
  OBVIOUS
<1>5. Cardinality(Of(p)) <= Cardinality(All) /\ Cardinality(All) \in Nat
  BY <1>3, <1>4, FS_Subset, FS_CardinalityType
<1>6. Len(sent[p]) \in Nat
  OBVIOUS
<1>7. Cardinality(All) < MaxEvents /\ Cardinality(Of(p)) = Len(sent[p])
  BY <1>1
<1> HIDE DEF All, Of
<1> QED BY <1>5, <1>6, <1>7, BusSets

(* What a send and a receive do to what is seen. *)
LEMMA AppendAfter ==
  ASSUME NEW S, NEW a \in Seq(S), NEW b \in Seq(S), NEW e \in S
  PROVE  a \o Append(b, e) = Append(a \o b, e)
<1>1. Append(b, e) = b \o <<e>> /\ Append(a \o b, e) = (a \o b) \o <<e>> /\ <<e>> \in Seq(S)
  OBVIOUS
<1> QED BY <1>1, ConcatAssociative

LEMMA MoveHead ==
  ASSUME NEW S, NEW a \in Seq(S), NEW b \in Seq(S), b # <<>>
  PROVE  Append(a, Head(b)) \o Tail(b) = a \o b
<1>1. Head(b) \in S /\ Tail(b) \in Seq(S)
  OBVIOUS
<1>2. Append(a, Head(b)) = a \o <<Head(b)>> /\ <<Head(b)>> \in Seq(S)
  BY <1>1
<1>3. <<Head(b)>> \o Tail(b) = b
  BY <1>1
<1> QED BY <1>1, <1>2, <1>3, ConcatAssociative

LEMMA DomAppend ==
  ASSUME NEW S, NEW q \in Seq(S), NEW e \in S
  PROVE  /\ Append(q, e) \in Seq(S) /\ DOMAIN Append(q, e) = DOMAIN q \cup {Len(q) + 1}
         /\ \A i \in DOMAIN q : Append(q, e)[i] = q[i] /\ i < Len(q) + 1
         /\ Append(q, e)[Len(q) + 1] = e
OBVIOUS

(* The invariant says of what is seen what the properties say. *)
LEMMA InvDelivers == BusInv => Delivery
<1>1. SUFFICES ASSUME BusInv PROVE Delivery
  OBVIOUS
<1>2. InOrder
  BY <1>1 DEF BusInv, OrderInv, InOrder, Seen
<1>3. SilentAfterUnsubscribe
  <2>1. SUFFICES ASSUME NEW s \in Subs, NEW i \in DOMAIN got[s] PROVE got[s][i].n <= over[s][got[s][i].pub]
    BY DEF SilentAfterUnsubscribe
  <2>2. i \in DOMAIN Seen(s) /\ Seen(s)[i] = got[s][i]
    BY <1>1 DEF BusInv, BusTypeOK, Seen
  <2> QED BY <1>1, <2>2 DEF BusInv, SeenInv
<1>4. OnlyFullDrops
  <2>1. SUFFICES ASSUME NEW p \in Publishers, NEW s \in subscribers, NEW i \in DOMAIN Seen(s), Seen(s)[i].pub = p,
                        NEW n \in (Seen(s)[i].n)..Len(sent[p])
                 PROVE  LET ev == [pub |-> p, n |-> n, type |-> sent[p][n]] IN
                        \/ ev \in {Seen(s)[j] : j \in {k \in DOMAIN Seen(s) : Seen(s)[k].pub = p}}
                        \/ <<s, ev>> \in dropped \/ ~Wanted(s, ev) \/ (current[p] = ev /\ s \in targets[p])
    BY DEF OnlyFullDrops, Seen
  <2>2. Accounted(p, s, n)
    BY <1>1, <2>1 DEF BusInv, GapInv
  <2>3. ASSUME NEW j \in DOMAIN Seen(s), NEW ev, ev = [pub |-> p, n |-> n, type |-> sent[p][n]], Seen(s)[j] = ev
        PROVE  ev \in {Seen(s)[k] : k \in {k \in DOMAIN Seen(s) : Seen(s)[k].pub = p}}
    BY <2>3
  <2> QED BY <2>2, <2>3 DEF Accounted
<1> QED BY <1>2, <1>3, <1>4 DEF Delivery

LEMMA BusTypeStep ==
  ASSUME BusTypeOK, SendInv, [BusNext]_busVars
  PROVE  BusTypeOK'
<1> USE DEF BusTypeOK
<1>0. CASE UNCHANGED busVars
  BY <1>0 DEF busVars
<1>1. ASSUME NEW s \in Subs, Subscribe(s) PROVE BusTypeOK'
  BY <1>1 DEF Subscribe
<1>2. ASSUME NEW s \in Subs, Unsubscribe(s) PROVE BusTypeOK'
  <2>1. [p \in Publishers |-> Len(sent[p])] \in [Publishers -> 0..MaxEvents]
    BY BusSets DEF SendInv
  <2> QED BY <1>2, <2>1 DEF Unsubscribe
<1>3. ASSUME NEW p \in Publishers, NEW type \in Types, Publish(p, type) PROVE BusTypeOK'
  <2>1. Len(sent[p]) + 1 \in 1..MaxEvents
    <3>1. Len(sent[p]) < MaxEvents /\ Len(sent[p]) \in Nat
      BY <1>3, RoomForOne DEF Publish
    <3> QED BY <3>1, BusSets
  <2>2. [pub |-> p, n |-> Len(sent[p]) + 1, type |-> type] \in Event
    BY <2>1 DEF Event
  <2> QED BY <1>3, <2>2 DEF Publish
<1>4. ASSUME NEW p \in Publishers, NEW s \in Subs, Send(p, s) PROVE BusTypeOK'
  <2>1. current[p] \in Event
    BY <1>4 DEF Send, SendInv
  <2>2. channel' \in [Subs -> Seq(Event)] /\ dropped' \subseteq Subs \X Event
    <3>1. Append(channel[s], current[p]) \in Seq(Event) /\ <<s, current[p]>> \in Subs \X Event
      BY <2>1
    <3>2. channel' = channel \/ channel' = [channel EXCEPT ![s] = Append(channel[s], current[p])]
      BY <1>4 DEF Send
    <3>3. dropped' = dropped \/ dropped' = dropped \cup {<<s, current[p]>>}
      BY <1>4 DEF Send
    <3> QED BY <3>1, <3>2, <3>3
  <2>3. panicked' \in BOOLEAN
    BY <1>4 DEF Send
  <2> QED BY <1>4, <2>2, <2>3 DEF Send
<1>5. ASSUME NEW p \in Publishers, Return(p) PROVE BusTypeOK'
  BY <1>5 DEF Return
<1>6. ASSUME NEW s \in Subs, Receive(s) PROVE BusTypeOK'
  <2>1. Head(channel[s]) \in Event /\ Tail(channel[s]) \in Seq(Event)
    BY <1>6 DEF Receive
  <2> QED BY <1>6, <2>1 DEF Receive
<1>7. ASSUME NEW s \in Subs, LoopStop(s) PROVE BusTypeOK'
  BY <1>7 DEF LoopStop
<1> QED BY <1>0, <1>1, <1>2, <1>3, <1>4, <1>5, <1>6, <1>7 DEF BusNext

(* A step that leaves what is seen and what is published alone. *)
LEMMA SameSeen ==
  ASSUME BusInv, UNCHANGED <<sent, dropped, subscribers>>, \A u \in Subs : Seen(u)' = Seen(u),
         \A s \in Subs, p \in Publishers : over'[s][p] = over[s][p],
         \A p \in Publishers : targets'[p] \subseteq targets[p],
         \A p \in Publishers, s \in subscribers : s \in targets[p] =>
           current'[p] = current[p] /\ (s \in targets'[p] \/ ~Wanted(s, current[p]))
  PROVE  SeenInv' /\ OrderInv' /\ GapInv'
<1>t. subscribers \subseteq Subs /\ (\A p \in Publishers : targets[p] \subseteq Subs) /\ \A s \in Subs : Seen(s) \in Seq(Event)
  BY DEF BusInv, BusTypeOK, Seen
<1>1. SeenInv'
  <2>1. ASSUME NEW s \in Subs, NEW i \in DOMAIN Seen(s) PROVE Seen(s)[i].pub \in Publishers
    <3>1. Seen(s)[i] \in Event
      BY <1>t
    <3> QED BY <3>1 DEF Event
  <2> QED BY <1>t, <2>1 DEF BusInv, SeenInv
<1>2. OrderInv'
  BY DEF BusInv, OrderInv
<1>3. ASSUME NEW p \in Publishers, NEW s \in subscribers, NEW n, Accounted(p, s, n) PROVE Accounted(p, s, n)'
  BY <1>t, <1>3 DEF Accounted, Wanted
<1>4. GapInv'
  BY <1>t, <1>3 DEF BusInv, GapInv
<1> QED BY <1>1, <1>2, <1>4

LEMMA BusStep ==
  ASSUME BusInv, [BusNext]_busVars
  PROVE  BusInv'
<1> USE DEF BusInv
<1>t. BusTypeOK'
  BY BusTypeStep
<1>s. /\ \A s \in Subs : Seen(s) \in Seq(Event)
      /\ subscribers \subseteq Subs /\ \A p \in Publishers : targets[p] \subseteq Subs
  BY DEF BusTypeOK, Seen
<1>n. NoEvent \notin Event /\ \A ev \in Event : ev.pub \in Publishers /\ ev.n \in Nat /\ ev.n > 0
  BY BusSets DEF NoEvent, Event
<1>0. CASE UNCHANGED busVars
  <2>1. \A u \in Subs : Seen(u)' = Seen(u)
    BY <1>0 DEF busVars, Seen
  <2>2. SeenInv' /\ OrderInv' /\ GapInv'
    BY <1>0, <1>s, <2>1, SameSeen DEF busVars
  <2>3. SendInv'
    BY <1>0 DEF busVars, SendInv
  <2>4. OpenInv'
    BY <1>0, <2>1 DEF busVars, OpenInv
  <2> QED BY <1>t, <2>2, <2>3, <2>4
<1>1. ASSUME NEW s \in Subs, Subscribe(s) PROVE BusInv'
  <2>1. \A u \in Subs : Seen(u)' = Seen(u)
    BY <1>1 DEF Subscribe, Seen
  <2>2. Seen(s) = <<>> /\ over[s] = Unlimited /\ UNCHANGED <<channel, sent, current, targets, got, dropped, over>>
    BY <1>1 DEF Subscribe, OpenInv
  <2>3. SendInv'
    BY <2>2 DEF SendInv
  <2>4. OpenInv'
    <3>1. \A u \in Subs : loop'[u] = "none" => loop[u] = "none" /\ u # s
      BY <1>1 DEF Subscribe, BusTypeOK
    <3> QED BY <1>1, <2>1, <2>2, <3>1 DEF OpenInv, Subscribe, Unlimited
  <2>5. SeenInv' /\ OrderInv'
    BY <1>s, <2>1, <2>2 DEF SeenInv, OrderInv
  <2>6. ASSUME NEW p \in Publishers, NEW u \in subscribers, NEW n, Accounted(p, u, n) PROVE Accounted(p, u, n)'
    BY <1>s, <2>1, <2>2, <2>6 DEF Accounted, Wanted
  <2>7. GapInv'
    BY <1>1, <1>s, <2>1, <2>2, <2>6 DEF GapInv, Subscribe
  <2> QED BY <1>t, <2>3, <2>4, <2>5, <2>7
<1>2. ASSUME NEW s \in Subs, Unsubscribe(s) PROVE BusInv'
  <2>1. \A u \in Subs : Seen(u)' = Seen(u)
    BY <1>2 DEF Unsubscribe, Seen
  <2>2. UNCHANGED <<channel, loop, sent, current, targets, got, dropped>> /\ s \in subscribers /\ subscribers' = subscribers \ {s}
    BY <1>2 DEF Unsubscribe
  <2>3. SendInv'
    BY <2>2 DEF SendInv
  <2>4. OpenInv'
    BY <1>2, <1>s, <2>1, <2>2 DEF OpenInv, Unsubscribe, BusTypeOK, Unlimited
  <2>5. \A u \in Subs, p \in Publishers : over'[u][p] = IF u = s THEN Len(sent[p]) ELSE over[u][p]
    BY <1>2 DEF Unsubscribe, BusTypeOK
  <2>6. SeenInv'
    <3>1. ASSUME NEW u \in Subs, NEW i \in DOMAIN Seen(u) PROVE Seen(u)[i].pub \in Publishers
      BY <1>s, <1>n
    <3> QED BY <1>s, <2>1, <2>2, <2>5, <3>1 DEF SeenInv
  <2>7. OrderInv'
    BY <2>1 DEF OrderInv
  <2>8. ASSUME NEW p \in Publishers, NEW u \in subscribers, NEW n, Accounted(p, u, n) PROVE Accounted(p, u, n)'
    BY <1>s, <2>1, <2>2, <2>8 DEF Accounted, Wanted
  <2>9. GapInv'
    BY <1>s, <2>1, <2>2, <2>8 DEF GapInv
  <2> QED BY <1>t, <2>3, <2>4, <2>6, <2>7, <2>9
<1>3. ASSUME NEW p \in Publishers, NEW type \in Types, Publish(p, type) PROVE BusInv'
  <2>1. \A u \in Subs : Seen(u)' = Seen(u)
    BY <1>3 DEF Publish, Seen
  <2>2. /\ UNCHANGED <<subscribers, channel, open, loop, got, dropped, over>> /\ current[p] = NoEvent /\ targets[p] = {}
        /\ sent' = [sent EXCEPT ![p] = Append(sent[p], type)]
        /\ current' = [current EXCEPT ![p] = [pub |-> p, n |-> Len(sent[p]) + 1, type |-> type]]
        /\ targets' = [targets EXCEPT ![p] = subscribers]
    BY <1>3 DEF Publish, SendInv
  <2>3. /\ Len(sent[p]) \in Nat /\ Len(sent'[p]) = Len(sent[p]) + 1 /\ Len(sent[p]) < MaxEvents
        /\ sent'[p][Len(sent[p]) + 1] = type /\ \A n \in 1..Len(sent[p]) : sent'[p][n] = sent[p][n]
    BY <1>3, <2>2, RoomForOne DEF Publish, BusTypeOK
  <2>4. /\ \A q \in Publishers \ {p} : sent'[q] = sent[q] /\ current'[q] = current[q] /\ targets'[q] = targets[q]
        /\ targets'[p] = subscribers /\ current'[p] = [pub |-> p, n |-> Len(sent[p]) + 1, type |-> type]
    BY <2>2 DEF BusTypeOK
  <2>5. SendInv'
    <3>1. Len(sent'[p]) <= MaxEvents /\ Len(sent'[p]) > 0
      BY <2>3, BusSets
    <3>2. current'[p] # NoEvent
      BY <2>3, <2>4 DEF NoEvent
    <3> QED BY <2>3, <2>4, <3>1, <3>2 DEF SendInv
  <2>6. OpenInv'
    BY <1>s, <2>1, <2>2, <2>4 DEF OpenInv
  <2>7. ASSUME NEW u \in Subs, NEW i \in DOMAIN Seen(u)
        PROVE  /\ Seen(u)[i].pub \in Publishers /\ Seen(u)[i].n \in Nat \ {0}
               /\ Seen(u)[i].n <= Len(sent[Seen(u)[i].pub]) /\ Len(sent[Seen(u)[i].pub]) \in Nat
    BY <1>s, <1>n DEF SeenInv, BusTypeOK
  <2>8. SeenInv'
    BY <1>s, <2>1, <2>2, <2>3, <2>4, <2>7 DEF SeenInv
  <2>9. OrderInv'
    BY <2>1 DEF OrderInv
  <2>10. ASSUME NEW q \in Publishers, NEW u \in subscribers, NEW i \in DOMAIN Seen(u), Seen(u)[i].pub = q,
                NEW n \in (Seen(u)[i].n)..Len(sent'[q])
         PROVE  Accounted(q, u, n)'
    <3>1. CASE n <= Len(sent[q])
      <4>1. Accounted(q, u, n) /\ n \in 1..Len(sent[q])
        BY <1>s, <2>7, <2>10, <3>1 DEF GapInv
      <4>2. sent'[q][n] = sent[q][n]
        BY <2>3, <2>4, <4>1
      <4>3. CASE q = p
        <5>1. current[p] # [pub |-> p, n |-> n, type |-> sent[p][n]]
          BY <2>2, <4>1 DEF NoEvent
        <5> DEFINE ev == [pub |-> q, n |-> n, type |-> sent[q][n]]
        <5>2. (\E j \in DOMAIN Seen(u) : Seen(u)[j] = ev) \/ <<u, ev>> \in dropped \/ ~Wanted(u, ev)
          BY <4>1, <4>3, <5>1 DEF Accounted
        <5>3. ev = [pub |-> q, n |-> n, type |-> sent'[q][n]]
          BY <4>2
        <5>4. Seen(u)' = Seen(u) /\ dropped' = dropped
          BY <1>s, <2>1, <2>2
        <5> HIDE DEF ev
        <5> QED BY <5>2, <5>3, <5>4 DEF Accounted, Wanted
      <4>4. CASE q # p
        BY <1>s, <2>1, <2>2, <2>4, <4>1, <4>2, <4>4 DEF Accounted, Wanted
      <4> QED BY <4>3, <4>4
    <3>2. CASE n > Len(sent[q])
      <4>1. q = p /\ n = Len(sent[p]) + 1
        BY <1>s, <2>3, <2>4, <2>7, <2>10, <3>2
      <4>2. current'[p] = [pub |-> p, n |-> n, type |-> sent'[p][n]] /\ u \in targets'[p]
        BY <2>3, <2>4, <4>1
      <4> QED BY <4>1, <4>2 DEF Accounted
    <3>3. n \in Int /\ Len(sent[q]) \in Nat
      BY <2>10 DEF BusTypeOK
    <3> QED BY <3>1, <3>2, <3>3
  <2>11. GapInv'
    BY <1>s, <2>1, <2>2, <2>10 DEF GapInv
  <2> QED BY <1>t, <2>5, <2>6, <2>8, <2>9, <2>11
<1>4. ASSUME NEW p \in Publishers, NEW s \in Subs, Send(p, s) PROVE BusInv'
  <2>1. /\ s \in targets[p] /\ targets' = [targets EXCEPT ![p] = targets[p] \ {s}] /\ UNCHANGED <<subscribers, open, loop, sent, current, got, over>>
        /\ current[p] \in Event /\ current[p] = [pub |-> p, n |-> Len(sent[p]), type |-> sent[p][Len(sent[p])]]
    BY <1>4 DEF Send, SendInv, BusTypeOK
  <2>2. targets'[p] = targets[p] \ {s} /\ \A q \in Publishers \ {p} : targets'[q] = targets[q]
    BY <2>1 DEF BusTypeOK
  <2>3. SendInv'
    BY <2>1, <2>2 DEF SendInv
  <2>4. loop[s] # "none"
    BY <2>1 DEF OpenInv
  <2>5. ASSUME \A u \in Subs \ {s} : Seen(u)' = Seen(u) PROVE OpenInv'
    BY <1>s, <2>1, <2>2, <2>4, <2>5 DEF OpenInv
  <2>6. CASE UNCHANGED <<channel, dropped>> /\ (~Wanted(s, current[p]) \/ s \notin open)
    <3>1. \A u \in Subs : Seen(u)' = Seen(u)
      BY <2>1, <2>6 DEF Seen
    <3>2. SeenInv' /\ OrderInv' /\ GapInv'
      BY <1>s, <2>1, <2>2, <2>6, <3>1, SameSeen DEF OpenInv
    <3> QED BY <1>t, <2>3, <2>5, <3>1, <3>2
  <2>7. CASE channel' = [channel EXCEPT ![s] = Append(channel[s], current[p])] /\ UNCHANGED dropped /\ s \in open
    <3>1. Seen(s)' = Append(Seen(s), current[p]) /\ \A u \in Subs \ {s} : Seen(u)' = Seen(u)
      <4>1. channel'[s] = Append(channel[s], current[p]) /\ got'[s] = got[s] /\ channel[s] \in Seq(Event) /\ got[s] \in Seq(Event)
        BY <2>1, <2>7 DEF BusTypeOK
      <4>2. Seen(s)' = Append(Seen(s), current[p])
        <5>1. got[s] \o Append(channel[s], current[p]) = Append(got[s] \o channel[s], current[p])
          <6>1. PICK a \in Seq(Event), b \in Seq(Event), e \in Event : a = got[s] /\ b = channel[s] /\ e = current[p]
            BY <2>1, <4>1
          <6>2. a \o Append(b, e) = Append(a \o b, e)
            BY AppendAfter
          <6> QED BY <6>1, <6>2
        <5> QED BY <4>1, <5>1 DEF Seen
      <4> QED BY <2>1, <2>7, <4>2 DEF Seen, BusTypeOK
    <3>2. /\ DOMAIN Seen(s)' = DOMAIN Seen(s) \cup {Len(Seen(s)) + 1}
          /\ \A i \in DOMAIN Seen(s) : Seen(s)'[i] = Seen(s)[i] /\ i < Len(Seen(s)) + 1
          /\ Seen(s)'[Len(Seen(s)) + 1] = current[p]
      BY <1>s, <2>1, <3>1, DomAppend
    <3>3. current[p].pub = p /\ current[p].n = Len(sent[p]) /\ Len(sent[p]) \in Nat /\ over[s][p] = MaxEvents /\ Len(sent[p]) <= MaxEvents
      BY <2>1, <2>7 DEF OpenInv, Unlimited, SendInv, BusTypeOK
    <3>4. SeenInv'
      <4>1. ASSUME NEW u \in Subs, NEW i \in DOMAIN Seen(u)'
            PROVE  Seen(u)'[i].n <= Len(sent'[Seen(u)'[i].pub]) /\ Seen(u)'[i].n <= over'[u][Seen(u)'[i].pub]
        <5>1. CASE u # s
          BY <2>1, <3>1, <4>1, <5>1 DEF SeenInv
        <5>2. CASE u = s /\ i \in DOMAIN Seen(s)
          BY <2>1, <3>2, <5>2 DEF SeenInv
        <5>3. CASE u = s /\ i = Len(Seen(s)) + 1
          BY <2>1, <3>2, <3>3, <5>3
        <5> QED BY <3>2, <4>1, <5>1, <5>2, <5>3
      <4>2. ASSUME NEW q \in Publishers, NEW u \in targets'[q], NEW i \in DOMAIN Seen(u)', Seen(u)'[i].pub = q
            PROVE  Seen(u)'[i].n < Len(sent'[q])
        BY <1>s, <2>1, <2>2, <3>1, <3>2, <3>3, <4>2 DEF SeenInv
      <4> QED BY <4>1, <4>2 DEF SeenInv
    <3>5. OrderInv'
      <4>1. \A i \in DOMAIN Seen(s) : Seen(s)[i].pub = p => Seen(s)[i].n < current[p].n
        BY <2>1, <3>3 DEF SeenInv
      <4>2. \A i, j \in DOMAIN Seen(s)' : i < j => i \in DOMAIN Seen(s)
        BY <1>s, <3>2
      <4> QED BY <3>1, <3>2, <3>3, <4>1, <4>2 DEF OrderInv
    <3>6. ASSUME NEW q \in Publishers, NEW u \in subscribers, NEW n, Accounted(q, u, n) PROVE Accounted(q, u, n)'
      <4>1. CASE u = s
        BY <2>1, <2>2, <2>7, <3>2, <3>6, <4>1 DEF Accounted, Wanted
      <4>2. CASE u # s
        BY <1>s, <2>1, <2>2, <2>7, <3>1, <3>6, <4>2 DEF Accounted, Wanted
      <4> QED BY <4>1, <4>2
    <3>7. ASSUME NEW n \in Len(sent[p])..Len(sent[p]) PROVE Accounted(p, s, n)'
      <4>1. n = Len(sent[p])
        BY <3>3
      <4> QED BY <2>1, <3>2, <4>1 DEF Accounted
    <3>8. GapInv'
      <4>1. SUFFICES ASSUME NEW q \in Publishers, NEW u \in subscribers, NEW i \in DOMAIN Seen(u)', Seen(u)'[i].pub = q,
                            NEW n \in (Seen(u)'[i].n)..Len(sent[q])
                     PROVE  Accounted(q, u, n)'
        BY <2>1 DEF GapInv
      <4>2. CASE u # s
        BY <1>s, <3>1, <3>6, <4>1, <4>2 DEF GapInv
      <4>3. CASE u = s /\ i \in DOMAIN Seen(s)
        BY <3>2, <3>6, <4>1, <4>3 DEF GapInv
      <4>4. CASE u = s /\ i = Len(Seen(s)) + 1
        BY <3>2, <3>3, <3>7, <4>1, <4>4
      <4> QED BY <3>2, <4>2, <4>3, <4>4
    <3> QED BY <1>t, <2>3, <2>5, <3>1, <3>4, <3>5, <3>8
  <2>8. CASE dropped' = dropped \cup {<<s, current[p]>>} /\ UNCHANGED channel
    <3>1. \A u \in Subs : Seen(u)' = Seen(u)
      BY <2>1, <2>8 DEF Seen
    <3>2. SeenInv' /\ OrderInv'
      BY <1>s, <2>1, <2>2, <3>1 DEF SeenInv, OrderInv
    <3>3. ASSUME NEW q \in Publishers, NEW u \in subscribers, NEW n, Accounted(q, u, n) PROVE Accounted(q, u, n)'
      BY <1>s, <2>1, <2>2, <2>8, <3>1, <3>3 DEF Accounted, Wanted
    <3>4. GapInv'
      BY <1>s, <2>1, <3>1, <3>3 DEF GapInv
    <3> QED BY <1>t, <2>3, <2>5, <3>1, <3>2, <3>4
  <2> QED BY <1>4, <2>6, <2>7, <2>8 DEF Send
<1>5. ASSUME NEW p \in Publishers, Return(p) PROVE BusInv'
  <2>1. \A u \in Subs : Seen(u)' = Seen(u)
    BY <1>5 DEF Return, Seen
  <2>2. /\ UNCHANGED <<subscribers, channel, open, loop, sent, targets, got, dropped, over>> /\ targets[p] = {}
        /\ current'[p] = NoEvent /\ \A q \in Publishers \ {p} : current'[q] = current[q]
    BY <1>5 DEF Return, BusTypeOK
  <2>3. SendInv'
    BY <2>2 DEF SendInv
  <2>4. OpenInv'
    BY <2>1, <2>2 DEF OpenInv
  <2>5. SeenInv' /\ OrderInv' /\ GapInv'
    BY <2>1, <2>2, SameSeen
  <2> QED BY <1>t, <2>3, <2>4, <2>5
<1>6. ASSUME NEW s \in Subs, Receive(s) PROVE BusInv'
  <2>1. \A u \in Subs : Seen(u)' = Seen(u)
    <3>1. got[s] \in Seq(Event) /\ channel[s] \in Seq(Event) /\ channel[s] # <<>>
          /\ got'[s] = Append(got[s], Head(channel[s])) /\ channel'[s] = Tail(channel[s])
      BY <1>6 DEF Receive, BusTypeOK
    <3>2. Seen(s)' = Seen(s)
      BY <3>1, MoveHead DEF Seen
    <3> QED BY <1>6, <3>2 DEF Receive, BusTypeOK, Seen
  <2>2. UNCHANGED <<subscribers, open, loop, sent, current, targets, dropped, over>>
    BY <1>6 DEF Receive
  <2>3. SendInv'
    BY <2>2 DEF SendInv
  <2>4. OpenInv'
    BY <2>1, <2>2 DEF OpenInv
  <2>5. SeenInv' /\ OrderInv' /\ GapInv'
    BY <2>1, <2>2, SameSeen
  <2> QED BY <1>t, <2>3, <2>4, <2>5
<1>7. ASSUME NEW s \in Subs, LoopStop(s) PROVE BusInv'
  <2>1. \A u \in Subs : Seen(u)' = Seen(u)
    BY <1>7 DEF LoopStop, Seen
  <2>2. UNCHANGED <<subscribers, open, sent, current, targets, dropped, over>> /\ \A u \in Subs : loop'[u] = "none" => loop[u] = "none"
    BY <1>7 DEF LoopStop, BusTypeOK
  <2>3. SendInv'
    BY <2>2 DEF SendInv
  <2>4. OpenInv'
    BY <2>1, <2>2 DEF OpenInv
  <2>5. SeenInv' /\ OrderInv' /\ GapInv'
    BY <2>1, <2>2, SameSeen
  <2> QED BY <1>t, <2>3, <2>4, <2>5
<1> QED BY <1>0, <1>1, <1>2, <1>3, <1>4, <1>5, <1>6, <1>7 DEF BusNext

(* What a subscriber receives is what was published while it was subscribed, in the order of each *)
(* publisher, without repetition and with no gap but those of a full channel, for any number of   *)
(* publishers and subscriptions that come and go while events are on their way (Publish,          *)
(* Subscribe and SubscribeFunc of events.Bus).                                                    *)
THEOREM DeliversInOrder == BusSpec => []Delivery
<1>1. BusInit => BusInv
  <2>1. SUFFICES ASSUME BusInit PROVE BusInv
    OBVIOUS
  <2>2. BusTypeOK
    <3>1. over \in [Subs -> [Publishers -> 0..MaxEvents]]
      BY <2>1, BusSets DEF BusInit, Unlimited
    <3>2. panicked \in BOOLEAN
      BY <2>1 DEF BusInit
    <3>3. channel \in [Subs -> Seq(Event)] /\ got \in [Subs -> Seq(Event)] /\ sent \in [Publishers -> Seq(Types)]
      BY <2>1 DEF BusInit
    <3> QED BY <2>1, <3>1, <3>2, <3>3 DEF BusInit, BusTypeOK
  <2>3. \A s \in Subs : Seen(s) = <<>>
    BY <2>1 DEF BusInit, Seen
  <2>4. SendInv
    BY <2>1, BusSets DEF BusInit, SendInv
  <2>5. OpenInv /\ SeenInv /\ OrderInv /\ GapInv
    BY <2>1, <2>3 DEF BusInit, OpenInv, SeenInv, OrderInv, GapInv
  <2> QED BY <2>2, <2>4, <2>5 DEF BusInv
<1>2. BusInv /\ [BusNext]_busVars => BusInv'
  BY BusStep
<1> QED BY <1>1, <1>2, InvDelivers, PTL DEF BusSpec
=============================================================================
