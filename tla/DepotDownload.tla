---------------------------- MODULE DepotDownload ----------------------------
(***************************************************************************)
(* The downloader: Download brings the game directory to one version of the *)
(* depot.  It keeps the replaced manifest as .manifest.previous, computes   *)
(* which chunks that manifest already provides, and one worker per file      *)
(* fetches the others, recording each chunk in a checkpoint that survives an *)
(* aborted or killed run.                                                    *)
(*                                                                           *)
(* A file is a sequence of equally long chunks, so its length in chunks is   *)
(* its size and a chunk's place in the sequence is its offset.  A chunk is    *)
(* its content: ChunkID is the SHA-1 of the content, and a chunk that fails   *)
(* its checksum is refused by downloadChunk.                                  *)
(***************************************************************************)
EXTENDS Integers, Sequences, FiniteSets

CONSTANTS
  Files,       \* normalized relative paths
  Versions,    \* manifests of the depot
  Chunks,      \* contents of chunks
  Manifest,    \* the chunks of each file in each version, or NoFile
  Gid,         \* the manifest's number
  Hashed,      \* files whose entry has a SHA1
  Moves,       \* the versions the user asks for after each version
  Patient,     \* the user changes the version only when the last call succeeded
  NoFile, NoVersion,
  Zero,        \* a preallocated or skipped part of a file
  Junk,        \* content that is in no manifest
  Troubles,    \* what may go wrong: "failures" (workers fail, the user cancels,
               \* the program is killed), "changes" (somebody else changes
               \* installed files), or "both"
  LateChanges, \* files are changed after an update too
  MaxRuns      \* bound on the calls of Download

ASSUME DepotSets ==
  /\ Manifest \in [Versions -> [Files -> Seq(Chunks) \cup {NoFile}]]
  /\ Gid \in [Versions -> Nat]
  /\ Hashed \subseteq Files
  /\ Moves \subseteq (Versions \cup {NoVersion}) \X Versions
  /\ Zero \notin Chunks /\ Junk \notin Chunks /\ NoVersion \notin Versions
  /\ Patient \in BOOLEAN /\ LateChanges \in BOOLEAN /\ MaxRuns \in Nat
  /\ Troubles \subseteq {"failures", "changes", "both"}

VARIABLES
  disk,        \* the files of the game directory
  current,     \* the version whose .manifest is in [Manifests]
  previous,    \* the versions whose .manifest.previous is there
  saved,       \* the checkpoint file; no file is the empty set
  phase,       \* of the call of Download, if any
  done,        \* Checkpoint.CompletedChunks of the running call
  pc,          \* where the worker of each file is
  pending,     \* offsets it has still to fetch
  written,     \* offsets it has written and not yet recorded
  fetching,    \* it found pending chunks
  installed,   \* the version the last call has reported as complete
  trouble,     \* what goes wrong in this behaviour; never changes
  runs

vars == <<disk, current, previous, saved, phase, done, pc, pending, written, fetching, installed, trouble, runs>>
workerVars == <<pc, pending, written, fetching>>

MayFail == trouble \in {"failures", "both"}
MayModify == trouble \in {"changes", "both"} /\ (LateChanges \/ previous = {})

Content == Chunks \cup {Zero, Junk}
Entry(f) == Manifest[current][f]
Key == Files \X Chunks \X Nat

(* chunkKey *)
key(f, i) == <<f, Entry(f)[i], i>>

Exists(f) == disk[f] # NoFile
Size(f) == IF Exists(f) THEN Len(disk[f]) ELSE 0

(* PreallocateFile and the zeros a write beyond the end leaves. *)
Grown(s, n) == [i \in 1..(IF Len(s) < n THEN n ELSE Len(s)) |-> IF i <= Len(s) THEN s[i] ELSE Zero]
Zeros(n) == Grown(<<>>, n)

(* downloadChunk: the hosts are tried in turn until one gives content that has  *)
(* the chunk's SHA1, which is written at the chunk's offset.                     *)
WriteChunk(s, i, c) == [Grown(s, i) EXCEPT ![i] = c]

Init ==
  /\ disk \in [Files -> {NoFile, <<>>, <<Junk>>}]
  /\ current = NoVersion
  /\ previous = {}
  /\ saved = {}
  /\ phase = "idle"
  /\ done = {}
  /\ pc = [f \in Files |-> "waiting"]
  /\ pending = [f \in Files |-> {}]
  /\ written = [f \in Files |-> {}]
  /\ fetching = [f \in Files |-> FALSE]
  /\ installed = NoVersion
  /\ trouble \in Troubles
  /\ runs = 0

-----------------------------------------------------------------------------
(* LoadPreviousManifestFromDir: of the previous manifests the one with the     *)
(* largest number, whichever was installed last.                               *)
PreviousManifest == CHOOSE v \in previous : \A w \in previous : Gid[w] <= Gid[v]

(* DiffDepotManifests: the files that differ from the previous manifest, and    *)
(* for each the identifiers of the chunks that stay at their offset.            *)
DeletedFiles ==
  IF previous = {} THEN {}
  ELSE {f \in Files : Manifest[PreviousManifest][f] # NoFile /\ Entry(f) = NoFile}

IsDelta(f) ==
  /\ previous # {}
  /\ Manifest[PreviousManifest][f] # NoFile
  /\ Manifest[PreviousManifest][f] # Entry(f)

UnchangedIds(f) ==
  LET old == Manifest[PreviousManifest][f]
  IN {Entry(f)[i] : i \in {j \in DOMAIN Entry(f) \cap DOMAIN old : old[j] = Entry(f)[j] /\ j <= Size(f)}}

(* What the user asks for. *)
Asked(v) == <<current, v>> \in Moves /\ (Patient => v = current \/ installed = current)

(* Download, up to the stream: the manifest in [Manifests] that is replaced is *)
(* renamed to .manifest.previous.                                              *)
Begin(v) ==
  /\ phase = "idle" /\ runs < MaxRuns /\ Asked(v)
  /\ phase' = "resolved"
  /\ runs' = runs + 1
  /\ previous' = previous \cup ({current} \ {NoVersion, v})
  /\ current' = v
  /\ installed' = NoVersion
  /\ UNCHANGED <<disk, saved, done, workerVars, trouble>>

(* Download returns before the stream: no manifest can be loaded, or its paths  *)
(* are still encrypted.  The manifests in [Manifests] have changed already.     *)
Refuse ==
  /\ MayFail
  /\ phase = "resolved"
  /\ phase' = "idle"
  /\ UNCHANGED <<disk, current, previous, saved, done, workerVars, installed, runs, trouble>>

(* streamDepotFiles, up to the workers: load the checkpoint, compute the delta  *)
(* and remove the files that the version no longer has.                         *)
Stream ==
  /\ phase = "resolved"
  /\ phase' = "streaming"
  /\ done' = saved
  /\ disk' = [f \in Files |-> IF f \in DeletedFiles THEN NoFile ELSE disk[f]]
  /\ pc' = [f \in Files |-> IF Entry(f) = NoFile THEN "finished" ELSE "waiting"]
  /\ pending' = [f \in Files |-> {}]
  /\ written' = [f \in Files |-> {}]
  /\ fetching' = [f \in Files |-> FALSE]
  /\ UNCHANGED <<current, previous, saved, installed, runs, trouble>>

(* markCompleted saves at most once a second, so any of the records may be the *)
(* one that is saved; the error of saving is dropped.                          *)
MaySave(records) == saved' \in {saved} \cup records

-----------------------------------------------------------------------------
(* processFile for an entry without chunks. *)
WriteEmpty(f) ==
  /\ phase = "streaming" /\ pc[f] = "waiting" /\ Entry(f) = <<>>
  /\ disk' = [disk EXCEPT ![f] = <<>>]
  /\ pc' = [pc EXCEPT ![f] = "finished"]
  /\ UNCHANGED <<current, previous, saved, phase, done, pending, written, fetching, installed, runs, trouble>>

(* Mutant of Credited: the length of the file is enough. *)
CreditedBySize(f) == {i \in DOMAIN Entry(f) : key(f, i) \in done \/ i <= Size(f)}

(* pendingChunks: the chunks that need no fetch, because the checkpoint has     *)
(* them, the delta says their identifier is unchanged, or they are valid where  *)
(* they are on the disk.                                                        *)
Credited(f) ==
  LET canDelta == IsDelta(f) /\ Size(f) > 0
  IN {i \in DOMAIN Entry(f) :
        \/ key(f, i) \in done
        \/ canDelta /\ Entry(f)[i] \in UnchangedIds(f)
        \/ i <= Size(f) /\ disk[f][i] = Entry(f)[i]}

(* Mutant of Plan: the file is opened with O_TRUNC. *)
PlanTruncating(f) ==
  LET recorded(n) == done \cup {key(f, i) : i \in Credited(f) \cap (1..n)}
  IN
  /\ phase = "streaming" /\ pc[f] = "waiting" /\ Entry(f) # <<>>
  /\ disk' = [disk EXCEPT ![f] = Zeros(Len(Entry(f)))]
  /\ done' = recorded(Len(Entry(f)))
  /\ MaySave({recorded(n) : n \in Credited(f)})
  /\ pending' = [pending EXCEPT ![f] = DOMAIN Entry(f) \ Credited(f)]
  /\ fetching' = [fetching EXCEPT ![f] = Credited(f) # DOMAIN Entry(f)]
  /\ pc' = [pc EXCEPT ![f] = "fetching"]
  /\ UNCHANGED <<current, previous, phase, written, installed, runs, trouble>>

(* processFile and downloadChunked up to the fetch: the file is opened, and     *)
(* extended unless it is patched, and every chunk that is credited is recorded. *)
Plan(f) ==
  LET canDelta == IsDelta(f) /\ Size(f) > 0
      old == IF Exists(f) THEN disk[f] ELSE <<>>
      recorded(n) == done \cup {key(f, i) : i \in Credited(f) \cap (1..n)}
  IN
  /\ phase = "streaming" /\ pc[f] = "waiting" /\ Entry(f) # <<>>
  /\ disk' = [disk EXCEPT ![f] = IF canDelta THEN old ELSE Grown(old, Len(Entry(f)))]
  /\ done' = recorded(Len(Entry(f)))
  /\ MaySave({recorded(n) : n \in Credited(f)})
  /\ pending' = [pending EXCEPT ![f] = DOMAIN Entry(f) \ Credited(f)]
  /\ fetching' = [fetching EXCEPT ![f] = Credited(f) # DOMAIN Entry(f)]
  /\ pc' = [pc EXCEPT ![f] = "fetching"]
  /\ UNCHANGED <<current, previous, phase, written, installed, runs, trouble>>

(* fetchChunks, one of its goroutines: the chunk is fetched and written. *)
Fetch(f, i) ==
  /\ phase = "streaming" /\ pc[f] \in {"fetching", "refetching"} /\ i \in pending[f]
  /\ pending' = [pending EXCEPT ![f] = @ \ {i}]
  /\ written' = [written EXCEPT ![f] = @ \cup {i}]
  /\ disk' = [disk EXCEPT ![f] = WriteChunk(@, i, Entry(f)[i])]
  /\ UNCHANGED <<current, previous, saved, phase, done, pc, fetching, installed, runs, trouble>>

(* Mutant of Mark: markCompleted keeps its lock when it could not save. *)
MarkLocked(f, i) ==
  /\ phase = "streaming" /\ i \in written[f] /\ saved = done
  /\ written' = [written EXCEPT ![f] = @ \ {i}]
  /\ done' = done \cup {key(f, i)}
  /\ MaySave({done'})
  /\ UNCHANGED <<disk, current, previous, phase, pc, pending, fetching, installed, runs, trouble>>

(* fetchChunks, the same goroutine: the chunk is recorded. *)
Mark(f, i) ==
  /\ phase = "streaming" /\ i \in written[f]
  /\ written' = [written EXCEPT ![f] = @ \ {i}]
  /\ done' = done \cup {key(f, i)}
  /\ IF key(f, i) \in done THEN saved' = saved ELSE MaySave({done'})
  /\ UNCHANGED <<disk, current, previous, phase, pc, pending, fetching, installed, runs, trouble>>

(* Mutant of Finalize: a file that was longer keeps its tail. *)
FinalizeUncut(f) ==
  /\ phase = "streaming" /\ pc[f] = "fetching" /\ pending[f] = {} /\ written[f] = {}
  /\ pc' = [pc EXCEPT ![f] = "finished"]
  /\ UNCHANGED <<disk, current, previous, saved, phase, done, pending, written, fetching, installed, runs, trouble>>

(* downloadChunked after the fetch: cut the file to its size and, if anything   *)
(* was fetched, compare its SHA1; a mismatch leads to a full redownload.        *)
Finalize(f) ==
  LET cut == SubSeq(Grown(disk[f], Len(Entry(f))), 1, Len(Entry(f)))
      mismatch == f \in Hashed /\ fetching[f] /\ cut # Entry(f)
  IN
  /\ phase = "streaming" /\ pc[f] = "fetching" /\ pending[f] = {} /\ written[f] = {}
  /\ disk' = [disk EXCEPT ![f] = cut]
  /\ pc' = [pc EXCEPT ![f] = IF mismatch THEN "mismatch" ELSE "finished"]
  /\ UNCHANGED <<current, previous, saved, phase, done, pending, written, fetching, installed, runs, trouble>>

(* redownloadFull: the file starts again from nothing. *)
Redownload(f) ==
  /\ phase = "streaming" /\ pc[f] = "mismatch"
  /\ disk' = [disk EXCEPT ![f] = Zeros(Len(Entry(f)))]
  /\ pending' = [pending EXCEPT ![f] = DOMAIN Entry(f)]
  /\ pc' = [pc EXCEPT ![f] = "refetching"]
  /\ UNCHANGED <<current, previous, saved, phase, done, written, fetching, installed, runs, trouble>>

(* redownloadFull after the fetch; every chunk has been fetched and checked, so *)
(* the SHA1 agrees.                                                             *)
Redownloaded(f) ==
  /\ phase = "streaming" /\ pc[f] = "refetching" /\ pending[f] = {} /\ written[f] = {}
  /\ disk[f] = Entry(f)
  /\ pc' = [pc EXCEPT ![f] = "finished"]
  /\ UNCHANGED <<disk, current, previous, saved, phase, done, pending, written, fetching, installed, runs, trouble>>

(* A worker gives up: no host has the chunk, the user cancels, the disk is full, *)
(* or another worker's error has cancelled the context.  Chunks that are being   *)
(* written are recorded first, because cg.Wait waits for them.                   *)
Fail(f) ==
  /\ MayFail
  /\ phase = "streaming" /\ pc[f] \notin {"finished", "failed"} /\ written[f] = {}
  /\ pc' = [pc EXCEPT ![f] = "failed"]
  /\ UNCHANGED <<disk, current, previous, saved, phase, done, pending, written, fetching, installed, runs, trouble>>

(* Every worker is done: the checkpoint file is removed. *)
Complete ==
  /\ phase = "streaming" /\ \A f \in Files : pc[f] = "finished"
  /\ phase' = "idle"
  /\ saved' = {}
  /\ done' = {}
  /\ installed' = current
  /\ UNCHANGED <<disk, current, previous, workerVars, runs, trouble>>

(* Some worker failed: the deferred Flush saves the checkpoint, or cannot. *)
Abort ==
  /\ phase = "streaming" /\ \A f \in Files : pc[f] \in {"finished", "failed"}
  /\ \E f \in Files : pc[f] = "failed"
  /\ phase' = "idle"
  /\ MaySave({done})
  /\ done' = {}
  /\ UNCHANGED <<disk, current, previous, workerVars, installed, runs, trouble>>

(* The program is killed; what was written stays. *)
Kill ==
  /\ MayFail
  /\ phase # "idle"
  /\ phase' = "idle"
  /\ done' = {}
  /\ pc' = [f \in Files |-> "waiting"]
  /\ UNCHANGED <<disk, current, previous, saved, pending, written, fetching, installed, runs, trouble>>

(* The game, a mod or another tool overwrites a part of an installed file. *)
Modify(f) ==
  /\ MayModify
  /\ phase = "idle" /\ installed # NoVersion /\ Exists(f)
  /\ \E i \in DOMAIN disk[f] : disk' = [disk EXCEPT ![f][i] = Junk]
  /\ UNCHANGED <<current, previous, saved, phase, done, workerVars, installed, runs, trouble>>

Worker(f) ==
  \/ WriteEmpty(f) \/ Plan(f) \/ Finalize(f) \/ Redownload(f) \/ Redownloaded(f)
  \/ \E i \in pending[f] : Fetch(f, i)
  \/ \E i \in written[f] : Mark(f, i)

Next ==
  \/ \E v \in Versions : Begin(v)
  \/ Refuse \/ Stream \/ Complete \/ Abort \/ Kill
  \/ \E f \in Files : Worker(f) \/ Fail(f) \/ Modify(f)

Spec == Init /\ [][Next]_vars

(* A call of Download goes on unless it is killed; workers are goroutines that  *)
(* are always ready or wait for a request that has a time limit.                *)
Fairness ==
  /\ WF_vars(Stream) /\ WF_vars(Complete) /\ WF_vars(Abort)
  /\ \A f \in Files : WF_vars(Worker(f))

FairSpec == Spec /\ Fairness

-----------------------------------------------------------------------------
(* Every variable of Download, its workers and its files keeps its type. *)
TypeOK ==
  /\ disk \in [Files -> Seq(Content) \cup {NoFile}]
  /\ current \in Versions \cup {NoVersion}
  /\ previous \subseteq Versions
  /\ saved \subseteq Key /\ done \subseteq Key
  /\ phase \in {"idle", "resolved", "streaming"}
  /\ pc \in [Files -> {"waiting", "fetching", "mismatch", "refetching", "finished", "failed"}]
  /\ pending \in [Files -> SUBSET Nat] /\ written \in [Files -> SUBSET Nat]
  /\ fetching \in [Files -> BOOLEAN]
  /\ installed \in Versions \cup {NoVersion}
  /\ trouble \in Troubles
  /\ runs \in 0..MaxRuns

(* A call of Download that reports success has brought the directory to the     *)
(* version exactly: every file of the manifest has the manifest's content, and   *)
(* no file is left that an earlier version had and this one has not.             *)
Faithful ==
  [][phase = "streaming" /\ phase' = "idle" /\ installed' # NoVersion =>
       \A f \in Files :
         \/ disk'[f] = Manifest[installed'][f]
         \/ \A v \in Versions : Manifest[v][f] = NoFile]_vars

(* What the checkpoint records of the version is on the disk, in the file of an  *)
(* aborted or killed run as well as in memory: a resumed run may trust it as long *)
(* as nobody else changes the files.                                              *)
CheckpointSound ==
  trouble = "failures" /\ current # NoVersion => \A f \in Files : Entry(f) # NoFile =>
    \A i \in DOMAIN Entry(f) :
      key(f, i) \in saved \cup done => Exists(f) /\ i <= Len(disk[f]) /\ disk[f][i] = Entry(f)[i]

(* "If zero chunks were fetched, the chunks on disk were already verified": a     *)
(* file that is accepted without a fetch, and so without the SHA1, is right.      *)
ZeroPendingVerified ==
  phase = "streaming" => \A f \in Files :
    pc[f] = "finished" /\ ~fetching[f] /\ Entry(f) # NoFile => disk[f] = Entry(f)

(* What a run takes for downloaded without reading it is downloaded: entries of   *)
(* the checkpoint and chunks of the previous manifest (pendingChunks).            *)
BelievedIsTrue == CheckpointSound /\ ZeroPendingVerified

(* A call of Download ends. *)
DownloadEnds == phase # "idle" ~> phase = "idle"

=============================================================================
