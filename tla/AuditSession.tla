----------------------------- MODULE AuditSession -----------------------------
(***************************************************************************)
(* How the audit session keeps its analyses current: the full index of     *)
(* src/src/audit-session.js with its queue of changes made meanwhile, live *)
(* edits, and the synchronisation of disk changes                          *)
(* (src/src/analysis/workspace-file-sync.js) that the queue of             *)
(* WorkspaceFileMonitor drives.  All three send requests to one worker,    *)
(* which answers them in order; an update supersedes the update of the     *)
(* same file that is not answered yet.                                     *)
(*                                                                         *)
(* A step is what runs between two awaits.  Contents are versions, 0 for a *)
(* file that is absent, an editor that is clean, or no analysis.           *)
(***************************************************************************)
EXTENDS Naturals, Sequences, FiniteSets

CONSTANTS
    File,
    MaxPending,   \* of the monitor
    LiveIndex,    \* the setting traceguard.liveIndex
    MaxClock,     \* bound: versions of contents
    MaxIndexes    \* bound: full indexes the user asks for

ASSUME LiveIndexIsBoolean == LiveIndex \in BOOLEAN
ASSUME FileIsFinite == IsFiniteSet(File)
ASSUME MaxPendingIsPositive == MaxPending \in Nat \ {0}
ASSUME BoundsAreNatural == MaxClock \in Nat \ {0} /\ MaxIndexes \in Nat

VARIABLES
    disk, editor, clock,
    events,      \* files whose change the watcher has yet to report
    live,        \* last text of each document whose live-edit timer is armed
    \* the monitor
    changes, rescan, timer, running, batch, disposed, pending, owed, taken, failed,
    \* the session
    analysed,    \* what each analysis was made from
    built,       \* workspaceIndexBuilt
    phase,       \* what the index stage shows
    step,        \* where _indexWorkspace is
    toRead, snapshot, dirtyQueue, replay,
    sync,        \* where synchronizeWorkspaceChanges is
    worker,      \* requests not answered yet
    indexes,
    orphans,     \* history: text of an editor analysed once the file was gone
    overwritten  \* history: put back by a removal, or by a late read

Mon == INSTANCE WorkspaceFileMonitor WITH Path <- File

world == <<disk, editor, clock, events, live>>
monitor == <<changes, rescan, timer, running, batch, disposed, pending, owed, taken, failed>>
session == <<analysed, orphans, overwritten>>
index == <<built, phase, step, toRead, snapshot>>
vars == <<world, monitor, session, index, dirtyQueue, replay, sync, worker, indexes>>

NoFile == "no file"
Nothing == [f \in File |-> 0]
Change == [kind : {"none", "file", "document", "delete"}, text : 0..MaxClock]
NoChange == [kind |-> "none", text |-> 0]
NoChanges == [f \in File |-> NoChange]
NoTask == [pc |-> "idle", todo |-> {}, file |-> NoFile, kept |-> Nothing]

Init ==
    /\ disk \in [File -> {0, 1}] /\ editor = Nothing /\ clock = 1
    /\ events = {} /\ live = Nothing
    /\ Mon!Init
    /\ analysed = Nothing /\ orphans = {} /\ overwritten = {} /\ built = FALSE /\ phase = "none"
    /\ step = "idle" /\ toRead = {} /\ snapshot = Nothing
    /\ dirtyQueue = NoChanges /\ replay = NoTask
    /\ sync = NoTask
    /\ worker = <<>>
    /\ indexes = 0

Text(f) == IF editor[f] /= 0 THEN editor[f] ELSE disk[f]

(* An index is under way, and with it its queue of changes is open.        *)
Indexing == step /= "idle"

(* isActive: before the first index the monitor drops what it is told.     *)
(* (Or during it as well.)                                                 *)
ActiveOnceAnalysed == built \/ \E f \in File : analysed[f] /= 0
Active == built \/ Indexing \/ \E f \in File : analysed[f] /= 0

Notify(f) == IF Active THEN Mon!Enqueue(f) ELSE UNCHANGED monitor

-----------------------------------------------------------------------------
(* Requests to the worker.                                                 *)

Updates(f) == {i \in DOMAIN worker : worker[i].kind = "update" /\ worker[i].file = f}
Superseded(f) == {worker[i].by : i \in Updates(f)}

Request(kind, f, text, by) == [kind |-> kind, file |-> f, text |-> text, by |-> by]

(* There is at most one update of a file, which the next supersedes.       *)
WithoutUpdate(f) ==
    IF Updates(f) = {} THEN worker
    ELSE LET i == CHOOSE i \in Updates(f) : TRUE
         IN  SubSeq(worker, 1, i - 1) \o SubSeq(worker, i + 1, Len(worker))

(* _replaceAnalysis, up to the await.                                      *)
PostUpdate(f, text, by) ==
    worker' = Append(WithoutUpdate(f), Request("update", f, text, by))

SyncFails == sync' = NoTask /\ Mon!BatchFails

(* A superseded request fails the synchronisation that awaits it; a replay *)
(* or a live edit logs and goes on.                                        *)
PostLive(f, text) ==
    /\ PostUpdate(f, text, "live")
    /\ IF "sync" \in Superseded(f) THEN SyncFails ELSE UNCHANGED <<sync, monitor>>
    /\ replay' = IF "replay" \in Superseded(f) THEN [replay EXCEPT !.pc = "next"] ELSE replay

PostReplay(task, f, text) ==
    /\ PostUpdate(f, text, "replay")
    /\ replay' = [task EXCEPT !.pc = "posted", !.file = f]
    /\ IF "sync" \in Superseded(f) THEN SyncFails ELSE UNCHANGED <<sync, monitor>>

PostSync(task, f, text) ==
    /\ PostUpdate(f, text, "sync")
    /\ sync' = [task EXCEPT !.pc = "posted", !.file = f]
    /\ replay' = IF "replay" \in Superseded(f) THEN [replay EXCEPT !.pc = "next"] ELSE replay

(* removeFiles: the analyses to keep, or to put back should the worker     *)
(* fail, are those before the two awaits.                                  *)
Removing(task, f) == [task EXCEPT !.pc = "removing", !.file = f, !.kept = analysed]
Without(task) == [task.kept EXCEPT ![task.file] = 0]

PostRemove(f, by) == worker' = Append(worker, Request("remove", f, 0, by))

(* _queueIndexChange                                                       *)
Queue(f, kind, text) ==
    dirtyQueue' = [dirtyQueue EXCEPT ![f] = [kind |-> kind, text |-> text]]

-----------------------------------------------------------------------------
(* The world.  A clean document follows the disk, and outlives its file.   *)

(* _onChanged: queued at once by an index under way, else after a delay,   *)
(* if the setting says so.                                                 *)
Edit(f) ==
    /\ Text(f) /= 0 /\ clock < MaxClock
    /\ clock' = clock + 1
    /\ editor' = [editor EXCEPT ![f] = clock']
    /\ IF Indexing
       THEN /\ Queue(f, "document", clock')
            /\ UNCHANGED live
       ELSE /\ live' = IF LiveIndex THEN [live EXCEPT ![f] = clock'] ELSE live
            /\ UNCHANGED dirtyQueue
    /\ UNCHANGED <<disk, events, monitor, session, index, replay, sync, worker,
                   indexes>>

LiveTimer(f) ==
    /\ live[f] /= 0
    /\ live' = [live EXCEPT ![f] = 0]
    /\ LET text == IF Text(f) = 0 THEN live[f] ELSE Text(f)
       IN  IF Indexing
           THEN Queue(f, "document", text) /\ UNCHANGED <<worker, replay, sync, monitor>>
           ELSE PostLive(f, text) /\ UNCHANGED dirtyQueue
    /\ UNCHANGED <<disk, editor, clock, events, session, index, indexes>>

(* _onSaved, and the watcher will report the file as well.                 *)
Save(f) ==
    /\ editor[f] /= 0
    /\ disk' = [disk EXCEPT ![f] = editor[f]]
    /\ editor' = [editor EXCEPT ![f] = 0]
    /\ events' = events \union {f}
    /\ \/ /\ Active
          /\ Notify(f)
          /\ UNCHANGED <<live, worker, replay, sync>>
       \/ /\ ~Active
          /\ PostLive(f, editor[f])
          /\ live' = [live EXCEPT ![f] = 0]
    /\ UNCHANGED <<clock, session, index, dirtyQueue, indexes>>

(* A checkout, a build, another program: the file changes or goes.         *)
External(f) ==
    /\ clock < MaxClock
    /\ clock' = clock + 1
    /\ \E version \in {clock', 0} \ {disk[f]} : disk' = [disk EXCEPT ![f] = version]
    /\ events' = events \union {f}
    /\ UNCHANGED <<editor, live, monitor, session, index, dirtyQueue, replay, sync,
                   worker, indexes>>

Watch(f) ==
    /\ f \in events
    /\ events' = events \ {f}
    /\ Notify(f)
    /\ UNCHANGED <<disk, editor, clock, live, session, index, dirtyQueue, replay, sync,
                   worker, indexes>>

-----------------------------------------------------------------------------
(* The full index.                                                         *)

BeginIndex ==
    /\ step' = "reading" /\ phase' = "indexing"
    /\ toRead' = {f \in File : disk[f] /= 0}
    /\ snapshot' = Nothing
    /\ dirtyQueue' = NoChanges
    /\ UNCHANGED built

(* indexWorkspace, by the user; while one is under way it is joined.       *)
(* Between two awaits the batch under way is not interrupted.              *)
StartIndex ==
    /\ ~Indexing /\ sync.pc \notin {"wait", "next"} /\ indexes < MaxIndexes
    /\ indexes' = indexes + 1
    /\ BeginIndex
    /\ UNCHANGED <<world, monitor, session, replay, sync, worker>>

(* A file that vanished since it was found is skipped.                     *)
ReadFile(f) ==
    /\ step = "reading" /\ f \in toRead
    /\ toRead' = toRead \ {f}
    /\ snapshot' = [snapshot EXCEPT ![f] = Text(f)]
    /\ UNCHANGED <<world, monitor, session, built, phase, step, dirtyQueue, replay, sync,
                   worker, indexes>>

PostIndex ==
    /\ step = "reading" /\ toRead = {}
    /\ step' = "analyzing"
    /\ worker' = Append(worker, Request("initialize", NoFile, 0, "index"))
    /\ replay' = [NoTask EXCEPT !.kept = analysed]
    /\ UNCHANGED <<world, monitor, session, built, phase, toRead, snapshot, dirtyQueue, sync,
                   indexes>>

(* The end of _indexWorkspace closes the queue, whatever it holds.         *)
EndIndex ==
    /\ step' = "idle"
    /\ toRead' = {}
    /\ dirtyQueue' = NoChanges
    /\ UNCHANGED <<snapshot, built>>

(* The user cancels while files are read: the previous index is kept.  The *)
(* index of a batch has no cancellation token.                             *)
CancelIndex ==
    /\ step = "reading" /\ sync.pc /= "index"
    /\ phase' = "cancelled"
    /\ EndIndex
    /\ UNCHANGED <<world, monitor, session, replay, sync, worker, indexes>>

(* cancelActive, while the worker analyses: the worker is stopped, and all *)
(* that await it fail.                                                     *)
CancelAnalysis ==
    /\ step = "analyzing" /\ sync.pc /= "index"
    /\ worker' = <<>>
    /\ phase' = "cancelled"
    /\ analysed' \in {replay.kept} \union
                     {sync.kept : x \in {sync.pc} \intersect {"removing", "reanalyzing"}}
    /\ replay' = NoTask /\ UNCHANGED <<orphans, overwritten>>
    /\ EndIndex
    /\ IF \E i \in DOMAIN worker : worker[i].by = "sync"
       THEN SyncFails
       ELSE UNCHANGED <<sync, monitor>>
    /\ UNCHANGED <<world, indexes>>

(* The worker answers the index with an error: the analyses before it are  *)
(* put back, and whoever awaits indexPromise fails too.                    *)
IndexFails ==
    /\ worker /= <<>> /\ Head(worker).kind = "initialize"
    /\ worker' = Tail(worker)
    /\ phase' = "failed"
    /\ analysed' = replay.kept /\ replay' = NoTask /\ UNCHANGED <<orphans, overwritten>>
    /\ EndIndex
    /\ IF sync.pc \in {"wait", "index"} THEN SyncFails ELSE UNCHANGED <<sync, monitor>>
    /\ UNCHANGED <<world, indexes>>

(* The unsaved documents join the queue, over what it holds of them.  (Or  *)
(* are forgotten.)                                                         *)
QueueAsItIs == dirtyQueue
QueueWithOpenDirtyDocuments ==
    [f \in File |-> IF editor[f] /= 0 THEN [kind |-> "document", text |-> editor[f]]
                                      ELSE dirtyQueue[f]]

IndexAnalysed ==
    /\ worker /= <<>> /\ Head(worker).kind = "initialize"
    /\ worker' = Tail(worker)
    /\ analysed' = snapshot /\ overwritten' = {} /\ UNCHANGED orphans
    /\ built' = TRUE
    /\ dirtyQueue' = QueueWithOpenDirtyDocuments
    /\ step' = "replaying"
    /\ replay' = [NoTask EXCEPT !.pc = "next"]
    /\ UNCHANGED <<world, monitor, phase, toRead, snapshot, sync, indexes>>

-----------------------------------------------------------------------------
(* _replayIndexDirtyQueue: batch after batch until the queue is empty.     *)

Queued == {f \in File : dirtyQueue[f] /= NoChange}

QueueTaken == NoChanges

ReplayTake ==
    /\ replay.pc = "next" /\ replay.todo = {} /\ Queued /= {}
    /\ replay' = [replay EXCEPT !.todo =
                    {[file |-> f, change |-> dirtyQueue[f]] : f \in Queued}]
    /\ dirtyQueue' = QueueTaken
    /\ UNCHANGED <<world, monitor, session, index, sync, worker, indexes>>

Replayed(item) == [replay EXCEPT !.todo = @ \ {item}]

ReplayChange ==
    /\ replay.pc = "next"
    /\ \E item \in replay.todo :
         LET f == item.file
             change == item.change
         IN  \/ /\ change.kind = "delete" /\ analysed[f] = 0
                /\ replay' = Replayed(item)
                /\ UNCHANGED <<worker, sync, monitor>>
             \/ /\ change.kind = "delete" /\ analysed[f] /= 0
                /\ replay' = Removing(Replayed(item), f)
                /\ PostRemove(f, "replay")
                /\ UNCHANGED <<sync, monitor>>
             \/ /\ change.kind = "document"
                /\ PostReplay(Replayed(item), f, change.text)
             \/ /\ change.kind = "file"
                /\ replay' = [Replayed(item) EXCEPT !.pc = "reading", !.file = f]
                /\ UNCHANGED <<worker, sync, monitor>>
    /\ UNCHANGED <<world, session, index, dirtyQueue, indexes>>

(* A read that finds unsaved text since typed will replace its analysis.   *)
LateRead(f) == overwritten' = IF editor[f] = 0 THEN overwritten ELSE overwritten \union {f}

(* A file that cannot be read is logged and passed over, with the unsaved  *)
(* text whose place in the queue it took.                                  *)
ReplayRead ==
    /\ replay.pc = "reading"
    /\ LateRead(replay.file)
    /\ IF disk[replay.file] = 0
       THEN /\ replay' = [replay EXCEPT !.pc = "next"]
            /\ UNCHANGED <<worker, sync, monitor>>
       ELSE PostReplay(replay, replay.file, disk[replay.file])
    /\ UNCHANGED <<world, analysed, orphans, index, dirtyQueue, indexes>>

(* The stage turns ready, and the stale mark is taken off; the review      *)
(* decisions are then reconciled.                                          *)
IndexReady ==
    /\ replay.pc = "next" /\ replay.todo = {} /\ Queued = {}
    /\ phase' = "ready" /\ step' = "reconciling"
    /\ pending' = FALSE
    /\ replay' = NoTask
    /\ UNCHANGED <<world, changes, rescan, timer, running, batch, disposed, owed, taken, failed,
                   session, built, toRead, snapshot, dirtyQueue, sync, worker, indexes>>

Reconciled ==
    /\ step = "reconciling"
    /\ EndIndex
    /\ UNCHANGED <<world, monitor, session, phase, replay, sync, worker, indexes>>

-----------------------------------------------------------------------------
(* synchronizeWorkspaceChanges.                                            *)

(* A batch was taken, or not.                                              *)
NextBatch ==
    sync' = IF running' THEN [NoTask EXCEPT !.pc = "wait", !.todo = batch'.changes] ELSE NoTask

MonitorFlush ==
    /\ Mon!Flush
    /\ IF running THEN UNCHANGED sync ELSE NextBatch
    /\ UNCHANGED <<world, session, index, dirtyQueue, replay, worker, indexes>>

SyncBegin ==
    /\ sync.pc = "wait" /\ ~Indexing
    /\ IF batch.rescan
       THEN /\ BeginIndex
            /\ sync' = [sync EXCEPT !.pc = "index"]
       ELSE /\ sync' = [sync EXCEPT !.pc = "next"]
            /\ UNCHANGED <<index, dirtyQueue>>
    /\ UNCHANGED <<world, monitor, session, replay, worker, indexes>>

SyncIndexed ==
    /\ sync.pc = "index" /\ ~Indexing
    /\ IF phase = "ready" THEN Mon!BatchSucceeds /\ NextBatch ELSE SyncFails
    /\ UNCHANGED <<world, session, index, dirtyQueue, replay, worker, indexes>>

Synced(f) == [sync EXCEPT !.todo = @ \ {f}]

(* The next file: unsaved text wins, any other file is looked up.          *)
SyncFile ==
    /\ sync.pc = "next"
    /\ \E f \in sync.todo :
         \/ /\ editor[f] /= 0 /\ Indexing
            /\ Queue(f, "document", editor[f])
            /\ sync' = Synced(f)
            /\ UNCHANGED <<worker, replay>>
         \/ /\ editor[f] /= 0 /\ ~Indexing
            /\ PostSync(Synced(f), f, editor[f])
            /\ UNCHANGED dirtyQueue
         \/ /\ editor[f] = 0
            /\ sync' = [Synced(f) EXCEPT !.pc = "lookup", !.file = f]
            /\ UNCHANGED <<worker, dirtyQueue, replay>>
    /\ UNCHANGED <<world, monitor, session, index, indexes>>

(* A missing file is removed, any other is read again; an index that began *)
(* meanwhile is handed the change.                                         *)
SyncLookup ==
    /\ sync.pc = "lookup"
    /\ LET f == sync.file
           done == [sync EXCEPT !.pc = "next"]
       IN  \/ /\ disk[f] = 0 /\ analysed[f] = 0
              /\ sync' = done
              /\ UNCHANGED <<worker, dirtyQueue>>
           \/ /\ disk[f] = 0 /\ analysed[f] /= 0 /\ Indexing
              /\ Queue(f, "delete", 0)
              /\ sync' = done
              /\ UNCHANGED worker
           \/ /\ disk[f] = 0 /\ analysed[f] /= 0 /\ ~Indexing
              /\ PostRemove(f, "sync")
              /\ sync' = Removing(sync, f)
              /\ UNCHANGED dirtyQueue
           \/ /\ disk[f] /= 0 /\ Indexing
              /\ Queue(f, "file", 0)
              /\ sync' = done
              /\ UNCHANGED worker
           \/ /\ disk[f] /= 0 /\ ~Indexing
              /\ sync' = [sync EXCEPT !.pc = "reading"]
              /\ UNCHANGED <<worker, dirtyQueue>>
    /\ UNCHANGED <<world, monitor, session, index, replay, indexes>>

(* reindexFile read the file: what it holds goes to the worker, whatever   *)
(* happened while it was read.                                             *)
SyncRead ==
    /\ sync.pc = "reading"
    /\ IF disk[sync.file] = 0
       THEN SyncFails /\ UNCHANGED <<worker, replay, overwritten>>
       ELSE /\ PostSync(sync, sync.file, disk[sync.file])
            /\ LateRead(sync.file)
            /\ UNCHANGED monitor
    /\ UNCHANGED <<world, analysed, orphans, index, dirtyQueue, indexes>>

SyncDone ==
    /\ sync.pc = "next" /\ sync.todo = {}
    /\ Mon!BatchSucceeds
    /\ NextBatch
    /\ UNCHANGED <<world, session, index, dirtyQueue, replay, worker, indexes>>

-----------------------------------------------------------------------------
(* The worker answers the oldest request.                                  *)

Resume(by, pc) ==
    /\ sync' = IF by = "sync" THEN [sync EXCEPT !.pc = pc] ELSE sync
    /\ replay' = IF by = "replay" THEN [replay EXCEPT !.pc = pc] ELSE replay

AnswerUpdate ==
    /\ worker /= <<>> /\ Head(worker).kind = "update"
    /\ worker' = Tail(worker)
    /\ LET f == Head(worker).file
       IN  /\ analysed' = [analysed EXCEPT ![f] = Head(worker).text]
           /\ overwritten' = IF Head(worker).text = Text(f) THEN overwritten \ {f}
                             ELSE overwritten
           /\ orphans' = IF disk[f] = 0 /\ Head(worker).by /= "sync"
                         THEN orphans \union {f} ELSE orphans \ {f}
    /\ Resume(Head(worker).by, "next")
    /\ UNCHANGED <<world, monitor, index, dirtyQueue, indexes>>

AnswerRemove ==
    /\ worker /= <<>> /\ Head(worker).kind = "remove"
    /\ worker' = Append(Tail(worker), Request("reanalyze", NoFile, 0, Head(worker).by))
    /\ Resume(Head(worker).by, "reanalyzing")
    /\ UNCHANGED <<world, monitor, session, index, dirtyQueue, indexes>>

AnswerReanalyze ==
    /\ worker /= <<>> /\ Head(worker).kind = "reanalyze"
    /\ worker' = Tail(worker)
    /\ LET task == IF Head(worker).by = "sync" THEN sync ELSE replay
           Gone == {f \in {task.file} : Text(f) = 0}
           PutBack == {f \in File \ Gone : Without(task)[f] /= analysed[f]}
       IN  /\ analysed' = Without(task)
           /\ overwritten' = (overwritten \ Gone) \union PutBack
           /\ orphans' = orphans \ {task.file}
    /\ Resume(Head(worker).by, "next")
    /\ UNCHANGED <<world, monitor, index, dirtyQueue, indexes>>

Next ==
    \/ \E f \in File :
          Edit(f) \/ LiveTimer(f) \/ Save(f) \/ External(f) \/ Watch(f) \/ ReadFile(f)
    \/ StartIndex \/ PostIndex \/ CancelIndex \/ CancelAnalysis \/ IndexFails \/ IndexAnalysed
    \/ ReplayTake \/ ReplayChange \/ ReplayRead \/ IndexReady \/ Reconciled
    \/ MonitorFlush \/ SyncBegin \/ SyncIndexed \/ SyncFile \/ SyncLookup \/ SyncRead \/ SyncDone
    \/ AnswerUpdate \/ AnswerRemove \/ AnswerReanalyze

Spec == Init /\ [][Next]_vars

(* What needs neither the user nor a failure.                              *)
Progress ==
    \/ \E f \in File : LiveTimer(f) \/ Watch(f) \/ ReadFile(f)
    \/ PostIndex \/ IndexAnalysed
    \/ ReplayTake \/ ReplayChange \/ ReplayRead \/ IndexReady \/ Reconciled
    \/ MonitorFlush \/ SyncBegin \/ SyncIndexed \/ SyncFile \/ SyncLookup \/ SyncRead
    \/ SyncDone
    \/ AnswerUpdate \/ AnswerRemove \/ AnswerReanalyze

(* Timers fire, reads end, and the worker answers what it is sent.         *)
FairSpec == Spec /\ WF_vars(Progress)
-----------------------------------------------------------------------------
Task(pcs) == [pc : pcs, todo : SUBSET [file : File, change : Change],
              file : File \union {NoFile}, kept : [File -> 0..MaxClock]]

(* The queue of the monitor stays bounded, and the worker never holds two  *)
(* updates of one file.                                                    *)
TypeOK ==
    /\ {disk, editor, live, analysed, snapshot} \subseteq [File -> 0..MaxClock]
    /\ clock \in 1..MaxClock /\ indexes \in 0..MaxIndexes
    /\ events \in SUBSET File /\ toRead \in SUBSET File
    /\ orphans \in SUBSET File /\ overwritten \in SUBSET File
    /\ Mon!TypeOK
    /\ built \in BOOLEAN
    /\ phase \in {"none", "indexing", "ready", "cancelled", "failed"}
    /\ step \in {"idle", "reading", "analyzing", "replaying", "reconciling"}
    /\ dirtyQueue \in [File -> Change]
    /\ replay \in Task({"idle", "next", "reading", "posted", "removing", "reanalyzing"})
    /\ sync.pc \in {"idle", "wait", "index", "next", "lookup", "reading", "posted",
                    "removing", "reanalyzing"}
    /\ sync.todo \in SUBSET File /\ running = (sync.pc /= "idle")
    /\ \A f \in File : Cardinality(Updates(f)) <= 1

AtRest ==
    /\ events = {} /\ live = Nothing /\ ~timer /\ ~running
    /\ ~Indexing /\ worker = <<>>

Current(f) == editor[f] = 0 => analysed[f] = disk[f]

(* Once indexed, at rest, and with no failed synchronisation left to       *)
(* repeat, every saved file's analysis is of what the disk holds, and a    *)
(* deleted file has none, whatever index, replay, synchronisation, live    *)
(* edits and changes overlapped on the way.  Excepted are a deleted file   *)
(* whose document was analysed after the file was gone, and a file whose   *)
(* analysis a removal put back to what it was before the removal began, or *)
(* a read of the disk replaced that came after a later text.               *)
SavedFilesCurrent ==
    (AtRest /\ phase = "ready" /\ owed = {}) =>
        \A f \in File \ (orphans \union overwritten) : Current(f)

(* When an index turns ready, what it analysed of an unsaved document is   *)
(* its text of that moment, edits made during the index included, unless a *)
(* removal took its analysis away, or a late read of the disk its place.   *)
UnsavedTextIndexed ==
    [][phase /= "ready" /\ phase' = "ready" =>
         \A f \in File \ overwritten : editor[f] /= 0 => analysed[f] = editor[f]]_vars

(* Every index ends: nothing it waits for waits for it, and the replay     *)
(* empties its queue.                                                      *)
EveryIndexEnds == Indexing ~> ~Indexing

(* The stale mark is taken off in the end, or a synchronisation failed and *)
(* nothing happened since.                                                 *)
StaleMarkEnds == pending ~> (~pending \/ failed)

(* No stale mark, no stale analysis: a label the user can trust, even when *)
(* a synchronisation failed before an index ended.                         *)
StaleResultsLabelled ==
    (AtRest /\ phase = "ready" /\ ~pending) =>
        \A f \in File \ (orphans \union overwritten) : Current(f)

(* ... even when a file was removed while the index was under way.         *)
ReadyIndexCurrent ==
    (AtRest /\ phase = "ready" /\ ~pending /\ owed = {}) =>
        \A f \in File \ orphans : Current(f)

(* When an index turns ready, what it analysed of every unsaved document   *)
(* is its text of that moment: no synchronisation that read the disk       *)
(* meanwhile has replaced it.                                              *)
UnsavedTextWins ==
    [][phase /= "ready" /\ phase' = "ready" =>
         \A f \in File : editor[f] /= 0 => analysed[f] = editor[f]]_vars
=============================================================================
