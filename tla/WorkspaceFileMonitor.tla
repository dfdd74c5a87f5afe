------------------------ MODULE WorkspaceFileMonitor ------------------------
(***************************************************************************)
(* The bounded, debounced and serialized queue of disk changes             *)
(* (src/src/analysis/workspace-file-monitor.js).                           *)
(*                                                                         *)
(* Changes are keyed by path, so that only the last of a path is kept; a   *)
(* queue that outgrows MaxPending is replaced by one request to rescan     *)
(* everything.  A timer, re-armed by every change, starts a drain; a drain *)
(* hands batch after batch to onBatch, which is asynchronous and may fail, *)
(* until nothing is left.                                                  *)
(*                                                                         *)
(* Path are the paths isRelevant accepts: any other is dropped by enqueue  *)
(* before it touches the queue.                                            *)
(***************************************************************************)
EXTENDS Naturals, FiniteSets

CONSTANTS Path, MaxPending

ASSUME PathIsFinite == IsFiniteSet(Path)
ASSUME MaxPendingIsPositive == MaxPending \in Nat \ {0}

VARIABLES
    changes,    \* the paths queued
    rescan,     \* everything is to be read again
    timer,      \* a flush is due
    running,    \* a drain is under way, awaiting onBatch
    batch,      \* what onBatch was given
    disposed,
    pending,    \* what onPending was last told
    owed,       \* history: reported, and in no batch since
    taken,      \* history: owed when the batch under way was taken
    failed      \* history: the last drain failed, and no event came since

queue == <<changes, rescan, batch>>
history == <<owed, taken, failed>>
vars == <<queue, timer, running, disposed, pending, history>>

NoBatch == [rescan |-> FALSE, changes |-> {}]

Init ==
    /\ changes = {} /\ rescan = FALSE /\ timer = FALSE
    /\ running = FALSE /\ batch = NoBatch
    /\ disposed = FALSE /\ pending = FALSE
    /\ owed = {} /\ taken = {} /\ failed = FALSE

Overfull(paths) == Cardinality(paths) > MaxPending

RescanAfter(paths) == rescan \/ Overfull(paths)

ArmedUnlessRescanDue == ~rescan
Armed == TRUE

(* _schedule *)
Schedule ==
    /\ timer' = Armed
    /\ pending' = TRUE
    /\ failed' = FALSE

(* enqueue: while a rescan is due the path need not be kept.               *)
Enqueue(path) ==
    /\ ~disposed
    /\ LET paths == IF rescan THEN changes ELSE changes \union {path}
       IN  /\ changes' = IF Overfull(paths) THEN {} ELSE paths
           /\ rescan' = RescanAfter(paths)
    /\ Schedule
    /\ owed' = owed \union {path}
    /\ UNCHANGED <<running, batch, disposed, taken>>

(* requestRescan: a workspace folder was added or removed.                 *)
RequestRescan ==
    /\ ~disposed
    /\ rescan' = TRUE
    /\ Schedule
    /\ owed' = Path
    /\ UNCHANGED <<changes, running, batch, disposed, taken>>

MoreToDo == ~disposed /\ (rescan \/ changes /= {})

(* The next turn of the loop of _drain: take everything queued, then call  *)
(* onBatch.                                                                *)
TakeBatch ==
    LET covered == IF rescan THEN Path ELSE changes
    IN  /\ batch' = [rescan |-> rescan, changes |-> changes]
        /\ rescan' = FALSE /\ changes' = {}
        /\ taken' = owed \intersect covered
        /\ owed' = owed \ covered
        /\ UNCHANGED failed

(* The loop ends.                                                          *)
TellPending(stale) == pending' = IF disposed THEN pending ELSE stale

(* flush, from the timer: joins the drain under way if there is one.       *)
Flush ==
    /\ timer /\ ~disposed
    /\ timer' = FALSE
    /\ \/ /\ running
          /\ UNCHANGED <<queue, running, pending, history>>
       \/ /\ ~running /\ MoreToDo
          /\ TakeBatch
          /\ running' = TRUE
          /\ UNCHANGED pending
       \/ /\ ~running /\ ~MoreToDo
          /\ TellPending(FALSE)
          /\ UNCHANGED <<queue, running, history>>
    /\ UNCHANGED disposed

(* A drain that also forgets what was queued while it waited.              *)
BatchSucceedsForgetting ==
    /\ running
    /\ running' = FALSE /\ batch' = NoBatch
    /\ changes' = {} /\ rescan' = FALSE
    /\ taken' = {}
    /\ TellPending(FALSE)
    /\ UNCHANGED <<timer, disposed, owed, failed>>

(* onBatch resolves.                                                       *)
BatchSucceeds ==
    /\ running
    /\ \/ /\ MoreToDo
          /\ TakeBatch
          /\ UNCHANGED <<running, pending>>
       \/ /\ ~MoreToDo
          /\ running' = FALSE /\ batch' = NoBatch
          /\ taken' = {}
          /\ TellPending(FALSE)
          /\ UNCHANGED <<changes, rescan, owed, failed>>
    /\ UNCHANGED <<timer, disposed>>

(* onBatch rejects: no retry before the next event, which will rescan.     *)
BatchFails ==
    /\ running
    /\ rescan' = TRUE
    /\ timer' = FALSE
    /\ running' = FALSE /\ batch' = NoBatch
    /\ TellPending(TRUE)
    /\ taken' = {} /\ failed' = TRUE
    /\ owed' = IF disposed THEN {} ELSE owed \union taken
    /\ UNCHANGED <<changes, disposed>>

Dispose ==
    /\ disposed' = TRUE
    /\ timer' = FALSE
    /\ changes' = {}
    /\ owed' = {}
    /\ UNCHANGED <<rescan, running, batch, pending, taken, failed>>

Next ==
    \/ \E path \in Path : Enqueue(path)
    \/ RequestRescan
    \/ Flush \/ BatchSucceeds \/ BatchFails
    \/ Dispose

Spec == Init /\ [][Next]_vars

(* Events pause for the debounce delay now and then, and synchronisation   *)
(* ends, well or badly.                                                    *)
Fairness == WF_vars(Flush) /\ WF_vars(BatchSucceeds \/ BatchFails)

FairSpec == Spec /\ Fairness
-----------------------------------------------------------------------------
(* The queue never holds more than MaxPending paths, and a batch that is   *)
(* not a rescan neither.                                                   *)
TypeOK ==
    /\ changes \in SUBSET Path /\ Cardinality(changes) <= MaxPending
    /\ batch \in [rescan : BOOLEAN, changes : SUBSET Path]
    /\ Cardinality(batch.changes) <= MaxPending
    /\ rescan \in BOOLEAN /\ timer \in BOOLEAN /\ running \in BOOLEAN
    /\ disposed \in BOOLEAN /\ pending \in BOOLEAN
    /\ owed \in SUBSET Path /\ taken \in SUBSET Path /\ failed \in BOOLEAN

(* Every path reported and not yet in a batch is queued, or a rescan is    *)
(* due: coalescing, overflow, failure and changes that arrive while a      *)
(* batch is synchronised lose none.                                        *)
NothingLost == ~disposed /\ ~rescan => owed = changes

(* While something is queued a flush is due, or a drain under way will see *)
(* it, or the last batch failed: then a rescan is due, and the next event  *)
(* starts it.                                                              *)
NoLostWakeup ==
    (~disposed /\ (rescan \/ changes /= {})) => timer \/ running \/ (failed /\ rescan)

(* Whenever a reported change is not synchronised yet, the last word given *)
(* to onPending is that results are stale.                                 *)
StaleIsTold == ~disposed /\ owed \union taken /= {} => pending

(* Every change reported is handed to a synchronisation that starts after  *)
(* the report, or the one before fails and no event comes after.           *)
EveryChangeSynchronised ==
    \A path \in Path : path \in owed ~> path \notin owed \/ failed \/ disposed

(* The queue with its coalescing, its overflow and its rescans implements  *)
(* a feed that owes every change until a later synchronisation succeeds.   *)
Feed == INSTANCE ChangeFeed WITH closed <- disposed
ImplementsFeed == Feed!Spec
=============================================================================
