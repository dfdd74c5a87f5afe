-------------------------- MODULE ReviewStatusStore --------------------------
(***************************************************************************)
(* The reviewer's decisions: how they are persisted, reconciled with the   *)
(* code as it is analysed (src/src/review/status-store.js), and written by *)
(* the session (src/src/audit-session.js), whose writes wait for one       *)
(* another.                                                                *)
(*                                                                         *)
(* A decision is kept under the id of a review target or of a finding,     *)
(* with the fingerprint of the code it was made on.  A reconciliation      *)
(* moves decisions from ids of older versions, marks for review those on   *)
(* code that changed, and, if every file was indexed, orphans and finally  *)
(* drops those whose code is gone.  Targets and findings have stores of    *)
(* their own, computed together and written one after the other.           *)
(***************************************************************************)
EXTENDS Naturals, Sequences

CONSTANTS
    Item,       \* review targets and findings, numbered in the model's order
    Finding,    \* the findings among them
    Old,        \* ids of older versions
    LegacyIds,  \* [Item -> sequence of the old ids it goes by]
    MaxCode,    \* bound: fingerprints of an item
    Retention,  \* days an orphan is kept
    Initial,    \* what earlier sessions may have left in the stores
    Imports,    \* what another workspace's export may hold
    Found,      \* what an index may find
    MaxDay,     \* bound: days
    MaxEvents   \* bound: what the user and the index do

ASSUME ItemsAreNumbered == Item \subseteq Nat /\ Finding \subseteq Item
ASSUME OldIdsAreOthers == Old \intersect Item = {}
ASSUME LegacyIdsAreOld == LegacyIds \in [Item -> Seq(Old)]
ASSUME FindingsHaveNoLegacyIds == \A i \in Finding : LegacyIds[i] = <<>>
ASSUME BoundsAreNumbers == {MaxCode, Retention, MaxDay, MaxEvents} \subseteq Nat /\ MaxDay >= 1

VARIABLES
    model,         \* fingerprint of each item
    complete,      \* workspaceCoverageComplete
    index,         \* the full index: what it has come to, and its coverage
    statuses,      \* the persisted decisions
    writes,        \* the writes waiting for their turn, in order
    job,           \* a reconciliation between its two writes
    imported,      \* an import has yet to reconcile
    day, events,
    lastSeen,      \* history: day each id was last written as a living item's
    leftOut        \* history: items missing since an analysis without their file

vars == <<model, complete, index, statuses, writes, job, imported, day, events,
          lastSeen, leftOut>>

Id == Item \union Old
NoPrint == 0               \* an item, or a decision, without a fingerprint
Absent == MaxCode + 1
Code == 0..Absent
NotOrphaned == 0
ASSUME FoundIsTyped == Found \subseteq [Item -> Code]
Record == [fingerprint : 0..MaxCode, needsReview : BOOLEAN, orphanedAt : 0..MaxDay]
Statuses == UNION {[ids -> Record] : ids \in SUBSET Id}

(* The days begin with 1, which also stands for all days before.           *)
ASSUME InitialIsTyped ==
    /\ Initial \subseteq Statuses
    /\ \A s \in Initial : \A id \in DOMAIN s : s[id].orphanedAt \in {NotOrphaned, 1}
ASSUME ImportsAreTyped ==
    /\ Imports \subseteq [id : Id, record : Record]
    /\ \A import \in Imports : import.record.orphanedAt \in {NotOrphaned, 1}

Present(m) == {i \in Item : m[i] /= Absent}

(* _setStatus: of an item that is gone there is no fingerprint.            *)
Decision(m, i) == [fingerprint |-> IF m[i] = Absent THEN NoPrint ELSE m[i],
                   needsReview |-> FALSE, orphanedAt |-> NotOrphaned]

OldIdsOf(i) == {LegacyIds[i][n] : n \in DOMAIN LegacyIds[i]}

-----------------------------------------------------------------------------
(* reconcilePersistedStatuses.                                             *)

(* The places of the old ids of i that still hold a decision when its turn *)
(* comes: an item before it that goes by the same id has taken it.         *)
Claims(s, m, i) ==
    {n \in DOMAIN LegacyIds[i] :
        /\ LegacyIds[i][n] \in DOMAIN s
        /\ \A j \in Present(m) : j < i => LegacyIds[i][n] \notin OldIdsOf(j)}

Source(s, m, i) ==
    IF i \in DOMAIN s THEN i
    ELSE LegacyIds[i][CHOOSE n \in Claims(s, m, i) : \A k \in Claims(s, m, i) : n <= k]

(* A decision on code that is there.  (Or: older decisions taken at their  *)
(* word.)                                                                  *)
RefreshedIfPrinted(record, code) ==
    [record EXCEPT !.orphanedAt = NotOrphaned,
                   !.needsReview = @ \/ (NoPrint \notin {code, record.fingerprint}
                                         /\ record.fingerprint /= code)]
Refreshed(record, code) ==
    [record EXCEPT !.orphanedAt = NotOrphaned,
                   !.needsReview = @ \/ (code /= NoPrint /\ record.fingerprint /= code)]

(* A decision on code that is gone.                                        *)
Orphaned(record) ==
    [record EXCEPT !.orphanedAt = IF @ = NotOrphaned THEN day ELSE @]

Expired(record) ==
    record.orphanedAt /= NotOrphaned /\ day - record.orphanedAt >= Retention

Reconciled(s, m, all) ==
    LET here == Present(m)
        found == {i \in here : i \in DOMAIN s \/ Claims(s, m, i) /= {}}
        gone == DOMAIN s \ (here \union UNION {OldIdsOf(i) : i \in here})
        kept == {id \in gone : ~(all /\ Expired(s[id]))}
    IN  [id \in found \union kept |->
            IF id \in here THEN Refreshed(s[Source(s, m, id)], m[id])
            ELSE IF all THEN Orphaned(s[id])
            ELSE s[id]]

-----------------------------------------------------------------------------
Splice(ids, new, old) ==
    [id \in (DOMAIN new \intersect ids) \union (DOMAIN old \ ids) |->
        IF id \in ids THEN new[id] ELSE old[id]]

NoJob == [running |-> FALSE, by |-> "none", result |-> [id \in {} |-> 0], seen |-> {}]
NoIndex == [phase |-> "idle", complete |-> FALSE]

Init ==
    /\ model = [i \in Item |-> Absent] /\ complete = FALSE /\ index = NoIndex
    /\ statuses \in Initial
    /\ writes = <<>> /\ job = NoJob /\ imported = FALSE
    /\ day = 1 /\ events = 0
    /\ lastSeen = [id \in Id |-> 1] /\ leftOut = Item

(* _withReviewWrite: a write waits for those before it.                    *)
Enqueue(write) == writes' = Append(writes, write)

Reconcile(all, by) == [op |-> "reconcile", complete |-> all, by |-> by]

Event == events < MaxEvents /\ events' = events + 1

-----------------------------------------------------------------------------
(* The analysis.                                                           *)

(* An update, a removal or a change of the configuration is answered.      *)
Update ==
    /\ Event
    /\ \E i \in Item : \E code \in Code \ {model[i]} :
          /\ model' = [model EXCEPT ![i] = code]
          /\ leftOut' = IF code = Absent /\ ~complete THEN leftOut \union {i}
                        ELSE leftOut \ {i}
    /\ Enqueue(Reconcile(complete, "update"))
    /\ UNCHANGED <<complete, index, statuses, job, imported, day, lastSeen>>

(* A file cannot be analysed any more: too large, or unreadable.           *)
LoseCoverage ==
    /\ Event
    /\ complete /\ complete' = FALSE
    /\ UNCHANGED <<model, index, statuses, writes, job, imported, day, lastSeen, leftOut>>

IndexAnalysed ==
    /\ Event
    /\ index.phase = "idle"
    /\ \E all \in BOOLEAN :
          complete' = all /\ index' = [phase |-> "analysed", complete |-> all]
    /\ model' \in Found
    /\ leftOut' = IF complete' THEN {} ELSE Item \ Present(model')
    /\ UNCHANGED <<statuses, writes, job, imported, day, lastSeen>>

(* The index is ready, its changes replayed: it reconciles by the coverage *)
(* it had when it was analysed, and ends when that is done.  (Or: only if  *)
(* it was complete.)                                                       *)
IndexReadyIfComplete ==
    /\ index.phase = "analysed"
    /\ IF index.complete
       THEN Enqueue(Reconcile(TRUE, "index")) /\ index' = [index EXCEPT !.phase = "ready"]
       ELSE UNCHANGED writes /\ index' = NoIndex
    /\ UNCHANGED <<model, complete, statuses, job, imported, day, events, lastSeen, leftOut>>
IndexReady ==
    /\ index.phase = "analysed"
    /\ Enqueue(Reconcile(index.complete, "index"))
    /\ index' = [index EXCEPT !.phase = "ready"]
    /\ UNCHANGED <<model, complete, statuses, job, imported, day, events, lastSeen, leftOut>>

-----------------------------------------------------------------------------
(* The user.                                                               *)

(* setStatus, setFindingStatus: a decision, or none any more.              *)
Decide ==
    /\ Event
    /\ \E i \in Present(model), op \in {"decide", "withdraw"} :
          Enqueue([op |-> op, id |-> i])
    /\ UNCHANGED <<model, complete, index, statuses, job, imported, day, lastSeen, leftOut>>

(* importPortableState: a decision from another workspace.                 *)
Import ==
    /\ Event
    /\ ~imported /\ \A n \in DOMAIN writes : writes[n].op /= "import"
    /\ \E import \in Imports :
          Enqueue([op |-> "import", id |-> import.id, record |-> import.record])
    /\ UNCHANGED <<model, complete, index, statuses, job, imported, day, lastSeen, leftOut>>

ImportReconciles ==
    /\ imported /\ imported' = FALSE
    /\ Enqueue(Reconcile(complete, "update"))
    /\ UNCHANGED <<model, complete, index, statuses, job, day, events, lastSeen, leftOut>>

(* The editor is closed and opened again: what was not written is gone.    *)
Restart ==
    /\ Event
    /\ model' = [i \in Item |-> Absent] /\ complete' = FALSE /\ index' = NoIndex
    /\ writes' = <<>> /\ job' = NoJob /\ imported' = FALSE
    /\ leftOut' = Item
    /\ UNCHANGED <<statuses, day, lastSeen>>

NextDay ==
    /\ day < MaxDay /\ day' = day + 1
    /\ UNCHANGED <<model, complete, index, statuses, writes, job, imported, events, lastSeen, leftOut>>

-----------------------------------------------------------------------------
(* The writes.                                                             *)

MyTurn == ~job.running

Turn(op) == MyTurn /\ writes /= <<>> /\ Head(writes).op = op /\ writes' = Tail(writes)

Seen(ids) == lastSeen' = [id \in Id |-> IF id \in ids THEN day ELSE lastSeen[id]]

(* _setStatus, _setFindingStatus: of the code as it is when the turn comes.*)
(* A finding that is gone is left alone; a target takes its old ids along. *)
WriteDecision ==
    /\ Turn("decide")
    /\ LET i == Head(writes).id
           dropped == IF i \in Present(model) THEN OldIdsOf(i) ELSE {}
       IN  IF i \in Finding \ Present(model)
           THEN UNCHANGED <<statuses, lastSeen>>
           ELSE /\ statuses' = [id \in (DOMAIN statuses \ dropped) \union {i} |->
                                  IF id = i THEN Decision(model, i) ELSE statuses[id]]
                /\ Seen({i})
    /\ UNCHANGED <<model, complete, index, job, imported, day, events, leftOut>>

WriteWithdrawal ==
    /\ Turn("withdraw")
    /\ LET i == Head(writes).id
           dropped == IF i \in Present(model) THEN OldIdsOf(i) ELSE {}
       IN  statuses' = IF i \in Finding \ Present(model) THEN statuses
                       ELSE [id \in DOMAIN statuses \ (dropped \union {i}) |-> statuses[id]]
    /\ UNCHANGED <<model, complete, index, job, imported, day, events, lastSeen, leftOut>>

WriteImport ==
    /\ Turn("import")
    /\ LET id == Head(writes).id
           record == Head(writes).record
       IN  /\ statuses' = [k \in DOMAIN statuses \union {id} |->
                              IF k = id THEN record ELSE statuses[k]]
           /\ lastSeen' = [lastSeen EXCEPT ![id] =
                              IF record.orphanedAt = NotOrphaned THEN day ELSE record.orphanedAt]
    /\ imported' = TRUE
    /\ UNCHANGED <<model, complete, index, job, day, events, leftOut>>

(* _reconcileReviewStatusesNow: both results from the stores and the model *)
(* of this moment; the targets are written first.                          *)
WriteTargets ==
    /\ Turn("reconcile")
    /\ LET result == Reconciled(statuses, model, Head(writes).complete)
       IN  /\ statuses' = Splice(Id \ Finding, result, statuses)
           /\ job' = [running |-> TRUE, by |-> Head(writes).by, result |-> result,
                      seen |-> Present(model)]
    /\ Seen(Present(model) \ Finding)
    /\ UNCHANGED <<model, complete, index, imported, day, events, leftOut>>

WriteFindings ==
    /\ job.running
    /\ statuses' = Splice(Finding, job.result, statuses)
    /\ Seen(job.seen \intersect Finding)
    /\ job' = NoJob
    /\ index' = IF job.by = "index" THEN NoIndex ELSE index
    /\ UNCHANGED <<model, complete, writes, imported, day, events, leftOut>>

Write == WriteDecision \/ WriteWithdrawal \/ WriteImport \/ WriteTargets \/ WriteFindings

Next ==
    \/ Update \/ LoseCoverage \/ IndexAnalysed \/ IndexReady
    \/ Decide \/ Import \/ ImportReconciles
    \/ Restart \/ NextDay
    \/ Write

Spec == Init /\ [][Next]_vars

(* Writes end, and an index that analysed the files gets ready.            *)
FairSpec == Spec /\ WF_vars(Write) /\ WF_vars(IndexReady) /\ WF_vars(ImportReconciles)
-----------------------------------------------------------------------------
(* What waits; an imported decision may have been orphaned long ago.       *)
Waiting ==
    [op : {"reconcile"}, complete : BOOLEAN, by : {"update", "index"}]
    \union [op : {"decide", "withdraw"}, id : Item]
    \union [op : {"import"}, id : Id, record : {r \in Record : r.orphanedAt \in {NotOrphaned, 1}}]

TypeOK ==
    /\ model \in [Item -> Code] /\ complete \in BOOLEAN
    /\ index \in [phase : {"idle", "analysed", "ready"}, complete : BOOLEAN]
    /\ statuses \in Statuses
    /\ writes \in Seq(Waiting)
    /\ job \in [running : BOOLEAN, by : {"none", "update", "index"}, result : Statuses, seen : SUBSET Item]
    /\ imported \in BOOLEAN
    /\ day \in 1..MaxDay /\ events \in 0..MaxEvents
    /\ lastSeen \in [Id -> 1..MaxDay] /\ leftOut \subseteq Item

ReconciliationDue ==
    \/ index.phase = "analysed" \/ imported \/ job.running
    \/ \E n \in DOMAIN writes : writes[n].op = "reconcile"

OnCodeAsItIs(i) ==
    statuses[i].needsReview \/ model[i] = NoPrint \/ statuses[i].fingerprint = model[i]

(* Unless a reconciliation is still to come, no decision on an item that   *)
(* is there stands for other code than it was recorded on: it is marked    *)
(* for review, older decisions without a fingerprint included.             *)
NoStaleDecision ==
    ReconciliationDue \/ \A i \in Present(model) \intersect DOMAIN statuses : OnCodeAsItIs(i)

(* The write whose turn it is says what becomes of id.                     *)
WrittenByUser(id) ==
    /\ writes /= <<>> /\ writes' = Tail(writes)
    /\ Head(writes).op /= "reconcile"
    /\ id = Head(writes).id \/ (Head(writes).id \in Item /\ id \in OldIdsOf(Head(writes).id))

(* An item that goes by the old id holds a decision made under one of its  *)
(* ids, its own before an older one.                                       *)
Migrated(id) ==
    \E i \in Item \intersect DOMAIN statuses' :
        /\ id \in OldIdsOf(i)
        /\ \E k \in (OldIdsOf(i) \union {i}) \intersect DOMAIN statuses :
              /\ i \in DOMAIN statuses => k = i
              /\ statuses'[i].fingerprint = statuses[k].fingerprint

ExpiredSince(id) == id \notin DOMAIN statuses' /\ day - lastSeen[id] >= Retention

(* A decision once marked for review stays marked, whatever the code does, *)
(* until the user decides again or imports one, or until it expires.       *)
ReopenedStaysReopened ==
    [][\A id \in DOMAIN statuses : statuses[id].needsReview =>
         \/ id \in DOMAIN statuses' /\ statuses'[id].needsReview
         \/ WrittenByUser(id) \/ Migrated(id) \/ ExpiredSince(id)]_vars

(* No write takes a decision back or changes what it was made on, but the  *)
(* user's own and migration -- and expiry, once the item has not been seen *)
(* for the whole retention period, wherever a restart or another write     *)
(* falls.                                                                  *)
DecisionsAreKept ==
    [][\A id \in DOMAIN statuses :
         \/ id \in DOMAIN statuses' /\ statuses'[id].fingerprint = statuses[id].fingerprint
         \/ WrittenByUser(id) \/ Migrated(id) \/ ExpiredSince(id)]_vars

(* A decision on code that changed is marked in the end, if the code stays *)
(* as it is: or it is gone, or decided again.                              *)
StaleDecisionsAreReopened ==
    \A i \in Item :
        [](<>(i \in DOMAIN statuses /\ i \in Present(model) => OnCodeAsItIs(i)))

(* A decision is not orphaned, and its days are not counted, because its   *)
(* item went missing when the analysis left its file out.                  *)
LeftOutIsNotOrphaned ==
    [][\A id \in DOMAIN statuses \intersect DOMAIN statuses' :
         (statuses[id].orphanedAt = NotOrphaned /\ statuses'[id].orphanedAt /= NotOrphaned
            /\ ~WrittenByUser(id)) => id \notin leftOut]_vars
=============================================================================
