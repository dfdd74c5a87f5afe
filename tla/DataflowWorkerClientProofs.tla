--------------------- MODULE DataflowWorkerClientProofs ---------------------
(***************************************************************************)
(* The replay barrier, what the client remembers, and how fresh the        *)
(* worker's contents are, for any files, calls, operations, failures and   *)
(* losses of workers.                                                      *)
(*                                                                         *)
(* The invariant speaks of the requests the thread holds and the answers   *)
(* on their way as sets: their order is that of their ids.                 *)
(***************************************************************************)
EXTENDS DataflowWorkerClient, FiniteSetTheorems, SequenceTheorems, TLAPS

Elements(s) == {s[i] : i \in DOMAIN s}

Held == Elements(queued) \union ({active} \ {Idle})
Answers == Elements(toClient)

IsInit(request) == request.kind = "initializeWorkspace"
IsUpdate(request, f) == request.kind = "updateFile" /\ request.file = f

Asked(c) == outcome[c] /= "idle"
Resolved(i) == i \in DOMAIN runnable /\ runnable[i].error = "none"

(* The calls somebody will go on with.                                     *)
Outstanding ==
    {runnable[i].call : i \in DOMAIN runnable} \union
    {ready.waiters[i] : i \in DOMAIN ready.waiters} \union
    {pending[id].call : id \in PendingCalls}

-----------------------------------------------------------------------------
(* The life of a worker.                                                   *)

WithoutWorker ==
    worker = 0 => /\ DOMAIN pending = {} /\ Held = {} /\ ready = NotReady
                  /\ engine = FreshEngine
                  /\ initialized /\ ~disposed => needsReplay

WorkersAreNumbered ==
    /\ worker \in 0..spawned
    /\ disposed => worker = 0
    /\ needsReplay => initialized

(* The barrier is that of the current worker, and only the replay has been *)
(* sent to it.                                                             *)
BarrierHolds ==
    /\ ready.worker /= 0 =>
         /\ worker = ready.worker /\ initialized /\ PendingCalls = {}
         /\ \A i, j \in DOMAIN pending : i = j
    /\ ready.worker = 0 => ready = NotReady
    /\ \A id \in DOMAIN pending : pending[id].call = Replay => ready.worker /= 0

(* Who goes on goes on with the current worker, past its barrier.          *)
ResolvedByCurrent ==
    \A i \in DOMAIN runnable : Resolved(i) =>
        worker /= 0 /\ runnable[i].worker = worker /\ ready.worker = 0

(* While a replay is loaded its worker has been asked nothing.             *)
LoadersComeFirst ==
    \A r \in replays :
        /\ r.worker \in 1..spawned
        /\ \A s \in replays : s.worker = r.worker => s = r
        /\ r.worker = worker =>
             /\ ready.worker = worker /\ DOMAIN pending = {} /\ Held = {}
             /\ engine = FreshEngine
             /\ r.todo \subseteq files /\ Present(r.contents) \subseteq files

Lives == WithoutWorker /\ WorkersAreNumbered /\ BarrierHolds /\ ResolvedByCurrent /\ LoadersComeFirst
-----------------------------------------------------------------------------
(* Requests, their calls and their keys.                                   *)

IssuedInOrder ==
    /\ \A c \in Call : requests[c] = NoRequest <=> outcome[c] = "idle"
    /\ \A c, d \in Call : c < d /\ outcome[c] = "idle" => outcome[d] = "idle"
    /\ \A c \in Outstanding : Asked(c) /\ attempt[c] /= 0
    /\ \A c \in Call : attempt[c] /= 0 => IsInit(requests[c]) \/ initialized

(* What the thread holds is in the order of the ids, after every answer.   *)
IdsInOrder ==
    /\ \A i \in DOMAIN queued : queued[i].id < nextId
    /\ active.id < nextId
    /\ \A i, j \in DOMAIN queued : i < j => queued[i].id < queued[j].id
    /\ \A i \in DOMAIN queued : active.id < queued[i].id
    /\ \A m \in Answers : m.id < nextId /\ \A e \in Held : m.id < e.id
    /\ \A i, j \in DOMAIN toClient : i < j => toClient[i].id < toClient[j].id

(* A pending request is held by the thread or answered, unchanged.         *)
PendingIsUnderWay ==
    \A id \in DOMAIN pending :
        (\E e \in Held : e.id = id) \/ (\E m \in Answers : m.id = id)

PendingIsAsAsked ==
    \A id \in DOMAIN pending : \A e \in Held : e.id = id =>
        IF pending[id].call = Replay
        THEN /\ IsInit(e.request) /\ e.request.admitted
             /\ e.request.options = workspaceOptions
             /\ Present(e.request.contents) \subseteq files
        ELSE e.request = requests[pending[id].call]

(* The keys are those of the calls' requests.                              *)
KeysAgree ==
    /\ PendingByKeyExact /\ NoKey \notin DOMAIN pendingByKey
    /\ \A id \in DOMAIN pending :
         pending[id].key = IF pending[id].call = Replay THEN NoKey
                           ELSE CancelKey(requests[pending[id].call])

(* What was cancelled is not pending, and no initializeWorkspace is.       *)
CancelledIsGone ==
    /\ (cancelling \union cancelled) \cap DOMAIN pending = {}
    /\ \A e \in Held : IsInit(e.request) => e.id \in DOMAIN pending

(* Whatever was superseded, something later of its key replaced.           *)
SupersededIsReplaced ==
    \A e \in Held : e.id \notin DOMAIN pending =>
        \E later \in Held : /\ later.id > e.id /\ later.id \in DOMAIN pending
                            /\ CancelKey(later.request) = CancelKey(e.request)

UnderWay == PendingIsUnderWay /\ PendingIsAsAsked /\ CancelledIsGone /\ SupersededIsReplaced

Requests == IssuedInOrder /\ IdsInOrder /\ KeysAgree /\ UnderWay
-----------------------------------------------------------------------------
(* The order of calls: pending, then resolved or waiting, then rejected,   *)
(* then those not yet made, each in the order they were made -- though     *)
(* what is rejected comes to know of it before what is resolved.           *)
Follows(a, b) ==
    /\ a.error = "none" => b.error = "none"
    /\ IF a.error /= "none" /\ b.error = "none" THEN b.call < a.call ELSE a.call < b.call

CallsInOrder ==
    /\ \A i, j \in PendingCalls : i < j => pending[i].call < pending[j].call
    /\ \A i \in PendingCalls : \A j \in DOMAIN runnable : pending[i].call < runnable[j].call
    /\ \A i, j \in DOMAIN runnable : i < j => Follows(runnable[i], runnable[j])
    /\ \A i, j \in DOMAIN ready.waiters : i < j => ready.waiters[i] < ready.waiters[j]
    /\ \A i \in DOMAIN ready.waiters : \A j \in DOMAIN runnable :
         ready.waiters[i] < runnable[j].call
-----------------------------------------------------------------------------
(* What a worker has been told.                                            *)

Aware == engine.ready \/ engine.initFailed
AboutToBeAware == Aware \/ \E e \in Held : IsInit(e.request)

(* The initializeWorkspace comes before what the thread holds.             *)
HeldAreTold ==
    \A e \in Held : Aware \/ \E g \in Held : g.id =< e.id /\ IsInit(g.request)
InitResolved(j) == Resolved(j) /\ IsInit(requests[runnable[j].call])

(* Of those that go on, an initializeWorkspace comes first, unless the     *)
(* worker has been told or is about to be.                                 *)
ResolvedAreTold ==
    /\ \A i \in DOMAIN runnable : Resolved(i) => AboutToBeAware \/ \E j \in 1..i : InitResolved(j)
    /\ worker /= 0 /\ ready.worker = 0 => AboutToBeAware \/ \E j \in DOMAIN runnable : InitResolved(j)

ToldFirst ==
    /\ HeldAreTold /\ ResolvedAreTold
    /\ \A m \in Answers : m.id \in DOMAIN pending => Aware
-----------------------------------------------------------------------------
(* How fresh contents are.                                                 *)

(* Contents are not older than those of the update c, or without its file. *)
Covers(contents, c) ==
    LET f == requests[c].file
    IN  contents[f] = 0 \/ contents[f] >= requests[c].contents[f]

AsksUpdate(c) == c \in Call /\ requests[c].kind = "updateFile"
Updated(c) == AsksUpdate(c) /\ outcome[c] = "ok" /\ requests[c].admitted

ContentsInOrder ==
    /\ \A c \in Call : requests[c] /= NoRequest => \A f \in File : requests[c].contents[f] =< clock
    /\ \A c \in Call : AsksUpdate(c) => Covers(Current, c)
    /\ \A c, d \in Call : AsksUpdate(c) /\ c < d /\ requests[d] /= NoRequest =>
         Covers(requests[d].contents, c)

UpdatedIsCovered ==
    \A c \in Call : Updated(c) =>
        /\ Covers(engine.files, c) /\ Covers(unsavedFiles, c)
        /\ \A e \in Held : Covers(e.request.contents, c)
        /\ \A r \in replays : r.worker = worker => Covers(r.contents, c)
        /\ \A d \in Outstanding : c < d

PendingIsCovered ==
    \A id \in PendingCalls : LET c == pending[id].call IN AsksUpdate(c) =>
        /\ \A m \in Answers : m.id = id /\ m.ok => Covers(engine.files, c)
        /\ \A e \in Held : e.id >= id => Covers(e.request.contents, c)

Fresh == ContentsInOrder /\ UpdatedIsCovered /\ PendingIsCovered
-----------------------------------------------------------------------------
(* What the client knows, or is about to be told.                          *)

(* The answers that will change what the client would replay.              *)
Telling(m) == m \in Answers /\ m.ok /\ m.id \in PendingCalls
Answered(m) == requests[pending[m.id].call]

Adds(m, f) ==
    /\ Telling(m) /\ Answered(m).admitted
    /\ \/ IsInit(Answered(m)) /\ Answered(m).contents[f] /= 0
       \/ IsUpdate(Answered(m), f)
Drops(m, f) ==
    /\ Telling(m)
    /\ \/ IsInit(Answered(m)) /\ ~(Answered(m).admitted /\ Answered(m).contents[f] /= 0)
       \/ IsUpdate(Answered(m), f) /\ ~Answered(m).admitted
       \/ Answered(m).kind = "removeFile" /\ Answered(m).file = f /\ m.removed
Sets(m) == Telling(m) /\ Answered(m).kind \in {"initializeWorkspace", "configure"}

FileIsKnown(f) ==
    \/ f \in files /\ \A m \in Answers : ~Drops(m, f)
    \/ \E m \in Answers : Adds(m, f) /\ \A n \in Answers : n.id > m.id => ~Drops(n, f)
    \/ \E e \in Held : e.id \in DOMAIN pending /\ IsUpdate(e.request, f)

OptionsAreKnown ==
    \/ engine.options = workspaceOptions /\ \A m \in Answers : ~Sets(m)
    \/ \E m \in Answers : /\ Sets(m) /\ Answered(m).options = engine.options
                          /\ \A n \in Answers : n.id > m.id => ~Sets(n)
    \/ \E e \in Held : e.id \in DOMAIN pending /\ e.request.kind = "configure"

Known ==
    engine.ready =>
        /\ \A f \in Present(engine.files) \ engine.rejected : FileIsKnown(f)
        /\ NoFile \notin engine.rejected => OptionsAreKnown
        /\ ~initialized => \E m \in Answers : Telling(m) /\ IsInit(Answered(m))
-----------------------------------------------------------------------------
(* Sequences, place by place.                                              *)
LEMMA AppendedAt ==
  ASSUME NEW S, NEW s \in Seq(S), NEW x \in S
  PROVE  /\ Append(s, x) \in Seq(S) /\ Append(s, x) # <<>>
         /\ DOMAIN s = 1..Len(s) /\ Len(s) \in Nat
         /\ DOMAIN Append(s, x) = 1..Len(s) + 1
         /\ \A i \in 1..Len(s) : Append(s, x)[i] = s[i]
         /\ Append(s, x)[Len(s) + 1] = x
<1>1. Append(s, x) \in Seq(S) /\ Len(Append(s, x)) = Len(s) + 1 /\ Len(s) \in Nat OBVIOUS
<1>2. (\A i \in 1..Len(s) : Append(s, x)[i] = s[i]) /\ Append(s, x)[Len(s) + 1] = x OBVIOUS
<1>3. DOMAIN Append(s, x) = 1..Len(s) + 1 BY <1>1, LenProperties
<1>4. DOMAIN s = 1..Len(s) BY LenProperties
<1>5. Append(s, x) # <<>> BY <1>1
<1>. QED BY <1>1, <1>2, <1>3, <1>4, <1>5

(* The rest of a sequence, place by place.                                 *)
LEMMA BeheadedAt ==
  ASSUME NEW S, NEW s \in Seq(S), s # <<>>
  PROVE  /\ Tail(s) \in Seq(S) /\ Head(s) = s[1] /\ Head(s) \in S /\ 1 \in DOMAIN s
         /\ DOMAIN s = 1..Len(s) /\ Len(s) \in Nat \ {0}
         /\ DOMAIN Tail(s) = 1..Len(s) - 1
         /\ \A i \in 1..Len(s) - 1 : Tail(s)[i] = s[i + 1]
<1>1. Len(s) \in Nat \ {0} /\ Tail(s) \in Seq(S) /\ Len(Tail(s)) = Len(s) - 1 OBVIOUS
<1>2. \A i \in 1..Len(s) - 1 : Tail(s)[i] = s[i + 1] OBVIOUS
<1>3. Head(s) = s[1] OBVIOUS
<1>4. DOMAIN Tail(s) = 1..Len(s) - 1 BY <1>1, LenProperties
<1>5. DOMAIN s = 1..Len(s) BY LenProperties
<1>6. Head(s) \in S /\ 1 \in DOMAIN s BY <1>1, <1>3, <1>5, ElementOfSeq
<1>. QED BY <1>1, <1>2, <1>3, <1>4, <1>5, <1>6

(* What an appended sequence holds.                                        *)
LEMMA AppendedElements ==
  ASSUME NEW S, NEW s \in Seq(S), NEW x \in S
  PROVE  Elements(Append(s, x)) = Elements(s) \union {x}
<1>1. \A i \in DOMAIN s : i \in DOMAIN Append(s, x) /\ Append(s, x)[i] = s[i] BY AppendedAt
<1>2. Len(s) + 1 \in DOMAIN Append(s, x) /\ Append(s, x)[Len(s) + 1] = x BY AppendedAt
<1>3. \A i \in DOMAIN Append(s, x) : i \in DOMAIN s \/ i = Len(s) + 1 BY AppendedAt
<1>. QED BY <1>1, <1>2, <1>3 DEF Elements

(* What a sequence holds is its head and what the rest holds.              *)
LEMMA BeheadedElements ==
  ASSUME NEW S, NEW s \in Seq(S), s # <<>>
  PROVE  Elements(s) = {Head(s)} \union Elements(Tail(s))
<1>1. \A i \in DOMAIN Tail(s) : i + 1 \in DOMAIN s /\ Tail(s)[i] = s[i + 1] BY BeheadedAt
<1>2. 1 \in DOMAIN s /\ Head(s) = s[1] BY BeheadedAt
<1>3. \A i \in DOMAIN s : i = 1 \/ (i - 1 \in DOMAIN Tail(s) /\ Tail(s)[i - 1] = s[i]) BY BeheadedAt
<1>4. ASSUME NEW x \in Elements(s) PROVE x \in {Head(s)} \union Elements(Tail(s))
  <2>1. PICK i \in DOMAIN s : x = s[i] BY <1>4 DEF Elements
  <2>. QED BY <1>2, <1>3, <2>1 DEF Elements
<1>5. ASSUME NEW x \in Elements(Tail(s)) PROVE x \in Elements(s)
  <2>1. PICK i \in DOMAIN Tail(s) : x = Tail(s)[i] BY <1>5 DEF Elements
  <2>. QED BY <1>1, <2>1 DEF Elements
<1>6. Head(s) \in Elements(s) BY <1>2 DEF Elements
<1>. QED BY <1>4, <1>5, <1>6

(* An empty sequence holds nothing.                                        *)
LEMMA NothingIn == ASSUME NEW s, s = <<>> PROVE DOMAIN s = {} /\ Elements(s) = {}
BY DEF Elements

(* The continuation due, and those behind it, place by place.              *)
LEMMA DueAt ==
  ASSUME TypeOK, runnable # <<>>
  PROVE  /\ 1 \in DOMAIN runnable /\ Head(runnable) = runnable[1]
         /\ Tail(runnable) \in Seq(ContinuationType)
         /\ \A i \in DOMAIN Tail(runnable) :
              i + 1 \in DOMAIN runnable /\ Tail(runnable)[i] = runnable[i + 1]
<1>1. runnable \in Seq(ContinuationType) BY DEF TypeOK
<1>2. /\ 1 \in DOMAIN runnable /\ Head(runnable) = runnable[1]
      /\ Tail(runnable) \in Seq(ContinuationType)
      /\ DOMAIN runnable = 1..Len(runnable) /\ Len(runnable) \in Nat
      /\ DOMAIN Tail(runnable) = 1..Len(runnable) - 1
      /\ \A i \in 1..Len(runnable) - 1 : Tail(runnable)[i] = runnable[i + 1]
  BY <1>1, BeheadedAt
<1>. QED BY <1>2

(* The ids of a loss are those of the pending calls, in order.             *)
LEMMA IdsOfPending ==
  ASSUME TypeOK, NEW ids \in InOrder(PendingCalls)
  PROVE  /\ ids \in Seq(PendingCalls)
         /\ \A id \in PendingCalls : \E i \in 1..Len(ids) : ids[i] = id
         /\ \A i \in 1..Len(ids) : ids[i] \in PendingCalls
         /\ \A i, j \in 1..Len(ids) : i < j => ids[i] < ids[j]
<1>1. PendingCalls \subseteq 1..nextId - 1 BY DEF PendingCalls, TypeOK
<1>2. IsFiniteSet(1..nextId - 1) BY FS_Interval DEF TypeOK
<1>3. Cardinality(PendingCalls) \in Nat BY <1>1, <1>2, FS_Subset, FS_CardinalityType
<1>4. ids \in [1..Cardinality(PendingCalls) -> PendingCalls] BY DEF InOrder
<1>5. ids \in Seq(PendingCalls) BY <1>3, <1>4
<1>6. DOMAIN ids = 1..Len(ids) BY <1>5, LenProperties
<1>. QED BY <1>4, <1>5, <1>6 DEF InOrder

(* Whom a loss rejects, and with what.                                     *)
LEMMA RejectedAt ==
  ASSUME TypeOK, NEW error \in Errors, NEW ids \in InOrder(PendingCalls)
  PROVE  /\ RejectedBy(error, ids) \in Seq(ContinuationType)
         /\ Len(ready.waiters) \in Nat /\ Len(ids) \in Nat
         /\ DOMAIN RejectedBy(error, ids) = 1..Len(ready.waiters) + Len(ids)
         /\ \A i \in 1..Len(ready.waiters) :
              RejectedBy(error, ids)[i] = RejectedWith(ready.waiters[i], error)
         /\ \A i \in 1..Len(ids) : RejectedBy(error, ids)[Len(ready.waiters) + i]
              = RejectedWith(pending[ids[i]].call, error)
<1> DEFINE w == [i \in 1..Len(ready.waiters) |-> RejectedWith(ready.waiters[i], error)]
           p == [i \in 1..Len(ids) |-> RejectedWith(pending[ids[i]].call, error)]
<1>1. ready.waiters \in Seq(Call) BY DEF TypeOK
<1>2. Len(ready.waiters) \in Nat /\ \A i \in 1..Len(ready.waiters) : ready.waiters[i] \in Call
  BY <1>1, LenProperties, ElementOfSeq
<1>3. \A c \in Call : RejectedWith(c, error) \in ContinuationType
  BY DEF RejectedWith, ContinuationType
<1>4. w \in Seq(ContinuationType) /\ Len(w) = Len(ready.waiters) BY <1>2, <1>3
<1>5. Len(ids) \in Nat /\ \A i \in 1..Len(ids) : ids[i] \in PendingCalls
  BY IdsOfPending, LenProperties
<1>6. \A id \in PendingCalls : pending[id].call \in Call BY DEF PendingCalls, TypeOK, PendingType
<1>7. p \in Seq(ContinuationType) /\ Len(p) = Len(ids) BY <1>3, <1>5, <1>6
<1>8. RejectedBy(error, ids) = w \o p BY DEF RejectedBy
<1>9. \A i \in 1..Len(ready.waiters) : w[i] = RejectedWith(ready.waiters[i], error) OBVIOUS
<1>10. \A i \in 1..Len(ids) : p[i] = RejectedWith(pending[ids[i]].call, error) OBVIOUS
<1> HIDE DEF w, p
<1>11. /\ w \o p \in Seq(ContinuationType) /\ Len(w \o p) = Len(w) + Len(p)
       /\ \A i \in 1..Len(w) + Len(p) : (w \o p)[i] = IF i =< Len(w) THEN w[i] ELSE p[i - Len(w)]
  BY <1>4, <1>7, ConcatProperties
<1>12. DOMAIN (w \o p) = 1..Len(w) + Len(p) BY <1>11, LenProperties
<1>13. \A i \in 1..Len(ready.waiters) : (w \o p)[i] = w[i] BY <1>2, <1>4, <1>5, <1>7, <1>11
<1>14. \A i \in 1..Len(ids) : (w \o p)[Len(ready.waiters) + i] = p[i] BY <1>2, <1>4, <1>5, <1>7, <1>11
<1>. QED BY <1>2, <1>4, <1>5, <1>7, <1>8, <1>9, <1>10, <1>11, <1>12, <1>13, <1>14
-----------------------------------------------------------------------------
(* The steps, told apart further than Next does.                           *)

AnswersAtOnce(c, op) ==
    /\ AnsweredLocally(op) \/ Refused(op)
    /\ outcome' = [outcome EXCEPT ![c] = IF AnsweredLocally(op) THEN "ok" ELSE "WORKER_DISPOSED"]
    /\ workspaceOptions' = IF AnsweredLocally(op) /\ op.kind = "configure"
                           THEN settings' ELSE workspaceOptions
    /\ UNCHANGED <<worker, spawned, ready, replays, attempt, runnable, engine>>

GoesAway(c, op) ==
    /\ ~AnsweredLocally(op) /\ ~Refused(op)
    /\ outcome' = [outcome EXCEPT ![c] = "called"]
    /\ attempt' = [attempt EXCEPT ![c] = 1]
    /\ EnsureReady(c, requests'[c].kind, needsReplay, runnable)
    /\ UNCHANGED workspaceOptions

Key(c) == CancelKey(requests[c])
Old(c) == IF Key(c) \in DOMAIN pendingByKey THEN pendingByKey[Key(c)] ELSE 0

(* c, at the head of those that go on, is posted.                          *)
Posts(c) ==
    /\ runnable /= <<>> /\ Head(runnable).error = "none" /\ Head(runnable).call = c
    /\ ~disposed /\ Head(runnable).worker = worker
    /\ outcome' = IF Old(c) \in DOMAIN pending
                  THEN [outcome EXCEPT ![pending[Old(c)].call] = "SUPERSEDED"] ELSE outcome
    /\ cancelling' = IF Old(c) \in DOMAIN pending THEN cancelling \union {Old(c)} ELSE cancelling
    /\ pending' = [id \in (DOMAIN pending \ {Old(c)}) \union {nextId} |->
                     IF id = nextId THEN [call |-> c, key |-> Key(c)] ELSE pending[id]]
    /\ pendingByKey' = IF Key(c) = NoKey THEN pendingByKey
                       ELSE [k \in DOMAIN pendingByKey \union {Key(c)} |->
                               IF k = Key(c) THEN nextId ELSE pendingByKey[k]]
    /\ queued' = Append(queued, [id |-> nextId, request |-> requests[c]])
    /\ nextId' = nextId + 1
    /\ runnable' = Tail(runnable)
    /\ UNCHANGED <<worker, spawned, ready, replays, disposed, initialized, needsReplay,
                   files, unsavedFiles, workspaceOptions, requests, attempt,
                   active, cancelled, engine, toClient, world>>

(* c has lost its worker before it could be posted.                        *)
PostsTooLate(c) ==
    /\ runnable /= <<>> /\ Head(runnable).error = "none" /\ Head(runnable).call = c
    /\ disposed \/ Head(runnable).worker /= worker
    /\ outcome' \in {[outcome EXCEPT ![c] = "WORKER_DISPOSED"],
                     [outcome EXCEPT ![c] = "WORKER_CANCELLED"]}
    /\ runnable' = Tail(runnable)
    /\ UNCHANGED <<client, requests, attempt, thread, world>>

Retries(c) ==
    /\ runnable /= <<>> /\ Head(runnable).error /= "none" /\ Head(runnable).call = c
    /\ ~disposed /\ attempt' = [attempt EXCEPT ![c] = 2]
    /\ needsReplay' = (initialized /\ ~IsInit(requests[c]))
    /\ EnsureReady(c, requests[c].kind, needsReplay', Tail(runnable))
    /\ UNCHANGED <<outcome, nextId, pending, pendingByKey, disposed, initialized, files,
                   unsavedFiles, workspaceOptions, requests, queued, active, cancelling,
                   cancelled, toClient, world>>

GivesUp(c) ==
    /\ runnable /= <<>> /\ Head(runnable).error /= "none" /\ Head(runnable).call = c
    /\ outcome' = [outcome EXCEPT ![c] = Head(runnable).error]
    /\ runnable' = Tail(runnable)
    /\ UNCHANGED <<client, requests, attempt, thread, world>>

(* A worker is lost: it crashed, hung, failed in its replay, or was let go.*)
Loses(error) ==
    /\ runnable = <<>> /\ LoseWorker(error) /\ replays' \subseteq replays
    /\ \/ disposed' = disposed /\ needsReplay' = initialized
       \/ disposed' = TRUE /\ needsReplay' = needsReplay

Ignores ==
    /\ runnable = <<>> /\ toClient /= <<>> /\ Head(toClient).id \notin DOMAIN pending
    /\ toClient' = Tail(toClient)
    /\ UNCHANGED <<client, calls, queued, active, cancelling, cancelled, engine, world>>

LearnsFrom(m, c) ==
    /\ runnable = <<>> /\ toClient /= <<>> /\ m = Head(toClient)
    /\ m.id \in PendingCalls /\ pending[m.id].call = c /\ AnswerCall(m, c)

EndsReplay(m) ==
    /\ runnable = <<>> /\ toClient /= <<>> /\ m = Head(toClient)
    /\ m.id \in DOMAIN pending /\ pending[m.id].call = Replay /\ AnswerReplay(m)

(* A call is answered at once, or goes on to _ensureReady.                 *)
LEMMA IssueCases ==
  ASSUME NEW c \in Call, NEW op \in Ops[c], Issue(c, op)
  PROVE  AnswersAtOnce(c, op) \/ GoesAway(c, op)
BY DEF Issue, AnswersAtOnce, GoesAway

(* A resolved call is posted, unless its worker is gone.                   *)
LEMMA PostCases ==
  ASSUME Post
  PROVE  \E c : Posts(c) \/ PostsTooLate(c)
<1> DEFINE c == Head(runnable).call
<1>1. CASE disposed \/ Head(runnable).worker /= worker
  <2>1. outcome' = [outcome EXCEPT ![c] = IF disposed THEN "WORKER_DISPOSED" ELSE "WORKER_CANCELLED"]
    BY <1>1 DEF Post
  <2>2. PostsTooLate(c) BY <1>1, <2>1 DEF Post, PostsTooLate, client, thread, calls, world
  <2>. QED BY <2>2
<1>2. CASE ~(disposed \/ Head(runnable).worker /= worker)
  <2>1. Posts(c) BY <1>2 DEF Post, Posts, Key, Old
  <2>. QED BY <2>1
<1>. QED BY <1>1, <1>2

(* A rejected call is tried once more, or given up.                        *)
LEMMA CatchCases ==
  ASSUME Catch
  PROVE  \E c : Retries(c) \/ GivesUp(c)
<1> DEFINE c == Head(runnable).call
<1>1. CASE attempt[c] = 1 /\ ~disposed /\ Head(runnable).error \in RetriableErrors
  <2>1. Retries(c) BY <1>1 DEF Catch, Retries, IsInit
  <2>. QED BY <2>1
<1>2. CASE ~(attempt[c] = 1 /\ ~disposed /\ Head(runnable).error \in RetriableErrors)
  <2>1. GivesUp(c) BY <1>2 DEF Catch, GivesUp, client, thread
  <2>. QED BY <2>1
<1>. QED BY <1>1, <1>2

(* An answer is nobody's, a call's, or the replay's.                       *)
LEMMA DeliverCases ==
  ASSUME Deliver
  PROVE  \/ Ignores \/ Loses("ANALYSIS_ERROR")
         \/ \E m : EndsReplay(m) \/ \E c : LearnsFrom(m, c)
BY DEF Deliver, Ignores, Loses, Fail, EndsReplay, LearnsFrom, PendingCalls

(* A crash, a timeout, cancelActive, dispose and a failed load all lose    *)
(* the worker in the same way.                                             *)
LEMMA LossCases ==
  ASSUME Crash \/ Timeout \/ CancelActive \/ Dispose \/ (\E r \in replays : ReplayLoadFails(r))
  PROVE  \E error \in Errors : Loses(error)
<1>1. CASE Crash BY <1>1 DEF Crash, Fail, Loses, Errors
<1>2. CASE Timeout BY <1>2 DEF Timeout, Fail, Loses, Errors
<1>3. CASE CancelActive BY <1>3 DEF CancelActive, Fail, Loses, Errors
<1>4. CASE Dispose BY <1>4 DEF Dispose, Loses, Errors
<1>5. CASE \E r \in replays : ReplayLoadFails(r) BY <1>5 DEF ReplayLoadFails, Fail, Loses, Errors
<1>. QED BY <1>1, <1>2, <1>3, <1>4, <1>5

(* The kinds of steps.                                                     *)
Hostside ==
    \/ \E c \in Call, op \in Operation : Issue(c, op) /\ (AnswersAtOnce(c, op) \/ GoesAway(c, op))
    \/ \E c : Posts(c) \/ PostsTooLate(c) \/ Retries(c) \/ GivesUp(c)
    \/ \E error \in Errors : Loses(error)
    \/ \E r \in replays : ReplayLoad(r) \/ ReplayAbandoned(r) \/ ReplayPost(r)
    \/ Ignores \/ \E m : EndsReplay(m) \/ \E c : LearnsFrom(m, c)

Threadside ==
    \/ \E id \in cancelling : ReceiveCancel(id)
    \/ Take \/ Finish \/ FinishWithError

(* Every step of Next is one of these.                                     *)
LEMMA StepCases == ASSUME Next PROVE Hostside \/ Threadside
<1>1. CASE \E c \in Call : \E op \in Ops[c] : Issue(c, op)
  <2>1. PICK c \in Call : \E op \in Ops[c] : Issue(c, op) BY <1>1
  <2>2. PICK op \in Ops[c] : Issue(c, op) BY <2>1
  <2>3. op \in Operation BY OpsAreOperations
  <2>. QED BY <2>2, <2>3, IssueCases DEF Hostside
<1>2. CASE Post BY <1>2, PostCases DEF Hostside
<1>3. CASE Catch BY <1>3, CatchCases DEF Hostside
<1>4. CASE Crash \/ Timeout \/ CancelActive \/ Dispose \/ \E r \in replays : ReplayLoadFails(r)
  BY <1>4, LossCases DEF Hostside
<1>5. CASE \E r \in replays : ReplayLoad(r) \/ ReplayAbandoned(r) \/ ReplayPost(r)
  BY <1>5 DEF Hostside
<1>6. CASE Deliver
  <2>1. "ANALYSIS_ERROR" \in Errors BY DEF Errors
  <2>. QED BY <1>6, <2>1, DeliverCases DEF Hostside
<1>7. CASE (\E id \in cancelling : ReceiveCancel(id)) \/ Take \/ Finish \/ FinishWithError
  BY <1>7 DEF Threadside
<1>. QED BY <1>1, <1>2, <1>3, <1>4, <1>5, <1>6, <1>7 DEF Next
-----------------------------------------------------------------------------
(* Types.                                                                  *)
LEMMA FreshTyped == FreshEngine \in EngineType /\ Empty \in [File -> Nat]
BY DEF FreshEngine, EngineType, Empty

(* A call leaves the disk, the editor texts and the settings well formed,  *)
(* and no version is above the clock.                                      *)
LEMMA WorldTyped ==
  ASSUME TypeOK, NEW op \in Operation, World(op)
  PROVE  /\ disk' \in [File -> 0..clock'] /\ dirty' \in [File -> 0..clock']
         /\ settings' \in Nat /\ clock' \in Nat /\ clock =< clock'
         /\ Current' \in [File -> Nat]
<1>1. op.kind \in {"updateFile", "removeFile"} => op.file \in File
  BY DEF Operation, NamesAFile
<1>2. disk \in [File -> 0..clock] /\ dirty \in [File -> 0..clock] /\ settings \in Nat /\ clock \in Nat
  BY DEF TypeOK
<1>3. /\ disk' \in [File -> 0..clock'] /\ dirty' \in [File -> 0..clock']
      /\ settings' \in Nat /\ clock' \in Nat /\ clock =< clock'
  <2>1. CASE op.kind = "updateFile"
    <3>1. clock' = clock + 1 /\ settings' = settings BY <2>1 DEF World
    <3>2. /\ disk' = IF op.unsaved THEN disk ELSE [disk EXCEPT ![op.file] = clock']
          /\ dirty' = [dirty EXCEPT ![op.file] = IF op.unsaved THEN clock' ELSE 0]
      BY <2>1 DEF World
    <3>3. 0..clock \subseteq 0..clock' /\ clock' \in 0..clock' /\ 0 \in 0..clock' BY <1>2, <3>1
    <3>4. disk \in [File -> 0..clock'] /\ dirty \in [File -> 0..clock'] BY <1>2, <3>3
    <3>5. dirty' \in [File -> 0..clock'] /\ disk' \in [File -> 0..clock'] BY <3>2, <3>3, <3>4
    <3>. QED BY <1>2, <3>1, <3>5
  <2>2. CASE op.kind = "removeFile"
    <3>1. clock' = clock /\ settings' = settings BY <2>2 DEF World
    <3>2. disk' = [disk EXCEPT ![op.file] = 0] /\ dirty' = [dirty EXCEPT ![op.file] = 0]
      BY <2>2 DEF World
    <3>3. 0 \in 0..clock' BY <1>2, <3>1
    <3>4. disk \in [File -> 0..clock'] /\ dirty \in [File -> 0..clock'] BY <1>2, <3>1
    <3>5. disk' \in [File -> 0..clock'] /\ dirty' \in [File -> 0..clock'] BY <3>2, <3>3, <3>4
    <3>. QED BY <1>2, <3>1, <3>5
  <2>3. CASE op.kind = "configure" BY <1>2, <2>3 DEF World
  <2>4. CASE op.kind \notin {"updateFile", "removeFile", "configure"}
    BY <1>2, <2>4 DEF World, world
  <2>. QED BY <2>1, <2>2, <2>3, <2>4
<1>4. Current' \in [File -> Nat] BY <1>3 DEF Current
<1>. QED BY <1>3, <1>4

(* What a call asks is a well formed request.                              *)
LEMMA RequestTyped ==
  ASSUME TypeOK, NEW op \in Operation, World(op)
  PROVE  RequestOf(op) \in RequestType
<1>1. Current' \in [File -> Nat] /\ settings' \in Nat BY WorldTyped
<1>2. Only(op.file, Current') \in [File -> Nat] BY <1>1 DEF Only
<1>3. {f \in File : dirty'[f] /= 0} \in SUBSET File OBVIOUS
<1>4. op.file \in File \union {NoFile} /\ op.kind \in Kinds /\ op.admitted \in BOOLEAN
  BY DEF Operation
<1>5. (op.kind /= "updateFile" \/ op.admitted) \in BOOLEAN OBVIOUS
<1>6. RequestOf(op).kind \in Kinds BY <1>4 DEF RequestOf, Kinds
<1>7. NamesAFile(RequestOf(op)) BY DEF RequestOf, NamesAFile, Operation
<1>8. RequestOf(op) \in [kind : Kinds, file : File \union {NoFile}, admitted : BOOLEAN,
                         contents : [File -> Nat], unsaved : SUBSET File, options : Nat]
  BY <1>1, <1>2, <1>3, <1>4, <1>5, <1>6 DEF RequestOf
<1>. QED BY <1>7, <1>8 DEF RequestType

(* _ensureReady leaves the worker, the barrier, the loaders and the        *)
(* continuations well formed.                                              *)
LEMMA EnsureReadyTyped ==
  ASSUME TypeOK, NEW c \in Call, NEW kind, NEW replay, NEW due \in Seq(ContinuationType),
         EnsureReady(c, kind, replay, due)
  PROVE  /\ ready' \in [worker : Nat, waiters : Seq(Call)]
         /\ runnable' \in Seq(ContinuationType)
         /\ worker' \in Nat /\ spawned' \in Nat
         /\ replays' \subseteq LoaderType /\ engine' \in EngineType
<1>1. \A w \in Nat : ResolvedWith(c, w) \in ContinuationType BY DEF ResolvedWith, ContinuationType
<1>2. /\ ready \in [worker : Nat, waiters : Seq(Call)] /\ worker \in Nat /\ spawned \in Nat
      /\ replays \subseteq LoaderType /\ engine \in EngineType /\ files \subseteq File
  BY DEF TypeOK
<1>3. CASE BarrierUp
  <2>1. ready.waiters \in Seq(Call) /\ ready.worker \in Nat BY <1>2
  <2>2. Append(ready.waiters, c) \in Seq(Call) BY <2>1
  <2>3. ready' = [ready EXCEPT !.waiters = Append(ready.waiters, c)] /\ runnable' = due
    BY <1>3 DEF EnsureReady
  <2>4. ready' \in [worker : Nat, waiters : Seq(Call)] BY <1>2, <2>2, <2>3
  <2>. QED BY <1>2, <1>3, <2>3, <2>4 DEF EnsureReady
<1>4. CASE ~BarrierUp /\ worker /= 0
  <2>1. runnable' = Append(due, ResolvedWith(c, worker)) BY <1>4 DEF EnsureReady
  <2>2. runnable' \in Seq(ContinuationType) BY <1>1, <1>2, <2>1
  <2>. QED BY <1>2, <1>4, <2>2 DEF EnsureReady
<1>5. CASE ~BarrierUp /\ worker = 0
  <2>1. engine' \in EngineType /\ worker' \in Nat /\ spawned' \in Nat
    BY <1>2, <1>5, FreshTyped DEF EnsureReady
  <2>2. CASE replay /\ kind /= "initializeWorkspace"
    <3>1. [worker |-> spawned + 1, todo |-> files, contents |-> Empty] \in LoaderType
      BY <1>2, FreshTyped DEF LoaderType
    <3>2. <<c>> \in Seq(Call) OBVIOUS
    <3>3. /\ ready' = [worker |-> spawned + 1, waiters |-> <<c>>] /\ runnable' = due
          /\ replays' = replays \union {[worker |-> spawned + 1, todo |-> files, contents |-> Empty]}
      BY <1>5, <2>2 DEF EnsureReady
    <3>. QED BY <1>2, <2>1, <3>1, <3>2, <3>3
  <2>3. CASE ~(replay /\ kind /= "initializeWorkspace")
    <3>1. /\ runnable' = Append(due, ResolvedWith(c, spawned + 1))
          /\ ready' = ready /\ replays' = replays
      BY <1>5, <2>3 DEF EnsureReady
    <3>2. runnable' \in Seq(ContinuationType) BY <1>1, <1>2, <3>1
    <3>. QED BY <1>2, <2>1, <3>1, <3>2
  <2>. QED BY <2>2, <2>3
<1>. QED BY <1>3, <1>4, <1>5

(* The continuation due is well formed, and so are the others.             *)
LEMMA DueTyped ==
  ASSUME TypeOK, runnable # <<>>
  PROVE  /\ Head(runnable) \in ContinuationType /\ Head(runnable).call \in Call
         /\ Tail(runnable) \in Seq(ContinuationType)
<1>1. runnable \in Seq(ContinuationType) BY DEF TypeOK
<1>2. Head(runnable) \in ContinuationType /\ Tail(runnable) \in Seq(ContinuationType)
  BY <1>1, BeheadedAt
<1>. QED BY <1>2 DEF ContinuationType

(* A call that was made has a well formed request.                         *)
LEMMA AskedTyped ==
  ASSUME TypeOK, NEW c \in Call, requests[c] /= NoRequest
  PROVE  requests[c] \in RequestType
BY DEF TypeOK

(* The cancel key tells the kind of a request and, of an update, its file; *)
(* only an initializeWorkspace has none.                                   *)
LEMMA KeyTyped ==
  ASSUME NEW request \in RequestType
  PROVE  /\ CancelKey(request) \in {"none", "update", "remove", "query", "configure"} \X (File \union {NoFile})
         /\ CancelKey(request) = NoKey <=> IsInit(request)
         /\ \A f \in File : CancelKey(request) = <<"update", f>> <=> IsUpdate(request, f)
         /\ CancelKey(request) = <<"configure", NoFile>> <=> request.kind = "configure"
<1>1. request.kind \in Kinds /\ request.file \in File \union {NoFile} /\ NamesAFile(request)
  BY DEF RequestType
<1>2. CASE IsInit(request) BY <1>1, <1>2 DEF IsInit, IsUpdate, CancelKey, NoKey
<1>3. CASE request.kind = "updateFile" BY <1>1, <1>3 DEF IsInit, IsUpdate, CancelKey, NoKey
<1>4. CASE request.kind = "removeFile" BY <1>1, <1>4 DEF IsInit, IsUpdate, CancelKey, NoKey
<1>5. CASE request.kind = "query" BY <1>1, <1>5 DEF IsInit, IsUpdate, CancelKey, NoKey
<1>6. CASE request.kind = "configure" BY <1>1, <1>6 DEF IsInit, IsUpdate, CancelKey, NoKey
<1>. QED BY <1>1, <1>2, <1>3, <1>4, <1>5, <1>6 DEF Kinds, IsInit

(* The next answer is well formed, and so are the others.                  *)
LEMMA AnswerTyped ==
  ASSUME TypeOK, toClient # <<>>
  PROVE  /\ Head(toClient) \in AnswerType /\ Tail(toClient) \in Seq(AnswerType)
         /\ Head(toClient) \in Answers
<1>1. toClient \in Seq(AnswerType) BY DEF TypeOK
<1>2. Head(toClient) \in Elements(toClient) BY <1>1, BeheadedElements
<1>. QED BY <1>1, <1>2, BeheadedAt DEF Answers

(* What the thread holds and what it has answered is well formed.          *)
LEMMA HeldTyped ==
  ASSUME TypeOK
  PROVE  Held \subseteq PostedType /\ Answers \subseteq AnswerType
<1>1. queued \in Seq(PostedType) /\ toClient \in Seq(AnswerType) BY DEF TypeOK
<1>2. Elements(queued) \subseteq PostedType BY <1>1, LenProperties, ElementOfSeq DEF Elements
<1>3. Elements(toClient) \subseteq AnswerType BY <1>1, LenProperties, ElementOfSeq DEF Elements
<1>. QED BY <1>2, <1>3 DEF Held, Answers, TypeOK
(* What posting does to the requests pending and to their keys.            *)
LEMMA PostsTyped ==
  ASSUME TypeOK, IssuedInOrder, NEW c, Posts(c)
  PROVE  /\ c \in Call /\ requests[c] \in RequestType /\ outcome[c] /= "idle"
         /\ [id |-> nextId, request |-> requests[c]] \in PostedType
         /\ Key(c) \in {"none", "update", "remove", "query", "configure"} \X (File \union {NoFile})
         /\ Old(c) \in Nat /\ (Old(c) \in DOMAIN pending => Old(c) \in 1..nextId - 1)
         /\ DOMAIN pending' = (DOMAIN pending \ {Old(c)}) \union {nextId}
         /\ nextId \notin DOMAIN pending
         /\ pending'[nextId] = [call |-> c, key |-> Key(c)]
         /\ \A id \in DOMAIN pending \ {Old(c)} : pending'[id] = pending[id]
<1>1. c \in Call BY DueTyped DEF Posts
<1>2. 1 \in DOMAIN runnable /\ Head(runnable) = runnable[1] BY DueAt DEF Posts
<1>3. outcome[c] /= "idle" BY <1>1, <1>2 DEF Posts, IssuedInOrder, Outstanding, Asked
<1>4. requests[c] \in RequestType BY <1>1, <1>3, AskedTyped DEF IssuedInOrder
<1>5. [id |-> nextId, request |-> requests[c]] \in PostedType BY <1>4 DEF PostedType, TypeOK
<1>6. Key(c) \in {"none", "update", "remove", "query", "configure"} \X (File \union {NoFile})
  BY <1>4, KeyTyped DEF Key
<1>7. DOMAIN pending \subseteq 1..nextId - 1 /\ nextId \in Nat \ {0} BY DEF TypeOK
<1>8. Old(c) \in Nat BY <1>7 DEF Old, TypeOK
<1>9. nextId \notin DOMAIN pending BY <1>7
<1>10. pending' = [id \in (DOMAIN pending \ {Old(c)}) \union {nextId} |->
                     IF id = nextId THEN [call |-> c, key |-> Key(c)] ELSE pending[id]]
  BY DEF Posts
<1>. QED BY <1>1, <1>3, <1>4, <1>5, <1>6, <1>7, <1>8, <1>9, <1>10

(* The engine is well formed after any request.                            *)
LEMMA AnalysedTyped ==
  ASSUME TypeOK, NEW request \in RequestType
  PROVE  Analysed(request) \in EngineType
<1>1. /\ request.kind \in Kinds /\ request.contents \in [File -> Nat] /\ request.options \in Nat
      /\ NamesAFile(request)
  BY DEF RequestType
<1>2. engine \in EngineType /\ engine.files \in [File -> Nat] BY DEF TypeOK, EngineType
<1>3. CASE request.kind = "initializeWorkspace"
  BY <1>1, <1>3, FreshTyped DEF Analysed, EngineType, FreshEngine
<1>4. CASE request.kind = "updateFile"
  <2>1. request.file \in File BY <1>1, <1>4 DEF NamesAFile
  <2> DEFINE v == IF request.admitted THEN request.contents[request.file] ELSE 0
  <2>2. v \in Nat BY <1>1, <2>1
  <2>3. Analysed(request) = [engine EXCEPT !.files = [engine.files EXCEPT ![request.file] = v]]
    BY <1>4, <1>2, <2>1 DEF Analysed, EngineType
  <2> HIDE DEF v
  <2>4. [engine.files EXCEPT ![request.file] = v] \in [File -> Nat] BY <1>2, <2>1, <2>2
  <2>. QED BY <1>2, <2>3, <2>4 DEF EngineType
<1>5. CASE request.kind = "removeFile"
  <2>1. request.file \in File BY <1>1, <1>5 DEF NamesAFile
  <2>3. Analysed(request) = [engine EXCEPT !.files = [engine.files EXCEPT ![request.file] = 0]]
    BY <1>5, <1>2, <2>1 DEF Analysed, EngineType
  <2>4. [engine.files EXCEPT ![request.file] = 0] \in [File -> Nat] BY <1>2, <2>1
  <2>. QED BY <1>2, <2>3, <2>4 DEF EngineType
<1>6. CASE request.kind = "configure" BY <1>1, <1>2, <1>6 DEF Analysed, EngineType
<1>7. CASE request.kind = "query" BY <1>2, <1>7 DEF Analysed
<1>. QED BY <1>1, <1>3, <1>4, <1>5, <1>6, <1>7 DEF Kinds

(* The engine is well formed after an analysis that throws.                *)
LEMMA FailedTyped ==
  ASSUME TypeOK, FinishWithError
  PROVE  engine' \in EngineType
<1>1. active.request \in RequestType BY DEF FinishWithError, TypeOK, PostedType
<1>2. active.request.options \in Nat /\ LeftUncertain(active.request) \subseteq File \union {NoFile}
  BY <1>1 DEF RequestType, LeftUncertain
<1>3. CASE active.request.kind = "initializeWorkspace"
  <2>1. engine' = [FreshEngine EXCEPT !.initFailed = TRUE, !.options = active.request.options]
    BY <1>3 DEF FinishWithError
  <2>. QED BY <1>2, <2>1, FreshTyped DEF EngineType, FreshEngine
<1>4. CASE active.request.kind /= "initializeWorkspace"
  <2>1. PICK e \in {engine, Analysed(active.request)} :
          engine' = [e EXCEPT !.rejected = @ \union LeftUncertain(active.request)]
    BY <1>4 DEF FinishWithError
  <2>2. e \in EngineType BY <1>1, <2>1, AnalysedTyped DEF TypeOK
  <2>. QED BY <1>2, <2>1, <2>2 DEF EngineType
<1>. QED BY <1>3, <1>4

(* What the client records of an answer is well formed.                    *)
LEMMA LearnedTyped ==
  ASSUME TypeOK, NEW request \in RequestType, NEW m
  PROVE  FilesAfter(request, m) \subseteq File /\ UnsavedAfter(request, m) \in [File -> Nat]
<1>1. request.contents \in [File -> Nat] /\ request.kind \in Kinds /\ NamesAFile(request)
  BY DEF RequestType
<1>2. Present(request.contents) \subseteq File BY DEF Present
<1>3. FilesAfter(request, m) \subseteq File
  <2>1. request.kind \in {"updateFile", "removeFile"} => request.file \in File BY <1>1 DEF NamesAFile
  <2>2. files \subseteq File BY DEF TypeOK
  <2>. QED BY <1>2, <2>1, <2>2 DEF FilesAfter
<1>4. UnsavedAfter(request, m) \in [File -> Nat]
  <2>1. request.kind \in {"updateFile", "removeFile"} => request.file \in File BY <1>1 DEF NamesAFile
  <2>2. unsavedFiles \in [File -> Nat] BY DEF TypeOK
  <2> DEFINE Text(f) == IF request.admitted /\ f \in request.unsaved THEN request.contents[f] ELSE 0
  <2>3. \A f \in File : Text(f) \in Nat BY <1>1
  <2>4. UnsavedAfter(request, m) \in
          {[f \in File |-> Text(f)], [unsavedFiles EXCEPT ![request.file] = Text(request.file)],
           [unsavedFiles EXCEPT ![request.file] = 0], unsavedFiles}
    BY DEF UnsavedAfter
  <2>5. [f \in File |-> Text(f)] \in [File -> Nat] BY <2>3
  <2>6. CASE request.file \in File
    <3>1. Text(request.file) \in Nat BY <2>3, <2>6
    <3>2. [unsavedFiles EXCEPT ![request.file] = Text(request.file)] \in [File -> Nat] BY <2>2, <3>1
    <3>3. [unsavedFiles EXCEPT ![request.file] = 0] \in [File -> Nat] BY <2>2
    <3>. QED BY <2>2, <2>4, <2>5, <3>2, <3>3
  <2>7. CASE request.file \notin File
    <3>1. request.kind \notin {"updateFile", "removeFile"} BY <2>1, <2>7
    <3>2. UnsavedAfter(request, m) \in {[f \in File |-> Text(f)], unsavedFiles}
      BY <3>1 DEF UnsavedAfter
    <3>. QED BY <2>2, <2>5, <3>2
  <2>. QED BY <2>6, <2>7
<1>. QED BY <1>3, <1>4
(* Only calls are due, waiting or pending.                                 *)
LEMMA OutstandingAre == ASSUME TypeOK PROVE Outstanding \subseteq Call
<1>1. runnable \in Seq(ContinuationType) /\ ready.waiters \in Seq(Call) BY DEF TypeOK
<1>2. \A i \in DOMAIN runnable : runnable[i].call \in Call
  <2>1. \A i \in DOMAIN runnable : runnable[i] \in ContinuationType BY <1>1, LenProperties, ElementOfSeq
  <2>. QED BY <2>1 DEF ContinuationType
<1>3. \A i \in DOMAIN ready.waiters : ready.waiters[i] \in Call BY <1>1, LenProperties, ElementOfSeq
<1>4. \A id \in PendingCalls : pending[id].call \in Call BY DEF PendingCalls, TypeOK, PendingType
<1>. QED BY <1>2, <1>3, <1>4 DEF Outstanding

(* A call that somebody will go on with has been made.                     *)
LEMMA OutstandingTyped ==
  ASSUME TypeOK, IssuedInOrder, NEW c \in Call, c \in Outstanding
  PROVE  requests[c] \in RequestType /\ outcome[c] /= "idle"
BY AskedTyped DEF IssuedInOrder, Asked

(* The call whose answer is read was made, and it alone is pending no      *)
(* more.                                                                   *)
LEMMA LearnsTyped ==
  ASSUME TypeOK, IssuedInOrder, NEW m, NEW c, LearnsFrom(m, c)
  PROVE  /\ c \in Call /\ requests[c] \in RequestType /\ outcome[c] /= "idle"
         /\ m \in Answers /\ m \in AnswerType /\ m.id \in DOMAIN pending
         /\ DOMAIN pending' = DOMAIN pending \ {m.id}
         /\ \A id \in DOMAIN pending \ {m.id} : pending'[id] = pending[id]
<1>1. m.id \in DOMAIN pending /\ c \in Call
  BY DEF LearnsFrom, PendingCalls, TypeOK, PendingType
<1>2. c \in Outstanding BY DEF LearnsFrom, Outstanding
<1>3. m \in Answers /\ m \in AnswerType BY AnswerTyped DEF LearnsFrom
<1>4. pending' = [id \in DOMAIN pending \ {m.id} |-> pending[id]]
  BY DEF LearnsFrom, AnswerCall, WithoutId
<1>. QED BY <1>1, <1>2, <1>3, <1>4, OutstandingTyped

(* When the replay is answered all its waiters go on, in order, with the   *)
(* worker it was for.                                                      *)
LEMMA EndsTyped ==
  ASSUME TypeOK, NEW m, EndsReplay(m)
  PROVE  /\ m \in Answers /\ m \in AnswerType /\ m.id \in DOMAIN pending
         /\ DOMAIN pending' = DOMAIN pending \ {m.id}
         /\ \A id \in DOMAIN pending \ {m.id} : pending'[id] = pending[id]
         /\ runnable' \in Seq(ContinuationType) /\ DOMAIN runnable' = 1..Len(ready.waiters)
         /\ \A i \in 1..Len(ready.waiters) :
              ready.waiters[i] \in Call /\ runnable'[i] = ResolvedWith(ready.waiters[i], worker)
<1>1. m \in Answers /\ m \in AnswerType BY AnswerTyped DEF EndsReplay
<1>2. pending' = [id \in DOMAIN pending \ {m.id} |-> pending[id]]
  BY DEF EndsReplay, AnswerReplay, WithoutId
<1>3. ready.waiters \in Seq(Call) /\ worker \in Nat BY DEF TypeOK
<1>4. \A i \in 1..Len(ready.waiters) : ready.waiters[i] \in Call BY <1>3, ElementOfSeq
<1>5. \A i \in 1..Len(ready.waiters) : ResolvedWith(ready.waiters[i], worker) \in ContinuationType
  BY <1>3, <1>4 DEF ResolvedWith, ContinuationType
<1>6. runnable' = [i \in 1..Len(ready.waiters) |-> ResolvedWith(ready.waiters[i], worker)]
  BY DEF EndsReplay, AnswerReplay
<1>7. runnable' \in Seq(ContinuationType) BY <1>3, <1>5, <1>6
<1>. QED BY <1>1, <1>2, <1>4, <1>6, <1>7 DEF EndsReplay

(* A loss leaves due what it rejects, and nothing else: nothing was due    *)
(* before.                                                                 *)
LEMMA LosesTyped ==
  ASSUME TypeOK, NEW error \in Errors, Loses(error)
  PROVE  \E ids \in InOrder(PendingCalls) : runnable' = RejectedBy(error, ids)
<1>1. PICK ids \in InOrder(PendingCalls) : runnable' = <<>> \o RejectedBy(error, ids)
  BY DEF Loses, LoseWorker
<1>. QED BY <1>1, RejectedAt, ConcatEmptySeq

(* Every step keeps the types.                                             *)
LEMMA TypeStep ==
  ASSUME TypeOK, IssuedInOrder, [Next]_vars
  PROVE  TypeOK'
<1> USE DEF client, calls, thread, world
<1>1. ASSUME NEW c \in Call, NEW op \in Operation, Issue(c, op) PROVE TypeOK'
  <2>1. /\ World(op) /\ requests' = [requests EXCEPT ![c] = RequestOf(op)]
        /\ UNCHANGED <<nextId, pending, pendingByKey, disposed, initialized, needsReplay,
                       files, unsavedFiles, queued, active, cancelling, cancelled, toClient>>
    BY <1>1 DEF Issue
  <2>2. requests' \in [Call -> RequestType \union {NoRequest}] BY <2>1, RequestTyped DEF TypeOK
  <2>3. settings' \in Nat BY <2>1, WorldTyped
  <2>4. CASE AnswersAtOnce(c, op)
    <3>1. outcome' \in [Call -> {"idle", "called"} \union Settled]
      BY <2>4 DEF AnswersAtOnce, TypeOK, Settled, Errors
    <3>2. workspaceOptions' \in Nat BY <2>3, <2>4 DEF AnswersAtOnce, TypeOK
    <3>. QED BY <2>1, <2>2, <2>4, <3>1, <3>2, WorldTyped DEF AnswersAtOnce, TypeOK
  <2>5. CASE GoesAway(c, op)
    <3>1. runnable \in Seq(ContinuationType) BY DEF TypeOK
    <3>2. outcome' \in [Call -> {"idle", "called"} \union Settled] /\ attempt' \in [Call -> 0..2]
      BY <2>5 DEF GoesAway, TypeOK
    <3>3. EnsureReady(c, requests'[c].kind, needsReplay, runnable) /\ workspaceOptions' = workspaceOptions
      BY <2>5 DEF GoesAway
    <3>. QED BY <2>1, <2>2, <3>1, <3>2, <3>3, EnsureReadyTyped, WorldTyped DEF TypeOK
  <2>. QED BY <1>1, <2>4, <2>5 DEF Issue, AnswersAtOnce, GoesAway
<1>2. ASSUME NEW c, Posts(c) PROVE TypeOK'
  <2>1. nextId' = nextId + 1 /\ nextId' \in Nat \ {0} /\ 1..nextId - 1 \subseteq 1..nextId' - 1
        /\ nextId \in 1..nextId' - 1
    <3>1. nextId' = nextId + 1 BY <1>2 DEF Posts
    <3>2. nextId \in Nat \ {0} BY DEF TypeOK
    <3>. QED BY <3>1, <3>2
  <2>2. DOMAIN pending' \subseteq 1..nextId' - 1
    <3>1. DOMAIN pending' = (DOMAIN pending \ {Old(c)}) \union {nextId} BY <1>2, PostsTyped
    <3>2. DOMAIN pending \subseteq 1..nextId - 1 BY DEF TypeOK
    <3>. QED BY <2>1, <3>1, <3>2
  <2>3. \A id \in DOMAIN pending' : pending'[id] \in PendingType
    <3>1. /\ DOMAIN pending' = (DOMAIN pending \ {Old(c)}) \union {nextId}
          /\ pending'[nextId] = [call |-> c, key |-> Key(c)] /\ c \in Call
          /\ Key(c) \in {"none", "update", "remove", "query", "configure"} \X (File \union {NoFile})
          /\ \A id \in DOMAIN pending \ {Old(c)} : pending'[id] = pending[id]
      BY <1>2, PostsTyped
    <3>2. [call |-> c, key |-> Key(c)] \in PendingType BY <3>1 DEF PendingType
    <3>3. \A id \in DOMAIN pending : pending[id] \in PendingType BY DEF TypeOK
    <3>. QED BY <3>1, <3>2, <3>3
  <2>4. \A key \in DOMAIN pendingByKey' : pendingByKey'[key] \in 1..nextId' - 1
    BY <1>2, <2>1 DEF Posts, TypeOK
  <2>5. queued' \in Seq(PostedType)
    <3>1. [id |-> nextId, request |-> requests[c]] \in PostedType BY <1>2, PostsTyped
    <3>2. queued' = Append(queued, [id |-> nextId, request |-> requests[c]]) BY <1>2 DEF Posts
    <3>3. queued \in Seq(PostedType) BY DEF TypeOK
    <3>. QED BY <3>1, <3>2, <3>3, AppendedAt
  <2>6. outcome' \in [Call -> {"idle", "called"} \union Settled]
    BY <1>2 DEF Posts, TypeOK, Settled, Errors
  <2>7. cancelling' \subseteq 1..nextId' - 1
    <3>1. Old(c) \in DOMAIN pending => Old(c) \in 1..nextId - 1 BY <1>2, PostsTyped
    <3>2. cancelling' = IF Old(c) \in DOMAIN pending THEN cancelling \union {Old(c)} ELSE cancelling
      BY <1>2 DEF Posts
    <3>3. cancelling \subseteq 1..nextId - 1 BY DEF TypeOK
    <3>. QED BY <2>1, <3>1, <3>2, <3>3
  <2>8. runnable' \in Seq(ContinuationType) BY <1>2, DueTyped DEF Posts
  <2>. QED BY <1>2, <2>1, <2>2, <2>3, <2>4, <2>5, <2>6, <2>7, <2>8 DEF Posts, TypeOK
<1>3. ASSUME NEW c, PostsTooLate(c) PROVE TypeOK'
  <2>1. runnable' \in Seq(ContinuationType) BY <1>3, DueTyped DEF PostsTooLate
  <2>2. outcome' \in [Call -> {"idle", "called"} \union Settled]
    BY <1>3 DEF PostsTooLate, TypeOK, Settled, Errors
  <2>. QED BY <1>3, <2>1, <2>2 DEF PostsTooLate, TypeOK
<1>4. ASSUME NEW c, Retries(c) PROVE TypeOK'
  <2>1. c \in Call /\ Tail(runnable) \in Seq(ContinuationType) BY <1>4, DueTyped DEF Retries
  <2>2. EnsureReady(c, requests[c].kind, needsReplay', Tail(runnable)) BY <1>4 DEF Retries
  <2>3. attempt' \in [Call -> 0..2]
    <3>1. attempt' = [attempt EXCEPT ![c] = 2] /\ 2 \in 0..2 BY <1>4 DEF Retries
    <3>. QED BY <3>1 DEF TypeOK
  <2>4. needsReplay' \in BOOLEAN BY <1>4 DEF Retries, IsInit
  <2>. QED BY <1>4, <2>1, <2>2, <2>3, <2>4, EnsureReadyTyped DEF Retries, TypeOK
<1>5. ASSUME NEW c, GivesUp(c) PROVE TypeOK'
  <2>1. runnable' \in Seq(ContinuationType) BY <1>5, DueTyped DEF GivesUp
  <2>2. Head(runnable).error \in Errors BY <1>5, DueTyped DEF GivesUp, ContinuationType
  <2>3. outcome' \in [Call -> {"idle", "called"} \union Settled]
    BY <1>5, <2>2 DEF GivesUp, TypeOK, Settled
  <2>. QED BY <1>5, <2>1, <2>3 DEF GivesUp, TypeOK
<1>6. ASSUME NEW error \in Errors, Loses(error) PROVE TypeOK'
  <2>1. runnable' \in Seq(ContinuationType) BY <1>6, LosesTyped, RejectedAt
  <2>2. ready' \in [worker : Nat, waiters : Seq(Call)] BY <1>6 DEF Loses, LoseWorker, NotReady
  <2>3. DOMAIN pending' = {} /\ DOMAIN pendingByKey' = {} BY <1>6 DEF Loses, LoseWorker
  <2>4. queued' \in Seq(PostedType) BY <1>6 DEF Loses, LoseWorker
  <2>5. disposed' \in BOOLEAN BY <1>6 DEF Loses, TypeOK
  <2>6. needsReplay' \in BOOLEAN BY <1>6 DEF Loses, TypeOK
  <2>. QED BY <1>6, <2>1, <2>2, <2>3, <2>4, <2>5, <2>6, FreshTyped DEF Loses, LoseWorker, TypeOK
<1>7. ASSUME NEW r \in replays, ReplayLoad(r) PROVE TypeOK'
  <2>1. r \in LoaderType BY DEF TypeOK
  <2>2. PICK f \in r.todo :
          LET text == IF unsavedFiles[f] /= 0 THEN unsavedFiles[f] ELSE Current[f]
          IN  /\ replays' = (replays \ {r}) \union
                   {[r EXCEPT !.todo = @ \ {f}, !.contents[f] = text]}
              /\ files' = IF text = 0 THEN files \ {f} ELSE files \union {f}
              /\ unsavedFiles' = IF text = 0 THEN [unsavedFiles EXCEPT ![f] = 0] ELSE unsavedFiles
    BY <1>7 DEF ReplayLoad
  <2> DEFINE text == IF unsavedFiles[f] /= 0 THEN unsavedFiles[f] ELSE Current[f]
  <2>3. f \in File /\ Current[f] \in Nat /\ unsavedFiles[f] \in Nat
    BY <2>1 DEF LoaderType, Current, TypeOK
  <2>4. text \in Nat BY <2>3
  <2>5. /\ replays' = (replays \ {r}) \union {[r EXCEPT !.todo = @ \ {f}, !.contents[f] = text]}
        /\ files' = IF text = 0 THEN files \ {f} ELSE files \union {f}
        /\ unsavedFiles' = IF text = 0 THEN [unsavedFiles EXCEPT ![f] = 0] ELSE unsavedFiles
    BY <2>2
  <2> HIDE DEF text
  <2>6. [r EXCEPT !.todo = @ \ {f}, !.contents[f] = text] \in LoaderType
    BY <2>1, <2>3, <2>4 DEF LoaderType
  <2>7. replays' \subseteq LoaderType BY <2>5, <2>6 DEF TypeOK
  <2>8. files' \subseteq File /\ unsavedFiles' \in [File -> Nat] BY <2>3, <2>5 DEF TypeOK
  <2>. QED BY <1>7, <2>7, <2>8 DEF ReplayLoad, TypeOK
<1>8. ASSUME NEW r \in replays, ReplayAbandoned(r) PROVE TypeOK'
  BY <1>8 DEF ReplayAbandoned, TypeOK
<1>9. ASSUME NEW r \in replays, ReplayPost(r) PROVE TypeOK'
  <2>1. nextId' = nextId + 1 /\ nextId' \in Nat \ {0} /\ 1..nextId - 1 \subseteq 1..nextId' - 1
    BY <1>9 DEF ReplayPost, TypeOK
  <2>2. pending' = [id \in DOMAIN pending \union {nextId} |->
                     IF id = nextId THEN [call |-> Replay, key |-> NoKey] ELSE pending[id]]
    BY <1>9 DEF ReplayPost
  <2>3. [call |-> Replay, key |-> NoKey] \in PendingType BY DEF PendingType, NoKey
  <2>4. /\ DOMAIN pending' \subseteq 1..nextId' - 1
        /\ \A id \in DOMAIN pending' : pending'[id] \in PendingType
    BY <2>1, <2>2, <2>3 DEF TypeOK
  <2>5. \A key \in DOMAIN pendingByKey' : pendingByKey'[key] \in 1..nextId' - 1
    BY <1>9, <2>1 DEF ReplayPost, TypeOK
  <2> DEFINE request == [kind |-> "initializeWorkspace", file |-> NoFile, admitted |-> TRUE,
                         contents |-> r.contents, unsaved |-> Present(unsavedFiles),
                         options |-> workspaceOptions]
  <2>6. r.contents \in [File -> Nat] BY DEF TypeOK, LoaderType
  <2>7. request \in RequestType BY <2>6 DEF RequestType, Kinds, NamesAFile, Present, TypeOK
  <2>8. queued' = Append(queued, [id |-> nextId, request |-> request]) BY <1>9 DEF ReplayPost
  <2> HIDE DEF request
  <2>9. [id |-> nextId, request |-> request] \in PostedType BY <2>7 DEF PostedType, TypeOK
  <2>10. queued' \in Seq(PostedType) BY <2>8, <2>9 DEF TypeOK
  <2>11. cancelling' \subseteq 1..nextId' - 1 /\ cancelled' \subseteq 1..nextId' - 1
    BY <1>9, <2>1 DEF ReplayPost, TypeOK
  <2>. QED BY <1>9, <2>1, <2>4, <2>5, <2>10, <2>11 DEF ReplayPost, TypeOK
<1>10. CASE Ignores BY <1>10, AnswerTyped DEF Ignores, TypeOK
<1>11. ASSUME NEW m, EndsReplay(m) PROVE TypeOK'
  <2>1. ready' \in [worker : Nat, waiters : Seq(Call)]
    BY <1>11 DEF EndsReplay, AnswerReplay, NotReady
  <2>2. toClient' \in Seq(AnswerType) BY <1>11, AnswerTyped DEF EndsReplay, AnswerReplay
  <2>. QED BY <1>11, <2>1, <2>2, EndsTyped DEF EndsReplay, AnswerReplay, TypeOK
<1>12. ASSUME NEW m, NEW c, LearnsFrom(m, c) PROVE TypeOK'
  <2>1. toClient' \in Seq(AnswerType) BY <1>12, AnswerTyped DEF LearnsFrom, AnswerCall
  <2>2. outcome' \in [Call -> {"idle", "called"} \union Settled]
    BY <1>12 DEF LearnsFrom, AnswerCall, TypeOK, Settled, Errors
  <2>3. \A key \in DOMAIN pendingByKey' : pendingByKey'[key] \in 1..nextId - 1
    BY <1>12 DEF LearnsFrom, AnswerCall, KeysWithout, TypeOK
  <2>4. requests[c].options \in Nat BY <1>12, LearnsTyped DEF RequestType
  <2>5. /\ files' \subseteq File /\ unsavedFiles' \in [File -> Nat] /\ workspaceOptions' \in Nat
        /\ initialized' \in BOOLEAN /\ needsReplay' \in BOOLEAN
    <3>1. CASE m.ok
      <4>1. Learn(requests[c], m) BY <1>12, <3>1 DEF LearnsFrom, AnswerCall
      <4>2. FilesAfter(requests[c], m) \subseteq File /\ UnsavedAfter(requests[c], m) \in [File -> Nat]
        BY <1>12, LearnsTyped, LearnedTyped
      <4>. QED BY <2>4, <4>1, <4>2 DEF Learn, TypeOK
    <3>2. CASE ~m.ok
      BY <1>12, <3>2 DEF LearnsFrom, AnswerCall, TypeOK
    <3>. QED BY <3>1, <3>2
  <2>6. /\ DOMAIN pending' \subseteq DOMAIN pending
        /\ \A id \in DOMAIN pending' : pending'[id] = pending[id]
    BY <1>12 DEF LearnsFrom, AnswerCall, WithoutId
  <2>7. UNCHANGED <<nextId, worker, spawned, ready, replays, disposed, requests, attempt,
                    runnable, queued, active, cancelling, cancelled, engine, world>>
    BY <1>12 DEF LearnsFrom, AnswerCall
  <2>. QED BY <2>1, <2>2, <2>3, <2>5, <2>6, <2>7 DEF TypeOK
<1>13. ASSUME NEW id \in cancelling, ReceiveCancel(id) PROVE TypeOK'
  BY <1>13 DEF ReceiveCancel, TypeOK
<1>14. CASE Take
  <2>1. Head(queued) \in PostedType /\ Tail(queued) \in Seq(PostedType)
    BY <1>14, BeheadedAt DEF Take, TypeOK
  <2>. QED BY <1>14, <2>1 DEF Take, TypeOK
<1>15. CASE Finish
  <2>1. active \in PostedType BY <1>15 DEF Finish, TypeOK
  <2>2. engine' \in EngineType BY <1>15, <2>1, AnalysedTyped DEF Finish, PostedType
  <2>3. toClient' \in Seq(AnswerType)
    <3>1. [id |-> active.id, ok |-> TRUE,
                 removed |-> active.request.kind = "removeFile" /\
                             engine.files[active.request.file] /= 0] \in AnswerType
      BY <2>1 DEF PostedType, AnswerType
    <3>2. toClient \in Seq(AnswerType) BY DEF TypeOK
    <3>3. toClient' \in {toClient, Append(toClient, [id |-> active.id, ok |-> TRUE,
                 removed |-> active.request.kind = "removeFile" /\
                             engine.files[active.request.file] /= 0])}
      BY <1>15 DEF Finish
    <3>. QED BY <3>1, <3>2, <3>3, AppendedAt
  <2>. QED BY <1>15, <2>2, <2>3 DEF Finish, TypeOK
<1>16. CASE FinishWithError
  <2>1. active \in PostedType BY <1>16 DEF FinishWithError, TypeOK
  <2>2. [id |-> active.id, ok |-> FALSE, removed |-> FALSE] \in AnswerType
    BY <2>1 DEF PostedType, AnswerType
  <2>3. toClient' \in Seq(AnswerType) BY <1>16, <2>2 DEF FinishWithError, TypeOK
  <2>. QED BY <1>16, <2>3, FailedTyped DEF FinishWithError, TypeOK
<1>17. CASE UNCHANGED vars BY <1>17 DEF vars, TypeOK
<1>. QED BY <1>1, <1>2, <1>3, <1>4, <1>5, <1>6, <1>7, <1>8, <1>9, <1>10, <1>11, <1>12, <1>13,
            <1>14, <1>15, <1>16, <1>17, StepCases DEF Hostside, Threadside
-----------------------------------------------------------------------------
(* The life of a worker, step by step.                                     *)
(* A posted request joins those the thread holds.                          *)
LEMMA HeldPosted ==
  ASSUME TypeOK, NEW e \in PostedType, queued' = Append(queued, e), active' = active
  PROVE  Held' = Held \union {e}
<1>1. Elements(queued') = Elements(queued) \union {e} BY AppendedElements DEF TypeOK
<1>2. e # Idle BY DEF PostedType, Idle
<1>. QED BY <1>1, <1>2 DEF Held

(* Taking and finishing give the thread nothing new to hold.               *)
LEMMA HeldLess ==
  ASSUME TypeOK, Take \/ Finish \/ FinishWithError
  PROVE  Held' \subseteq Held /\ Held # {}
<1>1. queued \in Seq(PostedType) BY DEF TypeOK
<1>2. CASE Take
  <2>1. Elements(queued) = {Head(queued)} \union Elements(Tail(queued))
    BY <1>1, <1>2, BeheadedElements DEF Take
  <2>2. queued' = Tail(queued) /\ active' \in {active, Head(queued)} BY <1>2 DEF Take
  <2>. QED BY <1>2, <2>1, <2>2 DEF Held, Take
<1>3. CASE Finish BY <1>3 DEF Finish, Held
<1>4. CASE FinishWithError BY <1>4 DEF FinishWithError, Held
<1>. QED BY <1>2, <1>3, <1>4

(* Waiting for a worker, or spawning one.                                  *)
LEMMA EnsuresLives ==
  ASSUME TypeOK, Lives, NEW c \in Call, NEW kind, NEW replay \in BOOLEAN,
         NEW due \in Seq(ContinuationType), EnsureReady(c, kind, replay, due),
         ~disposed, replay => initialized, needsReplay' => initialized,
         \A i \in DOMAIN due : due[i].error = "none" =>
            worker /= 0 /\ due[i].worker = worker /\ ready.worker = 0,
         UNCHANGED <<pending, queued, active, initialized, disposed, files>>
  PROVE  Lives' /\ engine' = engine /\ worker' /= 0 /\ Held' = Held
<1>1. Held' = Held /\ PendingCalls' = PendingCalls BY DEF Held, PendingCalls
<1>2. /\ worker \in Nat /\ spawned \in Nat /\ worker \in 0..spawned
      /\ ready.worker \in Nat /\ ready \in [worker : Nat, waiters : Seq(Call)]
  BY DEF Lives, WorkersAreNumbered, TypeOK
<1>3. CASE BarrierUp
  <2>1. /\ ready' = [ready EXCEPT !.waiters = Append(ready.waiters, c)] /\ runnable' = due
        /\ UNCHANGED <<worker, spawned, replays, engine>>
    BY <1>3 DEF EnsureReady
  <2>2. ready'.worker = ready.worker /\ ready.worker # 0 BY <1>2, <1>3, <2>1 DEF BarrierUp
  <2>3. worker' # 0 BY <2>1, <2>2 DEF Lives, BarrierHolds
  <2>4. WithoutWorker' BY <2>3 DEF WithoutWorker
  <2>5. WorkersAreNumbered' BY <2>1 DEF Lives, WorkersAreNumbered
  <2>6. BarrierHolds' BY <1>1, <2>1, <2>2 DEF Lives, BarrierHolds
  <2>7. ResolvedByCurrent' BY <2>1, <2>2 DEF ResolvedByCurrent, Resolved
  <2>8. LoadersComeFirst' BY <1>1, <2>1, <2>2 DEF Lives, LoadersComeFirst, Present
  <2>. QED BY <1>1, <2>1, <2>3, <2>4, <2>5, <2>6, <2>7, <2>8 DEF Lives
<1>4. CASE ~BarrierUp /\ worker /= 0
  <2>1. /\ runnable' = Append(due, ResolvedWith(c, worker))
        /\ UNCHANGED <<worker, spawned, ready, replays, engine>>
    BY <1>4 DEF EnsureReady
  <2>2. ready.worker = 0 BY <1>4 DEF BarrierUp
  <2>3. ResolvedWith(c, worker) \in ContinuationType BY <1>2 DEF ResolvedWith, ContinuationType
  <2>4. WithoutWorker' BY <1>4, <2>1 DEF WithoutWorker
  <2>5. WorkersAreNumbered' BY <2>1 DEF Lives, WorkersAreNumbered
  <2>6. BarrierHolds' BY <1>1, <2>1 DEF Lives, BarrierHolds
  <2>7. ResolvedByCurrent'
    <3>1. \A i \in DOMAIN runnable' : (i \in DOMAIN due /\ runnable'[i] = due[i])
                                      \/ runnable'[i] = ResolvedWith(c, worker)
      BY <2>1, <2>3, AppendedAt
    <3>2. ResolvedWith(c, worker).worker = worker BY DEF ResolvedWith
    <3>. QED BY <1>4, <2>1, <2>2, <3>1, <3>2 DEF ResolvedByCurrent, Resolved
  <2>8. LoadersComeFirst' BY <1>1, <2>1 DEF Lives, LoadersComeFirst, Present
  <2>. QED BY <1>1, <1>4, <2>1, <2>4, <2>5, <2>6, <2>7, <2>8 DEF Lives
<1>5. CASE ~BarrierUp /\ worker = 0
  <2>1. spawned' = spawned + 1 /\ worker' = spawned + 1 /\ engine' = FreshEngine
    BY <1>5 DEF EnsureReady
  <2>2. DOMAIN pending = {} /\ Held = {} /\ ready = NotReady /\ engine = FreshEngine
    BY <1>5 DEF Lives, WithoutWorker
  <2>3. ready.worker = 0 BY <1>5 DEF BarrierUp
  <2>4. \A r \in replays : r.worker \in 1..spawned
    BY DEF Lives, LoadersComeFirst
  <2>5. worker' # 0 /\ worker' \in 0..spawned' BY <1>2, <2>1
  <2>6. WithoutWorker' BY <2>5 DEF WithoutWorker
  <2>7. WorkersAreNumbered' BY <2>5 DEF WorkersAreNumbered
  <2>8. \A i \in DOMAIN due : due[i].error # "none" BY <1>5
  <2>9. CASE replay /\ kind /= "initializeWorkspace"
    <3> DEFINE new == [worker |-> spawned + 1, todo |-> files, contents |-> Empty]
    <3>1. /\ ready' = [worker |-> spawned + 1, waiters |-> <<c>>] /\ runnable' = due
          /\ replays' = replays \union {new}
      BY <1>5, <2>9 DEF EnsureReady
    <3>2. BarrierHolds' BY <1>1, <1>2, <2>1, <2>2, <2>9, <3>1 DEF BarrierHolds, PendingCalls
    <3>3. ResolvedByCurrent' BY <2>8, <3>1 DEF ResolvedByCurrent, Resolved
    <3>4. LoadersComeFirst'
      <4>1. ASSUME NEW r \in replays'
            PROVE  /\ r.worker \in 1..spawned'
                   /\ \A s \in replays' : s.worker = r.worker => s = r
        BY <1>2, <2>1, <2>4, <3>1, <4>1 DEF Lives, LoadersComeFirst
      <4>2. ASSUME NEW r \in replays', r.worker = worker' PROVE r = new
        BY <1>2, <2>1, <2>4, <3>1, <4>2
      <4>3. new.todo \subseteq files /\ Present(new.contents) = {} BY DEF Present, Empty
      <4>4. ready'.worker = worker' BY <2>1, <3>1
      <4> HIDE DEF new
      <4>. QED BY <1>1, <2>1, <2>2, <4>1, <4>2, <4>3, <4>4 DEF LoadersComeFirst, Present
    <3>. QED BY <1>1, <2>1, <2>2, <2>5, <2>6, <2>7, <3>2, <3>3, <3>4 DEF Lives
  <2>10. CASE ~(replay /\ kind /= "initializeWorkspace")
    <3>1. /\ runnable' = Append(due, ResolvedWith(c, spawned + 1))
          /\ UNCHANGED <<ready, replays>>
      BY <1>5, <2>10 DEF EnsureReady
    <3>2. BarrierHolds' BY <1>1, <2>2, <2>3, <3>1 DEF Lives, BarrierHolds
    <3>3. ResolvedByCurrent'
      <4>1. ResolvedWith(c, spawned + 1) \in ContinuationType
        BY <1>2 DEF ResolvedWith, ContinuationType
      <4>2. \A i \in DOMAIN runnable' : (i \in DOMAIN due /\ runnable'[i] = due[i])
                                      \/ runnable'[i] = ResolvedWith(c, spawned + 1)
        BY <3>1, <4>1, AppendedAt
      <4>3. ResolvedWith(c, spawned + 1).worker = spawned + 1 BY DEF ResolvedWith
      <4>. QED BY <2>1, <2>3, <2>5, <2>8, <3>1, <4>2, <4>3 DEF ResolvedByCurrent, Resolved
    <3>4. LoadersComeFirst'
      <4>1. \A r \in replays : r.worker # worker' BY <1>2, <2>1, <2>4
      <4>2. \A r \in replays : r.worker \in 1..spawned' BY <1>2, <2>1, <2>4
      <4>. QED BY <3>1, <4>1, <4>2 DEF Lives, LoadersComeFirst
    <3>. QED BY <1>1, <2>1, <2>2, <2>5, <2>6, <2>7, <3>2, <3>3, <3>4 DEF Lives
  <2>. QED BY <2>9, <2>10
<1>. QED BY <1>3, <1>4, <1>5
(* The replay is none of the calls.                                        *)
LEMMA CallsAreNoReplay == Replay \notin Call /\ Call \subseteq Nat
<1>1. Cardinality(Call) \in Nat BY CallsAreNumbered, FS_CardinalityType
<1>2. Call = 1..Cardinality(Call) BY CallsAreNumbered
<1>. QED BY <1>1, <1>2 DEF Replay

(* No error is the absence of one.                                         *)
LEMMA ErrorsAreErrors == "none" \notin Errors
BY DEF Errors

(* Every continuation rejected in a loss carries its error.                *)
LEMMA LosesRejects ==
  ASSUME TypeOK, NEW error \in Errors, Loses(error)
  PROVE  \A i \in DOMAIN runnable' : runnable'[i].error = error
<1>1. PICK ids \in InOrder(PendingCalls) : runnable' = RejectedBy(error, ids) BY LosesTyped
<1>2. /\ Len(ready.waiters) \in Nat /\ Len(ids) \in Nat
      /\ DOMAIN runnable' = 1..Len(ready.waiters) + Len(ids)
      /\ \A i \in 1..Len(ready.waiters) : runnable'[i] = RejectedWith(ready.waiters[i], error)
      /\ \A i \in 1..Len(ids) :
           runnable'[Len(ready.waiters) + i] = RejectedWith(pending[ids[i]].call, error)
  BY <1>1, RejectedAt
<1>3. \A c : RejectedWith(c, error).error = error BY DEF RejectedWith
<1>4. ASSUME NEW i \in DOMAIN runnable' PROVE runnable'[i].error = error
  <2>1. CASE i \in 1..Len(ready.waiters) BY <1>2, <1>3, <2>1
  <2>2. CASE i \notin 1..Len(ready.waiters)
    <3>1. i - Len(ready.waiters) \in 1..Len(ids)
          /\ i = Len(ready.waiters) + (i - Len(ready.waiters))
      BY <1>2, <1>4, <2>2
    <3>. QED BY <1>2, <1>3, <3>1
  <2>. QED BY <2>1, <2>2
<1>. QED BY <1>4

(* A loss leaves no worker, and nothing of it.                             *)
LEMMA LosesLives ==
  ASSUME TypeOK, Lives, NEW error \in Errors, Loses(error)
  PROVE  Lives' /\ Held' = {}
<1>1. /\ worker' = 0 /\ ready' = NotReady /\ DOMAIN pending' = {} /\ engine' = FreshEngine
      /\ queued' = <<>> /\ active' = Idle /\ replays' \subseteq replays
      /\ spawned' = spawned /\ initialized' = initialized
  BY DEF Loses, LoseWorker
<1>2. Held' = {} BY <1>1, NothingIn DEF Held
<1>3. initialized' /\ ~disposed' => needsReplay' BY <1>1 DEF Loses
<1>4. WithoutWorker' BY <1>1, <1>2, <1>3 DEF WithoutWorker
<1>5. needsReplay' => initialized' BY <1>1 DEF Loses, Lives, WorkersAreNumbered
<1>6. WorkersAreNumbered' BY <1>1, <1>5 DEF WorkersAreNumbered, TypeOK
<1>7. BarrierHolds' BY <1>1 DEF BarrierHolds, NotReady
<1>8. ResolvedByCurrent' BY LosesRejects, ErrorsAreErrors DEF ResolvedByCurrent, Resolved
<1>9. \A r \in replays : r.worker \in 1..spawned BY DEF Lives, LoadersComeFirst
<1>10. LoadersComeFirst' BY <1>1, <1>9 DEF Lives, LoadersComeFirst
<1>. QED BY <1>2, <1>4, <1>6, <1>7, <1>8, <1>10 DEF Lives

(* Who is posted finds its worker, past its barrier.                       *)
LEMMA PostsLives ==
  ASSUME TypeOK, Lives, NEW c, Posts(c) \/ PostsTooLate(c)
  PROVE  /\ Posts(c) /\ worker /= 0 /\ ready.worker = 0 /\ ready = NotReady
         /\ \A r \in replays : r.worker # worker
<1>1. 1 \in DOMAIN runnable /\ Head(runnable) = runnable[1]
  BY DueAt DEF Posts, PostsTooLate
<1>2. worker # 0 /\ Head(runnable).worker = worker /\ ready.worker = 0
  BY <1>1 DEF Posts, PostsTooLate, Lives, ResolvedByCurrent, Resolved
<1>3. ~disposed BY <1>2 DEF Lives, WorkersAreNumbered
<1>4. \A r \in replays : r.worker # worker BY <1>2 DEF Lives, LoadersComeFirst
<1>5. ready = NotReady BY <1>2 DEF Lives, BarrierHolds
<1>. QED BY <1>2, <1>3, <1>4, <1>5 DEF PostsTooLate

(* Every step keeps one worker at most, its barrier, and its loader.       *)
LEMMA LivesStep ==
  ASSUME TypeOK, IssuedInOrder, Lives, [Next]_vars
  PROVE  Lives'
<1> USE DEF client, calls, thread, world
<1>1. ASSUME NEW c \in Call, NEW op \in Operation, Issue(c, op) PROVE Lives'
  <2>1. UNCHANGED <<pending, queued, active, disposed, initialized, needsReplay, files>>
        /\ runnable = <<>>
    BY <1>1 DEF Issue
  <2>2. CASE AnswersAtOnce(c, op)
    BY <2>1, <2>2 DEF AnswersAtOnce, Lives, WithoutWorker, WorkersAreNumbered, BarrierHolds,
       ResolvedByCurrent, LoadersComeFirst, Resolved, Held, PendingCalls, Present
  <2>3. CASE GoesAway(c, op)
    <3>1. ~disposed /\ EnsureReady(c, requests'[c].kind, needsReplay, runnable)
      BY <2>3 DEF GoesAway, Refused
    <3>2. /\ runnable \in Seq(ContinuationType) /\ DOMAIN runnable = {} /\ needsReplay \in BOOLEAN
          /\ (needsReplay => initialized)
      BY <2>1, NothingIn DEF TypeOK, Lives, WorkersAreNumbered
    <3>. QED BY <2>1, <3>1, <3>2, EnsuresLives
  <2>. QED BY <1>1, <2>2, <2>3 DEF Issue, AnswersAtOnce, GoesAway
<1>2. ASSUME NEW c, Posts(c) \/ PostsTooLate(c) PROVE Lives'
  <2>1. Posts(c) /\ worker # 0 /\ ready.worker = 0 /\ \A r \in replays : r.worker # worker
    BY <1>2, PostsLives
  <2>2. /\ UNCHANGED <<worker, spawned, ready, replays, disposed, initialized, needsReplay, files, engine>>
        /\ runnable' = Tail(runnable)
    BY <2>1 DEF Posts
  <2>3. c \in Call /\ DOMAIN pending' = (DOMAIN pending \ {Old(c)}) \union {nextId}
        /\ pending'[nextId].call = c /\ \A id \in DOMAIN pending \ {Old(c)} : pending'[id] = pending[id]
    <3>1. pending'[nextId] = [call |-> c, key |-> Key(c)] BY <2>1, PostsTyped
    <3>2. pending'[nextId].call = c BY <3>1
    <3>. QED BY <2>1, <3>2, PostsTyped
  <2>4. WithoutWorker' BY <2>1, <2>2 DEF WithoutWorker
  <2>5. WorkersAreNumbered' BY <2>2 DEF Lives, WorkersAreNumbered
  <2>6. BarrierHolds' BY <2>1, <2>2, <2>3, CallsAreNoReplay DEF Lives, BarrierHolds
  <2>7. \A i \in DOMAIN runnable' : i + 1 \in DOMAIN runnable /\ runnable'[i] = runnable[i + 1]
    BY <2>1, <2>2, DueAt DEF Posts
  <2>8. ResolvedByCurrent' BY <2>2, <2>7 DEF Lives, ResolvedByCurrent, Resolved
  <2>9. LoadersComeFirst' BY <2>1, <2>2 DEF Lives, LoadersComeFirst
  <2>. QED BY <2>4, <2>5, <2>6, <2>8, <2>9 DEF Lives
<1>3. ASSUME NEW c, Retries(c) \/ GivesUp(c) PROVE Lives'
  <2>1. runnable # <<>> /\ Head(runnable).call = c BY <1>3 DEF Retries, GivesUp
  <2>2. /\ \A i \in DOMAIN Tail(runnable) : i + 1 \in DOMAIN runnable /\ Tail(runnable)[i] = runnable[i + 1]
        /\ Tail(runnable) \in Seq(ContinuationType) /\ c \in Call
    BY <2>1, DueAt, DueTyped
  <2>3. \A i \in DOMAIN Tail(runnable) : Tail(runnable)[i].error = "none" =>
            worker /= 0 /\ Tail(runnable)[i].worker = worker /\ ready.worker = 0
    BY <2>2 DEF Lives, ResolvedByCurrent, Resolved
  <2>4. CASE Retries(c)
    <3>1. /\ ~disposed /\ EnsureReady(c, requests[c].kind, needsReplay', Tail(runnable))
          /\ needsReplay' = (initialized /\ ~IsInit(requests[c]))
          /\ UNCHANGED <<pending, queued, active, initialized, disposed, files>>
      BY <2>4 DEF Retries
    <3>2. needsReplay' \in BOOLEAN /\ (needsReplay' => initialized) BY <3>1 DEF IsInit
    <3>. QED BY <2>2, <2>3, <3>1, <3>2, EnsuresLives
  <2>5. CASE GivesUp(c)
    <3>1. UNCHANGED <<client, thread>> /\ runnable' = Tail(runnable) BY <2>5 DEF GivesUp
    <3>2. ResolvedByCurrent' BY <2>3, <3>1 DEF ResolvedByCurrent, Resolved
    <3>. QED BY <3>1, <3>2 DEF Lives, WithoutWorker, WorkersAreNumbered, BarrierHolds,
                LoadersComeFirst, Held, PendingCalls, Present
  <2>. QED BY <1>3, <2>4, <2>5
<1>4. ASSUME NEW error \in Errors, Loses(error) PROVE Lives' BY <1>4, LosesLives
<1>5. ASSUME NEW r \in replays, ReplayLoad(r) PROVE Lives'
  <2>1. /\ UNCHANGED <<pending, worker, spawned, ready, disposed, initialized, needsReplay,
                       queued, active, engine, runnable>>
        /\ r.worker = worker /\ r \in LoaderType
    BY <1>5 DEF ReplayLoad, LoaderOf, TypeOK
  <2>2. PICK f \in r.todo : \E text :
          /\ replays' = (replays \ {r}) \union {[r EXCEPT !.todo = @ \ {f}, !.contents[f] = text]}
          /\ files' = IF text = 0 THEN files \ {f} ELSE files \union {f}
    BY <1>5 DEF ReplayLoad
  <2>3. PICK text :
          /\ replays' = (replays \ {r}) \union {[r EXCEPT !.todo = @ \ {f}, !.contents[f] = text]}
          /\ files' = IF text = 0 THEN files \ {f} ELSE files \union {f}
    BY <2>2
  <2> DEFINE new == [r EXCEPT !.todo = @ \ {f}, !.contents[f] = text]
  <2>4. f \in File /\ r.todo \subseteq files /\ Present(r.contents) \subseteq files
    BY <2>1 DEF Lives, LoadersComeFirst, LoaderType
  <2>5. /\ new.worker = worker /\ new.todo = r.todo \ {f}
        /\ new.contents = [r.contents EXCEPT ![f] = text]
    BY <2>1 DEF LoaderType
  <2>6. replays' = (replays \ {r}) \union {new} BY <2>3
  <2> HIDE DEF new
  <2>7. new.todo \subseteq files' BY <2>3, <2>4, <2>5
  <2>8. Present(new.contents) \subseteq files'
    <3>1. r.contents \in [File -> Nat] BY <2>1 DEF LoaderType
    <3>2. ASSUME NEW g \in File, new.contents[g] # 0 PROVE g \in files'
      <4>1. CASE g = f BY <2>3, <2>5, <3>1, <3>2, <4>1
      <4>2. CASE g # f
        <5>1. r.contents[g] # 0 BY <2>5, <3>1, <3>2, <4>2
        <5>2. g \in files BY <2>4, <5>1 DEF Present
        <5>. QED BY <2>3, <4>2, <5>2
      <4>. QED BY <4>1, <4>2
    <3>. QED BY <3>2 DEF Present
  <2>9. \A s \in replays \ {r} : s.worker # worker BY <2>1 DEF Lives, LoadersComeFirst
  <2>10. r.worker \in 1..spawned /\ ready.worker = worker /\ DOMAIN pending = {} /\ Held = {}
         /\ engine = FreshEngine
    BY <2>1 DEF Lives, LoadersComeFirst
  <2>11. LoadersComeFirst'
    <3>1. \A s \in replays' : s.worker \in 1..spawned BY <2>1, <2>5, <2>6, <2>10 DEF Lives, LoadersComeFirst
    <3>2. \A s, t \in replays' : s.worker = t.worker => s = t
      BY <2>5, <2>6, <2>9 DEF Lives, LoadersComeFirst
    <3>3. \A s \in replays' : s.worker = worker => s = new BY <2>6, <2>9
    <3>4. Held' = Held BY <2>1 DEF Held
    <3>5. Present(new.contents)' = Present(new.contents') OBVIOUS
    <3>. QED BY <2>1, <2>7, <2>8, <2>10, <3>1, <3>2, <3>3, <3>4 DEF LoadersComeFirst, Present
  <2>. QED BY <2>1, <2>11 DEF Lives, WithoutWorker, WorkersAreNumbered, BarrierHolds,
              ResolvedByCurrent, Resolved, Held, PendingCalls
<1>6. ASSUME NEW r \in replays, ReplayAbandoned(r) PROVE Lives'
  BY <1>6 DEF ReplayAbandoned, Lives, WithoutWorker, WorkersAreNumbered, BarrierHolds,
     ResolvedByCurrent, LoadersComeFirst, Resolved, Held, PendingCalls, Present
<1>7. ASSUME NEW r \in replays, ReplayPost(r) PROVE Lives'
  <2>1. /\ UNCHANGED <<worker, spawned, ready, disposed, initialized, needsReplay, files,
                       active, engine, runnable>>
        /\ r.worker = worker /\ replays' = replays \ {r}
        /\ pending' = [id \in DOMAIN pending \union {nextId} |->
                     IF id = nextId THEN [call |-> Replay, key |-> NoKey] ELSE pending[id]]
    BY <1>7 DEF ReplayPost, LoaderOf
  <2>2. /\ ready.worker = worker /\ worker # 0 /\ \A s \in replays' : s.worker # worker
        /\ DOMAIN pending' = {nextId}
    BY <2>1 DEF Lives, LoadersComeFirst, TypeOK, LoaderType
  <2>3. PendingCalls' = PendingCalls
    <3>1. nextId \notin PendingCalls BY DEF TypeOK, PendingCalls
    <3>. QED BY <2>1, <3>1 DEF PendingCalls
  <2>4. WithoutWorker' BY <2>1, <2>2 DEF WithoutWorker
  <2>5. BarrierHolds' BY <2>1, <2>2, <2>3 DEF Lives, BarrierHolds
  <2>6. LoadersComeFirst' BY <2>1, <2>2 DEF Lives, LoadersComeFirst
  <2>. QED BY <2>1, <2>4, <2>5, <2>6 DEF Lives, WorkersAreNumbered, ResolvedByCurrent, Resolved
<1>8. CASE Ignores
  BY <1>8 DEF Ignores, Lives, WithoutWorker, WorkersAreNumbered, BarrierHolds,
     ResolvedByCurrent, LoadersComeFirst, Resolved, Held, PendingCalls, Present
<1>9. ASSUME NEW m, EndsReplay(m) PROVE Lives'
  <2>1. /\ UNCHANGED <<worker, spawned, replays, disposed, initialized, files, queued, active, engine>>
        /\ needsReplay' = FALSE /\ ready' = NotReady
    BY <1>9 DEF EndsReplay, AnswerReplay
  <2>2. DOMAIN pending # {} /\ DOMAIN pending' \subseteq DOMAIN pending
        /\ \A id \in DOMAIN pending' : pending'[id] = pending[id]
    BY <1>9, EndsTyped
  <2>3. worker # 0 /\ \A r \in replays : r.worker # worker
    BY <2>2 DEF Lives, WithoutWorker, LoadersComeFirst
  <2>4. WithoutWorker' BY <2>1, <2>3 DEF WithoutWorker
  <2>5. WorkersAreNumbered' BY <2>1 DEF Lives, WorkersAreNumbered
  <2>6. DOMAIN pending' = {}
    <3>1. m.id \in DOMAIN pending /\ DOMAIN pending' = DOMAIN pending \ {m.id} BY <1>9, EndsTyped
    <3>2. \A i, j \in DOMAIN pending : i = j BY <1>9 DEF Lives, BarrierHolds, EndsReplay
    <3>. QED BY <3>1, <3>2
  <2>7. BarrierHolds' BY <2>1, <2>6 DEF BarrierHolds, NotReady
  <2>8. ResolvedByCurrent'
    <3>1. \A c : ResolvedWith(c, worker).worker = worker BY DEF ResolvedWith
    <3>2. \A i \in DOMAIN runnable' : runnable'[i].worker = worker BY <1>9, <3>1, EndsTyped
    <3>3. ready'.worker = 0 BY <2>1 DEF NotReady
    <3>. QED BY <2>1, <2>3, <3>2, <3>3 DEF ResolvedByCurrent
  <2>9. LoadersComeFirst' BY <2>1, <2>3 DEF Lives, LoadersComeFirst
  <2>. QED BY <2>4, <2>5, <2>7, <2>8, <2>9 DEF Lives
<1>10. ASSUME NEW m, NEW c, LearnsFrom(m, c) PROVE Lives'
  <2>1. UNCHANGED <<worker, spawned, ready, replays, disposed, runnable, queued, active, engine>>
    BY <1>10 DEF LearnsFrom, AnswerCall
  <2>2. m.id \in PendingCalls BY <1>10 DEF LearnsFrom
  <2>3. worker # 0 /\ ready.worker = 0 /\ \A r \in replays : r.worker # worker
    BY <2>2 DEF Lives, WithoutWorker, BarrierHolds, LoadersComeFirst, PendingCalls
  <2>4. WithoutWorker' BY <2>1, <2>3 DEF WithoutWorker
  <2>5. \/ needsReplay' = FALSE
        \/ needsReplay' = needsReplay /\ initialized' = initialized
    BY <1>10 DEF LearnsFrom, AnswerCall, Learn
  <2>6. WorkersAreNumbered' BY <2>1, <2>5 DEF Lives, WorkersAreNumbered
  <2>7. \A id \in DOMAIN pending' : id \in DOMAIN pending /\ pending'[id] = pending[id]
    BY <1>10, LearnsTyped
  <2>8. BarrierHolds' BY <2>1, <2>3, <2>7 DEF Lives, BarrierHolds
  <2>9. ResolvedByCurrent' BY <2>1 DEF Lives, ResolvedByCurrent, Resolved
  <2>10. LoadersComeFirst' BY <2>1, <2>3 DEF Lives, LoadersComeFirst
  <2>. QED BY <2>4, <2>6, <2>8, <2>9, <2>10 DEF Lives
<1>11. ASSUME NEW id \in cancelling, ReceiveCancel(id) PROVE Lives'
  BY <1>11 DEF ReceiveCancel, Lives, WithoutWorker, WorkersAreNumbered, BarrierHolds,
     ResolvedByCurrent, LoadersComeFirst, Resolved, Held, PendingCalls, Present
<1>12. CASE Take \/ Finish \/ FinishWithError
  <2>1. UNCHANGED <<client, calls>> BY <1>12 DEF Take, Finish, FinishWithError
  <2>2. Held' \subseteq Held /\ Held # {} BY <1>12, HeldLess
  <2>3. worker # 0 /\ \A r \in replays : r.worker # worker
    BY <2>2 DEF Lives, WithoutWorker, LoadersComeFirst
  <2>4. WithoutWorker' /\ LoadersComeFirst' BY <2>1, <2>3 DEF Lives, WithoutWorker, LoadersComeFirst
  <2>. QED BY <2>1, <2>4 DEF Lives, WorkersAreNumbered, BarrierHolds, ResolvedByCurrent, Resolved,
              PendingCalls
<1>13. CASE UNCHANGED vars
  BY <1>13 DEF vars, Lives, WithoutWorker, WorkersAreNumbered, BarrierHolds,
     ResolvedByCurrent, LoadersComeFirst, Resolved, Held, PendingCalls, Present
<1>. QED BY <1>1, <1>2, <1>3, <1>4, <1>5, <1>6, <1>7, <1>8, <1>9, <1>10, <1>11, <1>12, <1>13,
            StepCases DEF Hostside, Threadside
-----------------------------------------------------------------------------
(* What _ensureReady comes to for c: to wait behind the barrier, or to go  *)
(* on after what is due.                                                   *)
Waits(c, due) ==
    /\ worker = 0 \/ ready.worker /= 0
    /\ runnable' = due /\ ready'.worker = worker'
    /\ ready'.waiters = Append(ready.waiters, c)
GoesOn(c, due) ==
    /\ ready.worker = 0 /\ ready' = ready
    /\ runnable' = Append(due, ResolvedWith(c, worker'))

Joins(c, due) ==
    /\ worker' \in Nat \ {0} /\ engine' = engine
    /\ (worker # 0 => worker' = worker) /\ (worker = 0 => worker' = spawned + 1)
    /\ replays' = replays \/ (worker = 0 /\ replays' = replays \union
          {[worker |-> worker', todo |-> files, contents |-> Empty]})
    /\ Waits(c, due) \/ GoesOn(c, due)

(* _ensureReady lets the call wait for the replay or go on; without a      *)
(* worker it goes on only if there is nothing to replay.                   *)
LEMMA EnsuresJoins ==
  ASSUME TypeOK, Lives, NEW c \in Call, NEW kind, NEW replay, NEW due,
         EnsureReady(c, kind, replay, due)
  PROVE  /\ Joins(c, due)
         /\ worker = 0 /\ GoesOn(c, due) => ~(replay /\ kind /= "initializeWorkspace")
<1>1. /\ ready \in [worker : Nat, waiters : Seq(Call)] /\ spawned \in Nat /\ worker \in Nat
      /\ ready.worker \in Nat /\ ready.waiters \in Seq(Call)
  BY DEF TypeOK
<1>2. CASE BarrierUp
  <2>1. /\ ready' = [ready EXCEPT !.waiters = Append(ready.waiters, c)] /\ runnable' = due
        /\ UNCHANGED <<worker, spawned, replays, engine>> /\ ready.worker # 0
    BY <1>2 DEF EnsureReady, BarrierUp
  <2>2. ready'.worker = ready.worker /\ ready'.waiters = Append(ready.waiters, c) BY <1>1, <2>1
  <2>3. ready.worker = worker BY <2>1 DEF Lives, BarrierHolds
  <2>. QED BY <1>1, <2>1, <2>2, <2>3 DEF Joins, Waits, GoesOn
<1>3. CASE ~BarrierUp /\ worker # 0
  <2>1. /\ runnable' = Append(due, ResolvedWith(c, worker))
        /\ UNCHANGED <<worker, spawned, ready, replays, engine>> /\ ready.worker = 0
    BY <1>3 DEF EnsureReady, BarrierUp
  <2>. QED BY <1>1, <1>3, <2>1 DEF Joins, GoesOn
<1>4. CASE ~BarrierUp /\ worker = 0
  <2>1. /\ spawned' = spawned + 1 /\ worker' = spawned + 1 /\ engine' = FreshEngine
        /\ ready.worker = 0
    BY <1>4 DEF EnsureReady, BarrierUp
  <2>2. engine = FreshEngine /\ ready = NotReady BY <1>4 DEF Lives, WithoutWorker
  <2>3. worker' \in Nat \ {0} BY <1>1, <2>1
  <2>4. CASE replay /\ kind /= "initializeWorkspace"
    <3>1. /\ ready' = [worker |-> spawned + 1, waiters |-> <<c>>] /\ runnable' = due
          /\ replays' = replays \union {[worker |-> spawned + 1, todo |-> files, contents |-> Empty]}
      BY <1>4, <2>4 DEF EnsureReady
    <3>2. Append(ready.waiters, c) = <<c>> BY <2>2 DEF NotReady
    <3>3. ready'.worker = worker' /\ ready'.waiters = <<c>> BY <2>1, <3>1
    <3>4. Waits(c, due) BY <1>4, <3>1, <3>2, <3>3 DEF Waits
    <3>5. ready' # ready BY <2>1, <2>3, <3>3
    <3>. QED BY <1>4, <2>1, <2>2, <2>3, <3>1, <3>4, <3>5 DEF Joins, GoesOn
  <2>5. CASE ~(replay /\ kind /= "initializeWorkspace")
    <3>1. /\ runnable' = Append(due, ResolvedWith(c, spawned + 1)) /\ UNCHANGED <<ready, replays>>
      BY <1>4, <2>5 DEF EnsureReady
    <3>2. GoesOn(c, due) BY <2>1, <3>1 DEF GoesOn
    <3>. QED BY <1>4, <2>1, <2>2, <2>3, <2>5, <3>1, <3>2 DEF Joins
  <2>. QED BY <2>4, <2>5
<1>. QED BY <1>2, <1>3, <1>4

(* A call that goes away joins the others; so does one that is retried.    *)
LEMMA IssueJoins ==
  ASSUME TypeOK, Lives, NEW c \in Call, NEW op \in Operation, Issue(c, op), GoesAway(c, op)
  PROVE  /\ runnable = <<>> /\ Joins(c, runnable) /\ ~disposed /\ UNCHANGED <<pending, pendingByKey, initialized>>
         /\ worker = 0 /\ GoesOn(c, runnable) => ~(needsReplay /\ ~IsInit(requests'[c]))
<1>1. EnsureReady(c, requests'[c].kind, needsReplay, runnable) BY DEF GoesAway
<1>2. runnable = <<>> /\ UNCHANGED <<pending, pendingByKey, initialized>> BY DEF Issue
<1> DEFINE kind == requests'[c].kind
<1>3. IsInit(requests'[c]) <=> kind = "initializeWorkspace" BY DEF IsInit
<1>4. EnsureReady(c, kind, needsReplay, runnable) BY <1>1
<1> HIDE DEF kind
<1>5. /\ Joins(c, runnable)
      /\ worker = 0 /\ GoesOn(c, runnable) => ~(needsReplay /\ kind /= "initializeWorkspace")
  BY <1>4, EnsuresJoins
<1>6. ~disposed BY DEF GoesAway, Refused
<1>. QED BY <1>2, <1>3, <1>5, <1>6

(* A call tried again joins the others; if it goes on with a new worker it *)
(* is an initializeWorkspace, or nothing was initialised.                  *)
LEMMA RetryJoins ==
  ASSUME TypeOK, Lives, NEW c, Retries(c)
  PROVE  /\ c \in Call /\ runnable # <<>> /\ Tail(runnable) \in Seq(ContinuationType)
         /\ Head(runnable).error # "none" /\ Head(runnable).call = c /\ Head(runnable) = runnable[1]
         /\ Joins(c, Tail(runnable)) /\ ~disposed
         /\ worker = 0 /\ GoesOn(c, Tail(runnable)) => ~initialized \/ IsInit(requests[c])
<1>1. /\ EnsureReady(c, requests[c].kind, needsReplay', Tail(runnable))
      /\ needsReplay' = (initialized /\ ~IsInit(requests[c]))
      /\ runnable # <<>> /\ Head(runnable).call = c /\ ~disposed /\ Head(runnable).error # "none"
  BY DEF Retries
<1>2. c \in Call /\ Tail(runnable) \in Seq(ContinuationType) BY <1>1, DueTyped
<1> DEFINE kind == requests[c].kind
           replay == needsReplay'
<1>3. EnsureReady(c, kind, replay, Tail(runnable)) BY <1>1
<1>4. replay /\ kind # "initializeWorkspace" <=> initialized /\ ~IsInit(requests[c])
  BY <1>1 DEF IsInit
<1> HIDE DEF kind, replay
<1>5. /\ Joins(c, Tail(runnable))
      /\ worker = 0 /\ GoesOn(c, Tail(runnable)) => ~(replay /\ kind /= "initializeWorkspace")
  BY <1>2, <1>3, EnsuresJoins
<1>6. Head(runnable) = runnable[1] BY <1>1, DueAt
<1>. QED BY <1>1, <1>2, <1>4, <1>5, <1>6

(* Who goes on after c has joined: c, and those that already did.          *)
LEMMA JoinsOutstanding ==
  ASSUME TypeOK, NEW c \in Call, NEW due \in Seq(ContinuationType), Joins(c, due),
         NEW d, d \in Outstanding', UNCHANGED pending
  PROVE  d = c \/ (\E i \in DOMAIN due : due[i].call = d) \/ d \in Outstanding
<1>1. PendingCalls' = PendingCalls BY DEF PendingCalls
<1>2. ready.waiters \in Seq(Call) /\ worker' \in Nat BY DEF TypeOK, Joins
<1>3. CASE \E id \in PendingCalls' : pending'[id].call = d BY <1>1, <1>3 DEF Outstanding
<1>4. CASE \E i \in DOMAIN runnable' : runnable'[i].call = d
  <2>1. PICK i \in DOMAIN runnable' : runnable'[i].call = d BY <1>4
  <2>2. ResolvedWith(c, worker') \in ContinuationType BY <1>2 DEF ResolvedWith, ContinuationType
  <2>3. runnable' = due \/ runnable' = Append(due, ResolvedWith(c, worker'))
    BY DEF Joins, Waits, GoesOn
  <2>4. \/ i \in DOMAIN due /\ runnable'[i] = due[i]
        \/ runnable'[i] = ResolvedWith(c, worker')
    BY <2>1, <2>2, <2>3, AppendedAt
  <2>. QED BY <2>1, <2>4 DEF ResolvedWith
<1>5. CASE \E i \in DOMAIN ready'.waiters : ready'.waiters[i] = d
  <2>1. PICK i \in DOMAIN ready'.waiters : ready'.waiters[i] = d BY <1>5
  <2>2. ready' = ready \/ ready'.waiters = Append(ready.waiters, c) BY DEF Joins, Waits, GoesOn
  <2>3. CASE ready'.waiters = Append(ready.waiters, c)
    <3>1. i \in DOMAIN Append(ready.waiters, c) /\ Append(ready.waiters, c)[i] = d BY <2>1, <2>3
    <3>2. (i \in DOMAIN ready.waiters /\ ready.waiters[i] = d) \/ d = c BY <1>2, <3>1, AppendedAt
    <3>. QED BY <3>2 DEF Outstanding
  <2>4. CASE ready' = ready BY <2>1, <2>4 DEF Outstanding
  <2>. QED BY <2>2, <2>3, <2>4
<1>. QED BY <1>3, <1>4, <1>5 DEF Outstanding

(* Nobody joins those that will go on but a call just made.                *)
LEMMA OutstandingStep ==
  ASSUME TypeOK, IssuedInOrder, Lives, [Next]_vars, NEW d \in Outstanding'
  PROVE  d \in Outstanding \/ \E op \in Operation : d \in Call /\ Issue(d, op) /\ GoesAway(d, op)
<1> USE DEF client, calls, thread, world
<1> DEFINE Goal == d \in Outstanding \/ \E op \in Operation : d \in Call /\ Issue(d, op) /\ GoesAway(d, op)
<1>1. ASSUME NEW c \in Call, NEW op \in Operation, Issue(c, op) /\ (AnswersAtOnce(c, op) \/ GoesAway(c, op))
      PROVE  Goal
  <2>1. UNCHANGED pending /\ runnable = <<>> BY <1>1 DEF Issue
  <2>2. CASE AnswersAtOnce(c, op)
    BY <2>1, <2>2 DEF AnswersAtOnce, Outstanding, PendingCalls
  <2>3. CASE GoesAway(c, op)
    <3>1. Joins(c, runnable) BY <1>1, <2>3, IssueJoins
    <3>2. runnable \in Seq(ContinuationType) /\ DOMAIN runnable = {} BY <2>1, NothingIn DEF TypeOK
    <3>3. d = c \/ d \in Outstanding BY <2>1, <3>1, <3>2, JoinsOutstanding
    <3>. QED BY <1>1, <2>3, <3>3
  <2>. QED BY <1>1, <2>2, <2>3
<1>2. ASSUME NEW c, Posts(c) \/ PostsTooLate(c) PROVE Goal
  <2>1. Posts(c) BY <1>2, PostsLives
  <2>2. /\ \A i \in DOMAIN runnable' : i + 1 \in DOMAIN runnable /\ runnable'[i] = runnable[i + 1]
        /\ 1 \in DOMAIN runnable /\ runnable[1].call = c
    <3>1. runnable # <<>> /\ Head(runnable).call = c /\ runnable' = Tail(runnable) BY <2>1 DEF Posts
    <3>. QED BY <3>1, DueAt
  <2>3. ready' = ready BY <2>1 DEF Posts
  <2>4. /\ DOMAIN pending' = (DOMAIN pending \ {Old(c)}) \union {nextId}
        /\ pending'[nextId] = [call |-> c, key |-> Key(c)]
        /\ \A id \in DOMAIN pending \ {Old(c)} : pending'[id] = pending[id]
    BY <2>1, PostsTyped
  <2>5. \A id \in PendingCalls' : pending'[id].call = c \/ (id \in PendingCalls /\ pending'[id] = pending[id])
    BY <2>4 DEF PendingCalls
  <2>. QED BY <2>2, <2>3, <2>5 DEF Outstanding
<1>3. ASSUME NEW c, Retries(c) PROVE Goal
  <2>1. UNCHANGED pending BY <1>3 DEF Retries
  <2>2. /\ \A i \in DOMAIN Tail(runnable) : i + 1 \in DOMAIN runnable /\ Tail(runnable)[i] = runnable[i + 1]
        /\ 1 \in DOMAIN runnable /\ runnable[1].call = c
    BY <1>3, RetryJoins, DueAt
  <2>3. d = c \/ (\E i \in DOMAIN Tail(runnable) : Tail(runnable)[i].call = d) \/ d \in Outstanding
    <3>1. c \in Call /\ Tail(runnable) \in Seq(ContinuationType) /\ Joins(c, Tail(runnable))
      BY <1>3, RetryJoins
    <3> DEFINE due == Tail(runnable)
    <3>2. due \in Seq(ContinuationType) /\ Joins(c, due) BY <3>1
    <3> HIDE DEF due
    <3>3. d = c \/ (\E i \in DOMAIN due : due[i].call = d) \/ d \in Outstanding
      BY <2>1, <3>1, <3>2, JoinsOutstanding
    <3>. QED BY <3>3 DEF due
  <2>. QED BY <2>2, <2>3 DEF Outstanding
<1>4. ASSUME NEW c, GivesUp(c) PROVE Goal
  <2>1. runnable # <<>> /\ runnable' = Tail(runnable) /\ UNCHANGED client BY <1>4 DEF GivesUp
  <2>2. \A i \in DOMAIN runnable' : i + 1 \in DOMAIN runnable /\ runnable'[i] = runnable[i + 1]
    BY <2>1, DueAt
  <2>. QED BY <2>1, <2>2 DEF Outstanding, PendingCalls
<1>5. ASSUME NEW error \in Errors, Loses(error) PROVE Goal
  <2>1. PICK ids \in InOrder(PendingCalls) : runnable' = RejectedBy(error, ids) BY <1>5, LosesTyped
  <2>2. /\ Len(ready.waiters) \in Nat /\ Len(ids) \in Nat
        /\ DOMAIN runnable' = 1..Len(ready.waiters) + Len(ids)
        /\ \A i \in 1..Len(ready.waiters) : runnable'[i] = RejectedWith(ready.waiters[i], error)
        /\ \A i \in 1..Len(ids) :
             runnable'[Len(ready.waiters) + i] = RejectedWith(pending[ids[i]].call, error)
    BY <2>1, RejectedAt
  <2>3. DOMAIN ready.waiters = 1..Len(ready.waiters) BY LenProperties DEF TypeOK
  <2>4. \A i \in 1..Len(ids) : ids[i] \in PendingCalls BY <2>1, IdsOfPending
  <2>5. DOMAIN pending' = {} /\ ready'.waiters = <<>> BY <1>5 DEF Loses, LoseWorker, NotReady
  <2>6. PICK i \in DOMAIN runnable' : runnable'[i].call = d
    BY <2>5 DEF Outstanding, PendingCalls
  <2>7. CASE i \in 1..Len(ready.waiters)
    <3>1. runnable'[i] = RejectedWith(ready.waiters[i], error) /\ i \in DOMAIN ready.waiters
      BY <2>2, <2>3, <2>7
    <3>2. d = ready.waiters[i] BY <2>6, <3>1 DEF RejectedWith
    <3>. QED BY <3>1, <3>2 DEF Outstanding
  <2>8. CASE i \notin 1..Len(ready.waiters)
    <3>1. i - Len(ready.waiters) \in 1..Len(ids)
          /\ i = Len(ready.waiters) + (i - Len(ready.waiters))
      BY <2>2, <2>6, <2>8
    <3>2. runnable'[i] = RejectedWith(pending[ids[i - Len(ready.waiters)]].call, error)
      BY <2>2, <3>1
    <3>3. d = pending[ids[i - Len(ready.waiters)]].call BY <2>6, <3>2 DEF RejectedWith
    <3>. QED BY <2>4, <3>1, <3>3 DEF Outstanding
  <2>. QED BY <2>7, <2>8
<1>6. ASSUME NEW r \in replays, ReplayLoad(r) \/ ReplayAbandoned(r) PROVE Goal
  BY <1>6 DEF ReplayLoad, ReplayAbandoned, Outstanding, PendingCalls
<1>7. ASSUME NEW r \in replays, ReplayPost(r) PROVE Goal
  <2>1. PendingCalls' \subseteq PendingCalls /\ \A id \in PendingCalls' : pending'[id] = pending[id]
    BY <1>7 DEF ReplayPost, PendingCalls
  <2>2. UNCHANGED <<runnable, ready>> BY <1>7 DEF ReplayPost
  <2>. QED BY <2>1, <2>2 DEF Outstanding
<1>8. ASSUME NEW m, EndsReplay(m) PROVE Goal
  <2>1. \A i \in DOMAIN runnable' : i \in DOMAIN ready.waiters /\ runnable'[i].call = ready.waiters[i]
    <3>1. DOMAIN ready.waiters = 1..Len(ready.waiters) BY LenProperties DEF TypeOK
    <3>2. \A c : ResolvedWith(c, worker).call = c BY DEF ResolvedWith
    <3>. QED BY <1>8, <3>1, <3>2, EndsTyped
  <2>2. PendingCalls' \subseteq PendingCalls /\ \A id \in PendingCalls' : pending'[id] = pending[id]
    BY <1>8, EndsTyped DEF PendingCalls
  <2>3. DOMAIN ready'.waiters = {} BY <1>8 DEF EndsReplay, AnswerReplay, NotReady
  <2>. QED BY <2>1, <2>2, <2>3 DEF Outstanding
<1>9. ASSUME NEW m, NEW c, LearnsFrom(m, c) PROVE Goal
  <2>1. PendingCalls' \subseteq PendingCalls /\ \A id \in PendingCalls' : pending'[id] = pending[id]
    BY <1>9, LearnsTyped DEF PendingCalls
  <2>2. UNCHANGED <<runnable, ready>> BY <1>9 DEF LearnsFrom, AnswerCall
  <2>. QED BY <2>1, <2>2 DEF Outstanding
<1>10. ASSUME UNCHANGED <<pending, ready, runnable>> PROVE Goal BY <1>10 DEF Outstanding, PendingCalls
<1>11. ASSUME Ignores \/ Threadside \/ UNCHANGED vars PROVE Goal
  BY <1>10, <1>11 DEF Ignores, Threadside, ReceiveCancel, Take, Finish, FinishWithError, vars
<1> HIDE DEF Goal
<1>12. ASSUME Hostside PROVE Goal
  BY <1>1, <1>2, <1>3, <1>4, <1>5, <1>6, <1>7, <1>8, <1>9, <1>11, <1>12 DEF Hostside
<1>13. Goal BY <1>11, <1>12, StepCases
<1>. QED BY <1>13 DEF Goal
-----------------------------------------------------------------------------
(* Requests and calls.                                                     *)

IssueStep == \E c \in Call, op \in Operation :
                 Issue(c, op) /\ (AnswersAtOnce(c, op) \/ GoesAway(c, op))

(* Only the host's own calls make requests and change the world.           *)
LEMMA OtherSteps ==
  ASSUME TypeOK, IssuedInOrder, Lives, [Next]_vars, ~IssueStep
  PROVE  /\ UNCHANGED <<requests, world>> /\ (initialized => initialized')
         /\ \A c \in Call : outcome'[c] = "idle" <=> outcome[c] = "idle"
         /\ \A c \in Call : attempt'[c] = 0 <=> attempt[c] = 0
<1> USE DEF client, calls, thread, world
<1> DEFINE Goal ==
         /\ UNCHANGED <<requests, world>> /\ (initialized => initialized')
         /\ \A c \in Call : outcome'[c] = "idle" <=> outcome[c] = "idle"
         /\ \A c \in Call : attempt'[c] = 0 <=> attempt[c] = 0
<1>1. outcome \in [Call -> {"idle", "called"} \union Settled] /\ attempt \in [Call -> 0..2] BY DEF TypeOK
<1>2. \A e \in Errors \union {"ok"} : e # "idle" BY DEF Errors
<1>3. \A c \in Outstanding : outcome[c] # "idle" /\ attempt[c] # 0 BY DEF IssuedInOrder, Asked
<1>4. runnable # <<>> => Head(runnable).call \in Outstanding
  <2>1. runnable # <<>> => 1 \in DOMAIN runnable /\ Head(runnable) = runnable[1]
    BY DueAt
  <2>. QED BY <2>1 DEF Outstanding
<1>5. ASSUME NEW c, NEW v \in Errors \union {"ok"}, outcome[c] # "idle",
             outcome' = [outcome EXCEPT ![c] = v]
      PROVE  \A d \in Call : outcome'[d] = "idle" <=> outcome[d] = "idle"
  BY <1>1, <1>2, <1>5
<1>6. ASSUME NEW c, Posts(c) \/ PostsTooLate(c) PROVE Goal
  <2>1. Posts(c) BY <1>6, PostsLives
  <2>2. UNCHANGED <<requests, world, initialized, attempt>> BY <2>1 DEF Posts
  <2>3. CASE Old(c) \in DOMAIN pending
    <3>1. outcome' = [outcome EXCEPT ![pending[Old(c)].call] = "SUPERSEDED"] BY <2>1, <2>3 DEF Posts
    <3>2. "SUPERSEDED" \in Errors BY DEF Errors
    <3>3. pending[Old(c)].call # Replay BY <2>1, <2>3, PostsLives DEF Lives, BarrierHolds
    <3>4. pending[Old(c)].call \in Outstanding BY <2>3, <3>3 DEF PendingCalls, Outstanding
    <3>. QED BY <1>3, <1>5, <2>2, <3>1, <3>2, <3>4
  <2>4. CASE Old(c) \notin DOMAIN pending BY <2>1, <2>2, <2>4 DEF Posts
  <2>. QED BY <2>3, <2>4
<1>7. ASSUME NEW c, Retries(c) PROVE Goal
  <2>1. UNCHANGED <<requests, world, initialized, outcome>> /\ attempt' = [attempt EXCEPT ![c] = 2]
        /\ c \in Outstanding
    BY <1>4, <1>7 DEF Retries
  <2>2. \A d \in Call : attempt'[d] = 0 <=> attempt[d] = 0 BY <1>1, <1>3, <2>1
  <2>. QED BY <2>1, <2>2
<1>8. ASSUME NEW c, GivesUp(c) PROVE Goal
  <2>1. UNCHANGED <<requests, world, initialized, attempt>> /\ c \in Outstanding
        /\ outcome' = [outcome EXCEPT ![c] = Head(runnable).error]
    BY <1>4, <1>8 DEF GivesUp
  <2>2. Head(runnable).error \in Errors BY <1>8, DueTyped DEF GivesUp, ContinuationType
  <2>. QED BY <1>3, <1>5, <2>1, <2>2
<1>9. ASSUME NEW error \in Errors, Loses(error) PROVE Goal BY <1>9 DEF Loses, LoseWorker
<1>10. ASSUME NEW r \in replays, ReplayLoad(r) \/ ReplayAbandoned(r) \/ ReplayPost(r) PROVE Goal
  <2>1. UNCHANGED <<calls, world, initialized>> BY <1>10 DEF ReplayLoad, ReplayAbandoned, ReplayPost
  <2>. QED BY <2>1
<1>11. ASSUME NEW m, EndsReplay(m) PROVE Goal BY <1>11 DEF EndsReplay, AnswerReplay
<1>12. ASSUME NEW m, NEW c, LearnsFrom(m, c) PROVE Goal
  <2>1. UNCHANGED <<requests, world, attempt>> BY <1>12 DEF LearnsFrom, AnswerCall
  <2>2. initialized => initialized' BY <1>12 DEF LearnsFrom, AnswerCall, Learn
  <2>3. c \in Outstanding BY <1>12 DEF LearnsFrom, Outstanding
  <2>4. \E v \in Errors \union {"ok"} : outcome' = [outcome EXCEPT ![c] = v]
    BY <1>12 DEF LearnsFrom, AnswerCall, Errors
  <2>. QED BY <1>3, <1>5, <2>1, <2>2, <2>3, <2>4
<1>13. ASSUME Ignores \/ Threadside \/ UNCHANGED vars PROVE Goal
  BY <1>13 DEF Ignores, Threadside, ReceiveCancel, Take, Finish, FinishWithError, vars
<1>14. ASSUME Hostside PROVE Goal
  BY <1>6, <1>7, <1>8, <1>9, <1>10, <1>11, <1>12, <1>13, <1>14 DEF Hostside, IssueStep
<1>. QED BY <1>13, <1>14, StepCases

(* Every step keeps the calls in the order they were made.                 *)
LEMMA IssuedStep ==
  ASSUME TypeOK, IssuedInOrder, Lives, [Next]_vars
  PROVE  IssuedInOrder'
<1>1. ASSUME NEW c \in Call, NEW op \in Operation, Issue(c, op), AnswersAtOnce(c, op) \/ GoesAway(c, op)
      PROVE  /\ \A d \in Call : d # c => requests'[d] = requests[d] /\ outcome'[d] = outcome[d]
                                         /\ attempt'[d] = attempt[d]
             /\ requests'[c] \in RequestType /\ outcome'[c] # "idle" /\ initialized' = initialized
             /\ \A d \in Call : d < c => outcome[d] # "idle"
             /\ attempt'[c] # attempt[c] => GoesAway(c, op)
             /\ GoesAway(c, op) => attempt'[c] = 1
  <2>1. /\ World(op) /\ requests' = [requests EXCEPT ![c] = RequestOf(op)] /\ initialized' = initialized
        /\ \A d \in Call : d < c => outcome[d] # "idle"
    BY <1>1 DEF Issue
  <2>2. RequestOf(op) \in RequestType BY <2>1, RequestTyped
  <2>3. \E v : v # "idle" /\ outcome' = [outcome EXCEPT ![c] = v] BY <1>1 DEF AnswersAtOnce, GoesAway
  <2>4. attempt' = attempt \/ (GoesAway(c, op) /\ attempt' = [attempt EXCEPT ![c] = 1])
    BY <1>1 DEF AnswersAtOnce, GoesAway
  <2>5. GoesAway(c, op) => attempt' = [attempt EXCEPT ![c] = 1] BY DEF GoesAway
  <2>. QED BY <2>1, <2>2, <2>3, <2>4, <2>5 DEF TypeOK
<1>2. CASE IssueStep
  <2>1. PICK c \in Call, op \in Operation : Issue(c, op) /\ (AnswersAtOnce(c, op) \/ GoesAway(c, op))
    BY <1>2 DEF IssueStep
  <2>2. NoRequest \notin RequestType BY DEF NoRequest, RequestType
  <2>3. \A d \in Call : requests'[d] = NoRequest <=> outcome'[d] = "idle"
    BY <1>1, <2>1, <2>2 DEF IssuedInOrder
  <2>4. \A d, e \in Call : d < e /\ outcome'[d] = "idle" => outcome'[e] = "idle"
    BY <1>1, <2>1, CallsAreNoReplay DEF IssuedInOrder
  <2>5. \A d \in Outstanding' : Asked(d)' /\ attempt'[d] # 0
    <3>1. SUFFICES ASSUME NEW d \in Outstanding' PROVE outcome'[d] # "idle" /\ attempt'[d] # 0
      BY DEF Asked
    <3>2. CASE d \in Outstanding
      <4>1. outcome[d] # "idle" /\ attempt[d] # 0 BY <3>2 DEF IssuedInOrder, Asked
      <4>2. d \in Call BY <3>2, OutstandingAre
      <4>3. outcome[c] = "idle" BY <2>1 DEF Issue
      <4>. QED BY <1>1, <2>1, <4>1, <4>2, <4>3
    <3>3. ASSUME NEW o \in Operation, d \in Call, Issue(d, o), GoesAway(d, o)
          PROVE  outcome'[d] # "idle" /\ attempt'[d] # 0
      BY <1>1, <3>3
    <3>. QED BY <3>2, <3>3, OutstandingStep
  <2>6. \A d \in Call : attempt'[d] # 0 => IsInit(requests'[d]) \/ initialized'
    <3>1. SUFFICES ASSUME NEW d \in Call, attempt'[d] # 0, ~initialized' PROVE IsInit(requests'[d])
      OBVIOUS
    <3>2. CASE d # c
      BY <1>1, <2>1, <3>1, <3>2 DEF IssuedInOrder, IsInit
    <3>3. CASE d = c /\ attempt[c] # 0
      <4>1. requests[c] = NoRequest BY <2>1 DEF Issue, IssuedInOrder
      <4>2. ~IsInit(requests[c]) BY <4>1 DEF NoRequest, IsInit
      <4>3. initialized BY <3>3, <4>2 DEF IssuedInOrder
      <4>. QED BY <1>1, <2>1, <3>1, <4>3
    <3>4. CASE d = c /\ GoesAway(c, op)
      <4>1. ~AnsweredLocally(op) /\ ~initialized BY <1>1, <2>1, <3>1, <3>4 DEF GoesAway
      <4>2. op.kind \in {"initializeWorkspace", "updateFile"}
        BY <4>1 DEF AnsweredLocally, Operation, Kinds
      <4>3. requests'[c].kind = "initializeWorkspace" BY <2>1, <4>1, <4>2 DEF Issue, RequestOf, TypeOK
      <4>. QED BY <3>4, <4>3 DEF IsInit
    <3>. QED BY <1>1, <2>1, <3>1, <3>2, <3>3, <3>4
  <2>. QED BY <2>3, <2>4, <2>5, <2>6 DEF IssuedInOrder
<1>3. CASE ~IssueStep
  <2>1. /\ requests' = requests /\ (initialized => initialized')
        /\ \A c \in Call : outcome'[c] = "idle" <=> outcome[c] = "idle"
        /\ \A c \in Call : attempt'[c] = 0 <=> attempt[c] = 0
    BY <1>3, OtherSteps
  <2>2. Outstanding' \subseteq Outstanding
    BY <1>3, OutstandingStep DEF IssueStep
  <2>3. Outstanding \subseteq Call BY OutstandingAre
  <2>. QED BY <2>1, <2>2, <2>3 DEF IssuedInOrder, Asked, IsInit
<1>. QED BY <1>2, <1>3
-----------------------------------------------------------------------------
(* The order of ids.                                                       *)

(* What a step does to the channels: it sends, it lets a worker go, it     *)
(* reads an answer, the thread takes a request or is done with it.         *)
Sends(x) == /\ x.id = nextId /\ queued' = Append(queued, x) /\ nextId' = nextId + 1
            /\ active' = active /\ toClient' = toClient
Empties == /\ queued' = <<>> /\ active' = Idle
           /\ nextId' = nextId /\ toClient' = toClient
Reads == /\ toClient # <<>> /\ toClient' = Tail(toClient)
         /\ UNCHANGED <<nextId, queued, active>>
Takes == /\ Take /\ UNCHANGED <<nextId, toClient>>
Ends == /\ active # Idle /\ active' = Idle /\ UNCHANGED <<nextId, queued>>
        /\ toClient' = toClient \/ \E m \in AnswerType : /\ m.id = active.id
                                                         /\ toClient' = Append(toClient, m)

(* A request is answered when it is finished, but for a cancelled one that *)
(* did not fail.                                                           *)
LEMMA FinishTyped ==
  ASSUME TypeOK, Finish \/ FinishWithError
  PROVE  /\ active \in PostedType /\ active # Idle /\ active \in Held
         /\ \/ toClient' = toClient /\ active.id \in cancelled
            \/ \E m \in AnswerType :
                 /\ m.id = active.id /\ toClient' = Append(toClient, m)
                 /\ m.ok => Finish /\ active.id \notin cancelled
                            /\ (m.removed <=> active.request.kind = "removeFile" /\
                                              engine.files[active.request.file] /= 0)
                 /\ ~m.ok => FinishWithError
<1>1. active \in PostedType /\ active # Idle BY DEF TypeOK, Finish, FinishWithError
<1>2. active \in Held BY <1>1 DEF Held
<1>3. CASE Finish /\ active.id \in cancelled BY <1>1, <1>2, <1>3 DEF Finish
<1>4. CASE Finish /\ active.id \notin cancelled
  <2> DEFINE m == [id |-> active.id, ok |-> TRUE,
                   removed |-> active.request.kind = "removeFile" /\
                               engine.files[active.request.file] /= 0]
  <2>1. m \in AnswerType BY <1>1 DEF PostedType, AnswerType
  <2>2. toClient' = Append(toClient, m) BY <1>4 DEF Finish
  <2>3. m.id = active.id /\ m.ok /\ (m.removed <=> active.request.kind = "removeFile" /\
                                              engine.files[active.request.file] /= 0)
    OBVIOUS
  <2> HIDE DEF m
  <2>. QED BY <1>1, <1>2, <1>4, <2>1, <2>2, <2>3
<1>5. CASE FinishWithError
  <2> DEFINE m == [id |-> active.id, ok |-> FALSE, removed |-> FALSE]
  <2>1. m \in AnswerType BY <1>1 DEF PostedType, AnswerType
  <2>2. toClient' = Append(toClient, m) BY <1>5 DEF FinishWithError
  <2>3. m.id = active.id /\ ~m.ok OBVIOUS
  <2> HIDE DEF m
  <2>. QED BY <1>1, <1>2, <1>5, <2>1, <2>2, <2>3
<1>. QED BY <1>3, <1>4, <1>5

(* The request a replay posts.                                             *)
ReplayRequest(r) ==
    [kind |-> "initializeWorkspace", file |-> NoFile, admitted |-> TRUE,
     contents |-> r.contents, unsaved |-> Present(unsavedFiles), options |-> workspaceOptions]

(* The replay posts a well formed initializeWorkspace of what it loaded.   *)
LEMMA ReplayPostTyped ==
  ASSUME TypeOK, NEW r \in replays, ReplayPost(r)
  PROVE  \E x \in PostedType : /\ x.id = nextId /\ x.request = ReplayRequest(r) /\ Sends(x)
                               /\ x = [id |-> nextId, request |-> ReplayRequest(r)]
<1>1. r.contents \in [File -> Nat] BY DEF TypeOK, LoaderType
<1>2. ReplayRequest(r) \in RequestType
  BY <1>1 DEF ReplayRequest, RequestType, Kinds, NamesAFile, Present, TypeOK
<1>3. queued' = Append(queued, [id |-> nextId, request |-> ReplayRequest(r)])
  BY DEF ReplayPost, ReplayRequest
<1>4. [id |-> nextId, request |-> ReplayRequest(r)] \in PostedType BY <1>2 DEF PostedType, TypeOK
<1>5. nextId' = nextId + 1 /\ active' = active /\ toClient' = toClient BY DEF ReplayPost
<1>. QED BY <1>3, <1>4, <1>5 DEF Sends

(* What a step may do to the two channels: send a request, drop all, read  *)
(* an answer, take a request, end one, or nothing.                         *)
LEMMA ChannelSteps ==
  ASSUME TypeOK, IssuedInOrder, Lives, [Next]_vars
  PROVE  \/ \E x \in PostedType : Sends(x)
         \/ Empties \/ Reads \/ Takes \/ Ends
         \/ UNCHANGED <<nextId, queued, active, toClient>>
<1> USE DEF client, calls, thread, world
<1> DEFINE Goal == \/ \E x \in PostedType : Sends(x)
                   \/ Empties \/ Reads \/ Takes \/ Ends
                   \/ UNCHANGED <<nextId, queued, active, toClient>>
<1>1. ASSUME NEW c \in Call, NEW op \in Operation, Issue(c, op) PROVE Goal BY <1>1 DEF Issue
<1>2. ASSUME NEW c, Posts(c) \/ PostsTooLate(c) PROVE Goal
  <2>1. Posts(c) BY <1>2, PostsLives
  <2>2. [id |-> nextId, request |-> requests[c]] \in PostedType BY <2>1, PostsTyped
  <2>3. Sends([id |-> nextId, request |-> requests[c]]) BY <2>1 DEF Posts, Sends
  <2>. QED BY <2>2, <2>3
<1>3. ASSUME NEW c, Retries(c) \/ GivesUp(c) PROVE Goal BY <1>3 DEF Retries, GivesUp
<1>4. ASSUME NEW error \in Errors, Loses(error) PROVE Goal BY <1>4 DEF Loses, LoseWorker, Empties
<1>5. ASSUME NEW r \in replays, ReplayPost(r) PROVE Goal BY <1>5, ReplayPostTyped DEF Sends
<1>6. ASSUME NEW r \in replays, ReplayLoad(r) \/ ReplayAbandoned(r) PROVE Goal
  BY <1>6 DEF ReplayLoad, ReplayAbandoned
<1>7. ASSUME Ignores \/ (\E m : EndsReplay(m)) \/ (\E m, c : LearnsFrom(m, c)) PROVE Goal
  <2>1. Reads
    BY <1>7 DEF Ignores, EndsReplay, LearnsFrom, AnswerReplay, AnswerCall, Reads
  <2>. QED BY <2>1
<1>8. ASSUME Take PROVE Goal
  <2>1. Takes BY <1>8 DEF Takes, Take
  <2>. QED BY <2>1
<1>9. ASSUME Finish \/ FinishWithError PROVE Goal
  <2>1. active' = Idle /\ UNCHANGED <<nextId, queued>> BY <1>9 DEF Finish, FinishWithError
  <2>2. Ends BY <1>9, <2>1, FinishTyped DEF Ends
  <2>. QED BY <2>2
<1>10. ASSUME (\E id \in cancelling : ReceiveCancel(id)) \/ UNCHANGED vars PROVE Goal
  BY <1>10 DEF ReceiveCancel, vars
<1>. QED BY <1>1, <1>2, <1>3, <1>4, <1>5, <1>6, <1>7, <1>8, <1>9, <1>10, StepCases
     DEF Hostside, Threadside

(* Every step keeps both channels in the order of the ids.                 *)
LEMMA IdsStep ==
  ASSUME TypeOK, IssuedInOrder, Lives, IdsInOrder, [Next]_vars
  PROVE  IdsInOrder'
<1>1. /\ nextId \in Nat \ {0} /\ queued \in Seq(PostedType) /\ toClient \in Seq(AnswerType)
      /\ active \in PostedType \union {Idle} /\ \A e \in PostedType : e.id \in Nat \ {0}
      /\ Idle.id = 0 /\ \A m \in AnswerType : m.id \in Nat \ {0}
      /\ DOMAIN queued = 1..Len(queued) /\ Len(queued) \in Nat
      /\ DOMAIN toClient = 1..Len(toClient) /\ Len(toClient) \in Nat
  BY LenProperties DEF TypeOK, PostedType, AnswerType, Idle
<1>2. /\ active.id \in Nat /\ \A i \in DOMAIN queued : queued[i] \in PostedType /\ queued[i].id \in Nat \ {0}
      /\ \A i \in DOMAIN toClient : toClient[i] \in AnswerType /\ toClient[i].id \in Nat \ {0}
  <2>1. \A i \in DOMAIN queued : queued[i] \in PostedType BY <1>1, ElementOfSeq
  <2>2. \A i \in DOMAIN toClient : toClient[i] \in AnswerType BY <1>1, ElementOfSeq
  <2>. QED BY <1>1, <2>1, <2>2
<1>3. \A e \in Held : e.id \in Nat /\ e.id < nextId /\ e.id # 0
  BY <1>1, <1>2 DEF IdsInOrder, Held, Elements
<1>4. ASSUME NEW x \in PostedType, Sends(x) PROVE IdsInOrder'
  <2>1. /\ x.id = nextId /\ queued' = Append(queued, x) /\ nextId' = nextId + 1
        /\ active' = active /\ toClient' = toClient
    BY <1>4 DEF Sends
  <2>2. /\ DOMAIN queued' = 1..Len(queued) + 1 /\ queued'[Len(queued) + 1] = x
        /\ \A i \in 1..Len(queued) : queued'[i] = queued[i]
    BY <1>1, <2>1, AppendedAt
  <2>3. Held' = Held \union {x} /\ Answers' = Answers BY <2>1, HeldPosted DEF Answers
  <2>4. \A i \in DOMAIN queued' : queued'[i].id < nextId'
    BY <1>1, <1>2, <2>1, <2>2 DEF IdsInOrder
  <2>5. \A i, j \in DOMAIN queued' : i < j => queued'[i].id < queued'[j].id
    BY <1>1, <1>2, <2>1, <2>2 DEF IdsInOrder
  <2>6. \A i \in DOMAIN queued' : active'.id < queued'[i].id /\ active'.id < nextId'
    BY <1>1, <1>2, <2>1, <2>2 DEF IdsInOrder
  <2>7. \A m \in Answers : m.id < nextId' /\ m.id < nextId
    <3>1. \A m \in Answers : m.id \in Nat BY <1>2 DEF Answers, Elements
    <3>. QED BY <1>1, <2>1, <3>1 DEF IdsInOrder
  <2>8. \A m \in Answers' : m.id < nextId' /\ \A e \in Held' : m.id < e.id
    BY <2>1, <2>3, <2>7 DEF IdsInOrder
  <2>9. active'.id < nextId' BY <1>1, <1>2, <2>1 DEF IdsInOrder
  <2>. QED BY <2>1, <2>4, <2>5, <2>6, <2>8, <2>9 DEF IdsInOrder
<1>5. CASE Empties
  <2>1. queued' = <<>> /\ active' = Idle /\ nextId' = nextId /\ toClient' = toClient BY <1>5 DEF Empties
  <2>2. DOMAIN queued' = {} /\ Held' = {} /\ Answers' = Answers BY <2>1, NothingIn DEF Held, Answers
  <2>3. active'.id < nextId' BY <1>1, <2>1
  <2>. QED BY <2>1, <2>2, <2>3 DEF IdsInOrder
<1>6. CASE Reads
  <2>1. toClient # <<>> /\ toClient' = Tail(toClient) /\ UNCHANGED <<nextId, queued, active>>
    BY <1>6 DEF Reads
  <2>2. Answers' \subseteq Answers /\ Held' = Held
    BY <1>1, <2>1, BeheadedElements DEF Answers, Held
  <2>3. /\ DOMAIN toClient' = 1..Len(toClient) - 1
        /\ \A i \in 1..Len(toClient) - 1 : toClient'[i] = toClient[i + 1]
    BY <1>1, <2>1, BeheadedAt
  <2>4. \A i, j \in DOMAIN toClient' : i < j => toClient'[i].id < toClient'[j].id
    <3>1. \A i \in DOMAIN toClient' : i + 1 \in DOMAIN toClient /\ i \in Nat BY <1>1, <2>3
    <3>2. \A i, j \in DOMAIN toClient : i < j => toClient[i].id < toClient[j].id BY DEF IdsInOrder
    <3>. QED BY <2>3, <3>1, <3>2
  <2>. QED BY <2>1, <2>2, <2>4 DEF IdsInOrder
<1>7. CASE Takes
  <2>1. /\ active = Idle /\ queued # <<>> /\ queued' = Tail(queued) /\ active' \in {Idle, Head(queued)}
        /\ nextId' = nextId /\ toClient' = toClient
    BY <1>7 DEF Takes, Take
  <2>2. /\ DOMAIN queued' = 1..Len(queued) - 1 /\ Head(queued) = queued[1] /\ 1 \in DOMAIN queued
        /\ \A i \in 1..Len(queued) - 1 : queued'[i] = queued[i + 1]
    BY <1>1, <2>1, BeheadedAt
  <2>3. Held' \subseteq Held BY <1>7, HeldLess DEF Takes
  <2>4. Answers' = Answers BY <2>1 DEF Answers
  <2>5. \A i \in DOMAIN queued' : i + 1 \in DOMAIN queued /\ 1 < i + 1 BY <1>1, <2>2
  <2>6. ASSUME NEW i \in DOMAIN queued' PROVE queued'[i].id < nextId' /\ active'.id < queued'[i].id
    <3>1. i + 1 \in DOMAIN queued /\ 1 < i + 1 /\ queued'[i] = queued[i + 1] BY <2>2, <2>5
    <3>2. queued[i + 1].id < nextId /\ queued[1].id < queued[i + 1].id /\ active.id < queued[i + 1].id
      BY <2>2, <3>1 DEF IdsInOrder
    <3>. QED BY <1>1, <2>1, <2>2, <3>1, <3>2
  <2>7. ASSUME NEW i \in DOMAIN queued', NEW j \in DOMAIN queued', i < j
        PROVE  queued'[i].id < queued'[j].id
    <3>1. i + 1 < j + 1 /\ i + 1 \in DOMAIN queued /\ j + 1 \in DOMAIN queued BY <1>1, <2>2, <2>5, <2>7
    <3>2. queued'[i] = queued[i + 1] /\ queued'[j] = queued[j + 1] BY <2>2
    <3>. QED BY <3>1, <3>2 DEF IdsInOrder
  <2>8. active'.id < nextId' BY <1>1, <2>1, <2>2 DEF IdsInOrder
  <2>. QED BY <2>1, <2>3, <2>4, <2>6, <2>7, <2>8 DEF IdsInOrder
<1>8. CASE Ends
  <2>1. active # Idle /\ active' = Idle /\ nextId' = nextId /\ queued' = queued BY <1>8 DEF Ends
  <2>2. active \in Held /\ Held' \subseteq Elements(queued) BY <2>1 DEF Held
  <2>3. /\ \A i \in DOMAIN queued : active'.id < queued[i].id
        /\ active'.id < nextId'
    BY <1>1, <1>2, <2>1
  <2>4. \A e \in Held' : active.id < e.id BY <2>2 DEF IdsInOrder, Elements
  <2>5. CASE toClient' = toClient
    <3>1. Answers' = Answers BY <2>5 DEF Answers
    <3>2. Held' \subseteq Held BY <2>2 DEF Held
    <3>. QED BY <2>1, <2>3, <2>5, <3>1, <3>2 DEF IdsInOrder
  <2>6. ASSUME NEW m \in AnswerType, m.id = active.id, toClient' = Append(toClient, m)
        PROVE  IdsInOrder'
    <3>1. /\ DOMAIN toClient' = 1..Len(toClient) + 1 /\ toClient'[Len(toClient) + 1] = m
          /\ \A i \in 1..Len(toClient) : toClient'[i] = toClient[i]
      BY <1>1, <2>6, AppendedAt
    <3>2. Answers' = Answers \union {m} BY <1>1, <2>6, AppendedElements DEF Answers
    <3>3. \A n \in Answers : n.id < active.id BY <2>2 DEF IdsInOrder
    <3>4. \A i \in DOMAIN toClient : toClient[i].id < m.id BY <2>6, <3>3 DEF Answers, Elements
    <3>5. \A i, j \in DOMAIN toClient' : i < j => toClient'[i].id < toClient'[j].id
      <4>1. SUFFICES ASSUME NEW i \in DOMAIN toClient', NEW j \in DOMAIN toClient', i < j
                     PROVE  toClient'[i].id < toClient'[j].id
        OBVIOUS
      <4>2. i \in DOMAIN toClient BY <1>1, <3>1, <4>1
      <4>3. CASE j \in DOMAIN toClient BY <1>1, <3>1, <4>1, <4>2, <4>3 DEF IdsInOrder
      <4>4. CASE j \notin DOMAIN toClient
        <5>1. j = Len(toClient) + 1 BY <1>1, <3>1, <4>4
        <5>. QED BY <1>1, <3>1, <3>4, <4>2, <5>1
      <4>. QED BY <4>3, <4>4
    <3>6. \A n \in Answers' : n.id < nextId' /\ \A e \in Held' : n.id < e.id
      <4>1. \A n \in Answers : n.id < nextId /\ \A e \in Held : n.id < e.id BY DEF IdsInOrder
      <4>2. Held' \subseteq Held BY <2>2 DEF Held
      <4>3. m.id < nextId BY <1>3, <2>2, <2>6
      <4>. QED BY <2>1, <2>4, <2>6, <3>2, <4>1, <4>2, <4>3
    <3>. QED BY <2>1, <2>3, <3>5, <3>6 DEF IdsInOrder
  <2>. QED BY <1>8, <2>5, <2>6 DEF Ends
<1>9. CASE UNCHANGED <<nextId, queued, active, toClient>>
  BY <1>9 DEF IdsInOrder, Held, Answers
<1>. QED BY <1>4, <1>5, <1>6, <1>7, <1>8, <1>9, ChannelSteps
-----------------------------------------------------------------------------
(* Pending requests and their keys.                                        *)

(* The requests of the calls somebody goes on with stay what they are.     *)
LEMMA RequestsStay ==
  ASSUME TypeOK, IssuedInOrder, Lives, [Next]_vars, NEW c \in Call, outcome[c] # "idle"
  PROVE  requests'[c] = requests[c]
<1>1. CASE IssueStep
  <2>1. PICK d \in Call, op \in Operation : Issue(d, op) BY <1>1 DEF IssueStep
  <2>2. outcome[d] = "idle" /\ requests' = [requests EXCEPT ![d] = RequestOf(op)] BY <2>1 DEF Issue
  <2>. QED BY <2>2 DEF TypeOK
<1>2. CASE ~IssueStep BY <1>2, OtherSteps
<1>. QED BY <1>1, <1>2

(* A pending call was made and is not settled.                             *)
LEMMA PendingAreAsked ==
  ASSUME TypeOK, IssuedInOrder, NEW id \in PendingCalls
  PROVE  /\ pending[id].call \in Call /\ pending[id].call \in Outstanding
         /\ outcome[pending[id].call] # "idle" /\ requests[pending[id].call] \in RequestType
<1>1. pending[id].call \in Outstanding BY DEF Outstanding
<1>2. pending[id].call \in Call BY <1>1, OutstandingAre
<1>. QED BY <1>1, <1>2, OutstandingTyped

(* What a step does to the pending requests: nothing, or c is posted, or   *)
(* all are rejected, or a replay is posted, or one is answered.            *)
PendingStays == UNCHANGED <<pending, pendingByKey>>
PendingGoes == DOMAIN pending' = {} /\ DOMAIN pendingByKey' = {}

(* What a step may do to the pending requests.                             *)
LEMMA PendingSteps ==
  ASSUME TypeOK, IssuedInOrder, Lives, [Next]_vars
  PROVE  \/ PendingStays \/ PendingGoes
         \/ \E c : Posts(c)
         \/ \E r \in replays : ReplayPost(r)
         \/ \E m : EndsReplay(m) \/ \E c : LearnsFrom(m, c)
<1> USE DEF client, calls, thread, world
<1> DEFINE Goal == \/ PendingStays \/ PendingGoes
                   \/ \E c : Posts(c)
                   \/ \E r \in replays : ReplayPost(r)
                   \/ \E m : EndsReplay(m) \/ \E c : LearnsFrom(m, c)
<1>1. ASSUME NEW c \in Call, NEW op \in Operation, Issue(c, op) PROVE Goal BY <1>1 DEF Issue, PendingStays
<1>2. ASSUME NEW c, Posts(c) \/ PostsTooLate(c) PROVE Goal BY <1>2, PostsLives
<1>3. ASSUME NEW c, Retries(c) \/ GivesUp(c) PROVE Goal BY <1>3 DEF Retries, GivesUp, PendingStays
<1>4. ASSUME NEW error \in Errors, Loses(error) PROVE Goal BY <1>4 DEF Loses, LoseWorker, PendingGoes
<1>5. ASSUME NEW r \in replays, ReplayLoad(r) \/ ReplayAbandoned(r) PROVE Goal
  BY <1>5 DEF ReplayLoad, ReplayAbandoned, PendingStays
<1>6. ASSUME Ignores \/ Threadside \/ UNCHANGED vars PROVE Goal
  BY <1>6 DEF Ignores, Threadside, ReceiveCancel, Take, Finish, FinishWithError, vars, PendingStays
<1>. QED BY <1>1, <1>2, <1>3, <1>4, <1>5, <1>6, StepCases DEF Hostside

(* Every step keeps pendingByKey and pending in agreement.                 *)
LEMMA KeysStep ==
  ASSUME TypeOK, IssuedInOrder, Lives, KeysAgree, [Next]_vars
  PROVE  KeysAgree'
<1> DEFINE KeyOf(id) == IF pending[id].call = Replay THEN NoKey
                        ELSE CancelKey(requests[pending[id].call])
<1>1. \A id \in DOMAIN pending : pending[id].key = KeyOf(id) BY DEF KeysAgree
<1>2. \A id \in DOMAIN pending : pending[id].call # Replay =>
         requests'[pending[id].call] = requests[pending[id].call]
  BY PendingAreAsked, RequestsStay DEF PendingCalls
<1>3. ASSUME \A id \in DOMAIN pending' : id \in DOMAIN pending /\ pending'[id] = pending[id]
      PROVE  \A id \in DOMAIN pending' :
                pending'[id].key = IF pending'[id].call = Replay THEN NoKey
                                   ELSE CancelKey(requests'[pending'[id].call])
  BY <1>1, <1>2, <1>3
<1>4. CASE PendingStays
  <2>1. PendingByKeyExact' BY <1>4 DEF PendingStays, KeysAgree, PendingByKeyExact
  <2>2. NoKey \notin DOMAIN pendingByKey' BY <1>4 DEF PendingStays, KeysAgree
  <2>. QED BY <1>3, <1>4, <2>1, <2>2 DEF PendingStays, KeysAgree
<1>5. CASE PendingGoes BY <1>5 DEF PendingGoes, KeysAgree, PendingByKeyExact
<1>6. ASSUME NEW c, Posts(c) PROVE KeysAgree'
  <2>1. /\ DOMAIN pending' = (DOMAIN pending \ {Old(c)}) \union {nextId}
        /\ nextId \notin DOMAIN pending /\ c \in Call /\ requests[c] \in RequestType
        /\ pending'[nextId] = [call |-> c, key |-> Key(c)]
        /\ \A id \in DOMAIN pending \ {Old(c)} : pending'[id] = pending[id]
        /\ outcome[c] # "idle"
    BY <1>6, PostsTyped
  <2>2. pending'[nextId].call = c /\ pending'[nextId].key = Key(c) BY <2>1
  <2>3. requests'[c] = requests[c] BY <2>1, RequestsStay
  <2>4. c # Replay BY <2>1, CallsAreNoReplay
  <2>5. \A id \in DOMAIN pending' :
                pending'[id].key = IF pending'[id].call = Replay THEN NoKey
                                   ELSE CancelKey(requests'[pending'[id].call])
    BY <1>1, <1>2, <2>1, <2>2, <2>3, <2>4 DEF Key
  <2>6. CASE Key(c) = NoKey
    <3>1. pendingByKey' = pendingByKey /\ Old(c) = 0 BY <1>6, <2>6 DEF Posts, Old, KeysAgree
    <3>2. 0 \notin DOMAIN pending BY DEF TypeOK
    <3>3. DOMAIN pending' = DOMAIN pending \union {nextId}
          /\ \A id \in DOMAIN pending : pending'[id] = pending[id]
      BY <2>1, <3>1, <3>2
    <3>4. PendingByKeyExact' BY <2>2, <2>6, <3>1, <3>3 DEF KeysAgree, PendingByKeyExact
    <3>. QED BY <2>5, <3>1, <3>4 DEF KeysAgree
  <2>7. CASE Key(c) # NoKey
    <3>1. pendingByKey' = [k \in DOMAIN pendingByKey \union {Key(c)} |->
                             IF k = Key(c) THEN nextId ELSE pendingByKey[k]]
      BY <1>6, <2>7 DEF Posts
    <3>2. NoKey \notin DOMAIN pendingByKey' BY <2>7, <3>1 DEF KeysAgree
    <3>3. \A k \in DOMAIN pendingByKey : k # Key(c) => pendingByKey[k] \in DOMAIN pending \ {Old(c)}
      <4>1. \A k \in DOMAIN pendingByKey : pendingByKey[k] \in DOMAIN pending /\ pending[pendingByKey[k]].key = k
        BY DEF KeysAgree, PendingByKeyExact
      <4>2. Old(c) \in DOMAIN pending => pending[Old(c)].key = Key(c)
        <5>1. 0 \notin DOMAIN pending BY DEF TypeOK
        <5>. QED BY <4>1, <5>1 DEF Old
      <4>. QED BY <4>1, <4>2
    <3>4. \A k \in DOMAIN pendingByKey' :
             pendingByKey'[k] \in DOMAIN pending' /\ pending'[pendingByKey'[k]].key = k
      BY <2>1, <2>2, <3>1, <3>3 DEF KeysAgree, PendingByKeyExact
    <3>5. \A id \in DOMAIN pending \ {Old(c)} : pending[id].key # NoKey =>
             pending[id].key # Key(c) /\ pending[id].key \in DOMAIN pendingByKey /\ pendingByKey[pending[id].key] = id
      BY DEF KeysAgree, PendingByKeyExact, Old
    <3>6. \A id \in DOMAIN pending' : pending'[id].key /= NoKey =>
             pending'[id].key \in DOMAIN pendingByKey' /\ pendingByKey'[pending'[id].key] = id
      BY <2>1, <2>2, <3>1, <3>5
    <3>7. PendingByKeyExact' BY <3>4, <3>6 DEF PendingByKeyExact
    <3>. QED BY <2>5, <3>2, <3>7 DEF KeysAgree
  <2>. QED BY <2>6, <2>7
<1>7. ASSUME NEW r \in replays, ReplayPost(r) PROVE KeysAgree'
  <2>1. /\ pending' = [id \in DOMAIN pending \union {nextId} |->
                         IF id = nextId THEN [call |-> Replay, key |-> NoKey] ELSE pending[id]]
        /\ pendingByKey' = pendingByKey
    BY <1>7 DEF ReplayPost
  <2>2. nextId \notin DOMAIN pending BY DEF TypeOK
  <2>3. pending'[nextId] = [call |-> Replay, key |-> NoKey] BY <2>1
  <2>4. /\ DOMAIN pending' = DOMAIN pending \union {nextId}
        /\ pending'[nextId].call = Replay /\ pending'[nextId].key = NoKey
        /\ \A id \in DOMAIN pending : pending'[id] = pending[id]
    BY <2>1, <2>2, <2>3
  <2>5. PendingByKeyExact' BY <2>1, <2>2, <2>4 DEF KeysAgree, PendingByKeyExact
  <2>6. \A id \in DOMAIN pending' :
                pending'[id].key = IF pending'[id].call = Replay THEN NoKey
                                   ELSE CancelKey(requests'[pending'[id].call])
    BY <1>1, <1>2, <2>4
  <2>. QED BY <2>1, <2>5, <2>6 DEF KeysAgree
<1>8. ASSUME NEW m, EndsReplay(m) PROVE KeysAgree'
  <2>1. /\ m.id \in DOMAIN pending /\ DOMAIN pending' = DOMAIN pending \ {m.id}
        /\ \A id \in DOMAIN pending' : pending'[id] = pending[id]
    BY <1>8, EndsTyped
  <2>2. pendingByKey' = pendingByKey /\ pending[m.id].call = Replay BY <1>8 DEF EndsReplay, AnswerReplay
  <2>3. pending[m.id].key = NoKey BY <1>1, <2>1, <2>2
  <2>4. \A k \in DOMAIN pendingByKey : pendingByKey[k] # m.id
    BY <2>3 DEF KeysAgree, PendingByKeyExact
  <2>5. PendingByKeyExact' BY <2>1, <2>2, <2>4 DEF KeysAgree, PendingByKeyExact
  <2>. QED BY <1>3, <2>1, <2>2, <2>5 DEF KeysAgree
<1>9. ASSUME NEW m, NEW c, LearnsFrom(m, c) PROVE KeysAgree'
  <2>1. /\ m.id \in DOMAIN pending /\ DOMAIN pending' = DOMAIN pending \ {m.id}
        /\ \A id \in DOMAIN pending' : pending'[id] = pending[id]
    BY <1>9, LearnsTyped
  <2>2. pendingByKey' = [k \in {k \in DOMAIN pendingByKey : pendingByKey[k] /= m.id} |-> pendingByKey[k]]
    BY <1>9 DEF LearnsFrom, AnswerCall, KeysWithout
  <2>3. PendingByKeyExact' BY <2>1, <2>2 DEF KeysAgree, PendingByKeyExact
  <2>4. NoKey \notin DOMAIN pendingByKey' BY <2>2 DEF KeysAgree
  <2>. QED BY <1>3, <2>1, <2>3, <2>4 DEF KeysAgree
<1>. QED BY <1>4, <1>5, <1>6, <1>7, <1>8, <1>9, PendingSteps
-----------------------------------------------------------------------------
(* What a step does to the requests held and the answers on their way.     *)
LEMMA HeldApart ==
  ASSUME TypeOK, IdsInOrder
  PROVE  /\ \A e \in Held : e \in PostedType /\ e.id \in Nat /\ 0 < e.id /\ e.id < nextId
         /\ \A m \in Answers : m \in AnswerType /\ m.id \in Nat /\ 0 < m.id /\ m.id < nextId
         /\ \A e, f \in Held : e.id = f.id => e = f
         /\ \A m \in Answers : \A e \in Held : m.id < e.id
         /\ active # Idle => \A e \in Held : e = active \/ active.id < e.id
         /\ active = Idle /\ queued # <<>> => \A e \in Held : e = Head(queued) \/ Head(queued).id < e.id
<1>1. queued \in Seq(PostedType) /\ DOMAIN queued = 1..Len(queued) /\ Len(queued) \in Nat
  BY LenProperties DEF TypeOK
<1>2. \A e \in PostedType : e.id \in Nat \ {0} BY DEF PostedType
<1>3. \A m \in AnswerType : m.id \in Nat \ {0} BY DEF AnswerType
<1>4. \A e \in Held : e \in PostedType /\ e.id \in Nat /\ 0 < e.id /\ e.id < nextId
  <2>1. \A e \in Held : e \in PostedType BY HeldTyped
  <2>2. \A e \in Held : e.id < nextId BY DEF Held, Elements, IdsInOrder
  <2>. QED BY <1>2, <2>1, <2>2
<1>5. \A m \in Answers : m \in AnswerType /\ m.id \in Nat /\ 0 < m.id /\ m.id < nextId
  BY <1>3, HeldTyped DEF IdsInOrder
<1>6. \A i, j \in DOMAIN queued : i = j \/ queued[i].id < queued[j].id \/ queued[j].id < queued[i].id
  BY <1>1 DEF IdsInOrder
<1>7. \A i \in DOMAIN queued : queued[i].id \in Nat /\ active.id < queued[i].id
  BY <1>1, <1>2, ElementOfSeq DEF IdsInOrder
<1>8. active # Idle => active.id \in Nat BY <1>2 DEF TypeOK
<1>9. ASSUME NEW e \in Held, NEW f \in Held, e.id = f.id PROVE e = f
  <2>1. (e = active /\ active # Idle) \/ \E i \in DOMAIN queued : e = queued[i] BY DEF Held, Elements
  <2>2. (f = active /\ active # Idle) \/ \E i \in DOMAIN queued : f = queued[i] BY DEF Held, Elements
  <2>. QED BY <1>6, <1>7, <1>8, <1>9, <2>1, <2>2
<1>10. ASSUME active # Idle, NEW e \in Held PROVE e = active \/ active.id < e.id
  BY <1>10, <1>7 DEF Held, Elements
<1>11. ASSUME active = Idle, queued # <<>>, NEW e \in Held PROVE e = Head(queued) \/ Head(queued).id < e.id
  <2>1. PICK i \in DOMAIN queued : e = queued[i] BY <1>11 DEF Held, Elements
  <2>2. Head(queued) = queued[1] /\ 1 \in DOMAIN queued BY <1>1, <1>11, BeheadedAt
  <2>3. i = 1 \/ 1 < i BY <1>1, <2>1
  <2>. QED BY <2>1, <2>2, <2>3 DEF IdsInOrder
<1>12. \A m \in Answers : \A e \in Held : m.id < e.id BY DEF IdsInOrder
<1>. QED BY <1>4, <1>5, <1>9, <1>10, <1>11, <1>12

Posted(c) == [id |-> nextId, request |-> requests[c]]

(* Posting a call gives the thread one request more.                       *)
LEMMA PostsSets ==
  ASSUME TypeOK, IssuedInOrder, NEW c, Posts(c)
  PROVE  Held' = Held \union {Posted(c)} /\ Answers' = Answers /\ Posted(c) \in PostedType
<1>1. Posted(c) \in PostedType BY PostsTyped DEF Posted
<1>2. queued' = Append(queued, Posted(c)) /\ active' = active /\ toClient' = toClient
  BY DEF Posts, Posted
<1>. QED BY <1>1, <1>2, HeldPosted DEF Answers

(* Posting the replay gives the thread one request more.                   *)
LEMMA ReplayPostSets ==
  ASSUME TypeOK, NEW r \in replays, ReplayPost(r)
  PROVE  \E x \in PostedType : /\ x.id = nextId /\ x.request = ReplayRequest(r)
                               /\ Held' = Held \union {x} /\ Answers' = Answers
<1>1. PICK x \in PostedType : x.id = nextId /\ x.request = ReplayRequest(r) /\ Sends(x)
  BY ReplayPostTyped
<1>2. Held' = Held \union {x} /\ Answers' = Answers BY <1>1, HeldPosted DEF Sends, Answers
<1>. QED BY <1>1, <1>2

(* A loss leaves nothing held and nothing pending; the answers already     *)
(* sent stay.                                                              *)
LEMMA LosesSets ==
  ASSUME NEW error \in Errors, Loses(error)
  PROVE  Held' = {} /\ Answers' = Answers /\ DOMAIN pending' = {}
BY NothingIn DEF Loses, LoseWorker, Held, Answers

(* The answer read is the oldest.                                          *)
LEMMA ReadsSets ==
  ASSUME TypeOK, IdsInOrder, toClient # <<>>, toClient' = Tail(toClient), UNCHANGED <<queued, active>>
  PROVE  /\ Head(toClient) \in Answers /\ Answers' = Answers \ {Head(toClient)} /\ Held' = Held
         /\ \A n \in Answers' : Head(toClient).id < n.id
<1>1. toClient \in Seq(AnswerType) BY DEF TypeOK
<1>2. Answers = {Head(toClient)} \union Answers' BY <1>1, BeheadedElements DEF Answers
<1>3. /\ Head(toClient) = toClient[1] /\ 1 \in DOMAIN toClient
      /\ DOMAIN Tail(toClient) = 1..Len(toClient) - 1 /\ Len(toClient) \in Nat
      /\ DOMAIN toClient = 1..Len(toClient)
      /\ \A i \in 1..Len(toClient) - 1 : Tail(toClient)[i] = toClient[i + 1]
  BY <1>1, BeheadedAt
<1>4. ASSUME NEW n \in Answers' PROVE Head(toClient).id < n.id
  <2>1. PICK i \in DOMAIN Tail(toClient) : n = Tail(toClient)[i] BY DEF Answers, Elements
  <2>2. n = toClient[i + 1] /\ i + 1 \in DOMAIN toClient /\ 1 < i + 1 BY <1>3, <2>1
  <2>. QED BY <1>3, <2>2 DEF IdsInOrder
<1>5. Head(toClient).id \in Nat BY <1>2, HeldApart
<1>6. Head(toClient) \notin Answers' BY <1>4, <1>5
<1>. QED BY <1>2, <1>4, <1>6 DEF Held

(* Taking moves the oldest request, or drops it if it was cancelled.       *)
LEMMA TakeSets ==
  ASSUME TypeOK, IdsInOrder, Take
  PROVE  /\ Answers' = Answers
         /\ \/ Held' = Held /\ cancelled' = cancelled
            \/ \E e \in Held : /\ e.id \in cancelled /\ cancelled' = cancelled \ {e.id}
                               /\ Held' = Held \ {e} /\ \A f \in Held' : e.id < f.id
<1>1. queued \in Seq(PostedType) /\ queued # <<>> /\ active = Idle /\ queued' = Tail(queued)
  BY DEF TypeOK, Take
<1>2. Held = Elements(queued) /\ Elements(queued) = {Head(queued)} \union Elements(Tail(queued))
  BY <1>1, BeheadedElements DEF Held
<1>3. Head(queued) \in PostedType /\ Head(queued) # Idle
  <2>1. Head(queued) \in PostedType BY <1>1, BeheadedAt
  <2>2. Idle \notin PostedType BY DEF PostedType, Idle
  <2>. QED BY <2>1, <2>2
<1>4. Answers' = Answers BY DEF Take, Answers
<1>5. CASE Head(queued).id \in cancelled
  <2>1. active' = Idle /\ cancelled' = cancelled \ {Head(queued).id} BY <1>1, <1>5 DEF Take
  <2>2. Held' = Elements(Tail(queued)) BY <1>1, <2>1 DEF Held
  <2>3. DOMAIN Tail(queued) = 1..Len(queued) - 1 /\ Len(queued) \in Nat
        /\ DOMAIN queued = 1..Len(queued) /\ Head(queued) = queued[1] /\ 1 \in DOMAIN queued
        /\ \A i \in 1..Len(queued) - 1 : Tail(queued)[i] = queued[i + 1]
    BY <1>1, BeheadedAt
  <2>4. ASSUME NEW f \in Elements(Tail(queued)) PROVE Head(queued).id < f.id
    <3>1. PICK i \in DOMAIN Tail(queued) : f = Tail(queued)[i] BY DEF Elements
    <3>2. f = queued[i + 1] /\ i + 1 \in DOMAIN queued /\ 1 < i + 1 BY <2>3, <3>1
    <3>. QED BY <2>3, <3>2 DEF IdsInOrder
  <2>5. Head(queued) \notin Elements(Tail(queued)) BY <1>3, <2>4 DEF PostedType
  <2>6. Held' = Held \ {Head(queued)} /\ Head(queued) \in Held BY <1>2, <2>2, <2>5
  <2>. QED BY <1>4, <1>5, <2>1, <2>2, <2>4, <2>6
<1>6. CASE Head(queued).id \notin cancelled
  <2>1. active' = Head(queued) /\ cancelled' = cancelled BY <1>6 DEF Take
  <2>2. Held' = Elements(Tail(queued)) \union {Head(queued)} BY <1>1, <1>3, <2>1 DEF Held
  <2>. QED BY <1>2, <1>4, <2>1, <2>2
<1>. QED BY <1>5, <1>6

(* Finishing moves the active request, the oldest, to the end of the       *)
(* answers, or drops it if it was cancelled.                               *)
LEMMA FinishSets ==
  ASSUME TypeOK, IdsInOrder, Finish \/ FinishWithError
  PROVE  /\ active \in Held /\ Held' = Held \ {active} /\ \A f \in Held' : active.id < f.id
         /\ \/ Answers' = Answers /\ active.id \in cancelled
            \/ \E m \in AnswerType : /\ m.id = active.id /\ Answers' = Answers \union {m}
                                     /\ \A n \in Answers : n.id < m.id
                                     /\ m.ok => Finish /\ active.id \notin cancelled
                                         /\ (m.removed <=> active.request.kind = "removeFile" /\
                                               engine.files[active.request.file] /= 0)
                                     /\ ~m.ok => FinishWithError
<1>1. active \in Held /\ active \in PostedType /\ active # Idle BY FinishTyped
<1>2. queued' = queued /\ active' = Idle BY DEF Finish, FinishWithError
<1>3. Held' = Elements(queued) BY <1>2 DEF Held
<1>4. \A f \in Elements(queued) : active.id < f.id BY DEF IdsInOrder, Elements
<1>5. active \notin Elements(queued) BY <1>1, <1>4 DEF PostedType
<1>6. Held' = Held \ {active} BY <1>1, <1>3, <1>5 DEF Held
<1>7. \A n \in Answers : n.id < active.id BY <1>1, HeldApart
<1>8. CASE toClient' = toClient /\ active.id \in cancelled
  BY <1>1, <1>3, <1>4, <1>6, <1>8 DEF Answers
<1>9. ASSUME NEW m \in AnswerType, m.id = active.id, toClient' = Append(toClient, m)
      PROVE  Answers' = Answers \union {m} /\ \A n \in Answers : n.id < m.id
  BY <1>7, <1>9, AppendedElements DEF Answers, TypeOK
<1>. QED BY <1>1, <1>3, <1>4, <1>6, <1>8, <1>9, FinishTyped

(* Most steps touch neither the requests held nor the answers nor what is  *)
(* pending: the others are those that post, lose, read, take or finish.    *)
Rests == /\ Held' = Held /\ Answers' = Answers /\ pending' = pending /\ engine' = engine
         /\ (cancelling \union cancelled)' \subseteq cancelling \union cancelled
         /\ UNCHANGED nextId

Reading(m) == toClient # <<>> /\ toClient' = Tail(toClient) /\ UNCHANGED <<queued, active>>
              /\ m = Head(toClient)

(* What a step may do to what is held, answered and pending.               *)
LEMMA WorkCases ==
  ASSUME TypeOK, IssuedInOrder, Lives, [Next]_vars
  PROVE  \/ Rests \/ (\E c : Posts(c)) \/ (\E r \in replays : ReplayPost(r))
         \/ (\E error \in Errors : Loses(error))
         \/ Ignores \/ (\E m : EndsReplay(m) \/ \E c : LearnsFrom(m, c))
         \/ Take \/ Finish \/ FinishWithError
<1> USE DEF client, calls, thread, world
<1> DEFINE Goal == \/ Rests \/ (\E c : Posts(c)) \/ (\E r \in replays : ReplayPost(r))
                   \/ (\E error \in Errors : Loses(error))
                   \/ Ignores \/ (\E m : EndsReplay(m) \/ \E c : LearnsFrom(m, c))
                   \/ Take \/ Finish \/ FinishWithError
<1>1. ASSUME UNCHANGED <<queued, active, toClient, pending, engine, cancelling, cancelled, nextId>>
      PROVE  Rests
  BY <1>1 DEF Rests, Held, Answers
<1>2. ASSUME NEW c \in Call, NEW op \in Operation, Issue(c, op), AnswersAtOnce(c, op) \/ GoesAway(c, op) PROVE Rests
  <2>1. UNCHANGED <<queued, active, toClient, pending, cancelling, cancelled, nextId>> BY <1>2 DEF Issue
  <2>2. engine' = engine BY <1>2, IssueJoins DEF AnswersAtOnce, Joins
  <2>. QED BY <1>1, <2>1, <2>2
<1>3. ASSUME NEW c, Retries(c) PROVE Rests
  <2>1. UNCHANGED <<queued, active, toClient, pending, cancelling, cancelled, nextId>> BY <1>3 DEF Retries
  <2>2. engine' = engine BY <1>3, RetryJoins DEF Joins
  <2>. QED BY <1>1, <2>1, <2>2
<1>4. ASSUME NEW c, GivesUp(c) PROVE Rests BY <1>1, <1>4 DEF GivesUp
<1>5. ASSUME NEW r \in replays, ReplayLoad(r) \/ ReplayAbandoned(r) PROVE Rests
  BY <1>1, <1>5 DEF ReplayLoad, ReplayAbandoned
<1>6. ASSUME NEW id \in cancelling, ReceiveCancel(id) PROVE Rests
  BY <1>6 DEF ReceiveCancel, Rests, Held, Answers
<1>7. ASSUME UNCHANGED vars PROVE Rests BY <1>1, <1>7 DEF vars
<1>8. ASSUME NEW c, Posts(c) \/ PostsTooLate(c) PROVE Posts(c) BY <1>8, PostsLives
<1>9. ASSUME Hostside PROVE Goal BY <1>2, <1>3, <1>4, <1>5, <1>8, <1>9 DEF Hostside
<1>10. ASSUME Threadside PROVE Goal BY <1>6, <1>10 DEF Threadside
<1>. QED BY <1>7, <1>9, <1>10, StepCases

(* Reading an answer takes it from the answers and its request from what   *)
(* is pending.                                                             *)
LEMMA ReadingCases ==
  ASSUME NEW m, NEW c, (Ignores /\ m = Head(toClient)) \/ EndsReplay(m) \/ LearnsFrom(m, c)
  PROVE  /\ Reading(m) /\ UNCHANGED <<nextId, cancelling, cancelled, engine>>
         /\ \A id \in DOMAIN pending' : id \in DOMAIN pending /\ pending'[id] = pending[id]
         /\ DOMAIN pending' = DOMAIN pending \ {m.id}
<1>1. CASE Ignores /\ m = Head(toClient)
  BY <1>1 DEF Ignores, Reading, client
<1>2. CASE EndsReplay(m) BY <1>2 DEF EndsReplay, AnswerReplay, WithoutId, Reading
<1>3. CASE LearnsFrom(m, c) BY <1>3 DEF LearnsFrom, AnswerCall, WithoutId, Reading
<1>. QED BY <1>1, <1>2, <1>3

-----------------------------------------------------------------------------
(* Every pending request is under way, as it was asked.                    *)
LEMMA PendingIsUnderWayStep ==
  ASSUME TypeOK, IssuedInOrder, Lives, IdsInOrder, UnderWay, [Next]_vars
  PROVE  PendingIsUnderWay'
<1> DEFINE Way(id, held, answers) == (\E e \in held : e.id = id) \/ (\E m \in answers : m.id = id)
<1>1. \A id \in DOMAIN pending : Way(id, Held, Answers) BY DEF UnderWay, PendingIsUnderWay
<1>2. SUFFICES ASSUME NEW id \in DOMAIN pending' PROVE Way(id, Held', Answers')
  BY DEF PendingIsUnderWay
<1>3. CASE Rests BY <1>1, <1>3 DEF Rests
<1>4. ASSUME NEW c, Posts(c) PROVE Way(id, Held', Answers')
  <2>1. Held' = Held \union {Posted(c)} /\ Answers' = Answers /\ Posted(c).id = nextId
    BY <1>4, PostsSets DEF Posted
  <2>2. DOMAIN pending' = (DOMAIN pending \ {Old(c)}) \union {nextId} BY <1>4, PostsTyped
  <2>. QED BY <1>1, <1>2, <2>1, <2>2
<1>5. ASSUME NEW r \in replays, ReplayPost(r) PROVE Way(id, Held', Answers')
  <2>1. PICK x : x.id = nextId /\ Held' = Held \union {x} /\ Answers' = Answers
    BY <1>5, ReplayPostSets
  <2>2. id \in DOMAIN pending \/ id = nextId BY <1>5 DEF ReplayPost
  <2>. QED BY <1>1, <2>1, <2>2
<1>6. ASSUME NEW error \in Errors, Loses(error) PROVE FALSE BY <1>6, LosesSets
<1>7. ASSUME NEW m, NEW c, (Ignores /\ m = Head(toClient)) \/ EndsReplay(m) \/ LearnsFrom(m, c)
      PROVE Way(id, Held', Answers')
  <2>1. Held' = Held /\ Answers' = Answers \ {m} BY <1>7, ReadingCases, ReadsSets DEF Reading
  <2>2. id \in DOMAIN pending /\ id # m.id BY <1>7, ReadingCases
  <2>. QED BY <1>1, <2>1, <2>2
<1>8. CASE Take
  <2>1. pending' = pending BY <1>8 DEF Take, client
  <2>2. id \notin cancelled BY <2>1 DEF UnderWay, CancelledIsGone
  <2>. QED BY <1>1, <1>8, <2>1, <2>2, TakeSets
<1>9. CASE Finish \/ FinishWithError
  <2>1. pending' = pending BY <1>9 DEF Finish, FinishWithError, client
  <2>2. id \notin cancelled BY <2>1 DEF UnderWay, CancelledIsGone
  <2>3. Held' = Held \ {active} BY <1>9, FinishSets
  <2>4. CASE Answers' = Answers /\ active.id \in cancelled BY <1>1, <2>1, <2>2, <2>3, <2>4
  <2>5. ASSUME NEW m, m.id = active.id, Answers' = Answers \union {m} PROVE Way(id, Held', Answers')
    BY <1>1, <2>1, <2>3, <2>5
  <2>. QED BY <1>9, <2>4, <2>5, FinishSets
<1> HIDE DEF Way
<1>. QED BY <1>3, <1>4, <1>5, <1>6, <1>7, <1>8, <1>9, WorkCases

(* Every step keeps what was cancelled apart from what is pending.         *)
LEMMA CancelledIsGoneStep ==
  ASSUME TypeOK, IssuedInOrder, Lives, IdsInOrder, KeysAgree, UnderWay, [Next]_vars
  PROVE  CancelledIsGone'
<1> DEFINE Gone == (cancelling \union cancelled) \cap DOMAIN pending = {}
           Stay == \A e \in Held : IsInit(e.request) => e.id \in DOMAIN pending
<1>1. Gone /\ Stay /\ (CancelledIsGone <=> Gone /\ Stay) BY DEF UnderWay, CancelledIsGone
<1>2. CASE Rests BY <1>2 DEF Rests, CancelledIsGone, UnderWay
<1>3. ASSUME NEW c, Posts(c) PROVE CancelledIsGone'
  <2>1. /\ DOMAIN pending' = (DOMAIN pending \ {Old(c)}) \union {nextId}
        /\ nextId \notin DOMAIN pending
    BY <1>3, PostsTyped
  <2>2. /\ cancelling' = IF Old(c) \in DOMAIN pending THEN cancelling \union {Old(c)} ELSE cancelling
        /\ cancelled' = cancelled
    BY <1>3 DEF Posts
  <2>3. nextId \notin cancelling \union cancelled BY DEF TypeOK
  <2>4. Gone' BY <1>1, <2>1, <2>2, <2>3
  <2>5. ASSUME NEW e \in Held, IsInit(e.request), e.id = Old(c) PROVE FALSE
    <3>1. Old(c) \in DOMAIN pending BY <1>1, <2>5
    <3>2. pending[Old(c)].call # Replay BY <1>3, <3>1, PostsLives DEF Lives, BarrierHolds
    <3>3. Old(c) \in PendingCalls BY <3>1, <3>2 DEF PendingCalls
    <3>4. e.request = requests[pending[Old(c)].call] BY <2>5, <3>1, <3>2 DEF UnderWay, PendingIsAsAsked
    <3>5. requests[pending[Old(c)].call] \in RequestType BY <3>3, PendingAreAsked
    <3>6. pending[Old(c)].key = CancelKey(e.request) BY <3>1, <3>2, <3>4 DEF KeysAgree
    <3>7. CancelKey(e.request) = NoKey BY <2>5, <3>4, <3>5, KeyTyped
    <3>8. Key(c) \in DOMAIN pendingByKey /\ Old(c) = pendingByKey[Key(c)]
      <4>1. 0 \notin DOMAIN pending BY DEF TypeOK
      <4>. QED BY <3>1, <4>1 DEF Old
    <3>9. pending[Old(c)].key = Key(c) BY <3>8 DEF KeysAgree, PendingByKeyExact
    <3>. QED BY <3>6, <3>7, <3>8, <3>9 DEF KeysAgree
  <2>6. Held' = Held \union {Posted(c)} /\ Posted(c).id = nextId BY <1>3, PostsSets DEF Posted
  <2>7. Stay' BY <1>1, <2>1, <2>5, <2>6
  <2>. QED BY <2>4, <2>7 DEF CancelledIsGone
<1>4. ASSUME NEW r \in replays, ReplayPost(r) PROVE CancelledIsGone'
  <2>1. PICK x : x.id = nextId /\ Held' = Held \union {x} BY <1>4, ReplayPostSets
  <2>2. DOMAIN pending' = DOMAIN pending \union {nextId} /\ UNCHANGED <<cancelling, cancelled>>
    BY <1>4 DEF ReplayPost
  <2>3. nextId \notin cancelling \union cancelled BY DEF TypeOK
  <2>. QED BY <1>1, <2>1, <2>2, <2>3 DEF CancelledIsGone
<1>5. ASSUME NEW error \in Errors, Loses(error) PROVE CancelledIsGone'
  BY <1>5, LosesSets DEF CancelledIsGone
<1>6. ASSUME NEW m, NEW c, (Ignores /\ m = Head(toClient)) \/ EndsReplay(m) \/ LearnsFrom(m, c)
      PROVE  CancelledIsGone'
  <2>1. Held' = Held /\ m \in Answers BY <1>6, ReadingCases, ReadsSets DEF Reading
  <2>2. DOMAIN pending' = DOMAIN pending \ {m.id} /\ UNCHANGED <<cancelling, cancelled>>
    BY <1>6, ReadingCases
  <2>3. \A e \in Held : e.id # m.id
    <3>1. \A e \in Held : m.id < e.id /\ m.id \in Nat BY <2>1, HeldApart
    <3>. QED BY <3>1
  <2>. QED BY <1>1, <2>1, <2>2, <2>3 DEF CancelledIsGone
<1>7. CASE Take
  <2>1. pending' = pending /\ cancelling' = cancelling BY <1>7 DEF Take, client
  <2>2. Held' \subseteq Held /\ cancelled' \subseteq cancelled BY <1>7, TakeSets
  <2>. QED BY <1>1, <2>1, <2>2 DEF CancelledIsGone
<1>8. CASE Finish \/ FinishWithError
  <2>1. pending' = pending /\ cancelling' = cancelling /\ cancelled' \subseteq cancelled
    BY <1>8 DEF Finish, FinishWithError, client
  <2>2. Held' \subseteq Held BY <1>8, FinishSets
  <2>. QED BY <1>1, <2>1, <2>2 DEF CancelledIsGone
<1>. QED BY <1>2, <1>3, <1>4, <1>5, <1>6, <1>7, <1>8, WorkCases

(* What the client knows changes with an answer, with a file a replay      *)
(* loads, or with options set before there is a workspace.                 *)
LEMMA KnowledgeStays ==
  ASSUME TypeOK, IssuedInOrder, Lives, [Next]_vars
  PROVE  \/ UNCHANGED <<files, unsavedFiles, workspaceOptions>>
         \/ \E m, c : LearnsFrom(m, c)
         \/ \E r \in replays : ReplayLoad(r) /\ UNCHANGED workspaceOptions
         \/ ~initialized /\ UNCHANGED <<files, unsavedFiles>> /\ IssueStep
<1> USE DEF client, calls, thread, world
<1> DEFINE Goal == \/ UNCHANGED <<files, unsavedFiles, workspaceOptions>>
                   \/ \E m, c : LearnsFrom(m, c)
                   \/ \E r \in replays : ReplayLoad(r) /\ UNCHANGED workspaceOptions
                   \/ ~initialized /\ UNCHANGED <<files, unsavedFiles>> /\ IssueStep
<1>1. ASSUME NEW c \in Call, NEW op \in Operation, Issue(c, op), AnswersAtOnce(c, op) \/ GoesAway(c, op) PROVE Goal
  <2>1. UNCHANGED <<files, unsavedFiles>> BY <1>1 DEF Issue
  <2>2. workspaceOptions' = workspaceOptions \/ ~initialized
    BY <1>1 DEF AnswersAtOnce, GoesAway, AnsweredLocally
  <2>3. IssueStep BY <1>1 DEF IssueStep
  <2>. QED BY <2>1, <2>2, <2>3
<1>2. ASSUME NEW c, Posts(c) \/ PostsTooLate(c) PROVE Goal BY <1>2 DEF Posts, PostsTooLate
<1>3. ASSUME NEW c, Retries(c) \/ GivesUp(c) PROVE Goal BY <1>3 DEF Retries, GivesUp
<1>4. ASSUME NEW error \in Errors, Loses(error) PROVE Goal BY <1>4 DEF Loses, LoseWorker
<1>5. ASSUME NEW r \in replays, ReplayLoad(r) PROVE Goal
  <2>1. UNCHANGED workspaceOptions BY <1>5 DEF ReplayLoad
  <2>. QED BY <1>5, <2>1
<1>6. ASSUME NEW r \in replays, ReplayAbandoned(r) \/ ReplayPost(r) PROVE Goal
  <2>1. UNCHANGED <<files, unsavedFiles, workspaceOptions>> BY <1>6 DEF ReplayAbandoned, ReplayPost
  <2>. QED BY <2>1
<1>7. ASSUME NEW m, EndsReplay(m) PROVE Goal BY <1>7 DEF EndsReplay, AnswerReplay
<1>8. ASSUME Ignores \/ Threadside \/ UNCHANGED vars PROVE Goal
  BY <1>8 DEF Ignores, Threadside, ReceiveCancel, Take, Finish, FinishWithError, vars
<1>9. ASSUME Hostside PROVE Goal
  BY <1>1, <1>2, <1>3, <1>4, <1>5, <1>6, <1>7, <1>8, <1>9 DEF Hostside
<1>. QED BY <1>8, <1>9, StepCases

(* Every step keeps what the thread holds as it was asked.                 *)
LEMMA PendingIsAsAskedStep ==
  ASSUME TypeOK, IssuedInOrder, Lives, IdsInOrder, UnderWay, [Next]_vars
  PROVE  PendingIsAsAsked'
<1> DEFINE Replays(e, known, options) ==
             /\ IsInit(e.request) /\ e.request.admitted
             /\ e.request.options = options /\ Present(e.request.contents) \subseteq known
           AsAsked(p, e, known, options, asked) ==
             IF p.call = Replay THEN Replays(e, known, options) ELSE e.request = asked[p.call]
<1>1. \A id \in DOMAIN pending : \A e \in Held : e.id = id =>
         AsAsked(pending[id], e, files, workspaceOptions, requests)
  BY DEF UnderWay, PendingIsAsAsked
<1>2. SUFFICES ASSUME NEW id \in DOMAIN pending', NEW e \in Held', e.id = id
               PROVE  AsAsked(pending'[id], e, files', workspaceOptions', requests')
  BY DEF PendingIsAsAsked, Present
<1>3. \A i \in DOMAIN pending : pending[i].call # Replay =>
         requests'[pending[i].call] = requests[pending[i].call]
  BY PendingAreAsked, RequestsStay DEF PendingCalls
<1>4. ASSUME NEW i \in DOMAIN pending, pending[i].call = Replay, i \in DOMAIN pending'
      PROVE  UNCHANGED <<files, workspaceOptions>>
  <2>1. initialized /\ PendingCalls = {} BY <1>4 DEF Lives, BarrierHolds
  <2>2. \A m, c : ~LearnsFrom(m, c) BY <2>1 DEF LearnsFrom
  <2>3. \A r \in replays : ~ReplayLoad(r) BY <1>4 DEF ReplayLoad, LoaderOf, Lives, LoadersComeFirst
  <2>. QED BY <2>1, <2>2, <2>3, KnowledgeStays
<1>5. ASSUME id \in DOMAIN pending, pending'[id] = pending[id], e \in Held
      PROVE  AsAsked(pending'[id], e, files', workspaceOptions', requests')
  BY <1>1, <1>2, <1>3, <1>4, <1>5
<1>6. nextId \notin DOMAIN pending /\ \A f \in Held : f.id # nextId
  BY HeldApart DEF TypeOK
<1>7. CASE Rests BY <1>5, <1>7 DEF Rests
<1>8. ASSUME NEW c, Posts(c) PROVE AsAsked(pending'[id], e, files', workspaceOptions', requests')
  <2>1. Held' = Held \union {Posted(c)} BY <1>8, PostsSets
  <2>2. /\ DOMAIN pending' = (DOMAIN pending \ {Old(c)}) \union {nextId}
        /\ pending'[nextId] = [call |-> c, key |-> Key(c)] /\ c \in Call
        /\ \A i \in DOMAIN pending \ {Old(c)} : pending'[i] = pending[i]
    BY <1>8, PostsTyped
  <2>3. CASE e \in Held
    <3>1. id # nextId BY <1>2, <1>6, <2>3
    <3>. QED BY <1>5, <2>2, <2>3, <3>1
  <2>4. CASE e = Posted(c)
    <3>1. e.id = nextId /\ e.request = requests[c] BY <2>4 DEF Posted
    <3>2. pending'[id].call = c BY <1>2, <2>2, <3>1
    <3>3. c # Replay BY <2>2, CallsAreNoReplay
    <3>4. requests' = requests BY <1>8 DEF Posts
    <3>. QED BY <3>1, <3>2, <3>3, <3>4
  <2>. QED BY <2>1, <2>3, <2>4
<1>9. ASSUME NEW r \in replays, ReplayPost(r)
      PROVE  AsAsked(pending'[id], e, files', workspaceOptions', requests')
  <2>1. PICK x \in PostedType : /\ x.id = nextId /\ x.request = ReplayRequest(r)
                                /\ Held' = Held \union {x}
    BY <1>9, ReplayPostSets
  <2>2. /\ pending' = [i \in DOMAIN pending \union {nextId} |->
                         IF i = nextId THEN [call |-> Replay, key |-> NoKey] ELSE pending[i]]
        /\ UNCHANGED <<files, workspaceOptions>>
    BY <1>9 DEF ReplayPost
  <2>3. CASE e \in Held
    <3>1. id # nextId BY <1>2, <1>6, <2>3
    <3>2. id \in DOMAIN pending /\ pending'[id] = pending[id] BY <2>2, <3>1
    <3>. QED BY <1>5, <2>3, <3>2
  <2>4. CASE e = x
    <3>1. pending'[id].call = Replay BY <1>2, <2>1, <2>2, <2>4
    <3>2. /\ IsInit(e.request) /\ e.request.admitted /\ e.request.options = workspaceOptions
          /\ e.request.contents = r.contents
      BY <2>1, <2>4 DEF ReplayRequest, IsInit
    <3>3. Present(r.contents) \subseteq files
      BY <1>9 DEF ReplayPost, LoaderOf, Lives, LoadersComeFirst
    <3>. QED BY <2>2, <3>1, <3>2, <3>3
  <2>. QED BY <2>1, <2>3, <2>4
<1>10. ASSUME NEW error \in Errors, Loses(error) PROVE FALSE BY <1>10, LosesSets
<1>11. ASSUME NEW m, NEW c, (Ignores /\ m = Head(toClient)) \/ EndsReplay(m) \/ LearnsFrom(m, c)
       PROVE  AsAsked(pending'[id], e, files', workspaceOptions', requests')
  <2>1. Held' = Held BY <1>11, ReadingCases, ReadsSets DEF Reading
  <2>2. id \in DOMAIN pending /\ pending'[id] = pending[id] BY <1>11, ReadingCases
  <2>. QED BY <1>5, <2>1, <2>2
<1>12. CASE Take \/ Finish \/ FinishWithError
  <2>1. Held' \subseteq Held BY <1>12, HeldLess
  <2>2. pending' = pending BY <1>12 DEF Take, Finish, FinishWithError, client
  <2>. QED BY <1>5, <2>1, <2>2
<1> HIDE DEF AsAsked
<1>. QED BY <1>7, <1>8, <1>9, <1>10, <1>11, <1>12, WorkCases

(* Every step keeps a later request for each superseded one.               *)
LEMMA SupersededIsReplacedStep ==
  ASSUME TypeOK, IssuedInOrder, Lives, IdsInOrder, KeysAgree, UnderWay, [Next]_vars
  PROVE  SupersededIsReplaced'
<1> DEFINE Later(e, held, ids) == \E l \in held : /\ l.id > e.id /\ l.id \in ids
                                                  /\ CancelKey(l.request) = CancelKey(e.request)
<1>1. \A e \in Held : e.id \notin DOMAIN pending => Later(e, Held, DOMAIN pending)
  BY DEF UnderWay, SupersededIsReplaced
<1>2. SUFFICES ASSUME NEW e \in Held', e.id \notin DOMAIN pending' PROVE Later(e, Held', DOMAIN pending')
  BY DEF SupersededIsReplaced
<1>3. CASE Rests BY <1>1, <1>2, <1>3 DEF Rests
<1>4. ASSUME NEW c, Posts(c) PROVE Later(e, Held', DOMAIN pending')
  <2>1. Held' = Held \union {Posted(c)} /\ Posted(c).id = nextId /\ Posted(c).request = requests[c]
    BY <1>4, PostsSets DEF Posted
  <2>2. DOMAIN pending' = (DOMAIN pending \ {Old(c)}) \union {nextId} BY <1>4, PostsTyped
  <2>3. e \in Held /\ e.id < nextId /\ e.id \in Nat BY <1>2, <2>1, <2>2, HeldApart
  <2>4. ASSUME NEW y \in Held, y.id = Old(c), y.id \in DOMAIN pending
        PROVE  CancelKey(y.request) = CancelKey(requests[c])
    <3>1. pending[y.id].call # Replay BY <1>4, <2>4, PostsLives DEF Lives, BarrierHolds
    <3>2. y.request = requests[pending[y.id].call] BY <2>4, <3>1 DEF UnderWay, PendingIsAsAsked
    <3>3. pending[y.id].key = CancelKey(y.request) BY <2>4, <3>1, <3>2 DEF KeysAgree
    <3>4. Key(c) \in DOMAIN pendingByKey /\ Old(c) = pendingByKey[Key(c)]
      <4>1. 0 \notin DOMAIN pending BY DEF TypeOK
      <4>. QED BY <2>4, <4>1 DEF Old
    <3>5. pending[Old(c)].key = Key(c) BY <3>4 DEF KeysAgree, PendingByKeyExact
    <3>. QED BY <2>4, <3>3, <3>5 DEF Key
  <2>5. nextId > e.id BY <2>3 DEF TypeOK
  <2>6. CASE e.id \in DOMAIN pending
    <3>1. e.id = Old(c) BY <1>2, <2>2, <2>6
    <3>2. CancelKey(Posted(c).request) = CancelKey(e.request) BY <2>1, <2>3, <2>4, <2>6, <3>1
    <3>. QED BY <2>1, <2>2, <2>5, <3>2
  <2>7. CASE e.id \notin DOMAIN pending
    <3>1. PICK l \in Held : /\ l.id > e.id /\ l.id \in DOMAIN pending
                            /\ CancelKey(l.request) = CancelKey(e.request)
      BY <1>1, <2>3, <2>7
    <3>2. CASE l.id = Old(c)
      <4>1. CancelKey(Posted(c).request) = CancelKey(e.request) BY <2>1, <2>4, <3>1, <3>2
      <4>. QED BY <2>1, <2>2, <2>5, <4>1
    <3>3. CASE l.id # Old(c) BY <2>1, <2>2, <3>1, <3>3
    <3>. QED BY <3>2, <3>3
  <2>. QED BY <2>6, <2>7
<1>5. ASSUME NEW r \in replays, ReplayPost(r) PROVE Later(e, Held', DOMAIN pending')
  <2>1. PICK x : x.id = nextId /\ Held' = Held \union {x} BY <1>5, ReplayPostSets
  <2>2. DOMAIN pending' = DOMAIN pending \union {nextId} BY <1>5 DEF ReplayPost
  <2>3. e \in Held /\ e.id \notin DOMAIN pending BY <1>2, <2>1, <2>2
  <2>. QED BY <1>1, <2>1, <2>2, <2>3
<1>6. ASSUME NEW error \in Errors, Loses(error) PROVE FALSE BY <1>2, <1>6, LosesSets
<1>7. ASSUME NEW m, NEW c, (Ignores /\ m = Head(toClient)) \/ EndsReplay(m) \/ LearnsFrom(m, c)
      PROVE  Later(e, Held', DOMAIN pending')
  <2>1. Held' = Held /\ m \in Answers BY <1>7, ReadingCases, ReadsSets DEF Reading
  <2>2. DOMAIN pending' = DOMAIN pending \ {m.id} BY <1>7, ReadingCases
  <2>3. \A h \in Held : h.id # m.id
    <3>1. \A h \in Held : m.id < h.id /\ m.id \in Nat BY <2>1, HeldApart
    <3>. QED BY <3>1
  <2>. QED BY <1>1, <1>2, <2>1, <2>2, <2>3
<1>8. ASSUME NEW first \in Held, Held' = Held \ {first}, \A g \in Held' : first.id < g.id,
             pending' = pending
      PROVE  Later(e, Held', DOMAIN pending')
  <2>1. e \in Held /\ first.id < e.id BY <1>2, <1>8
  <2>2. PICK l \in Held : /\ l.id > e.id /\ l.id \in DOMAIN pending
                          /\ CancelKey(l.request) = CancelKey(e.request)
    BY <1>1, <1>2, <1>8, <2>1
  <2>3. l # first
    <3>1. l.id \in Nat /\ first.id \in Nat /\ e.id \in Nat BY <2>1, HeldApart
    <3>. QED BY <2>1, <2>2, <3>1
  <2>. QED BY <1>8, <2>2, <2>3
<1>9. CASE Take
  <2>1. pending' = pending BY <1>9 DEF Take, client
  <2>2. CASE Held' = Held BY <1>1, <1>2, <2>1, <2>2
  <2>. QED BY <1>8, <1>9, <2>1, <2>2, TakeSets
<1>10. CASE Finish \/ FinishWithError
  <2>1. pending' = pending BY <1>10 DEF Finish, FinishWithError, client
  <2>. QED BY <1>8, <1>10, <2>1, FinishSets
<1> HIDE DEF Later
<1>. QED BY <1>3, <1>4, <1>5, <1>6, <1>7, <1>9, <1>10, WorkCases

(* Every step keeps the requests in order, in agreement and under way.     *)
LEMMA RequestsStep ==
  ASSUME TypeOK, Lives, Requests, [Next]_vars
  PROVE  Requests'
BY IssuedStep, IdsStep, KeysStep, PendingIsUnderWayStep, PendingIsAsAskedStep, CancelledIsGoneStep,
   SupersededIsReplacedStep DEF Requests, UnderWay
-----------------------------------------------------------------------------
(* The replay barrier.                                                     *)

(* A worker that has been told of its workspace has been told for good.    *)
LEMMA FinishAware ==
  ASSUME TypeOK, Finish \/ FinishWithError
  PROVE  /\ IsInit(active.request) => Aware'
         /\ Aware => Aware'
<1>1. active.request \in RequestType /\ active.request.kind \in Kinds
  BY FinishTyped DEF PostedType, RequestType
<1>2. engine \in EngineType BY DEF TypeOK
<1>3. /\ Analysed(active.request).ready = (engine.ready \/ IsInit(active.request))
      /\ ~IsInit(active.request) => Analysed(active.request).initFailed = engine.initFailed
  BY <1>1, <1>2 DEF Analysed, EngineType, FreshEngine, IsInit, Kinds
<1>4. CASE Finish
  <2>1. engine' = Analysed(active.request) BY <1>4 DEF Finish
  <2>. QED BY <1>3, <2>1 DEF Aware
<1>5. CASE FinishWithError /\ IsInit(active.request)
  <2>1. engine' = [FreshEngine EXCEPT !.initFailed = TRUE, !.options = active.request.options]
    BY <1>5 DEF FinishWithError, IsInit
  <2>2. engine'.initFailed BY <2>1 DEF FreshEngine
  <2>. QED BY <2>2 DEF Aware
<1>6. CASE FinishWithError /\ ~IsInit(active.request)
  <2>1. PICK e \in {engine, Analysed(active.request)} :
          engine' = [e EXCEPT !.rejected = @ \union LeftUncertain(active.request)]
    BY <1>6 DEF FinishWithError, IsInit
  <2>2. e \in EngineType BY <1>1, <1>2, <2>1, AnalysedTyped
  <2>3. engine'.ready = e.ready /\ engine'.initFailed = e.initFailed BY <2>1, <2>2 DEF EngineType
  <2>4. Aware => e.ready \/ e.initFailed BY <1>3, <1>6, <2>1 DEF Aware
  <2>. QED BY <1>6, <2>3, <2>4 DEF Aware
<1>. QED BY <1>4, <1>5, <1>6

(* What goes on past the head goes on as it did.                           *)
LEMMA TailResolved ==
  ASSUME TypeOK, runnable # <<>>, NEW due, due = Tail(runnable)
  PROVE  /\ due \in Seq(ContinuationType)
         /\ \A i \in DOMAIN due : i \in Nat /\ i + 1 \in DOMAIN runnable /\ due[i] = runnable[i + 1]
         /\ \A i \in DOMAIN runnable : i # 1 => i - 1 \in DOMAIN due /\ due[i - 1] = runnable[i]
         /\ 1 \in DOMAIN runnable /\ Head(runnable) = runnable[1]
         /\ DOMAIN runnable = 1..Len(runnable) /\ Len(runnable) \in Nat
         /\ DOMAIN due = 1..Len(runnable) - 1
<1>1. runnable \in Seq(ContinuationType) BY DEF TypeOK
<1>. QED BY <1>1, BeheadedAt

(* A call that joins the others keeps an initializeWorkspace first among   *)
(* those that go on.                                                       *)
LEMMA JoinsTold ==
  ASSUME TypeOK, Lives, NEW c \in Call, NEW due \in Seq(ContinuationType), Joins(c, due),
         AboutToBeAware' <=> AboutToBeAware,
         worker = 0 /\ GoesOn(c, due) => IsInit(requests'[c]),
         \A i \in DOMAIN due : due[i].error = "none" =>
             \/ AboutToBeAware
             \/ \E j \in 1..i : j \in DOMAIN due /\ due[j].error = "none" /\ IsInit(requests'[due[j].call]),
         worker # 0 /\ ready.worker = 0 =>
             \/ AboutToBeAware
             \/ \E j \in DOMAIN due : due[j].error = "none" /\ IsInit(requests'[due[j].call])
  PROVE  ResolvedAreTold'
<1>1. worker' \in Nat \ {0} /\ (worker # 0 => worker' = worker) BY DEF Joins
<1>2. CASE Waits(c, due)
  BY <1>1, <1>2 DEF Waits, ResolvedAreTold, InitResolved, Resolved
<1>3. CASE GoesOn(c, due)
  <2> DEFINE x == ResolvedWith(c, worker')
             n == Len(due) + 1
  <2>1. runnable' = Append(due, x) /\ ready' = ready /\ ready.worker = 0 BY <1>3 DEF GoesOn
  <2>2. x \in ContinuationType BY <1>1 DEF ResolvedWith, ContinuationType
  <2>3. x.error = "none" /\ x.call = c BY DEF ResolvedWith
  <2> HIDE DEF x
  <2>4. /\ DOMAIN runnable' = 1..n /\ DOMAIN due = 1..Len(due) /\ Len(due) \in Nat
        /\ \A i \in 1..Len(due) : runnable'[i] = due[i]
        /\ runnable'[n] = x
    BY <2>1, <2>2, AppendedAt
  <2>5. \A j \in DOMAIN due : due[j].error = "none" /\ IsInit(requests'[due[j].call])
            => InitResolved(j)' /\ j \in 1..n
    BY <2>4 DEF InitResolved, Resolved
  <2>6. AboutToBeAware' \/ \E j \in 1..n : InitResolved(j)'
    <3>1. CASE worker = 0
      <4>1. IsInit(requests'[c]) BY <1>3, <3>1
      <4>2. n \in 1..n BY <2>4
      <4>3. InitResolved(n)' BY <2>3, <2>4, <4>1, <4>2 DEF InitResolved, Resolved
      <4>. QED BY <4>2, <4>3
    <3>2. CASE worker # 0 BY <2>1, <2>5, <3>2
    <3>. QED BY <3>1, <3>2
  <2>7. \A i \in DOMAIN runnable' : Resolved(i)' => AboutToBeAware' \/ \E j \in 1..i : InitResolved(j)'
    <3>1. SUFFICES ASSUME NEW i \in 1..n, Resolved(i)'
                   PROVE  AboutToBeAware' \/ \E j \in 1..i : InitResolved(j)'
      BY <2>4
    <3>2. CASE i = n BY <2>6, <3>2
    <3>3. CASE i # n
      <4>1. i \in DOMAIN due /\ due[i].error = "none" BY <2>4, <3>1, <3>3 DEF Resolved
      <4>. QED BY <2>5, <4>1
    <3>. QED BY <3>2, <3>3
  <2>8. DOMAIN runnable' = 1..n BY <2>4
  <2> HIDE DEF n
  <2>. QED BY <2>6, <2>7, <2>8 DEF ResolvedAreTold
<1>. QED BY <1>2, <1>3 DEF Joins

(* Every step keeps the initializeWorkspace first: the heart of the replay *)
(* barrier.                                                                *)
LEMMA ToldFirstStep ==
  ASSUME TypeOK, Lives, Requests, ToldFirst, [Next]_vars
  PROVE  ToldFirst'
<1> USE DEF client, calls, thread, world
<1>a. IssuedInOrder /\ IdsInOrder /\ KeysAgree /\ UnderWay BY DEF Requests
<1>b. IssuedInOrder' BY <1>a, IssuedStep
<1>c. \A e \in Held : Aware \/ \E g \in Held : g.id =< e.id /\ IsInit(g.request)
  BY DEF ToldFirst, HeldAreTold
<1>d. \A m \in Answers : m.id \in DOMAIN pending => Aware BY DEF ToldFirst
<1>e. ResolvedAreTold BY DEF ToldFirst
<1> DEFINE Rest == HeldAreTold /\ \A m \in Answers : m.id \in DOMAIN pending => Aware
<1>f. ASSUME Rest', ResolvedAreTold' PROVE ToldFirst' BY <1>f DEF ToldFirst
<1>g. ASSUME Rests
      PROVE  /\ Rest' /\ (AboutToBeAware' <=> AboutToBeAware)
             /\ Held' = Held /\ engine' = engine
  BY <1>c, <1>d, <1>g DEF Rests, HeldAreTold, Aware, AboutToBeAware
<1>h. ASSUME Rests, UNCHANGED <<runnable, requests, worker, ready>> PROVE ToldFirst'
  <2>1. ResolvedAreTold' BY <1>e, <1>g, <1>h DEF ResolvedAreTold, InitResolved, Resolved
  <2>. QED BY <1>f, <1>g, <1>h, <2>1
<1>1. ASSUME NEW c \in Call, NEW op \in Operation, Issue(c, op), AnswersAtOnce(c, op) \/ GoesAway(c, op)
      PROVE  ToldFirst'
  <2>1. Rests
    <3>1. UNCHANGED <<queued, active, toClient, pending, cancelling, cancelled, nextId>> BY <1>1 DEF Issue
    <3>2. engine' = engine BY <1>1, IssueJoins DEF AnswersAtOnce, Joins
    <3>. QED BY <3>1, <3>2 DEF Rests, Held, Answers
  <2>2. runnable = <<>> /\ DOMAIN runnable = {} BY <1>1, NothingIn DEF Issue
  <2>3. worker # 0 /\ ready.worker = 0 => AboutToBeAware BY <1>e, <2>2 DEF ResolvedAreTold
  <2>4. CASE AnswersAtOnce(c, op)
    <3>1. UNCHANGED <<worker, ready, runnable>> BY <2>4 DEF AnswersAtOnce
    <3>2. ResolvedAreTold' BY <1>g, <2>1, <2>2, <2>3, <3>1 DEF ResolvedAreTold
    <3>. QED BY <1>f, <1>g, <2>1, <3>2
  <2>5. CASE GoesAway(c, op)
    <3>1. /\ Joins(c, runnable) /\ ~disposed /\ initialized' = initialized
          /\ worker = 0 /\ GoesOn(c, runnable) => ~(needsReplay /\ ~IsInit(requests'[c]))
      BY <1>1, <2>5, IssueJoins
    <3>2. runnable \in Seq(ContinuationType) BY DEF TypeOK
    <3>3. attempt'[c] # 0 BY <2>5 DEF GoesAway, TypeOK
    <3>4. IsInit(requests'[c]) \/ initialized BY <1>b, <3>1, <3>3 DEF IssuedInOrder, IsInit
    <3>5. worker = 0 /\ GoesOn(c, runnable) => IsInit(requests'[c])
      BY <3>1, <3>4 DEF Lives, WithoutWorker
    <3>6. ResolvedAreTold' BY <1>g, <2>1, <2>2, <2>3, <3>1, <3>2, <3>5, JoinsTold
    <3>. QED BY <1>f, <1>g, <2>1, <3>6
  <2>. QED BY <1>1, <2>4, <2>5
<1>2. ASSUME NEW c, Posts(c) PROVE ToldFirst'
  <2>1. Held' = Held \union {Posted(c)} /\ Answers' = Answers BY <1>2, <1>a, PostsSets
  <2>2. Posted(c).id = nextId /\ Posted(c).request = requests[c] BY DEF Posted
  <2>3. /\ DOMAIN pending' = (DOMAIN pending \ {Old(c)}) \union {nextId}
        /\ \A m \in Answers : m.id # nextId
    <3>1. \A m \in Answers : m.id \in Nat /\ m.id < nextId BY <1>a, HeldApart
    <3>2. \A m \in Answers : m.id # nextId BY <3>1
    <3>. QED BY <1>2, <1>a, <3>2, PostsTyped
  <2>4. /\ UNCHANGED <<engine, requests, worker, ready>> /\ runnable # <<>> /\ runnable' = Tail(runnable)
        /\ Head(runnable).error = "none" /\ Head(runnable).call = c
    BY <1>2 DEF Posts
  <2>5. /\ \A i \in DOMAIN runnable' : i \in Nat /\ i + 1 \in DOMAIN runnable /\ runnable'[i] = runnable[i + 1]
        /\ \A i \in DOMAIN runnable : i # 1 => i - 1 \in DOMAIN runnable' /\ runnable'[i - 1] = runnable[i]
        /\ 1 \in DOMAIN runnable /\ Head(runnable) = runnable[1]
        /\ DOMAIN runnable = 1..Len(runnable) /\ DOMAIN runnable' = 1..Len(runnable) - 1
    BY <2>4, TailResolved
  <2>6. Aware' <=> Aware BY <2>4 DEF Aware
  <2>7. AboutToBeAware => AboutToBeAware' BY <2>1, <2>6 DEF AboutToBeAware
  <2>8. IsInit(requests[c]) => AboutToBeAware' BY <2>1, <2>2 DEF AboutToBeAware
  <2>9. HeldAreTold'
    <3>1. Resolved(1) BY <2>4, <2>5 DEF Resolved
    <3>2. AboutToBeAware \/ IsInit(requests[c])
      BY <1>e, <2>4, <2>5, <3>1 DEF ResolvedAreTold, InitResolved
    <3>3. \A g \in Held' : g.id =< nextId
      BY <1>a, <2>1, <2>2, HeldApart DEF TypeOK
    <3>4. Aware \/ \E g \in Held' : g.id =< Posted(c).id /\ IsInit(g.request)
      BY <2>1, <2>2, <3>2, <3>3 DEF AboutToBeAware
    <3>. QED BY <1>c, <2>1, <2>6, <3>4 DEF HeldAreTold
  <2>10. \A j \in DOMAIN runnable : InitResolved(j) =>
            AboutToBeAware' \/ (j - 1 \in DOMAIN runnable' /\ InitResolved(j - 1)')
    <3>1. SUFFICES ASSUME NEW j \in DOMAIN runnable, InitResolved(j)
                   PROVE  AboutToBeAware' \/ (j - 1 \in DOMAIN runnable' /\ InitResolved(j - 1)')
      OBVIOUS
    <3>2. CASE j = 1 BY <2>4, <2>5, <2>8, <3>1, <3>2 DEF InitResolved
    <3>3. CASE j # 1
      <4>1. j - 1 \in DOMAIN runnable' /\ runnable'[j - 1] = runnable[j] BY <2>5, <3>3
      <4>2. InitResolved(j - 1)' BY <2>4, <3>1, <4>1 DEF InitResolved, Resolved
      <4>. QED BY <4>1, <4>2
    <3>. QED BY <3>2, <3>3
  <2>11. ResolvedAreTold'
    <3>1. ASSUME NEW i \in DOMAIN runnable', Resolved(i)'
          PROVE  AboutToBeAware' \/ \E j \in 1..i : InitResolved(j)'
      <4>1. i + 1 \in DOMAIN runnable /\ Resolved(i + 1) /\ i \in Nat BY <2>5, <3>1 DEF Resolved
      <4>2. CASE AboutToBeAware BY <2>7, <4>2
      <4>3. ASSUME NEW j \in 1..i + 1, InitResolved(j)
            PROVE  AboutToBeAware' \/ \E k \in 1..i : InitResolved(k)'
        <5>1. j \in DOMAIN runnable BY <4>3 DEF InitResolved, Resolved
        <5>2. CASE AboutToBeAware' BY <5>2
        <5>3. CASE j - 1 \in DOMAIN runnable' /\ InitResolved(j - 1)'
          <6>1. j - 1 \in 1..i
            <7>1. j \in Int /\ j =< i + 1 /\ i \in Nat BY <4>1, <4>3
            <7>2. j - 1 \in 1..Len(runnable) - 1 BY <2>5, <5>3
            <7>. QED BY <7>1, <7>2
          <6>. QED BY <5>3, <6>1
        <5>. QED BY <2>10, <4>3, <5>1, <5>2, <5>3
      <4>. QED BY <1>e, <4>1, <4>2, <4>3 DEF ResolvedAreTold
    <3>2. ASSUME worker' # 0, ready'.worker = 0
          PROVE  AboutToBeAware' \/ \E j \in DOMAIN runnable' : InitResolved(j)'
      BY <1>e, <2>4, <2>7, <2>10, <3>2 DEF ResolvedAreTold
    <3>. QED BY <3>1, <3>2 DEF ResolvedAreTold
  <2>12. Rest' BY <1>d, <2>1, <2>3, <2>6, <2>9
  <2>. QED BY <1>f, <2>11, <2>12
<1>3. ASSUME NEW c, GivesUp(c) \/ Retries(c) PROVE ToldFirst'
  <2>1. Rests
    <3>1. UNCHANGED <<queued, active, toClient, pending, cancelling, cancelled, nextId>>
      BY <1>3 DEF GivesUp, Retries
    <3>2. engine' = engine BY <1>3, RetryJoins DEF GivesUp, Joins
    <3>. QED BY <3>1, <3>2 DEF Rests, Held, Answers
  <2>2. /\ requests' = requests /\ runnable # <<>> /\ Head(runnable).error # "none" /\ Head(runnable).call = c
    BY <1>3 DEF GivesUp, Retries
  <2> DEFINE due == Tail(runnable)
  <2>3. /\ due \in Seq(ContinuationType)
        /\ \A i \in DOMAIN due : i \in Nat /\ i + 1 \in DOMAIN runnable /\ due[i] = runnable[i + 1]
        /\ \A i \in DOMAIN runnable : i # 1 => i - 1 \in DOMAIN due /\ due[i - 1] = runnable[i]
        /\ 1 \in DOMAIN runnable /\ Head(runnable) = runnable[1]
        /\ DOMAIN runnable = 1..Len(runnable) /\ Len(runnable) \in Nat
        /\ DOMAIN due = 1..Len(runnable) - 1
    BY <2>2, TailResolved
  <2>4. runnable' = due \/ Joins(c, due) BY <1>3, RetryJoins DEF GivesUp
  <2>g. GivesUp(c) => runnable' = due /\ UNCHANGED <<worker, ready>> BY DEF GivesUp
  <2>r. Retries(c) => Joins(c, due) /\ c \in Call /\ ~disposed
                      /\ (worker = 0 /\ GoesOn(c, due) => ~initialized \/ IsInit(requests[c]))
    BY RetryJoins
  <2> HIDE DEF due
  <2>5. \A j \in DOMAIN runnable : InitResolved(j) =>
           /\ j - 1 \in DOMAIN due /\ due[j - 1].error = "none" /\ IsInit(requests'[due[j - 1].call])
           /\ j - 1 \in Nat /\ 1 =< j - 1
    <3>1. SUFFICES ASSUME NEW j \in DOMAIN runnable, InitResolved(j)
                   PROVE  /\ j - 1 \in DOMAIN due /\ due[j - 1].error = "none"
                          /\ IsInit(requests'[due[j - 1].call])
                          /\ j - 1 \in Nat /\ 1 =< j - 1
      OBVIOUS
    <3>2. j # 1 BY <2>2, <2>3, <3>1 DEF InitResolved, Resolved
    <3>3. j - 1 \in DOMAIN due /\ due[j - 1] = runnable[j] /\ j - 1 \in Nat /\ 1 =< j - 1
      BY <2>3, <3>2
    <3>. QED BY <2>2, <3>1, <3>3 DEF InitResolved, Resolved
  <2>6. \A i \in DOMAIN due : due[i].error = "none" =>
             \/ AboutToBeAware
             \/ \E j \in 1..i : j \in DOMAIN due /\ due[j].error = "none" /\ IsInit(requests'[due[j].call])
    <3>1. SUFFICES ASSUME NEW i \in DOMAIN due, due[i].error = "none", ~AboutToBeAware
                   PROVE  \E j \in 1..i : /\ j \in DOMAIN due /\ due[j].error = "none"
                                          /\ IsInit(requests'[due[j].call])
      OBVIOUS
    <3>2. i + 1 \in DOMAIN runnable /\ Resolved(i + 1) /\ i \in Nat BY <2>3, <3>1 DEF Resolved
    <3>3. PICK j \in 1..i + 1 : InitResolved(j) BY <1>e, <3>1, <3>2 DEF ResolvedAreTold
    <3>4. j \in DOMAIN runnable BY <3>3 DEF InitResolved, Resolved
    <3>5. j - 1 \in 1..i BY <2>5, <3>2, <3>3, <3>4
    <3>. QED BY <2>5, <3>3, <3>4, <3>5
  <2>7. worker # 0 /\ ready.worker = 0 =>
             \/ AboutToBeAware
             \/ \E j \in DOMAIN due : due[j].error = "none" /\ IsInit(requests'[due[j].call])
    BY <1>e, <2>5 DEF ResolvedAreTold
  <2>8. CASE GivesUp(c)
    <3>1. runnable' = due /\ UNCHANGED <<worker, ready>> BY <2>g, <2>8
    <3>2. AboutToBeAware' <=> AboutToBeAware BY <1>g, <2>1
    <3>3. ResolvedAreTold' BY <2>6, <2>7, <3>1, <3>2 DEF ResolvedAreTold, InitResolved, Resolved
    <3>. QED BY <1>f, <1>g, <2>1, <3>3
  <2>9. CASE Retries(c)
    <3>1. c \in Outstanding BY <2>2, <2>3 DEF Outstanding
    <3>2. IsInit(requests[c]) \/ initialized BY <1>a, <2>r, <2>9, <3>1 DEF IssuedInOrder
    <3>3. worker = 0 /\ GoesOn(c, due) => IsInit(requests'[c]) BY <2>2, <2>r, <2>9, <3>2
    <3>4. ResolvedAreTold' BY <1>g, <2>1, <2>3, <2>6, <2>7, <2>r, <2>9, <3>3, JoinsTold
    <3>. QED BY <1>f, <1>g, <2>1, <3>4
  <2>. QED BY <1>3, <2>8, <2>9
<1>4. ASSUME NEW r \in replays, ReplayLoad(r) \/ ReplayAbandoned(r) PROVE ToldFirst'
  <2>1. UNCHANGED <<queued, active, toClient, pending, engine, cancelling, cancelled, nextId,
                    runnable, requests, worker, ready>>
    BY <1>4 DEF ReplayLoad, ReplayAbandoned
  <2>2. Rests BY <2>1 DEF Rests, Held, Answers
  <2>. QED BY <1>h, <2>1, <2>2
<1>5. ASSUME NEW r \in replays, ReplayPost(r) PROVE ToldFirst'
  <2>1. PICK x \in PostedType : /\ x.id = nextId /\ x.request = ReplayRequest(r)
                                /\ Held' = Held \union {x} /\ Answers' = Answers
    BY <1>5, ReplayPostSets
  <2>2. IsInit(x.request) BY <2>1 DEF IsInit, ReplayRequest
  <2>3. DOMAIN pending' = DOMAIN pending \union {nextId} /\ engine' = engine BY <1>5 DEF ReplayPost
  <2>4. AboutToBeAware' BY <2>1, <2>2 DEF AboutToBeAware
  <2>5. x.id \in Nat BY <2>1 DEF TypeOK
  <2>6. HeldAreTold' BY <1>c, <2>1, <2>2, <2>3, <2>5 DEF HeldAreTold, Aware
  <2>7. \A m \in Answers : m.id # nextId
    <3>1. \A m \in Answers : m.id \in Nat /\ m.id < nextId BY <1>a, HeldApart
    <3>. QED BY <3>1
  <2>8. Rest' BY <1>d, <2>1, <2>3, <2>6, <2>7 DEF Aware
  <2>9. ResolvedAreTold' BY <2>4 DEF ResolvedAreTold
  <2>. QED BY <1>f, <2>8, <2>9
<1>6. ASSUME NEW error \in Errors, Loses(error) PROVE ToldFirst'
  <2>1. Held' = {} /\ DOMAIN pending' = {} BY <1>6, LosesSets
  <2>2. \A i \in DOMAIN runnable' : runnable'[i].error # "none" BY <1>6, LosesRejects, ErrorsAreErrors
  <2>3. worker' = 0 BY <1>6 DEF Loses, LoseWorker
  <2>4. ResolvedAreTold' BY <2>2, <2>3 DEF ResolvedAreTold, Resolved
  <2>5. Rest' BY <2>1 DEF HeldAreTold
  <2>. QED BY <1>f, <2>4, <2>5
<1>7. ASSUME NEW m, NEW c, (Ignores /\ m = Head(toClient)) \/ EndsReplay(m) \/ LearnsFrom(m, c)
      PROVE  ToldFirst'
  <2>1. /\ Held' = Held /\ Answers' = Answers \ {m} /\ m \in Answers
    BY <1>7, <1>a, ReadingCases, ReadsSets DEF Reading
  <2>2. engine' = engine /\ DOMAIN pending' \subseteq DOMAIN pending BY <1>7, ReadingCases
  <2>3. Rest' BY <1>c, <1>d, <2>1, <2>2 DEF HeldAreTold, Aware
  <2>4. AboutToBeAware => AboutToBeAware' BY <2>1, <2>2 DEF AboutToBeAware, Aware
  <2>5. ResolvedAreTold'
    <3>1. CASE Ignores \/ LearnsFrom(m, c)
      <4>1. UNCHANGED <<runnable, requests, worker, ready>>
        BY <3>1 DEF Ignores, LearnsFrom, AnswerCall
      <4>. QED BY <1>e, <2>4, <4>1 DEF ResolvedAreTold, InitResolved, Resolved
    <3>2. CASE EndsReplay(m)
      <4>1. m.id \in DOMAIN pending BY <3>2 DEF EndsReplay
      <4>2. AboutToBeAware BY <1>d, <2>1, <4>1 DEF AboutToBeAware
      <4>. QED BY <2>4, <4>2 DEF ResolvedAreTold
    <3>. QED BY <1>7, <3>1, <3>2
  <2>. QED BY <1>f, <2>3, <2>5
<1>8. CASE Take
  <2>1. UNCHANGED <<pending, engine, runnable, requests, worker, ready>> BY <1>8 DEF Take
  <2>2. Answers' = Answers BY <1>8, <1>a, TakeSets
  <2>3. \A g \in Held : IsInit(g.request) => g \in Held'
    <3>1. \A g \in Held : IsInit(g.request) => g.id \notin cancelled
      BY <1>a DEF UnderWay, CancelledIsGone
    <3>. QED BY <1>8, <1>a, <3>1, TakeSets
  <2>4. Held' \subseteq Held BY <1>8, HeldLess
  <2>5. Rest' BY <1>c, <1>d, <2>1, <2>2, <2>3, <2>4 DEF HeldAreTold, Aware
  <2>6. AboutToBeAware => AboutToBeAware' BY <2>1, <2>3 DEF AboutToBeAware, Aware
  <2>7. ResolvedAreTold' BY <1>e, <2>1, <2>6 DEF ResolvedAreTold, InitResolved, Resolved
  <2>. QED BY <1>f, <2>5, <2>7
<1>9. CASE Finish \/ FinishWithError
  <2>1. active \in Held /\ \A g \in Held : g.id =< active.id => g = active
    <3>1. active \in Held /\ active # Idle BY <1>9, FinishTyped
    <3>2. \A g \in Held : g = active \/ active.id < g.id BY <1>a, <3>1, HeldApart
    <3>3. \A g \in Held : g.id \in Nat BY <1>a, HeldApart
    <3>. QED BY <3>1, <3>2, <3>3
  <2>2. Aware \/ IsInit(active.request) BY <1>c, <2>1
  <2>3. Aware' BY <1>9, <2>2, FinishAware
  <2>4. Rest' BY <2>3 DEF HeldAreTold
  <2>5. ResolvedAreTold' BY <2>3 DEF ResolvedAreTold, AboutToBeAware
  <2>. QED BY <1>f, <2>4, <2>5
<1>10. ASSUME (\E id \in cancelling : ReceiveCancel(id)) \/ UNCHANGED vars PROVE ToldFirst'
  <2>1. UNCHANGED <<queued, active, toClient, pending, engine, nextId,
                    runnable, requests, worker, ready>>
    BY <1>10 DEF ReceiveCancel, vars
  <2>2. (cancelling \union cancelled)' \subseteq cancelling \union cancelled
    BY <1>10 DEF ReceiveCancel, vars
  <2>3. Rests BY <2>1, <2>2 DEF Rests, Held, Answers
  <2>. QED BY <1>h, <2>1, <2>3
<1>11. ASSUME NEW c, PostsTooLate(c) PROVE FALSE BY <1>11, PostsLives DEF Posts, PostsTooLate
<1>12. CASE Hostside
  BY <1>1, <1>2, <1>3, <1>4, <1>5, <1>6, <1>7, <1>11, <1>12 DEF Hostside
<1>13. CASE Threadside BY <1>8, <1>9, <1>10, <1>13 DEF Threadside
<1>. QED BY <1>10, <1>12, <1>13, StepCases
-----------------------------------------------------------------------------
(* The order of calls.                                                     *)

(* Whoever joins comes after what is pending and what waits, before what   *)
(* is rejected.                                                            *)
LEMMA JoinsInOrder ==
  ASSUME TypeOK, Lives, CallsInOrder, NEW c \in Call, NEW due \in Seq(ContinuationType),
         Joins(c, due), pending' = pending,
         \A i, j \in DOMAIN due : i < j => Follows(due[i], due[j]),
         \A i \in PendingCalls : pending[i].call < c /\ \A j \in DOMAIN due : pending[i].call < due[j].call,
         \A i \in DOMAIN ready.waiters :
            ready.waiters[i] < c /\ \A j \in DOMAIN due : ready.waiters[i] < due[j].call,
         \A i \in DOMAIN due :
            /\ due[i].error # "none" => c < due[i].call
            /\ due[i].error = "none" => due[i].call < c /\ worker # 0 /\ ready.worker = 0
  PROVE  CallsInOrder'
<1>1. PendingCalls' = PendingCalls BY DEF PendingCalls
<1>2. worker' \in Nat \ {0} /\ (worker # 0 => worker' = worker) BY DEF Joins
<1>3. CASE Waits(c, due)
  <2>1. runnable' = due /\ ready'.worker = worker' /\ ready'.waiters = Append(ready.waiters, c)
    BY <1>3 DEF Waits
  <2>2. ready.waiters \in Seq(Call) BY DEF TypeOK
  <2>3. /\ DOMAIN ready'.waiters = 1..Len(ready.waiters) + 1 /\ Len(ready.waiters) \in Nat
        /\ DOMAIN ready.waiters = 1..Len(ready.waiters)
        /\ \A i \in 1..Len(ready.waiters) : ready'.waiters[i] = ready.waiters[i]
        /\ ready'.waiters[Len(ready.waiters) + 1] = c
    BY <2>1, <2>2, AppendedAt
  <2>4. \A i, j \in DOMAIN ready'.waiters : i < j => ready'.waiters[i] < ready'.waiters[j]
    <3>1. SUFFICES ASSUME NEW i \in DOMAIN ready'.waiters, NEW j \in DOMAIN ready'.waiters, i < j
                   PROVE  ready'.waiters[i] < ready'.waiters[j]
      OBVIOUS
    <3>2. i \in DOMAIN ready.waiters BY <2>3, <3>1
    <3>3. CASE j \in DOMAIN ready.waiters BY <2>3, <3>1, <3>2, <3>3 DEF CallsInOrder
    <3>4. CASE j \notin DOMAIN ready.waiters
      <4>1. j = Len(ready.waiters) + 1 BY <2>3, <3>1, <3>4
      <4>. QED BY <2>3, <3>2, <4>1
    <3>. QED BY <3>3, <3>4
  <2>5. \A j \in DOMAIN due : due[j].error # "none" BY <1>3 DEF Waits
  <2>6. \A i \in DOMAIN ready'.waiters : \A j \in DOMAIN runnable' : ready'.waiters[i] < runnable'[j].call
    <3>1. \A i \in DOMAIN ready'.waiters : i \in DOMAIN ready.waiters \/ i = Len(ready.waiters) + 1
      BY <2>3
    <3>. QED BY <2>1, <2>3, <2>5, <3>1
  <2>. QED BY <1>1, <2>1, <2>4, <2>6 DEF CallsInOrder

<1>4. CASE GoesOn(c, due)
  <2> DEFINE x == ResolvedWith(c, worker')
             n == Len(due) + 1
  <2>1. runnable' = Append(due, x) /\ ready' = ready /\ ready.worker = 0 BY <1>4 DEF GoesOn
  <2>2. x \in ContinuationType BY <1>2 DEF ResolvedWith, ContinuationType
  <2>3. x.error = "none" /\ x.call = c BY DEF ResolvedWith
  <2> HIDE DEF x
  <2>4. /\ DOMAIN runnable' = 1..n /\ DOMAIN due = 1..Len(due) /\ Len(due) \in Nat
        /\ \A i \in 1..Len(due) : runnable'[i] = due[i]
        /\ runnable'[n] = x
    BY <2>1, <2>2, AppendedAt
  <2>5. \A i \in DOMAIN runnable' : (i \in DOMAIN due /\ runnable'[i] = due[i]) \/ i = n BY <2>4
  <2>6. ready = NotReady /\ DOMAIN ready.waiters = {}
    <3>1. ready = NotReady BY <2>1 DEF Lives, BarrierHolds
    <3>2. ready.waiters = <<>> BY <3>1 DEF NotReady
    <3>. QED BY <3>1, <3>2, NothingIn
  <2>7. \A i, j \in DOMAIN runnable' : i < j => Follows(runnable'[i], runnable'[j])
    <3>1. SUFFICES ASSUME NEW i \in DOMAIN runnable', NEW j \in DOMAIN runnable', i < j
                   PROVE  Follows(runnable'[i], runnable'[j])
      OBVIOUS
    <3>2. i \in DOMAIN due /\ runnable'[i] = due[i] BY <2>4, <2>5, <3>1
    <3>3. CASE j \in DOMAIN due /\ runnable'[j] = due[j] BY <3>1, <3>2, <3>3
    <3>4. CASE j = n
      <4>1. runnable'[j] = x BY <2>4, <3>4
      <4>2. Follows(due[i], x) BY <2>3, <3>2 DEF Follows
      <4>. QED BY <3>2, <4>1, <4>2
    <3>. QED BY <2>5, <3>3, <3>4
  <2>8. \A i \in PendingCalls : \A j \in DOMAIN runnable' : pending[i].call < runnable'[j].call
    BY <2>3, <2>4, <2>5
  <2>. QED BY <1>1, <2>1, <2>6, <2>7, <2>8 DEF CallsInOrder
<1>. QED BY <1>3, <1>4 DEF Joins

(* A loss rejects its calls in the order they were made.                   *)
LEMMA LosesInOrder ==
  ASSUME TypeOK, Lives, CallsInOrder, NEW error \in Errors, Loses(error)
  PROVE  \A i, j \in DOMAIN runnable' : i < j => runnable'[i].call < runnable'[j].call
<1>1. PICK ids \in InOrder(PendingCalls) : runnable' = RejectedBy(error, ids) BY LosesTyped
<1> DEFINE n == Len(ready.waiters)
<1>2. /\ n \in Nat /\ Len(ids) \in Nat
      /\ DOMAIN runnable' = 1..n + Len(ids)
      /\ \A i \in 1..n : runnable'[i] = RejectedWith(ready.waiters[i], error)
      /\ \A i \in 1..Len(ids) : runnable'[n + i] = RejectedWith(pending[ids[i]].call, error)
  BY <1>1, RejectedAt
<1>3. \A c : RejectedWith(c, error).call = c BY DEF RejectedWith
<1>4. DOMAIN ready.waiters = 1..n BY LenProperties DEF TypeOK
<1>5. CASE ready.worker # 0
  <2>1. PendingCalls = {} BY <1>5 DEF Lives, BarrierHolds
  <2>2. \A i \in 1..Len(ids) : ids[i] \in PendingCalls BY IdsOfPending
  <2>3. Len(ids) = 0 BY <1>2, <2>1, <2>2
  <2>4. DOMAIN runnable' = 1..n BY <1>2, <2>3
  <2>. QED BY <1>2, <1>3, <1>4, <2>4 DEF CallsInOrder
<1>6. CASE ready.worker = 0
  <2>1. ready.waiters = <<>> BY <1>6 DEF Lives, BarrierHolds, NotReady
  <2>2. n = 0 BY <2>1
  <2> HIDE DEF n
  <2>3. /\ DOMAIN runnable' = 1..Len(ids)
        /\ \A i \in 1..Len(ids) : runnable'[i] = RejectedWith(pending[ids[i]].call, error)
    BY <1>2, <2>2
  <2>4. \A i, j \in 1..Len(ids) : i < j => ids[i] < ids[j] BY IdsOfPending
  <2>5. \A i \in 1..Len(ids) : ids[i] \in PendingCalls BY IdsOfPending
  <2>. QED BY <1>3, <2>3, <2>4, <2>5 DEF CallsInOrder
<1>. QED BY <1>5, <1>6, <1>2

(* Every step keeps the calls in order, through replays, rejections and    *)
(* retries.                                                                *)
LEMMA CallsInOrderStep ==
  ASSUME TypeOK, Lives, Requests, CallsInOrder, [Next]_vars
  PROVE  CallsInOrder'
<1> USE DEF client, calls, thread, world
<1>a. IssuedInOrder /\ IdsInOrder /\ KeysAgree /\ UnderWay BY DEF Requests
<1>b. \A i, j \in PendingCalls : i < j => pending[i].call < pending[j].call BY DEF CallsInOrder
<1>c. \A i \in PendingCalls : \A j \in DOMAIN runnable : pending[i].call < runnable[j].call BY DEF CallsInOrder
<1>d. \A i, j \in DOMAIN runnable : i < j => Follows(runnable[i], runnable[j]) BY DEF CallsInOrder
<1>e. \A i, j \in DOMAIN ready.waiters : i < j => ready.waiters[i] < ready.waiters[j] BY DEF CallsInOrder
<1>f. \A i \in DOMAIN ready.waiters : \A j \in DOMAIN runnable : ready.waiters[i] < runnable[j].call
  BY DEF CallsInOrder
<1>g. ASSUME PendingCalls' \subseteq PendingCalls, UNCHANGED <<ready, runnable>>,
             \A id \in PendingCalls' : pending'[id] = pending[id]
      PROVE  CallsInOrder'
  BY <1>b, <1>c, <1>d, <1>e, <1>f, <1>g DEF CallsInOrder
<1>1. ASSUME NEW c \in Call, NEW op \in Operation, Issue(c, op), AnswersAtOnce(c, op) \/ GoesAway(c, op)
      PROVE  CallsInOrder'
  <2>1. pending' = pending /\ PendingCalls' = PendingCalls BY <1>1 DEF Issue, PendingCalls
  <2>2. CASE AnswersAtOnce(c, op)
    <3>1. UNCHANGED <<ready, runnable>> BY <2>2 DEF AnswersAtOnce
    <3>. QED BY <1>g, <2>1, <3>1
  <2>3. CASE GoesAway(c, op)
    <3>1. Joins(c, runnable) /\ runnable = <<>> BY <1>1, <2>3, IssueJoins
    <3>2. runnable \in Seq(ContinuationType) /\ DOMAIN runnable = {} BY <3>1, NothingIn DEF TypeOK
    <3>3. \A d \in Outstanding : d < c
      <4>1. SUFFICES ASSUME NEW d \in Outstanding PROVE d < c OBVIOUS
      <4>2. d \in Call /\ outcome[d] # "idle" BY <1>a, OutstandingAre DEF IssuedInOrder, Asked
      <4>3. outcome[c] = "idle" BY <1>1 DEF Issue
      <4>4. c \in Nat /\ d \in Nat BY <4>2, CallsAreNoReplay
      <4>5. ~(c < d) /\ d # c BY <1>a, <4>2, <4>3 DEF IssuedInOrder
      <4>. QED BY <4>4, <4>5
    <3>4. \A i \in PendingCalls : pending[i].call < c BY <3>3 DEF Outstanding
    <3>5. \A i \in DOMAIN ready.waiters : ready.waiters[i] < c BY <3>3 DEF Outstanding
    <3>. QED BY <2>1, <3>1, <3>2, <3>4, <3>5, JoinsInOrder
  <2>. QED BY <1>1, <2>2, <2>3
<1>2. ASSUME NEW c, Posts(c) PROVE CallsInOrder'
  <2>1. /\ DOMAIN pending' = (DOMAIN pending \ {Old(c)}) \union {nextId}
        /\ pending'[nextId] = [call |-> c, key |-> Key(c)] /\ c \in Call
        /\ \A id \in DOMAIN pending \ {Old(c)} : pending'[id] = pending[id]
    BY <1>2, <1>a, PostsTyped
  <2>2. ASSUME NEW id \in PendingCalls', id # nextId PROVE id \in PendingCalls /\ pending'[id] = pending[id]
    <3>1. id \in DOMAIN pending' /\ pending'[id].call # Replay BY <2>2 DEF PendingCalls
    <3>2. id \in DOMAIN pending /\ pending'[id] = pending[id] BY <2>1, <2>2, <3>1
    <3>. QED BY <3>1, <3>2 DEF PendingCalls
  <2>3. \A id \in PendingCalls : id \in Nat /\ id < nextId BY DEF PendingCalls, TypeOK
  <2>4. /\ runnable # <<>> /\ runnable' = Tail(runnable) /\ ready' = ready
        /\ Head(runnable).error = "none" /\ Head(runnable).call = c
    BY <1>2 DEF Posts
  <2>5. /\ \A i \in DOMAIN runnable' : i \in Nat /\ i + 1 \in DOMAIN runnable /\ runnable'[i] = runnable[i + 1]
        /\ 1 \in DOMAIN runnable /\ Head(runnable) = runnable[1]
        /\ DOMAIN runnable' = 1..Len(runnable) - 1 /\ Len(runnable) \in Nat
    BY <2>4, TailResolved
  <2>6. \A id \in PendingCalls : pending[id].call < c BY <1>c, <2>4, <2>5
  <2>7. \A j \in DOMAIN runnable' : c < runnable'[j].call
    <3>1. SUFFICES ASSUME NEW j \in DOMAIN runnable' PROVE c < runnable'[j].call OBVIOUS
    <3>2. Follows(runnable[1], runnable[j + 1])
      <4>1. 1 < j + 1 BY <2>5
      <4>. QED BY <1>d, <2>5, <4>1
    <3>. QED BY <2>4, <2>5, <3>2 DEF Follows
  <2>8. \A i, j \in PendingCalls' : i < j => pending'[i].call < pending'[j].call
    <3>1. nextId \in Nat BY DEF TypeOK
    <3>. QED BY <1>b, <2>1, <2>2, <2>3, <2>6, <3>1
  <2>9. \A i \in PendingCalls' : \A j \in DOMAIN runnable' : pending'[i].call < runnable'[j].call
    BY <1>c, <2>1, <2>2, <2>5, <2>7
  <2>10. \A i, j \in DOMAIN runnable' : i < j => Follows(runnable'[i], runnable'[j])
    BY <1>d, <2>5
  <2>11. \A i \in DOMAIN ready'.waiters : \A j \in DOMAIN runnable' : ready'.waiters[i] < runnable'[j].call
    BY <1>f, <2>4, <2>5
  <2>. QED BY <1>e, <2>4, <2>8, <2>9, <2>10, <2>11 DEF CallsInOrder
<1>3. ASSUME NEW c, GivesUp(c) \/ Retries(c) PROVE CallsInOrder'
  <2>1. pending' = pending /\ PendingCalls' = PendingCalls BY <1>3 DEF GivesUp, Retries, PendingCalls
  <2>2. runnable # <<>> /\ Head(runnable).error # "none" /\ Head(runnable).call = c
    BY <1>3 DEF GivesUp, Retries
  <2> DEFINE due == Tail(runnable)
  <2>3. /\ due \in Seq(ContinuationType)
        /\ \A i \in DOMAIN due : i \in Nat /\ i + 1 \in DOMAIN runnable /\ due[i] = runnable[i + 1]
        /\ 1 \in DOMAIN runnable /\ Head(runnable) = runnable[1]
        /\ DOMAIN due = 1..Len(runnable) - 1 /\ Len(runnable) \in Nat
    BY <2>2, TailResolved
  <2>g. GivesUp(c) => runnable' = due /\ ready' = ready BY DEF GivesUp
  <2>r. Retries(c) => Joins(c, due) /\ c \in Call BY RetryJoins
  <2> HIDE DEF due
  <2>4. \A i, j \in DOMAIN due : i < j => Follows(due[i], due[j]) BY <1>d, <2>3
  <2>5. \A i \in PendingCalls : pending[i].call < c /\ \A j \in DOMAIN due : pending[i].call < due[j].call
    BY <1>c, <2>2, <2>3
  <2>6. \A i \in DOMAIN ready.waiters :
            ready.waiters[i] < c /\ \A j \in DOMAIN due : ready.waiters[i] < due[j].call
    BY <1>f, <2>2, <2>3
  <2>7. CASE GivesUp(c)
    <3>1. runnable' = due /\ ready' = ready BY <2>7, <2>g
    <3>. QED BY <1>b, <1>e, <2>1, <2>4, <2>5, <2>6, <3>1 DEF CallsInOrder
  <2>8. CASE Retries(c)
    <3>1. Joins(c, due) /\ c \in Call BY <2>8, <2>r
    <3>2. \A i \in DOMAIN due : Follows(runnable[1], due[i])
      <4>1. \A i \in DOMAIN due : 1 < i + 1 BY <2>3
      <4>. QED BY <1>d, <2>3, <4>1
    <3>3. \A i \in DOMAIN due : /\ due[i].error # "none" => c < due[i].call
                                /\ due[i].error = "none" => due[i].call < c
      BY <2>2, <2>3, <3>2 DEF Follows
    <3>4. \A i \in DOMAIN due : due[i].error = "none" => worker # 0 /\ ready.worker = 0
      BY <2>3 DEF Lives, ResolvedByCurrent, Resolved
    <3>. QED BY <2>1, <2>3, <2>4, <2>5, <2>6, <3>1, <3>3, <3>4, JoinsInOrder
  <2>. QED BY <1>3, <2>7, <2>8
<1>4. ASSUME NEW r \in replays, ReplayPost(r) PROVE CallsInOrder'
  <2>1. /\ UNCHANGED <<ready, runnable>> /\ DOMAIN pending' = DOMAIN pending \union {nextId}
        /\ pending'[nextId].call = Replay
        /\ \A id \in DOMAIN pending : id # nextId => pending'[id] = pending[id]
    BY <1>4 DEF ReplayPost
  <2>2. \A id \in PendingCalls' : id \in PendingCalls /\ pending'[id] = pending[id]
    BY <2>1 DEF PendingCalls
  <2>. QED BY <1>g, <2>1, <2>2
<1>5. ASSUME NEW error \in Errors, Loses(error) PROVE CallsInOrder'
  <2>1. PendingCalls' = {} BY <1>5, LosesSets DEF PendingCalls
  <2>2. ready' = NotReady BY <1>5 DEF Loses, LoseWorker
  <2>3. DOMAIN ready'.waiters = {} BY <2>2, NothingIn DEF NotReady
  <2>4. \A i \in DOMAIN runnable' : runnable'[i].error # "none" BY <1>5, LosesRejects, ErrorsAreErrors
  <2>5. \A i, j \in DOMAIN runnable' : i < j => Follows(runnable'[i], runnable'[j])
    BY <1>5, <2>4, LosesInOrder DEF Follows
  <2>. QED BY <2>1, <2>3, <2>5 DEF CallsInOrder
<1>6. ASSUME NEW m, EndsReplay(m) PROVE CallsInOrder'
  <2>1. /\ DOMAIN pending' = DOMAIN pending \ {m.id} /\ DOMAIN runnable' = 1..Len(ready.waiters)
        /\ \A id \in DOMAIN pending \ {m.id} : pending'[id] = pending[id]
        /\ \A i \in 1..Len(ready.waiters) : runnable'[i] = ResolvedWith(ready.waiters[i], worker)
    BY <1>6, EndsTyped
  <2>2. ready.worker # 0 BY <1>6 DEF EndsReplay, Lives, BarrierHolds
  <2>3. PendingCalls' = {} BY <2>1, <2>2 DEF Lives, BarrierHolds, PendingCalls
  <2>4. ready' = NotReady BY <1>6 DEF EndsReplay, AnswerReplay
  <2>5. DOMAIN ready'.waiters = {} BY <2>4, NothingIn DEF NotReady
  <2>6. DOMAIN ready.waiters = 1..Len(ready.waiters) BY LenProperties DEF TypeOK
  <2>r. \A c, w : ResolvedWith(c, w).error = "none" /\ ResolvedWith(c, w).call = c BY DEF ResolvedWith
  <2>7. \A i \in DOMAIN runnable' : runnable'[i].error = "none" /\ runnable'[i].call = ready.waiters[i]
    BY <2>1, <2>r
  <2>8. \A i, j \in DOMAIN runnable' : i < j => Follows(runnable'[i], runnable'[j])
    BY <1>e, <2>1, <2>6, <2>7 DEF Follows
  <2>. QED BY <2>3, <2>5, <2>8 DEF CallsInOrder
<1>7. ASSUME NEW m, NEW c, LearnsFrom(m, c) PROVE CallsInOrder'
  <2>1. \A id \in DOMAIN pending' : id \in DOMAIN pending /\ pending'[id] = pending[id]
    BY <1>7, ReadingCases
  <2>2. UNCHANGED <<ready, runnable>> BY <1>7 DEF LearnsFrom, AnswerCall
  <2>3. PendingCalls' \subseteq PendingCalls /\ \A id \in PendingCalls' : pending'[id] = pending[id]
    BY <2>1 DEF PendingCalls
  <2>. QED BY <1>g, <2>2, <2>3
<1>8. ASSUME UNCHANGED <<pending, ready, runnable>> PROVE CallsInOrder'
  <2>1. PendingCalls' = PendingCalls BY <1>8 DEF PendingCalls
  <2>. QED BY <1>g, <1>8, <2>1
<1>9. ASSUME NEW r \in replays, ReplayLoad(r) \/ ReplayAbandoned(r) PROVE CallsInOrder'
  <2>1. UNCHANGED <<pending, ready, runnable>> BY <1>9 DEF ReplayLoad, ReplayAbandoned
  <2>. QED BY <1>8, <2>1
<1>10. ASSUME Ignores \/ Threadside \/ UNCHANGED vars PROVE CallsInOrder'
  <2>1. UNCHANGED <<pending, ready, runnable>>
    BY <1>10 DEF Ignores, Threadside, ReceiveCancel, Take, Finish, FinishWithError, vars
  <2>. QED BY <1>8, <2>1
<1>11. ASSUME NEW c, PostsTooLate(c) PROVE FALSE BY <1>11, PostsLives DEF Posts, PostsTooLate
<1>12. CASE Hostside
  BY <1>1, <1>2, <1>3, <1>4, <1>5, <1>6, <1>7, <1>9, <1>10, <1>11, <1>12 DEF Hostside
<1>. QED BY <1>10, <1>12, StepCases

-----------------------------------------------------------------------------
(* How fresh contents are: what calls ask, in the order of the world.      *)

(* An update names a file and carries contents.                            *)
LEMMA UpdatesTyped ==
  ASSUME TypeOK, NEW c, AsksUpdate(c)
  PROVE  /\ c \in Call /\ requests[c] \in RequestType /\ requests[c] # NoRequest
         /\ requests[c].file \in File /\ requests[c].contents \in [File -> Nat]
<1>1. c \in Call /\ requests[c].kind = "updateFile" BY DEF AsksUpdate
<1>2. requests[c] # NoRequest BY <1>1 DEF NoRequest
<1>3. requests[c] \in RequestType BY <1>1, <1>2, AskedTyped
<1>. QED BY <1>1, <1>2, <1>3 DEF RequestType, NamesAFile

(* What a call does to a file: nothing, or it is gone, or it is of now.    *)
LEMMA WorldFiles ==
  ASSUME TypeOK, NEW op \in Operation, World(op), NEW f \in File
  PROVE  /\ Current'[f] \in {0, Current[f], clock'}
         /\ Current'[f] \in 0..clock' /\ Current[f] \in 0..clock
         /\ clock \in Nat /\ clock' \in Nat /\ clock =< clock'
<1>1. disk \in [File -> 0..clock] /\ dirty \in [File -> 0..clock] /\ clock \in Nat BY DEF TypeOK
<1>2. /\ disk' \in [File -> 0..clock'] /\ dirty' \in [File -> 0..clock']
      /\ clock' \in Nat /\ clock =< clock'
  BY WorldTyped
<1>3. op.kind \in {"updateFile", "removeFile"} => op.file \in File BY DEF Operation, NamesAFile
<1>4. Current'[f] = (IF dirty'[f] /= 0 THEN dirty'[f] ELSE disk'[f])
      /\ Current[f] = (IF dirty[f] /= 0 THEN dirty[f] ELSE disk[f])
  BY DEF Current
<1>5. Current'[f] \in 0..clock' /\ Current[f] \in 0..clock BY <1>1, <1>2, <1>4
<1>6. CASE op.kind = "updateFile"
  <2>1. /\ clock' = clock + 1
        /\ disk' = IF op.unsaved THEN disk ELSE [disk EXCEPT ![op.file] = clock']
        /\ dirty' = [dirty EXCEPT ![op.file] = IF op.unsaved THEN clock' ELSE 0]
    BY <1>6 DEF World
  <2>2. CASE f = op.file
    <3>1. dirty'[f] = IF op.unsaved THEN clock' ELSE 0 BY <1>1, <2>1, <2>2
    <3>2. ~op.unsaved => disk'[f] = clock' BY <1>1, <2>1, <2>2
    <3>. QED BY <1>1, <1>4, <1>5, <2>1, <3>1, <3>2, <1>2
  <2>3. CASE f # op.file BY <1>1, <1>2, <1>4, <1>5, <2>1, <2>3
  <2>. QED BY <2>2, <2>3
<1>7. CASE op.kind = "removeFile"
  <2>1. disk' = [disk EXCEPT ![op.file] = 0] /\ dirty' = [dirty EXCEPT ![op.file] = 0]
    BY <1>7 DEF World
  <2>. QED BY <1>1, <1>2, <1>4, <1>5, <2>1
<1>8. CASE op.kind \notin {"updateFile", "removeFile"}
  <2>1. UNCHANGED <<disk, dirty>> BY <1>8 DEF World, world
  <2>. QED BY <1>1, <1>2, <1>4, <1>5, <2>1
<1>. QED BY <1>6, <1>7, <1>8

(* What a call asks is what there is, or a part of it.                     *)
LEMMA AsksTheCurrent ==
  ASSUME TypeOK, NEW c \in Call, NEW op \in Operation, Issue(c, op)
  PROVE  /\ requests'[c] \in RequestType /\ requests'[c].contents \in [File -> Nat]
         /\ \A f \in File : requests'[c].contents[f] \in {0, Current'[f]}
         /\ \A d \in Call : d # c => requests'[d] = requests[d]
<1>1. requests' = [requests EXCEPT ![c] = RequestOf(op)] /\ World(op) BY DEF Issue
<1>2. requests'[c] = RequestOf(op) /\ \A d \in Call : d # c => requests'[d] = requests[d]
  BY <1>1 DEF TypeOK
<1>3. RequestOf(op) \in RequestType BY <1>1, RequestTyped
<1>4. RequestOf(op).contents \in {Only(op.file, Current'), Current'} BY DEF RequestOf
<1>5. \A f \in File : Only(op.file, Current')[f] \in {0, Current'[f]} BY DEF Only
<1>. QED BY <1>2, <1>3, <1>4, <1>5 DEF RequestType

(* Every step keeps later requests no older than earlier updates.          *)
LEMMA ContentsInOrderStep ==
  ASSUME TypeOK, IssuedInOrder, Lives, ContentsInOrder, [Next]_vars
  PROVE  ContentsInOrder'
<1>a. \A d \in Call : requests[d] /= NoRequest => \A f \in File : requests[d].contents[f] =< clock
  BY DEF ContentsInOrder
<1>b. \A d \in Call : AsksUpdate(d) => Covers(Current, d) BY DEF ContentsInOrder
<1>c. \A d, e \in Call : AsksUpdate(d) /\ d < e /\ requests[e] /= NoRequest =>
         Covers(requests[e].contents, d)
  BY DEF ContentsInOrder
<1>1. CASE ~IssueStep
  <2>1. UNCHANGED <<requests, disk, dirty, clock>> BY <1>1, OtherSteps DEF world
  <2>2. Current' = Current BY <2>1 DEF Current
  <2>. QED BY <1>a, <1>b, <1>c, <2>1, <2>2 DEF ContentsInOrder, AsksUpdate, Covers
<1>2. ASSUME NEW c \in Call, NEW op \in Operation, Issue(c, op) PROVE ContentsInOrder'
  <2>1. World(op) /\ outcome[c] = "idle" BY <1>2 DEF Issue
  <2>2. requests[c] = NoRequest BY <2>1 DEF IssuedInOrder
  <2>3. /\ requests'[c] \in RequestType /\ requests'[c].contents \in [File -> Nat]
        /\ \A f \in File : requests'[c].contents[f] \in {0, Current'[f]}
        /\ \A d \in Call : d # c => requests'[d] = requests[d]
    BY <1>2, AsksTheCurrent
  <2>4. \A f \in File : /\ Current'[f] \in {0, Current[f], clock'}
                        /\ Current'[f] \in 0..clock' /\ Current[f] \in 0..clock
    BY <2>1, WorldFiles
  <2>5. clock \in Nat /\ clock' \in Nat /\ clock =< clock' BY <2>1, WorldTyped DEF TypeOK
  <2>6. \A d \in Call : requests[d] # NoRequest => requests[d].contents \in [File -> Nat]
    BY AskedTyped DEF RequestType
  <2>7. \A d \in Call : requests'[d] /= NoRequest => \A f \in File : requests'[d].contents[f] =< clock'
    <3>1. SUFFICES ASSUME NEW d \in Call, requests'[d] /= NoRequest, NEW f \in File
                   PROVE  requests'[d].contents[f] =< clock'
      OBVIOUS
    <3>2. CASE d = c BY <2>3, <2>4, <2>5, <3>2
    <3>3. CASE d # c
      <4>1. requests'[d] = requests[d] /\ requests[d].contents[f] \in Nat BY <2>3, <2>6, <3>1, <3>3
      <4>. QED BY <1>a, <2>5, <3>1, <4>1
    <3>. QED BY <3>2, <3>3
  <2>8. ASSUME NEW d \in Call, AsksUpdate(d)'
        PROVE  Covers(Current, d)'
    <3>1. CASE d = c
      <4>1. requests'[c].kind = "updateFile" BY <2>8, <3>1 DEF AsksUpdate
      <4>2. requests'[c].file \in File BY <2>3, <4>1 DEF RequestType, NamesAFile
      <4> DEFINE f == requests'[c].file
                 v == requests'[c].contents[f]
      <4>3. v \in {0, Current'[f]} /\ Current'[f] \in Nat BY <2>3, <2>4, <2>5, <4>2
      <4>4. Current'[f] >= v BY <4>3
      <4>. QED BY <3>1, <4>4 DEF Covers
    <3>2. CASE d # c
      <4>1. requests'[d] = requests[d] /\ AsksUpdate(d) BY <2>3, <2>8, <3>2 DEF AsksUpdate
      <4>2. requests[d].file \in File /\ requests[d].contents \in [File -> Nat] /\ requests[d] # NoRequest
        BY <4>1, UpdatesTyped
      <4> DEFINE f == requests[d].file
                 v == requests[d].contents[f]
      <4>3. v =< clock /\ v \in Nat BY <1>a, <4>2
      <4>4. Current[f] = 0 \/ Current[f] >= v BY <1>b, <4>1 DEF Covers
      <4>5. Current'[f] \in {0, Current[f], clock'} /\ Current[f] \in Nat BY <2>4, <2>5, <4>2
      <4> HIDE DEF v, f
      <4>6. Current'[f] = 0 \/ Current'[f] >= v BY <2>5, <4>3, <4>4, <4>5
      <4>. QED BY <4>1, <4>6 DEF Covers, f, v
    <3>. QED BY <3>1, <3>2
  <2>9. ASSUME NEW d \in Call, NEW e \in Call, AsksUpdate(d)', d < e, requests'[e] # NoRequest
        PROVE  Covers(requests[e].contents, d)'
    <3>1. CASE e = c
      <4>1. Covers(Current, d)' BY <2>8, <2>9
      <4>2. d \in Nat /\ c \in Nat BY CallsAreNoReplay
      <4>3. d # c BY <2>9, <3>1, <4>2
      <4>4. AsksUpdate(d) /\ requests'[d] = requests[d] BY <2>3, <2>9, <4>3 DEF AsksUpdate
      <4>5. requests'[d].file \in File BY <4>4, UpdatesTyped
      <4>6. requests'[e].contents[requests'[d].file] \in {0, Current'[requests'[d].file]}
        BY <2>3, <3>1, <4>5
      <4>. QED BY <4>1, <4>6 DEF Covers
    <3>2. CASE e # c
      <4>1. requests'[e] = requests[e] BY <2>3, <3>2
      <4>2. outcome[e] # "idle" BY <2>9, <4>1 DEF IssuedInOrder
      <4>3. ~(c < e) BY <2>1, <4>2 DEF IssuedInOrder
      <4>4. d # c BY <2>9, <4>3
      <4>5. requests'[d] = requests[d] /\ AsksUpdate(d) BY <2>3, <2>9, <4>4 DEF AsksUpdate
      <4>6. Covers(requests[e].contents, d) BY <1>c, <2>9, <4>1, <4>5
      <4>. QED BY <4>1, <4>5, <4>6 DEF Covers
    <3>. QED BY <3>1, <3>2
  <2>. QED BY <2>7, <2>8, <2>9 DEF ContentsInOrder
<1>. QED BY <1>1, <1>2 DEF IssueStep

-----------------------------------------------------------------------------
(* What the worker holds of a file comes from its requests; what the       *)
(* client holds of it, from the calls that were answered.                  *)

(* Of each file the engine holds, after a request, nothing, what it held,  *)
(* or what the request brought.                                            *)
LEMMA FinishFiles ==
  ASSUME TypeOK, Finish \/ FinishWithError, NEW f \in File
  PROVE  /\ engine'.files[f] \in {0, engine.files[f], active.request.contents[f]}
         /\ Finish /\ IsUpdate(active.request, f) =>
              engine'.files[f] \in {0, active.request.contents[f]}
<1>1. active.request \in RequestType /\ engine \in EngineType
  BY FinishTyped DEF PostedType, TypeOK
<1> DEFINE request == active.request
           held == Analysed(request).files[f]
<1>2. request.kind \in Kinds /\ NamesAFile(request) /\ engine.files \in [File -> Nat]
  BY <1>1 DEF RequestType, EngineType
<1>3. FreshEngine.files[f] = 0 BY DEF FreshEngine, Empty
<1>4. held \in {0, engine.files[f], request.contents[f]}
      /\ (IsUpdate(request, f) => held \in {0, request.contents[f]})
  <2>1. CASE request.kind = "initializeWorkspace"
    <3>1. Analysed(request).files = IF request.admitted THEN request.contents ELSE Empty
      BY <2>1 DEF Analysed, FreshEngine
    <3>2. Empty[f] = 0 BY DEF Empty
    <3>. QED BY <2>1, <3>1, <3>2 DEF IsUpdate
  <2>2. CASE request.kind = "updateFile"
    <3>1. request.file \in File BY <1>2, <2>2 DEF NamesAFile
    <3> DEFINE v == IF request.admitted THEN request.contents[request.file] ELSE 0
    <3>2. Analysed(request) = [engine EXCEPT !.files = [engine.files EXCEPT ![request.file] = v]]
      BY <2>2 DEF Analysed
    <3> HIDE DEF v
    <3>3. Analysed(request).files = [engine.files EXCEPT ![request.file] = v]
      BY <1>1, <3>2 DEF EngineType
    <3>4. held = IF f = request.file THEN v ELSE engine.files[f] BY <1>2, <3>3
    <3>. QED BY <3>4 DEF v, IsUpdate
  <2>3. CASE request.kind = "removeFile"
    <3>1. Analysed(request) = [engine EXCEPT !.files = [engine.files EXCEPT ![request.file] = 0]]
      BY <2>3 DEF Analysed
    <3>2. Analysed(request).files = [engine.files EXCEPT ![request.file] = 0]
      BY <1>1, <3>1 DEF EngineType
    <3>. QED BY <1>2, <2>3, <3>2 DEF IsUpdate
  <2>4. CASE request.kind = "configure" BY <1>1, <2>4 DEF Analysed, EngineType, IsUpdate
  <2>5. CASE request.kind = "query" BY <2>5 DEF Analysed, IsUpdate
  <2>. QED BY <1>2, <2>1, <2>2, <2>3, <2>4, <2>5 DEF Kinds
<1>5. CASE Finish
  <2>1. engine' = Analysed(request) BY <1>5 DEF Finish
  <2>. QED BY <1>4, <2>1
<1>6. CASE FinishWithError /\ ~Finish
  <2>1. CASE request.kind = "initializeWorkspace"
    <3>1. engine' = [[FreshEngine EXCEPT !.initFailed = TRUE] EXCEPT !.options = request.options]
      BY <1>6, <2>1 DEF FinishWithError
    <3>2. engine'.files = FreshEngine.files BY <3>1 DEF FreshEngine
    <3>. QED BY <1>3, <1>6, <3>2
  <2>2. CASE request.kind # "initializeWorkspace"
    <3>1. PICK e \in {engine, Analysed(request)} :
            engine' = [e EXCEPT !.rejected = @ \union LeftUncertain(request)]
      BY <1>6, <2>2 DEF FinishWithError
    <3>2. e \in EngineType BY <1>1, <3>1, AnalysedTyped
    <3>3. engine'.files = e.files BY <3>1, <3>2 DEF EngineType
    <3>4. engine'.files[f] \in {0, engine.files[f], request.contents[f]} BY <1>4, <3>1, <3>3
    <3>. QED BY <1>6, <3>4
  <2>. QED BY <2>1, <2>2
<1>. QED BY <1>5, <1>6

(* Of each unsaved text the client holds, after an answer, nothing, what   *)
(* it held, or what the request brought.                                   *)
LEMMA LearnedUnsaved ==
  ASSUME TypeOK, NEW request \in RequestType, NEW m, NEW f \in File
  PROVE  /\ UnsavedAfter(request, m)[f] \in {0, unsavedFiles[f], request.contents[f]}
         /\ IsUpdate(request, f) => UnsavedAfter(request, m)[f] \in {0, request.contents[f]}
<1>1. request.kind \in Kinds /\ NamesAFile(request) /\ unsavedFiles \in [File -> Nat]
  BY DEF RequestType, TypeOK
<1> DEFINE Text(g) == IF request.admitted /\ g \in request.unsaved THEN request.contents[g] ELSE 0
           after == UnsavedAfter(request, m)
<1>2. CASE request.kind = "initializeWorkspace"
  <2>1. after = [g \in File |-> Text(g)] BY <1>2 DEF UnsavedAfter
  <2>. QED BY <1>2, <2>1 DEF IsUpdate
<1>3. CASE request.kind = "updateFile"
  <2>1. after = [unsavedFiles EXCEPT ![request.file] = Text(request.file)] BY <1>3 DEF UnsavedAfter
  <2>. QED BY <1>1, <2>1 DEF IsUpdate
<1>4. CASE request.kind \notin {"initializeWorkspace", "updateFile"}
  <2>1. after \in {[unsavedFiles EXCEPT ![request.file] = 0], unsavedFiles} BY <1>4 DEF UnsavedAfter
  <2>. QED BY <1>1, <1>4, <2>1 DEF IsUpdate
<1>. QED BY <1>2, <1>3, <1>4

(* A call of an update is covered while it is pending.                     *)
LEMMA PendingIsCoveredStep ==
  ASSUME TypeOK, Lives, Requests, CallsInOrder, ContentsInOrder, PendingIsCovered, [Next]_vars
  PROVE  PendingIsCovered'
<1> USE DEF client, calls, thread, world
<1>a. IssuedInOrder /\ IdsInOrder /\ UnderWay BY DEF Requests
<1>b. \A id \in PendingCalls : AsksUpdate(pending[id].call) =>
        /\ \A m \in Answers : m.id = id /\ m.ok => Covers(engine.files, pending[id].call)
        /\ \A e \in Held : e.id >= id => Covers(e.request.contents, pending[id].call)
  BY DEF PendingIsCovered
<1>c. ASSUME NEW id \in PendingCalls
      PROVE  pending[id].call \in Call /\ requests'[pending[id].call] = requests[pending[id].call]
  BY <1>a, PendingAreAsked, RequestsStay
<1> DEFINE Covered(c, id) ==
        /\ \A m \in Answers' : m.id = id /\ m.ok => Covers(engine'.files, c)
        /\ \A e \in Held' : e.id >= id => Covers(e.request.contents, c)
<1>d. ASSUME \A id \in PendingCalls' : requests'[pending'[id].call] = requests[pending'[id].call] /\
               (AsksUpdate(pending'[id].call) => Covered(pending'[id].call, id))
      PROVE  PendingIsCovered'
  <2> DEFINE CoversThen(x, c) == \/ x[requests'[c].file] = 0
                                  \/ x[requests'[c].file] >= requests'[c].contents[requests'[c].file]
  <2>1. SUFFICES ASSUME NEW id \in PendingCalls', requests'[pending'[id].call].kind = "updateFile",
                        pending'[id].call \in Call
                 PROVE  /\ \A m \in Answers' : m.id = id /\ m.ok => CoversThen(engine'.files, pending'[id].call)
                        /\ \A e \in Held' : e.id >= id => CoversThen(e.request.contents, pending'[id].call)
    BY DEF PendingIsCovered, Covers, AsksUpdate
  <2> DEFINE c == pending'[id].call
  <2>2. requests'[c] = requests[c] BY <1>d, <2>1
  <2>3. AsksUpdate(c) BY <2>1, <2>2 DEF AsksUpdate
  <2>4. Covered(c, id) BY <1>d, <2>1, <2>3
  <2> HIDE DEF c
  <2>5. \A x : Covers(x, c) => CoversThen(x, c) BY <2>2 DEF Covers
  <2>6. /\ \A m \in Answers' : m.id = id /\ m.ok => CoversThen(engine'.files, c)
        /\ \A e \in Held' : e.id >= id => CoversThen(e.request.contents, c)
    BY <2>4, <2>5
  <2>. QED BY <2>6 DEF c
<1>e. ASSUME \A id \in PendingCalls' : id \in PendingCalls /\ pending'[id] = pending[id] /\
               (AsksUpdate(pending[id].call) => Covered(pending[id].call, id))
      PROVE  PendingIsCovered'
  <2> HIDE DEF Covered
  <2>. QED BY <1>c, <1>d, <1>e
<1>1. CASE Rests
  <2>1. PendingCalls' = PendingCalls /\ pending' = pending /\ Held' = Held /\ Answers' = Answers /\ engine' = engine
    BY <1>1 DEF Rests, PendingCalls
  <2>. QED BY <1>b, <1>e, <2>1
<1>2. ASSUME NEW c, Posts(c) PROVE PendingIsCovered'
  <2>1. /\ DOMAIN pending' = (DOMAIN pending \ {Old(c)}) \union {nextId} /\ c \in Call
        /\ pending'[nextId] = [call |-> c, key |-> Key(c)] /\ requests[c] \in RequestType
        /\ \A id \in DOMAIN pending \ {Old(c)} : pending'[id] = pending[id]
    BY <1>2, <1>a, PostsTyped
  <2>2. /\ Held' = Held \union {Posted(c)} /\ Answers' = Answers /\ Posted(c).id = nextId
        /\ Posted(c).request = requests[c]
    BY <1>2, <1>a, PostsSets DEF Posted
  <2>3. engine' = engine /\ requests' = requests BY <1>2 DEF Posts
  <2>4. ASSUME NEW id \in PendingCalls', id # nextId
        PROVE  id \in PendingCalls /\ pending'[id] = pending[id]
    <3>1. id \in DOMAIN pending' /\ pending'[id].call # Replay BY <2>4 DEF PendingCalls
    <3>2. id \in DOMAIN pending /\ pending'[id] = pending[id] BY <2>1, <2>4, <3>1
    <3>. QED BY <3>1, <3>2 DEF PendingCalls
  <2>5. nextId \in Nat /\ (\A e \in Held : e.id \in Nat /\ e.id < nextId)
        /\ \A m \in Answers : m.id \in Nat /\ m.id < nextId
    BY <1>a, HeldApart DEF TypeOK
  <2>6. AsksUpdate(c) => Covered(c, nextId)
    <3>1. SUFFICES ASSUME AsksUpdate(c) PROVE Covered(c, nextId) OBVIOUS
    <3>2. requests[c].contents[requests[c].file] \in Nat BY <3>1, UpdatesTyped
    <3>3. Covers(requests[c].contents, c) BY <3>2 DEF Covers
    <3>4. \A m \in Answers' : m.id # nextId BY <2>2, <2>5
    <3>5. \A e \in Held : ~(e.id >= nextId) BY <2>5
    <3>. QED BY <2>2, <3>3, <3>4, <3>5
  <2>7. ASSUME NEW id \in PendingCalls, AsksUpdate(pending[id].call) PROVE Covered(pending[id].call, id)
    <3>1. pending[id].call < c
      <4>1. 1 \in DOMAIN runnable /\ Head(runnable) = runnable[1] /\ Head(runnable).call = c
        BY <1>2, TailResolved DEF Posts
      <4>. QED BY <4>1 DEF CallsInOrder
    <3>2. requests[c] # NoRequest BY <2>1 DEF RequestType, NoRequest, Kinds
    <3>3. Covers(requests[c].contents, pending[id].call)
      BY <1>c, <2>1, <2>7, <3>1, <3>2 DEF ContentsInOrder
    <3>. QED BY <1>b, <2>2, <2>3, <2>7, <3>3
  <2>8. pending'[nextId].call = c BY <2>1
  <2> HIDE DEF Covered
  <2>9. ASSUME NEW id \in PendingCalls'
        PROVE requests'[pending'[id].call] = requests[pending'[id].call] /\
               (AsksUpdate(pending'[id].call) => Covered(pending'[id].call, id))
    <3>1. CASE id = nextId BY <2>3, <2>6, <2>8, <3>1
    <3>2. CASE id # nextId BY <2>3, <2>4, <2>7, <2>9, <3>2
    <3>. QED BY <3>1, <3>2
  <2>. QED BY <1>d, <2>9
<1>3. ASSUME NEW r \in replays, ReplayPost(r) PROVE PendingIsCovered'
  <2>1. r.worker = worker BY <1>3 DEF ReplayPost, LoaderOf
  <2>2. DOMAIN pending = {} BY <2>1 DEF Lives, LoadersComeFirst
  <2>3. DOMAIN pending' = {nextId} /\ pending'[nextId].call = Replay BY <1>3, <2>2 DEF ReplayPost
  <2>4. PendingCalls' = {} BY <2>3 DEF PendingCalls
  <2>. QED BY <2>4 DEF PendingIsCovered
<1>4. ASSUME NEW error \in Errors, Loses(error) PROVE PendingIsCovered'
  BY <1>4, LosesSets DEF PendingIsCovered, PendingCalls
<1>5. ASSUME NEW m, NEW c, (Ignores /\ m = Head(toClient)) \/ EndsReplay(m) \/ LearnsFrom(m, c)
      PROVE  PendingIsCovered'
  <2>1. /\ Held' = Held /\ Answers' = Answers \ {m} /\ engine' = engine
        /\ \A id \in DOMAIN pending' : id \in DOMAIN pending /\ pending'[id] = pending[id]
    BY <1>5, <1>a, ReadingCases, ReadsSets DEF Reading
  <2>2. \A id \in PendingCalls' : id \in PendingCalls /\ pending'[id] = pending[id]
    BY <2>1 DEF PendingCalls
  <2>. QED BY <1>b, <1>e, <2>1, <2>2
<1>6. CASE Take
  <2>1. Answers' = Answers /\ Held' \subseteq Held BY <1>6, <1>a, TakeSets, HeldLess
  <2>2. pending' = pending /\ engine' = engine /\ PendingCalls' = PendingCalls BY <1>6 DEF Take, PendingCalls
  <2>. QED BY <1>b, <1>e, <2>1, <2>2
<1>7. CASE Finish \/ FinishWithError
  <2>1. pending' = pending /\ PendingCalls' = PendingCalls BY <1>7 DEF Finish, FinishWithError, PendingCalls
  <2>2. active \in Held /\ Held' \subseteq Held BY <1>7, <1>a, FinishSets
  <2>3. ASSUME NEW id \in PendingCalls, AsksUpdate(pending[id].call) PROVE Covered(pending[id].call, id)
    <3> DEFINE c == pending[id].call
               f == requests[c].file
    <3>1. f \in File /\ requests[c].contents[f] \in Nat BY <2>3, UpdatesTyped
    <3>2. \A e \in Held : e.id >= id => Covers(e.request.contents, c) BY <1>b, <2>3
    <3>3. ASSUME NEW m \in Answers', m.id = id, m.ok PROVE Covers(engine'.files, c)
      <4>1. CASE m \in Answers
        <5>1. active.id \in Nat /\ id \in Nat /\ id < active.id BY <1>a, <2>2, <3>3, <4>1, HeldApart
        <5>2. Covers(active.request.contents, c) BY <2>2, <3>2, <5>1
        <5>3. Covers(engine.files, c) BY <1>b, <2>3, <3>3, <4>1
        <5>4. f \in File BY <3>1
        <5> HIDE DEF c, f
        <5>5. engine'.files[f] \in {0, engine.files[f], active.request.contents[f]}
          BY <1>7, <5>4, FinishFiles
        <5>6. \A x : Covers(x, c) <=> x[f] = 0 \/ x[f] >= requests[c].contents[f] BY DEF c, f, Covers
        <5>. QED BY <5>2, <5>3, <5>5, <5>6
      <4>2. CASE m \notin Answers
        <5>1. m.id = active.id /\ Finish
          BY <1>7, <1>a, <3>3, <4>2, FinishSets
        <5>2. active.request = requests[c]
          <6>1. id \in DOMAIN pending /\ c # Replay BY DEF PendingCalls
          <6>. QED BY <1>a, <2>2, <3>3, <5>1, <6>1 DEF UnderWay, PendingIsAsAsked
        <5>3. IsUpdate(active.request, f) BY <2>3, <5>2 DEF IsUpdate, AsksUpdate
        <5>4. engine'.files[f] \in {0, requests[c].contents[f]} BY <1>7, <3>1, <5>1, <5>2, <5>3, FinishFiles
        <5>. QED BY <3>1, <5>4 DEF Covers
      <4>. QED BY <4>1, <4>2
    <3>. QED BY <2>2, <3>2, <3>3
  <2>. QED BY <1>e, <2>1, <2>3
<1>. QED BY <1>1, <1>2, <1>3, <1>4, <1>5, <1>6, <1>7, <1>a, WorkCases

(* A call is an update that succeeded if it was, or if it is answered now. *)
LEMMA UpdatedCases ==
  ASSUME TypeOK, IssuedInOrder, Lives, [Next]_vars, NEW c \in Call, Updated(c)'
  PROVE  /\ requests'[c] = requests[c] /\ AsksUpdate(c) /\ requests[c].admitted
         /\ Updated(c) \/ \E m : LearnsFrom(m, c) /\ m.ok
<1> USE DEF client, calls, thread, world
<1>1. requests'[c].kind = "updateFile" /\ requests'[c].admitted /\ outcome'[c] = "ok"
  BY DEF Updated, AsksUpdate
<1>2. \A e \in Errors : e # "ok" BY DEF Errors
<1>3. outcome \in [Call -> {"idle", "called"} \union Settled] BY DEF TypeOK
<1> DEFINE Goal == outcome[c] = "ok" \/ \E m : LearnsFrom(m, c) /\ m.ok
<1>4. ASSUME NEW d, NEW v, v # "ok", outcome' = [outcome EXCEPT ![d] = v] PROVE Goal
  BY <1>1, <1>3, <1>4
<1>5. ASSUME NEW d \in Call, NEW op \in Operation, Issue(d, op), AnswersAtOnce(d, op) \/ GoesAway(d, op)
      PROVE  outcome[c] = "ok"
  <2>1. outcome'[d] = "ok" => AnsweredLocally(op)
    BY <1>3, <1>5 DEF AnswersAtOnce, GoesAway
  <2>2. requests'[d] = RequestOf(op) BY <1>5 DEF Issue, TypeOK
  <2>3. AnsweredLocally(op) => requests'[d].kind # "updateFile"
    BY <2>2 DEF AnsweredLocally, RequestOf
  <2>4. d # c BY <1>1, <2>1, <2>3
  <2>5. outcome'[c] = outcome[c] BY <1>3, <1>5, <2>4 DEF AnswersAtOnce, GoesAway
  <2>. QED BY <1>1, <2>5
<1>6. ASSUME NEW d, Posts(d) \/ PostsTooLate(d) PROVE Goal
  <2>1. outcome' = outcome \/ \E e : outcome' = [outcome EXCEPT ![e] = "SUPERSEDED"]
    BY <1>6, PostsLives DEF Posts
  <2>. QED BY <1>1, <1>4, <2>1
<1>7. ASSUME NEW d, Retries(d) PROVE Goal BY <1>1, <1>7 DEF Retries
<1>8. ASSUME NEW d, GivesUp(d) PROVE Goal
  <2>1. Head(runnable).error \in Errors BY <1>8, DueTyped DEF GivesUp, ContinuationType
  <2>. QED BY <1>2, <1>4, <1>8, <2>1 DEF GivesUp
<1>9. ASSUME NEW error \in Errors, Loses(error) PROVE Goal BY <1>1, <1>9 DEF Loses, LoseWorker
<1>10. ASSUME NEW r \in replays, ReplayLoad(r) \/ ReplayAbandoned(r) \/ ReplayPost(r) PROVE Goal
  BY <1>1, <1>10 DEF ReplayLoad, ReplayAbandoned, ReplayPost
<1>11. ASSUME NEW m, EndsReplay(m) PROVE Goal BY <1>1, <1>11 DEF EndsReplay, AnswerReplay
<1>12. ASSUME NEW m, NEW d, LearnsFrom(m, d) PROVE Goal
  <2>1. outcome' = [outcome EXCEPT ![d] = IF m.ok THEN "ok" ELSE "ANALYSIS_ERROR"]
    BY <1>12 DEF LearnsFrom, AnswerCall
  <2>2. CASE d = c /\ m.ok BY <1>12, <2>2
  <2>3. CASE d = c /\ ~m.ok BY <1>4, <2>1, <2>3
  <2>4. CASE d # c BY <1>1, <1>3, <2>1, <2>4
  <2>. QED BY <2>2, <2>3, <2>4
<1>13. ASSUME Ignores \/ Threadside \/ UNCHANGED vars PROVE Goal
  BY <1>1, <1>13 DEF Ignores, Threadside, ReceiveCancel, Take, Finish, FinishWithError, vars
<1>14. Goal
  BY <1>5, <1>6, <1>7, <1>8, <1>9, <1>10, <1>11, <1>12, <1>13, StepCases DEF Hostside
<1>15. outcome[c] # "idle"
  <2>1. ASSUME NEW m, LearnsFrom(m, c) PROVE outcome[c] # "idle" BY <2>1, LearnsTyped
  <2>. QED BY <1>14, <2>1
<1>16. requests'[c] = requests[c] BY <1>15, RequestsStay
<1>. QED BY <1>1, <1>14, <1>16 DEF Updated, AsksUpdate

(* The call answered is the oldest of those pending.                       *)
LEMMA OldestAnswered ==
  ASSUME TypeOK, Lives, Requests, CallsInOrder, NEW m, NEW c, LearnsFrom(m, c)
  PROVE  /\ \A id \in DOMAIN pending : id = m.id \/ m.id < id
         /\ \A d \in Outstanding' : c < d
         /\ ready.worker = 0 /\ \A r \in replays : r.worker # worker
<1>a. IssuedInOrder /\ IdsInOrder /\ UnderWay BY DEF Requests
<1>1. /\ Answers' = Answers \ {m} /\ m \in Answers /\ \A n \in Answers' : m.id < n.id
  BY <1>a, ReadingCases, ReadsSets DEF Reading
<1>2. /\ m.id \in PendingCalls /\ pending[m.id].call = c /\ runnable = <<>> /\ runnable' = runnable
      /\ ready' = ready
  BY DEF LearnsFrom, AnswerCall
<1>3. ASSUME NEW id \in DOMAIN pending PROVE id = m.id \/ m.id < id
  <2>1. CASE \E e \in Held : e.id = id BY <1>a, <1>1, <2>1, HeldApart
  <2>2. CASE \E n \in Answers : n.id = id BY <1>1, <2>2
  <2>. QED BY <1>a, <2>1, <2>2 DEF UnderWay, PendingIsUnderWay
<1>4. ready.worker = 0 /\ ready = NotReady BY <1>2 DEF Lives, BarrierHolds
<1>5. \A r \in replays : r.worker # worker BY <1>2 DEF Lives, LoadersComeFirst, PendingCalls
<1>6. ASSUME NEW d \in Outstanding' PROVE c < d
  <2>1. DOMAIN ready'.waiters = {} BY <1>2, <1>4, NothingIn DEF NotReady
  <2>2. DOMAIN runnable' = {} BY <1>2, NothingIn
  <2>3. PICK id \in PendingCalls' : d = pending'[id].call BY <2>1, <2>2 DEF Outstanding
  <2>4. id \in DOMAIN pending /\ pending'[id] = pending[id] /\ id # m.id
    BY ReadingCases DEF PendingCalls
  <2>5. id \in PendingCalls BY <2>3, <2>4 DEF PendingCalls
  <2>6. m.id < id BY <1>3, <2>4
  <2>. QED BY <1>2, <2>3, <2>4, <2>5, <2>6 DEF CallsInOrder
<1>. QED BY <1>3, <1>4, <1>5, <1>6

(* An update that succeeded stays covered, whatever happens next.          *)
LEMMA StaysCovered ==
  ASSUME TypeOK, Lives, Requests, ContentsInOrder, UpdatedIsCovered, [Next]_vars,
         NEW c \in Call, Updated(c)
  PROVE  /\ Covers(engine'.files, c) /\ Covers(unsavedFiles', c)
         /\ \A e \in Held' : Covers(e.request.contents, c)
         /\ \A r \in replays' : r.worker = worker' => Covers(r.contents, c)
<1> USE DEF client, calls, thread, world
<1>a. IssuedInOrder /\ IdsInOrder /\ UnderWay BY DEF Requests
<1>b. /\ Covers(engine.files, c) /\ Covers(unsavedFiles, c)
      /\ \A e \in Held : Covers(e.request.contents, c)
      /\ \A r \in replays : r.worker = worker => Covers(r.contents, c)
      /\ \A d \in Outstanding : c < d
  BY DEF UpdatedIsCovered
<1> DEFINE f == requests[c].file
<1>c. AsksUpdate(c) /\ f \in File BY UpdatesTyped DEF Updated
<1>d. ASSUME NEW d \in Outstanding
      PROVE  d \in Call /\ requests[d] \in RequestType /\ Covers(requests[d].contents, c)
  <2>1. d \in Call /\ requests[d] \in RequestType BY <1>a, OutstandingAre, OutstandingTyped
  <2>2. requests[d] # NoRequest BY <2>1 DEF RequestType, NoRequest, Kinds
  <2>. QED BY <1>b, <1>c, <2>1, <2>2 DEF ContentsInOrder
<1>e. Covers(Empty, c) /\ Covers(FreshEngine.files, c)
  BY <1>c DEF Covers, Empty, FreshEngine
<1>f. \A r \in replays : r.worker \in 1..spawned /\ r.worker \in Nat \ {0}
  BY DEF Lives, LoadersComeFirst, TypeOK, LoaderType
<1> DEFINE Goal == /\ Covers(engine'.files, c) /\ Covers(unsavedFiles', c)
                   /\ \A e \in Held' : Covers(e.request.contents, c)
                   /\ \A r \in replays' : r.worker = worker' => Covers(r.contents, c)
<1>g. ASSUME engine' = engine, unsavedFiles' = unsavedFiles, Held' \subseteq Held,
             replays' \subseteq replays, worker' = worker
      PROVE  Goal
  BY <1>b, <1>g
<1>h. ASSUME NEW d, Joins(d, runnable) \/ Joins(d, Tail(runnable)),
             UNCHANGED <<unsavedFiles, queued, active>>
      PROVE  Goal
  <2>1. /\ engine' = engine /\ (worker # 0 => worker' = worker) /\ (worker = 0 => worker' = spawned + 1)
        /\ \/ replays' = replays
           \/ worker = 0 /\ replays' = replays \union
                {[worker |-> worker', todo |-> files, contents |-> Empty]}
    BY <1>h DEF Joins
  <2>2. Held' = Held BY <1>h DEF Held
  <2>3. ASSUME NEW r \in replays', r.worker = worker' PROVE Covers(r.contents, c)
    <3>1. CASE r \in replays
      <4>1. worker # 0
        <5>1. spawned \in Nat BY DEF TypeOK
        <5>2. r.worker \in 1..spawned BY <1>f, <3>1
        <5>. QED BY <2>1, <2>3, <5>1, <5>2
      <4>. QED BY <1>b, <2>1, <2>3, <3>1, <4>1
    <3>2. CASE r = [worker |-> worker', todo |-> files, contents |-> Empty]
      <4>1. r.contents = Empty BY <3>2
      <4>. QED BY <1>e, <4>1
    <3>. QED BY <2>1, <3>1, <3>2
  <2>. QED BY <1>b, <1>h, <2>1, <2>2, <2>3
<1>1. ASSUME NEW d \in Call, NEW op \in Operation, Issue(d, op), AnswersAtOnce(d, op) \/ GoesAway(d, op) PROVE Goal
  <2>1. UNCHANGED <<unsavedFiles, queued, active>> BY <1>1 DEF Issue
  <2>2. CASE GoesAway(d, op) BY <1>1, <1>h, <2>1, <2>2, IssueJoins
  <2>3. CASE AnswersAtOnce(d, op)
    <3>1. UNCHANGED <<engine, replays, worker>> BY <2>3 DEF AnswersAtOnce
    <3>. QED BY <1>g, <2>1, <3>1 DEF Held
  <2>. QED BY <1>1, <2>2, <2>3
<1>2. ASSUME NEW d, Posts(d) PROVE Goal
  <2>1. UNCHANGED <<engine, unsavedFiles, replays, worker>> BY <1>2 DEF Posts
  <2>2. Held' = Held \union {Posted(d)} /\ Posted(d).request = requests[d]
    BY <1>2, <1>a, PostsSets DEF Posted
  <2>3. d \in Outstanding
    <3>1. 1 \in DOMAIN runnable /\ Head(runnable) = runnable[1] /\ Head(runnable).call = d
      BY <1>2, TailResolved DEF Posts
    <3>. QED BY <3>1 DEF Outstanding
  <2>. QED BY <1>b, <1>d, <2>1, <2>2, <2>3
<1>3. ASSUME NEW d, Retries(d) PROVE Goal
  <2>1. UNCHANGED <<unsavedFiles, queued, active>> BY <1>3 DEF Retries
  <2>. QED BY <1>3, <1>h, <2>1, RetryJoins
<1>4. ASSUME NEW d, GivesUp(d) PROVE Goal
  <2>1. UNCHANGED <<engine, unsavedFiles, replays, worker, queued, active>> BY <1>4 DEF GivesUp
  <2>. QED BY <1>g, <2>1 DEF Held
<1>5. ASSUME NEW error \in Errors, Loses(error) PROVE Goal
  <2>1. engine' = FreshEngine /\ unsavedFiles' = unsavedFiles /\ worker' = 0 /\ replays' \subseteq replays
    BY <1>5 DEF Loses, LoseWorker
  <2>2. Held' = {} BY <1>5, LosesSets
  <2>. QED BY <1>b, <1>e, <1>f, <2>1, <2>2
<1>6. ASSUME NEW r \in replays, ReplayLoad(r) PROVE Goal
  <2>1. UNCHANGED <<engine, worker, queued, active>> /\ r.worker = worker BY <1>6 DEF ReplayLoad, LoaderOf
  <2>2. PICK g \in r.todo :
         LET text == IF unsavedFiles[g] /= 0 THEN unsavedFiles[g] ELSE Current[g]
         IN  /\ replays' = (replays \ {r}) \union
                  {[r EXCEPT !.todo = @ \ {g}, !.contents[g] = text]}
             /\ files' = IF text = 0 THEN files \ {g} ELSE files \union {g}
             /\ unsavedFiles' = IF text = 0 THEN [unsavedFiles EXCEPT ![g] = 0] ELSE unsavedFiles
    BY <1>6 DEF ReplayLoad
  <2> DEFINE text == IF unsavedFiles[g] /= 0 THEN unsavedFiles[g] ELSE Current[g]
             s == [r EXCEPT !.todo = @ \ {g}, !.contents[g] = text]
  <2>3. /\ replays' = (replays \ {r}) \union {s}
        /\ unsavedFiles' \in {[unsavedFiles EXCEPT ![g] = 0], unsavedFiles}
    BY <2>2
  <2>4. r.contents \in [File -> Nat] /\ r \in LoaderType BY DEF TypeOK, LoaderType
  <2>5. s.contents = [r.contents EXCEPT ![g] = text] BY <2>4 DEF LoaderType
  <2>6. unsavedFiles'[f] \in {0, unsavedFiles[f]} BY <1>c, <2>3 DEF TypeOK
  <2>7. Covers(unsavedFiles', c) BY <1>b, <2>6 DEF Covers
  <2>8. Covers(r.contents, c) /\ Covers(Current, c) BY <1>b, <1>c, <2>1 DEF ContentsInOrder
  <2>9. s.contents[f] \in {r.contents[f], unsavedFiles[f], Current[f]} BY <1>c, <2>4, <2>5
  <2>10. Covers(s.contents, c) BY <1>b, <2>8, <2>9 DEF Covers
  <2> HIDE DEF s
  <2>11. Held' = Held BY <2>1 DEF Held
  <2>. QED BY <1>b, <2>1, <2>3, <2>7, <2>10, <2>11
<1>7. ASSUME NEW r \in replays, ReplayAbandoned(r) PROVE Goal
  <2>1. UNCHANGED <<engine, unsavedFiles, worker, queued, active>> /\ replays' \subseteq replays
    BY <1>7 DEF ReplayAbandoned
  <2>. QED BY <1>g, <2>1 DEF Held
<1>8. ASSUME NEW r \in replays, ReplayPost(r) PROVE Goal
  <2>1. UNCHANGED <<engine, unsavedFiles, worker>> /\ replays' \subseteq replays /\ r.worker = worker
    BY <1>8 DEF ReplayPost, LoaderOf
  <2>2. PICK x \in PostedType : x.request = ReplayRequest(r) /\ Held' = Held \union {x}
    BY <1>8, ReplayPostSets
  <2>3. x.request.contents = r.contents BY <2>2 DEF ReplayRequest
  <2>. QED BY <1>b, <2>1, <2>2, <2>3
<1>9. ASSUME NEW m, NEW d, (Ignores /\ m = Head(toClient)) \/ EndsReplay(m) \/ LearnsFrom(m, d) PROVE Goal
  <2>1. Held' = Held /\ engine' = engine BY <1>9, ReadingCases DEF Reading, Held
  <2>2. UNCHANGED <<replays, worker>>
    BY <1>9 DEF Ignores, EndsReplay, LearnsFrom, AnswerReplay, AnswerCall
  <2>3. Covers(unsavedFiles', c)
    <3>1. CASE unsavedFiles' = unsavedFiles BY <1>b, <3>1
    <3>2. CASE LearnsFrom(m, d) /\ unsavedFiles' = UnsavedAfter(requests[d], m)
      <4>1. d \in Outstanding BY <3>2 DEF LearnsFrom, Outstanding
      <4>2. requests[d] \in RequestType /\ Covers(requests[d].contents, c) BY <1>d, <4>1
      <4>3. unsavedFiles'[f] \in {0, unsavedFiles[f], requests[d].contents[f]}
        BY <1>c, <3>2, <4>2, LearnedUnsaved
      <4>. QED BY <1>b, <4>2, <4>3 DEF Covers
    <3>3. Ignores \/ EndsReplay(m) => unsavedFiles' = unsavedFiles
      BY DEF Ignores, EndsReplay, AnswerReplay
    <3>4. LearnsFrom(m, d) => unsavedFiles' = unsavedFiles \/ unsavedFiles' = UnsavedAfter(requests[d], m)
      BY DEF LearnsFrom, AnswerCall, Learn
    <3>. QED BY <1>9, <3>1, <3>2, <3>3, <3>4
  <2>. QED BY <1>b, <2>1, <2>2, <2>3
<1>10. ASSUME Take PROVE Goal
  <2>1. UNCHANGED <<engine, unsavedFiles, replays, worker>> BY <1>10 DEF Take
  <2>. QED BY <1>10, <1>g, <2>1, HeldLess
<1>11. ASSUME Finish \/ FinishWithError PROVE Goal
  <2>1. UNCHANGED <<unsavedFiles, replays, worker>> BY <1>11 DEF Finish, FinishWithError
  <2>2. active \in Held /\ Held' \subseteq Held BY <1>11, <1>a, FinishSets
  <2>3. engine'.files[f] \in {0, engine.files[f], active.request.contents[f]} BY <1>11, <1>c, FinishFiles
  <2>4. Covers(active.request.contents, c) BY <1>b, <2>2
  <2>5. Covers(engine'.files, c) BY <1>b, <2>3, <2>4 DEF Covers
  <2>. QED BY <1>b, <2>1, <2>2, <2>5
<1>12. ASSUME (\E id \in cancelling : ReceiveCancel(id)) \/ UNCHANGED vars PROVE Goal
  <2>1. UNCHANGED <<engine, unsavedFiles, replays, worker, queued, active>>
    BY <1>12 DEF ReceiveCancel, vars
  <2>. QED BY <1>g, <2>1 DEF Held
<1>13. ASSUME NEW d, PostsTooLate(d) PROVE FALSE BY <1>13, PostsLives DEF Posts, PostsTooLate
<1> HIDE DEF Goal
<1>14. ASSUME Hostside PROVE Goal
  BY <1>1, <1>2, <1>3, <1>4, <1>5, <1>6, <1>7, <1>8, <1>9, <1>13, <1>14 DEF Hostside
<1>15. ASSUME Threadside PROVE Goal BY <1>10, <1>11, <1>12, <1>15 DEF Threadside
<1>16. Goal BY <1>12, <1>14, <1>15, StepCases
<1>. QED BY <1>16 DEF Goal

(* Every step keeps the engine, the client, the loader and the requests    *)
(* held no older than an update answered.                                  *)
LEMMA UpdatedIsCoveredStep ==
  ASSUME TypeOK, Lives, Requests, CallsInOrder, ContentsInOrder, UpdatedIsCovered,
         PendingIsCovered, [Next]_vars
  PROVE  UpdatedIsCovered'
<1>a. IssuedInOrder /\ IdsInOrder /\ UnderWay BY DEF Requests
<1> DEFINE Good(c) == /\ Covers(engine'.files, c) /\ Covers(unsavedFiles', c)
                      /\ \A e \in Held' : Covers(e.request.contents, c)
                      /\ \A r \in replays' : r.worker = worker' => Covers(r.contents, c)
                      /\ \A d \in Outstanding' : c < d
<1>1. ASSUME NEW c \in Call, requests'[c] = requests[c], Good(c)
      PROVE  /\ Covers(engine.files, c)' /\ Covers(unsavedFiles, c)'
             /\ (\A e \in Held : Covers(e.request.contents, c))'
             /\ (\A r \in replays : r.worker = worker => Covers(r.contents, c))'
             /\ \A d \in Outstanding' : c < d
  BY <1>1 DEF Covers
<1>2. ASSUME NEW c \in Call, Updated(c) PROVE Good(c)
  <2>1. \A d \in Outstanding' : c < d
    <3>1. SUFFICES ASSUME NEW d \in Outstanding' PROVE c < d OBVIOUS
    <3>2. CASE d \in Outstanding BY <1>2, <3>2 DEF UpdatedIsCovered
    <3>3. ASSUME NEW op \in Operation, d \in Call, Issue(d, op) PROVE c < d
      <4>1. outcome[d] = "idle" /\ outcome[c] = "ok" BY <1>2, <3>3 DEF Issue, Updated
      <4>2. c # d /\ ~(d < c) BY <1>a, <3>3, <4>1 DEF IssuedInOrder
      <4>3. c \in Nat /\ d \in Nat BY <3>3, CallsAreNoReplay
      <4>. QED BY <4>2, <4>3
    <3>. QED BY <1>a, <3>2, <3>3, OutstandingStep
  <2>. QED BY <1>2, <2>1, StaysCovered
<1>3. ASSUME NEW c \in Call, AsksUpdate(c), NEW m, LearnsFrom(m, c), m.ok PROVE Good(c)
  <2>1. /\ \A d \in Outstanding' : c < d
        /\ \A r \in replays : r.worker # worker
    BY <1>3, OldestAnswered
  <2>2. /\ engine' = engine /\ Held' = Held /\ m \in Answers
    BY <1>3, <1>a, ReadingCases, LearnsTyped DEF Reading, Held
  <2>3. UNCHANGED <<replays, worker>> /\ unsavedFiles' = UnsavedAfter(requests[c], m)
    BY <1>3 DEF LearnsFrom, AnswerCall, Learn
  <2>4. m.id \in PendingCalls /\ pending[m.id].call = c BY <1>3 DEF LearnsFrom
  <2>5. Covers(engine.files, c) BY <1>3, <2>2, <2>4 DEF PendingIsCovered
  <2>6. \A e \in Held : e.id >= m.id
    <3>1. \A e \in Held : m.id < e.id /\ e.id \in Nat /\ m.id \in Nat BY <1>a, <2>2, HeldApart
    <3>. QED BY <3>1
  <2>7. \A e \in Held : Covers(e.request.contents, c) BY <1>3, <2>4, <2>6 DEF PendingIsCovered
  <2>8. Covers(unsavedFiles', c)
    <3>1. requests[c] \in RequestType /\ requests[c].file \in File /\ requests[c].contents \in [File -> Nat]
      BY <1>3, UpdatesTyped
    <3>2. IsUpdate(requests[c], requests[c].file) BY <1>3 DEF AsksUpdate, IsUpdate
    <3>3. unsavedFiles'[requests[c].file] \in {0, requests[c].contents[requests[c].file]}
      BY <2>3, <3>1, <3>2, LearnedUnsaved
    <3>4. requests[c].contents[requests[c].file] \in Nat BY <3>1
    <3>. QED BY <3>3, <3>4 DEF Covers
  <2>. QED BY <2>1, <2>2, <2>3, <2>5, <2>7, <2>8
<1> HIDE DEF Good
<1>4. ASSUME NEW c \in Call, Updated(c)' PROVE Good(c) /\ requests'[c] = requests[c]
  BY <1>2, <1>3, <1>4, <1>a, UpdatedCases
<1>. QED BY <1>1, <1>4 DEF UpdatedIsCovered

-----------------------------------------------------------------------------
(* What the client knows, or is about to be told.                          *)

(* What a request leaves in the worker: an initializeWorkspace, what it    *)
(* carries; any other, what there was but for the file or the options it   *)
(* changes -- unless it throws.                                            *)
LEMMA FinishKnows ==
  ASSUME TypeOK, Finish \/ FinishWithError, engine'.ready
  PROVE  \/ /\ Finish /\ IsInit(active.request)
            /\ engine'.options = active.request.options
            /\ engine'.files = IF active.request.admitted THEN active.request.contents ELSE Empty
         \/ /\ ~IsInit(active.request) /\ engine.ready /\ engine.rejected \subseteq engine'.rejected
            /\ \A f \in File : engine'.files[f] # 0 /\ f \notin engine'.rejected =>
                 \/ /\ engine.files[f] # 0 /\ ~IsUpdate(active.request, f)
                    /\ ~(active.request.kind = "removeFile" /\ active.request.file = f)
                 \/ Finish /\ IsUpdate(active.request, f) /\ active.request.admitted
            /\ NoFile \notin engine'.rejected =>
                 \/ engine'.options = engine.options /\ active.request.kind # "configure"
                 \/ /\ Finish /\ active.request.kind = "configure"
                    /\ engine'.options = active.request.options
<1> DEFINE request == active.request
           after == Analysed(request)
<1>1. request \in RequestType /\ engine \in EngineType BY FinishTyped DEF PostedType, TypeOK
<1>2. request.kind \in Kinds /\ NamesAFile(request) /\ engine.files \in [File -> Nat]
  BY <1>1 DEF RequestType, EngineType
<1>3. after \in EngineType BY <1>1, AnalysedTyped
<1>4. ASSUME ~IsInit(request)
      PROVE  /\ after.ready = engine.ready /\ after.rejected = engine.rejected
             /\ request.kind # "configure" => after.options = engine.options
             /\ request.kind = "configure" => after.options = request.options
             /\ \A f \in File : after.files[f] =
                  IF IsUpdate(request, f) THEN (IF request.admitted THEN request.contents[f] ELSE 0)
                  ELSE IF request.kind = "removeFile" /\ request.file = f THEN 0
                  ELSE engine.files[f]
  <2>1. CASE request.kind = "updateFile"
    <3> DEFINE v == IF request.admitted THEN request.contents[request.file] ELSE 0
    <3>1. after = [engine EXCEPT !.files = [engine.files EXCEPT ![request.file] = v]]
      BY <2>1 DEF Analysed
    <3> HIDE DEF v
    <3>2. /\ after.files = [engine.files EXCEPT ![request.file] = v]
          /\ after.ready = engine.ready /\ after.rejected = engine.rejected
          /\ after.options = engine.options
      BY <1>1, <3>1 DEF EngineType
    <3>3. \A f \in File : after.files[f] = IF f = request.file THEN v ELSE engine.files[f]
      BY <1>2, <3>2
    <3> HIDE DEF after
    <3>. QED BY <2>1, <3>2, <3>3 DEF v, IsUpdate
  <2>2. CASE request.kind = "removeFile"
    <3>1. after = [engine EXCEPT !.files = [engine.files EXCEPT ![request.file] = 0]]
      BY <2>2 DEF Analysed
    <3>2. /\ after.files = [engine.files EXCEPT ![request.file] = 0]
          /\ after.ready = engine.ready /\ after.rejected = engine.rejected
          /\ after.options = engine.options
      BY <1>1, <3>1 DEF EngineType
    <3>3. \A f \in File : after.files[f] = IF f = request.file THEN 0 ELSE engine.files[f]
      BY <1>2, <3>2
    <3> HIDE DEF after
    <3>. QED BY <2>2, <3>2, <3>3 DEF IsUpdate
  <2>3. CASE request.kind = "configure"
    <3>1. after = [engine EXCEPT !.options = request.options] BY <2>3 DEF Analysed
    <3>2. /\ after.files = engine.files /\ after.options = request.options
          /\ after.ready = engine.ready /\ after.rejected = engine.rejected
      BY <1>1, <3>1 DEF EngineType
    <3> HIDE DEF after
    <3>. QED BY <2>3, <3>2 DEF IsUpdate
  <2>4. CASE request.kind = "query"
    <3>1. after = engine BY <2>4 DEF Analysed
    <3> HIDE DEF after
    <3>. QED BY <2>4, <3>1 DEF IsUpdate
  <2>. QED BY <1>2, <1>4, <2>1, <2>2, <2>3, <2>4 DEF Kinds, IsInit
<1>5. CASE Finish /\ IsInit(request)
  <2>1. engine' = [[FreshEngine EXCEPT !.ready = TRUE, !.options = request.options] EXCEPT
                      !.files = IF request.admitted THEN request.contents ELSE Empty]
    BY <1>5 DEF Finish, Analysed, IsInit
  <2>2. /\ engine'.options = request.options
        /\ engine'.files = IF request.admitted THEN request.contents ELSE Empty
    BY <2>1 DEF FreshEngine
  <2>. QED BY <1>5, <2>2
<1>6. CASE Finish /\ ~IsInit(request)
  <2>1. engine' = after BY <1>6 DEF Finish
  <2> HIDE DEF after
  <2>2. ASSUME NEW f \in File, engine'.files[f] # 0
        PROVE  \/ /\ engine.files[f] # 0 /\ ~IsUpdate(request, f)
                  /\ ~(request.kind = "removeFile" /\ request.file = f)
               \/ Finish /\ IsUpdate(request, f) /\ request.admitted
    BY <1>4, <1>6, <2>1, <2>2
  <2>. QED BY <1>4, <1>6, <2>1, <2>2
<1>7. CASE FinishWithError /\ IsInit(request)
  <2>1. engine' = [[FreshEngine EXCEPT !.initFailed = TRUE] EXCEPT !.options = request.options]
    BY <1>7 DEF FinishWithError, IsInit
  <2>2. ~engine'.ready BY <2>1 DEF FreshEngine
  <2>. QED BY <2>2
<1>8. CASE FinishWithError /\ ~IsInit(request)
  <2> DEFINE left == LeftUncertain(request)
  <2>1. PICK e \in {engine, after} : engine' = [e EXCEPT !.rejected = @ \union left]
    BY <1>8 DEF FinishWithError, IsInit
  <2> HIDE DEF after, left
  <2>2. /\ engine'.ready = e.ready /\ engine'.rejected = e.rejected \union left
        /\ engine'.files = e.files /\ engine'.options = e.options
    BY <1>1, <1>3, <2>1 DEF EngineType
  <2>3. engine.ready /\ engine'.rejected = engine.rejected \union left BY <1>4, <1>8, <2>1, <2>2
  <2>4. /\ request.kind = "configure" => NoFile \in left
        /\ request.kind \in {"updateFile", "removeFile"} => request.file \in left
    BY DEF left, LeftUncertain
  <2>5. ASSUME NEW f \in File, engine'.files[f] # 0, f \notin engine'.rejected
        PROVE  /\ engine.files[f] # 0 /\ ~IsUpdate(request, f)
               /\ ~(request.kind = "removeFile" /\ request.file = f)
    <3>1. f \notin left BY <2>2, <2>5
    <3>2. ~IsUpdate(request, f) /\ ~(request.kind = "removeFile" /\ request.file = f)
      BY <2>4, <3>1 DEF IsUpdate
    <3>3. e.files[f] = engine.files[f] BY <1>4, <1>8, <2>1, <3>2
    <3>. QED BY <2>2, <2>5, <3>2, <3>3
  <2>6. ASSUME NoFile \notin engine'.rejected
        PROVE  engine'.options = engine.options /\ request.kind # "configure"
    <3>1. request.kind # "configure" BY <2>2, <2>4, <2>6
    <3>. QED BY <1>4, <1>8, <2>1, <2>2, <3>1
  <2>. QED BY <1>8, <2>3, <2>5, <2>6
<1>. QED BY <1>5, <1>6, <1>7, <1>8

(* A request pending before and after.                                     *)
PendingSame(id) == id \in DOMAIN pending /\ id \in DOMAIN pending' /\ pending'[id] = pending[id]

(* An answer still on its way, to a request still pending, still tells the *)
(* same.                                                                   *)
LEMMA SameTelling ==
  ASSUME TypeOK, IssuedInOrder, Lives, [Next]_vars,
         NEW n, n \in Answers, n \in Answers', PendingSame(n.id)
  PROVE  /\ Telling(n)' <=> Telling(n)
         /\ Telling(n) => Answered(n)' = Answered(n)
         /\ \A f : (Adds(n, f)' <=> Adds(n, f)) /\ (Drops(n, f)' <=> Drops(n, f))
         /\ Sets(n)' <=> Sets(n)
<1>1. n.id \in PendingCalls' <=> n.id \in PendingCalls BY DEF PendingSame, PendingCalls
<1>2. Telling(n)' <=> Telling(n) BY <1>1 DEF Telling
<1>3. ASSUME Telling(n) PROVE Answered(n)' = Answered(n)
  <2>1. n.id \in PendingCalls BY <1>3 DEF Telling
  <2>2. requests'[pending[n.id].call] = requests[pending[n.id].call]
    BY <2>1, PendingAreAsked, RequestsStay
  <2>. QED BY <2>2 DEF Answered, PendingSame
<1>4. CASE ~Telling(n) BY <1>2, <1>4 DEF Adds, Drops, Sets
<1>5. CASE Telling(n)
  <2>1. Telling(n)' /\ Answered(n)' = Answered(n) BY <1>2, <1>3, <1>5
  <2>. QED BY <1>5, <2>1 DEF Adds, Drops, Sets, IsInit, IsUpdate
<1>. QED BY <1>4, <1>5

(* A file stays known if no answer that dropped it is new, and none that   *)
(* added it is gone.                                                       *)
LEMMA FileStaysKnown ==
  ASSUME TypeOK, IssuedInOrder, Lives, [Next]_vars, NEW f, FileIsKnown(f), f \in files => f \in files',
         \A n \in Answers' : (n \in Answers /\ PendingSame(n.id)) \/ ~Drops(n, f)',
         \A n \in Answers : Adds(n, f) => n \in Answers' /\ PendingSame(n.id),
         \A e \in Held : e.id \in DOMAIN pending /\ IsUpdate(e.request, f) =>
             e \in Held' /\ e.id \in DOMAIN pending'
  PROVE  FileIsKnown(f)'
<1>1. ASSUME NEW n \in Answers', Drops(n, f)' PROVE n \in Answers /\ Drops(n, f)
  BY <1>1, SameTelling
<1>2. CASE f \in files /\ \A n \in Answers : ~Drops(n, f)
  BY <1>1, <1>2 DEF FileIsKnown
<1>3. ASSUME NEW m \in Answers, Adds(m, f), \A n \in Answers : n.id > m.id => ~Drops(n, f)
      PROVE  FileIsKnown(f)'
  <2>1. m \in Answers' /\ Adds(m, f)' BY <1>3, SameTelling
  <2>2. \A n \in Answers' : n.id > m.id => ~Drops(n, f)' BY <1>1, <1>3
  <2>. QED BY <2>1, <2>2 DEF FileIsKnown
<1>4. ASSUME NEW e \in Held, e.id \in DOMAIN pending, IsUpdate(e.request, f) PROVE FileIsKnown(f)'
  <2>1. e \in Held' /\ e.id \in DOMAIN pending' BY <1>4
  <2>. QED BY <1>4, <2>1 DEF FileIsKnown
<1>. QED BY <1>2, <1>3, <1>4 DEF FileIsKnown

(* The options stay known while those who tell of them stay.               *)
LEMMA OptionsStayKnown ==
  ASSUME TypeOK, IssuedInOrder, Lives, [Next]_vars, OptionsAreKnown,
         engine'.options = engine.options,
         (\A n \in Answers : ~Sets(n)) => workspaceOptions' = workspaceOptions,
         \A n \in Answers' : (n \in Answers /\ PendingSame(n.id)) \/ ~Sets(n)',
         \A n \in Answers : Sets(n) => n \in Answers' /\ PendingSame(n.id),
         \A e \in Held : e.id \in DOMAIN pending /\ e.request.kind = "configure" =>
             e \in Held' /\ e.id \in DOMAIN pending'
  PROVE  OptionsAreKnown'
<1>1. ASSUME NEW n \in Answers', Sets(n)' PROVE n \in Answers /\ Sets(n)
  BY <1>1, SameTelling
<1>2. CASE engine.options = workspaceOptions /\ \A n \in Answers : ~Sets(n)
  BY <1>1, <1>2 DEF OptionsAreKnown
<1>3. ASSUME NEW m \in Answers, Sets(m), Answered(m).options = engine.options,
             \A n \in Answers : n.id > m.id => ~Sets(n)
      PROVE  OptionsAreKnown'
  <2>1. m \in Answers' /\ PendingSame(m.id) /\ Telling(m) BY <1>3 DEF Sets
  <2>2. Sets(m)' /\ Answered(m)' = Answered(m) BY <1>3, <2>1, SameTelling
  <2>3. Answered(m)'.options = engine'.options BY <1>3, <2>2
  <2>4. \A n \in Answers' : n.id > m.id => ~Sets(n)' BY <1>1, <1>3
  <2>. QED BY <2>1, <2>2, <2>3, <2>4 DEF OptionsAreKnown
<1>4. ASSUME NEW e \in Held, e.id \in DOMAIN pending, e.request.kind = "configure" PROVE OptionsAreKnown'
  <2>1. e \in Held' /\ e.id \in DOMAIN pending' BY <1>4
  <2>. QED BY <1>4, <2>1 DEF OptionsAreKnown
<1>. QED BY <1>2, <1>3, <1>4 DEF OptionsAreKnown

(* What the client learns is what the answer tells.                        *)
LEMMA LearnsWhatIsTold ==
  ASSUME TypeOK, IssuedInOrder, NEW m, NEW c, LearnsFrom(m, c)
  PROVE  /\ \A f \in File : Adds(m, f) => f \in files'
         /\ \A f \in File : f \in files /\ ~Drops(m, f) => f \in files'
         /\ Sets(m) => workspaceOptions' = Answered(m).options
         /\ ~Sets(m) => workspaceOptions' = workspaceOptions
         /\ Telling(m) /\ IsInit(Answered(m)) => initialized'
         /\ initialized' = initialized \/ initialized'
<1>1. /\ m \in Answers /\ m.id \in PendingCalls /\ Answered(m) = requests[c]
      /\ requests[c] \in RequestType
  <2>1. m \in Answers /\ requests[c] \in RequestType BY LearnsTyped
  <2>2. m.id \in PendingCalls /\ Answered(m) = requests[c] BY DEF LearnsFrom, Answered
  <2>. QED BY <2>1, <2>2
<1>2. Telling(m) <=> m.ok BY <1>1 DEF Telling
<1>3. requests[c].kind \in Kinds /\ NamesAFile(requests[c]) BY <1>1 DEF RequestType
<1>4. CASE ~m.ok
  <2>1. UNCHANGED <<files, workspaceOptions, initialized>> BY <1>4 DEF LearnsFrom, AnswerCall
  <2>. QED BY <1>2, <1>4, <2>1 DEF Adds, Sets
<1>5. CASE m.ok
  <2>1. Learn(requests[c], m) BY <1>5 DEF LearnsFrom, AnswerCall
  <2>2. /\ files' = FilesAfter(requests[c], m)
        /\ workspaceOptions' = IF requests[c].kind \in {"initializeWorkspace", "configure"}
                               THEN requests[c].options ELSE workspaceOptions
        /\ requests[c].kind = "initializeWorkspace" => initialized'
        /\ requests[c].kind # "initializeWorkspace" => initialized' = initialized
    BY <2>1 DEF Learn
  <2>3. ASSUME NEW f \in File, Adds(m, f) PROVE f \in files'
    <3>1. CASE IsInit(requests[c])
      <4>1. requests[c].admitted /\ requests[c].contents[f] # 0
        BY <1>1, <2>3, <3>1 DEF Adds, IsInit, IsUpdate
      <4>. QED BY <2>2, <3>1, <4>1 DEF FilesAfter, IsInit, Present
    <3>2. CASE IsUpdate(requests[c], f)
      <4>1. requests[c].admitted BY <1>1, <2>3 DEF Adds
      <4>. QED BY <2>2, <3>2, <4>1 DEF FilesAfter, IsUpdate
    <3>. QED BY <1>1, <2>3, <3>1, <3>2 DEF Adds
  <2>4. ASSUME NEW f \in File, f \in files, ~Drops(m, f) PROVE f \in files'
    <3>1. /\ IsInit(requests[c]) => requests[c].admitted /\ requests[c].contents[f] # 0
          /\ IsUpdate(requests[c], f) => requests[c].admitted
          /\ ~(requests[c].kind = "removeFile" /\ requests[c].file = f /\ m.removed)
      BY <1>1, <1>2, <1>5, <2>4 DEF Drops
    <3>2. CASE requests[c].kind = "initializeWorkspace"
      <4>1. requests[c].admitted /\ requests[c].contents[f] # 0 BY <3>1, <3>2 DEF IsInit
      <4>. QED BY <2>2, <3>2, <4>1 DEF FilesAfter, Present
    <3>3. CASE requests[c].kind = "updateFile"
      <4>1. CASE requests[c].admitted
        <5>1. files' = files \union {requests[c].file} BY <2>2, <3>3, <4>1 DEF FilesAfter
        <5>. QED BY <2>4, <5>1
      <4>2. CASE ~requests[c].admitted
        <5>1. files' = files \ {requests[c].file} BY <2>2, <3>3, <4>2 DEF FilesAfter
        <5>2. f # requests[c].file BY <3>1, <3>3, <4>2 DEF IsUpdate
        <5>. QED BY <2>4, <5>1, <5>2
      <4>. QED BY <4>1, <4>2
    <3>4. CASE requests[c].kind = "removeFile"
      <4>1. files' = files \/ (m.removed /\ files' = files \ {requests[c].file})
        BY <2>2, <3>4 DEF FilesAfter
      <4>. QED BY <2>4, <3>1, <3>4, <4>1
    <3>5. CASE requests[c].kind \notin {"initializeWorkspace", "updateFile", "removeFile"}
      BY <2>2, <2>4, <3>5 DEF FilesAfter
    <3>. QED BY <3>2, <3>3, <3>4, <3>5
  <2>5. Sets(m) <=> requests[c].kind \in {"initializeWorkspace", "configure"}
    BY <1>1, <1>2, <1>5 DEF Sets
  <2>. QED BY <1>1, <2>2, <2>3, <2>4, <2>5 DEF IsInit
<1>. QED BY <1>1, <1>4, <1>5

(* A request supersedes one of its own kind, of the same file.             *)
LEMMA SupersedesItsLike ==
  ASSUME TypeOK, Lives, Requests, NEW c, Posts(c), Old(c) \in DOMAIN pending
  PROVE  LET old == requests[pending[Old(c)].call]
         IN  /\ Old(c) \in PendingCalls /\ ~IsInit(old)
             /\ \A f \in File : IsUpdate(old, f) => IsUpdate(requests[c], f)
             /\ old.kind = "configure" => requests[c].kind = "configure"
             /\ \A e \in Held : e.id = Old(c) => e.request = old
<1>a. IssuedInOrder /\ KeysAgree /\ UnderWay BY DEF Requests
<1> DEFINE old == requests[pending[Old(c)].call]
<1>1. pending[Old(c)].call # Replay BY PostsLives DEF Lives, BarrierHolds
<1>2. Old(c) \in PendingCalls BY <1>1 DEF PendingCalls
<1>3. old \in RequestType /\ requests[c] \in RequestType BY <1>2, <1>a, PendingAreAsked, PostsTyped
<1>4. Key(c) \in DOMAIN pendingByKey /\ Old(c) = pendingByKey[Key(c)]
  <2>1. 0 \notin DOMAIN pending BY DEF TypeOK
  <2>. QED BY <2>1 DEF Old
<1>5. pending[Old(c)].key = Key(c) /\ Key(c) # NoKey BY <1>a, <1>4 DEF KeysAgree, PendingByKeyExact
<1>6. pending[Old(c)].key = CancelKey(old) BY <1>1, <1>a DEF KeysAgree
<1>7. CancelKey(old) = CancelKey(requests[c]) /\ CancelKey(old) # NoKey BY <1>5, <1>6 DEF Key
<1> HIDE DEF old
<1>8. /\ ~IsInit(old) /\ \A f \in File : IsUpdate(old, f) => IsUpdate(requests[c], f)
      /\ old.kind = "configure" => requests[c].kind = "configure"
  BY <1>3, <1>7, KeyTyped
<1>9. \A e \in Held : e.id = Old(c) => e.request = old
  BY <1>1, <1>a DEF UnderWay, PendingIsAsAsked, old
<1>. QED BY <1>2, <1>8, <1>9 DEF old

(* What the thread has done it either answers, last of all, or a later     *)
(* request is to do again.                                                 *)
LEMMA FinishKnownStep ==
  ASSUME TypeOK, TypeOK', Lives, Requests, Known, [Next]_vars, Finish \/ FinishWithError
  PROVE  Known'
<1> USE DEF client, calls, thread, world
<1>a. IssuedInOrder /\ IdsInOrder /\ UnderWay BY DEF Requests
<1>b. UNCHANGED <<pending, files, initialized, workspaceOptions, requests, ready>>
  BY DEF Finish, FinishWithError
<1>c. /\ active \in Held /\ Held' = Held \ {active} /\ active.id \in Nat
      /\ \A e \in Held : e.id \in Nat
  BY <1>a, FinishSets, HeldApart
<1>d. \A id \in DOMAIN pending : PendingSame(id) BY <1>b DEF PendingSame
<1>e. active.request \in RequestType BY FinishTyped DEF PostedType
<1>f. ASSUME NEW e \in Held, e # active, e.id \in DOMAIN pending
      PROVE  e \in Held' /\ e.id \in DOMAIN pending'
  BY <1>b, <1>c, <1>f
<1>g. Answers \subseteq Answers' BY <1>a, FinishSets
<1>h. \A n : n.id \notin DOMAIN pending =>
           ~Telling(n) /\ ~Telling(n)' /\ ~Sets(n) /\ ~Sets(n)'
           /\ \A f : ~Adds(n, f) /\ ~Drops(n, f) /\ ~Drops(n, f)'
  BY <1>b DEF Telling, Sets, Adds, Drops, PendingCalls
<1>i. ASSUME engine.ready
      PROVE  /\ \A f \in Present(engine.files) \ engine.rejected : FileIsKnown(f)
             /\ NoFile \notin engine.rejected => OptionsAreKnown
             /\ ~initialized => \E n \in Answers : Telling(n) /\ IsInit(Answered(n))
  BY <1>i DEF Known
<1>1. SUFFICES ASSUME engine'.ready
               PROVE  /\ \A f \in File : engine'.files[f] # 0 /\ f \notin engine'.rejected => FileIsKnown(f)'
                      /\ NoFile \notin engine'.rejected => OptionsAreKnown'
                      /\ ~initialized' => (\E n \in Answers : Telling(n) /\ IsInit(Answered(n)))'
  BY DEF Known, Present
<1> DEFINE Restarts == /\ Finish /\ IsInit(active.request)
                       /\ engine'.options = active.request.options
                       /\ engine'.files = IF active.request.admitted THEN active.request.contents ELSE Empty
           Untouched(f) == /\ engine.files[f] # 0 /\ ~IsUpdate(active.request, f)
                           /\ ~(active.request.kind = "removeFile" /\ active.request.file = f)
           Touched(f) == Finish /\ IsUpdate(active.request, f) /\ active.request.admitted
           Unset == engine'.options = engine.options /\ active.request.kind # "configure"
           Set == /\ Finish /\ active.request.kind = "configure"
                  /\ engine'.options = active.request.options
           GoesOnWith == /\ ~IsInit(active.request) /\ engine.ready
                         /\ engine.rejected \subseteq engine'.rejected
                         /\ \A f \in File : engine'.files[f] # 0 /\ f \notin engine'.rejected =>
                              Untouched(f) \/ Touched(f)
                         /\ NoFile \notin engine'.rejected => Unset \/ Set
<1>2. Restarts \/ GoesOnWith BY <1>1, FinishKnows
<1> HIDE DEF Restarts, Untouched, Touched, Unset, Set, GoesOnWith
(* The answers, and the one to the active request if it is pending.        *)
<1>3. ASSUME active.id \notin DOMAIN pending
      PROVE  \A n \in Answers' : n \in Answers \/ n.id \notin DOMAIN pending
  BY <1>3, <1>a, FinishSets
<1>4. ASSUME active.id \in DOMAIN pending
      PROVE  \E m \in Answers' : /\ m.id = active.id /\ m.id \in Nat
                                 /\ Answers' = Answers \union {m}
                                 /\ \A n \in Answers : n.id \in Nat /\ n.id < m.id
                                 /\ Finish => m.ok
                                 /\ m.ok => Finish
  <2>1. active.id \notin cancelled BY <1>4, <1>a DEF UnderWay, CancelledIsGone
  <2>2. PICK m \in AnswerType : /\ m.id = active.id /\ Answers' = Answers \union {m}
                                /\ \A n \in Answers : n.id < m.id
                                /\ m.ok => Finish
    BY <1>a, <2>1, FinishSets
  <2>3. \A n \in Answers : n.id \in Nat BY <1>a, HeldApart
  <2>4. ASSUME Finish PROVE m.ok
    <3> DEFINE x == [id |-> active.id, ok |-> TRUE,
                     removed |-> active.request.kind = "removeFile" /\
                                 engine.files[active.request.file] /= 0]
    <3>1. x \in AnswerType BY <1>c, FinishTyped DEF PostedType, AnswerType
    <3>2. toClient' = Append(toClient, x) BY <2>1, <2>4 DEF Finish
    <3>3. x.ok /\ x.id = active.id OBVIOUS
    <3> HIDE DEF x
    <3>4. x \in Answers'
      <4>1. toClient \in Seq(AnswerType) BY DEF TypeOK
      <4>. QED BY <3>1, <3>2, <4>1, AppendedElements DEF Answers
    <3>5. x \notin Answers BY <1>c, <2>2, <2>3, <3>3
    <3>. QED BY <2>2, <3>3, <3>4, <3>5
  <2>. QED BY <1>c, <2>2, <2>3, <2>4
<1>5. ASSUME Restarts
      PROVE  /\ \A f \in File : engine'.files[f] # 0 /\ f \notin engine'.rejected => FileIsKnown(f)'
             /\ OptionsAreKnown'
             /\ ~initialized' => (\E n \in Answers : Telling(n) /\ IsInit(Answered(n)))'
  <2>1. active.id \in DOMAIN pending
    BY <1>5, <1>a, <1>c DEF Restarts, UnderWay, CancelledIsGone
  <2>2. PICK m \in Answers' : /\ m.id = active.id /\ m.id \in Nat /\ m.ok
                              /\ Answers' = Answers \union {m}
                              /\ \A n \in Answers : n.id \in Nat /\ n.id < m.id
    BY <1>4, <1>5, <2>1 DEF Restarts
  <2>3. CASE pending[active.id].call = Replay
    <3>1. /\ active.request.admitted /\ active.request.options = workspaceOptions
          /\ Present(active.request.contents) \subseteq files
      BY <1>a, <1>c, <2>1, <2>3 DEF UnderWay, PendingIsAsAsked
    <3>2. initialized /\ PendingCalls = {} BY <2>1, <2>3 DEF Lives, BarrierHolds
    <3>3. PendingCalls' = {} BY <1>b, <3>2 DEF PendingCalls
    <3>4. \A n : ~Sets(n)' /\ \A f : ~Drops(n, f)' BY <3>3 DEF Sets, Drops, Telling
    <3>5. \A f \in File : engine'.files[f] # 0 => f \in files'
      BY <1>5, <1>b, <3>1 DEF Restarts, Present
    <3>6. engine'.options = workspaceOptions' BY <1>5, <1>b, <3>1 DEF Restarts
    <3>. QED BY <1>b, <3>2, <3>4, <3>5, <3>6 DEF FileIsKnown, OptionsAreKnown
  <2>4. CASE pending[active.id].call # Replay
    <3>1. active.request = requests[pending[active.id].call]
      BY <1>a, <1>c, <2>1, <2>4 DEF UnderWay, PendingIsAsAsked
    <3>2. Answered(m)' = active.request BY <1>b, <2>2, <3>1 DEF Answered
    <3>3. Telling(m)' BY <1>b, <2>1, <2>2, <2>4 DEF Telling, PendingCalls
    <3>4. IsInit(Answered(m))' BY <1>5, <3>2 DEF Restarts, IsInit
    <3>5. \A n \in Answers' : ~(n.id > m.id) BY <2>2
    <3>6. ASSUME NEW f \in File, engine'.files[f] # 0 PROVE Adds(m, f)'
      <4>1. active.request.admitted /\ active.request.contents[f] # 0
        BY <1>5, <3>6 DEF Restarts, Empty
      <4>. QED BY <3>2, <3>3, <3>4, <4>1 DEF Adds
    <3>7. Sets(m)' /\ Answered(m)'.options = engine'.options
      BY <1>5, <3>2, <3>3, <3>4 DEF Sets, Restarts, IsInit
    <3>. QED BY <2>2, <3>3, <3>4, <3>5, <3>6, <3>7 DEF FileIsKnown, OptionsAreKnown
  <2>. QED BY <2>3, <2>4
<1>6. ASSUME GoesOnWith
      PROVE  /\ \A f \in File : engine'.files[f] # 0 /\ f \notin engine'.rejected => FileIsKnown(f)'
             /\ NoFile \notin engine'.rejected => OptionsAreKnown'
             /\ ~initialized' => (\E n \in Answers : Telling(n) /\ IsInit(Answered(n)))'
  <2>a. ~IsInit(active.request) /\ engine.ready /\ engine.rejected \subseteq engine'.rejected
    BY <1>6 DEF GoesOnWith
  <2>1. ASSUME active.id \in DOMAIN pending
        PROVE  active.request = requests[pending[active.id].call] /\ active.id \in PendingCalls
    BY <1>a, <1>c, <2>a, <2>1 DEF UnderWay, PendingIsAsAsked, PendingCalls
  <2>2. ASSUME active.id \in DOMAIN pending
        PROVE  \E m \in Answers' : /\ m.id = active.id /\ Answers' = Answers \union {m}
                                   /\ \A n \in Answers' : ~(n.id > m.id)
                                   /\ Finish => Telling(m)'
                                   /\ Answered(m)' = active.request
    <3>1. PICK m \in Answers' : /\ m.id = active.id /\ m.id \in Nat
                                /\ Answers' = Answers \union {m}
                                /\ \A n \in Answers : n.id \in Nat /\ n.id < m.id
                                /\ Finish => m.ok
      BY <1>4, <2>2
    <3>2. \A n \in Answers' : ~(n.id > m.id) BY <3>1
    <3>3. Answered(m)' = active.request BY <1>b, <2>1, <2>2, <3>1 DEF Answered
    <3>4. Finish => Telling(m)' BY <1>b, <2>1, <2>2, <3>1 DEF Telling, PendingCalls
    <3>. QED BY <3>1, <3>2, <3>3, <3>4
  <2>3. ASSUME active.id \notin DOMAIN pending
        PROVE  \E e \in Held' : /\ e.id \in DOMAIN pending' /\ e.request \in RequestType
                                /\ CancelKey(e.request) = CancelKey(active.request)
    <3>1. PICK e \in Held : /\ e.id > active.id /\ e.id \in DOMAIN pending
                            /\ CancelKey(e.request) = CancelKey(active.request)
      BY <1>a, <1>c, <2>3 DEF UnderWay, SupersededIsReplaced
    <3>2. e # active BY <1>c, <3>1
    <3>3. e.request \in RequestType BY <1>a, HeldApart DEF PostedType
    <3>. QED BY <1>f, <3>1, <3>2, <3>3
  <2>4. ASSUME NEW f \in File, engine'.files[f] # 0, f \notin engine'.rejected PROVE FileIsKnown(f)'
    <3>1. Untouched(f) \/ Touched(f) BY <1>6, <2>4 DEF GoesOnWith
    <3>2. CASE Untouched(f)
      <4>1. FileIsKnown(f)
        <5>1. engine.files[f] # 0 /\ f \notin engine.rejected BY <2>a, <2>4, <3>2 DEF Untouched
        <5>. QED BY <1>i, <2>a, <5>1 DEF Present
      <4>2. ASSUME NEW n \in Answers' PROVE (n \in Answers /\ PendingSame(n.id)) \/ ~Drops(n, f)'
        <5>1. CASE n.id \notin DOMAIN pending BY <1>h, <5>1
        <5>2. CASE n.id \in DOMAIN pending /\ n \in Answers BY <1>d, <5>2
        <5>3. CASE n.id \in DOMAIN pending /\ n \notin Answers
          <6>1. active.id \in DOMAIN pending BY <1>3, <4>2, <5>3
          <6>2. Answered(n)' = active.request BY <2>2, <4>2, <5>3, <6>1
          <6>. QED BY <2>a, <3>2, <6>2 DEF Drops, Untouched, IsInit, IsUpdate
        <5>. QED BY <5>1, <5>2, <5>3
      <4>3. \A n \in Answers : Adds(n, f) => n \in Answers' /\ PendingSame(n.id)
        BY <1>d, <1>g, <1>h
      <4>4. \A e \in Held : e.id \in DOMAIN pending /\ IsUpdate(e.request, f) =>
                e \in Held' /\ e.id \in DOMAIN pending'
        BY <1>f, <3>2 DEF Untouched
      <4>. QED BY <1>a, <1>b, <4>1, <4>2, <4>3, <4>4, FileStaysKnown
    <3>3. CASE Touched(f) /\ active.id \in DOMAIN pending
      <4>1. PICK m \in Answers' : /\ \A n \in Answers' : ~(n.id > m.id)
                                  /\ Telling(m)' /\ Answered(m)' = active.request
        BY <2>2, <3>3 DEF Touched
      <4>2. Adds(m, f)' BY <3>3, <4>1 DEF Adds, Touched, IsUpdate
      <4>. QED BY <4>1, <4>2 DEF FileIsKnown
    <3>4. CASE Touched(f) /\ active.id \notin DOMAIN pending
      <4>1. PICK e \in Held' : /\ e.id \in DOMAIN pending' /\ e.request \in RequestType
                               /\ CancelKey(e.request) = CancelKey(active.request)
        BY <2>3, <3>4
      <4>2. IsUpdate(active.request, f) BY <3>4 DEF Touched
      <4>3. CancelKey(active.request) = <<"update", f>> BY <1>e, <4>2, KeyTyped
      <4>4. IsUpdate(e.request, f) BY <4>1, <4>3, KeyTyped
      <4>. QED BY <4>1, <4>4 DEF FileIsKnown, IsUpdate
    <3>. QED BY <3>1, <3>2, <3>3, <3>4
  <2>5. ASSUME NoFile \notin engine'.rejected PROVE OptionsAreKnown'
    <3>1. Unset \/ Set BY <1>6, <2>5 DEF GoesOnWith
    <3>2. CASE Unset
      <4>1. OptionsAreKnown BY <1>i, <2>a, <2>5
      <4>2. ASSUME NEW n \in Answers' PROVE (n \in Answers /\ PendingSame(n.id)) \/ ~Sets(n)'
        <5>1. CASE n.id \notin DOMAIN pending BY <1>h, <5>1
        <5>2. CASE n.id \in DOMAIN pending /\ n \in Answers BY <1>d, <5>2
        <5>3. CASE n.id \in DOMAIN pending /\ n \notin Answers
          <6>1. active.id \in DOMAIN pending BY <1>3, <4>2, <5>3
          <6>2. Answered(n)' = active.request BY <2>2, <4>2, <5>3, <6>1
          <6>. QED BY <2>a, <3>2, <6>2 DEF Sets, Unset, IsInit
        <5>. QED BY <5>1, <5>2, <5>3
      <4>3. \A n \in Answers : Sets(n) => n \in Answers' /\ PendingSame(n.id) BY <1>d, <1>g, <1>h
      <4>4. \A e \in Held : e.id \in DOMAIN pending /\ e.request.kind = "configure" =>
                e \in Held' /\ e.id \in DOMAIN pending'
        BY <1>f, <3>2 DEF Unset
      <4>5. engine'.options = engine.options BY <3>2 DEF Unset
      <4>. QED BY <1>a, <1>b, <4>1, <4>2, <4>3, <4>4, <4>5, OptionsStayKnown
    <3>3. CASE Set /\ active.id \in DOMAIN pending
      <4>1. PICK m \in Answers' : /\ \A n \in Answers' : ~(n.id > m.id)
                                  /\ Telling(m)' /\ Answered(m)' = active.request
        BY <2>2, <3>3 DEF Set
      <4>2. Sets(m)' /\ Answered(m)'.options = engine'.options BY <3>3, <4>1 DEF Sets, Set
      <4>. QED BY <4>1, <4>2 DEF OptionsAreKnown
    <3>4. CASE Set /\ active.id \notin DOMAIN pending
      <4>1. PICK e \in Held' : /\ e.id \in DOMAIN pending' /\ e.request \in RequestType
                               /\ CancelKey(e.request) = CancelKey(active.request)
        BY <2>3, <3>4
      <4>2. CancelKey(active.request) = <<"configure", NoFile>> BY <1>e, <3>4, KeyTyped DEF Set
      <4>3. e.request.kind = "configure" BY <4>1, <4>2, KeyTyped
      <4>. QED BY <4>1, <4>3 DEF OptionsAreKnown
    <3>. QED BY <3>1, <3>2, <3>3, <3>4
  <2>6. ASSUME ~initialized' PROVE (\E n \in Answers : Telling(n) /\ IsInit(Answered(n)))'
    <3>1. PICK n \in Answers : Telling(n) /\ IsInit(Answered(n)) BY <1>b, <1>i, <2>a, <2>6
    <3>2. n \in Answers' /\ PendingSame(n.id) BY <1>d, <1>g, <1>h, <3>1
    <3>3. Telling(n)' /\ Answered(n)' = Answered(n) BY <1>a, <3>1, <3>2, SameTelling
    <3>4. IsInit(Answered(n))' BY <3>1, <3>3 DEF IsInit
    <3>. QED BY <3>2, <3>3, <3>4
  <2>. QED BY <2>4, <2>5, <2>6
<1>. QED BY <1>2, <1>5, <1>6

(* What the engine holds the client knows of, or is being told: step by step. *)
LEMMA KnownStep ==
  ASSUME TypeOK, TypeOK', Lives, Requests, Known, [Next]_vars
  PROVE  Known'
<1> USE DEF client, calls, thread, world
<1>a. IssuedInOrder /\ IdsInOrder /\ KeysAgree /\ UnderWay BY DEF Requests
<1>b. ASSUME engine.ready
      PROVE  /\ \A f \in Present(engine.files) \ engine.rejected : FileIsKnown(f)
             /\ NoFile \notin engine.rejected => OptionsAreKnown
             /\ ~initialized => \E m \in Answers : Telling(m) /\ IsInit(Answered(m))
  BY <1>b DEF Known
<1>c. ASSUME engine'.ready =>
               /\ \A f \in File : engine'.files[f] # 0 /\ f \notin engine'.rejected => FileIsKnown(f)'
               /\ NoFile \notin engine'.rejected => OptionsAreKnown'
               /\ ~initialized' => (\E m \in Answers : Telling(m) /\ IsInit(Answered(m)))'
      PROVE  Known'
  BY <1>c DEF Known, Present
<1>d. \A n : n.id \notin DOMAIN pending' => ~Telling(n)' /\ ~Sets(n)' /\ \A f : ~Drops(n, f)'
  BY DEF Telling, Sets, Drops, PendingCalls
<1>e. \A n : n.id \notin DOMAIN pending => ~Telling(n) /\ ~Sets(n) /\ \A f : ~Adds(n, f) /\ ~Drops(n, f)
  BY DEF Telling, Sets, Adds, Drops, PendingCalls
<1>f. engine.files \in [File -> Nat] /\ FreshEngine.ready = FALSE
  BY DEF TypeOK, EngineType, FreshEngine
<1>g. ASSUME NEW m \in Answers, Telling(m), IsInit(Answered(m)), m \in Answers', PendingSame(m.id)
      PROVE  (\E n \in Answers : Telling(n) /\ IsInit(Answered(n)))'
  <2>1. Telling(m)' /\ Answered(m)' = Answered(m) BY <1>a, <1>g, SameTelling
  <2>2. IsInit(Answered(m))' BY <1>g, <2>1 DEF IsInit
  <2>. QED BY <1>g, <2>1, <2>2
<1>h. ASSUME Held' \subseteq Held, Answers' \subseteq Answers, engine' = engine, files' = files,
             initialized' = initialized, workspaceOptions' = workspaceOptions \/ ~initialized,
             \A n \in Answers : n.id \in DOMAIN pending => n \in Answers' /\ PendingSame(n.id),
             \A n \in Answers' : n.id \in DOMAIN pending' => PendingSame(n.id),
             \A e \in Held : e.id \in DOMAIN pending => e \in Held' /\ e.id \in DOMAIN pending'
      PROVE  Known'
  <2>1. SUFFICES ASSUME engine'.ready
                 PROVE  /\ \A f \in File : engine'.files[f] # 0 /\ f \notin engine'.rejected => FileIsKnown(f)'
                        /\ NoFile \notin engine'.rejected => OptionsAreKnown'
                        /\ ~initialized' => (\E m \in Answers : Telling(m) /\ IsInit(Answered(m)))'
    BY <1>c
  <2>2. engine.ready BY <1>h, <2>1
  <2>3. ASSUME NEW f \in File, engine'.files[f] # 0, f \notin engine'.rejected PROVE FileIsKnown(f)'
    <3>1. FileIsKnown(f) BY <1>b, <1>h, <2>2, <2>3 DEF Present
    <3>2. \A n \in Answers' : (n \in Answers /\ PendingSame(n.id)) \/ ~Drops(n, f)' BY <1>d, <1>h
    <3>3. \A n \in Answers : Adds(n, f) => n \in Answers' /\ PendingSame(n.id) BY <1>e, <1>h
    <3>. QED BY <1>a, <1>h, <3>1, <3>2, <3>3, FileStaysKnown
  <2>4. ASSUME ~initialized
        PROVE  /\ \E m \in Answers : Sets(m)
               /\ (\E m \in Answers : Telling(m) /\ IsInit(Answered(m)))'
    <3>1. PICK m \in Answers : Telling(m) /\ IsInit(Answered(m)) BY <1>b, <2>2, <2>4
    <3>2. Sets(m) BY <3>1 DEF Sets, Telling, IsInit
    <3>3. m \in Answers' /\ PendingSame(m.id) BY <1>e, <1>h, <3>1
    <3>. QED BY <1>g, <3>1, <3>2, <3>3
  <2>5. ASSUME NoFile \notin engine'.rejected PROVE OptionsAreKnown'
    <3>1. OptionsAreKnown BY <1>b, <1>h, <2>2, <2>5
    <3>2. \A n \in Answers' : (n \in Answers /\ PendingSame(n.id)) \/ ~Sets(n)' BY <1>d, <1>h
    <3>3. \A n \in Answers : Sets(n) => n \in Answers' /\ PendingSame(n.id) BY <1>e, <1>h
    <3>4. (\A n \in Answers : ~Sets(n)) => workspaceOptions' = workspaceOptions BY <1>h, <2>4
    <3>. QED BY <1>a, <1>h, <3>1, <3>2, <3>3, <3>4, OptionsStayKnown
  <2>. QED BY <1>h, <2>3, <2>4, <2>5
<1>i. ASSUME Rests, files' = files, initialized' = initialized,
             workspaceOptions' = workspaceOptions \/ ~initialized
      PROVE  Known'
  <2>1. Held' = Held /\ Answers' = Answers /\ pending' = pending /\ engine' = engine BY <1>i DEF Rests
  <2>2. \A n \in Answers : n.id \in DOMAIN pending => n \in Answers' /\ PendingSame(n.id)
    BY <2>1 DEF PendingSame
  <2>3. \A n \in Answers' : n.id \in DOMAIN pending' => PendingSame(n.id) BY <2>1 DEF PendingSame
  <2>. QED BY <1>h, <1>i, <2>1, <2>2, <2>3
<1>j. ASSUME UNCHANGED <<queued, active, toClient, pending, engine, cancelling, cancelled, nextId>>
      PROVE  Rests
  BY <1>j DEF Rests, Held, Answers
<1>1. ASSUME NEW c \in Call, NEW op \in Operation, Issue(c, op), AnswersAtOnce(c, op) \/ GoesAway(c, op)
      PROVE  Known'
  <2>1. UNCHANGED <<queued, active, toClient, pending, cancelling, cancelled, nextId, files, initialized>>
    BY <1>1 DEF Issue
  <2>2. engine' = engine BY <1>1, IssueJoins DEF AnswersAtOnce, Joins
  <2>3. workspaceOptions' = workspaceOptions \/ ~initialized
    BY <1>1 DEF AnswersAtOnce, GoesAway, AnsweredLocally
  <2>. QED BY <1>i, <1>j, <2>1, <2>2, <2>3
<1>2. ASSUME NEW c, Posts(c) PROVE Known'
  <2>1. /\ DOMAIN pending' = (DOMAIN pending \ {Old(c)}) \union {nextId}
        /\ \A id \in DOMAIN pending \ {Old(c)} : pending'[id] = pending[id]
    BY <1>2, <1>a, PostsTyped
  <2>2. /\ Held' = Held \union {Posted(c)} /\ Answers' = Answers /\ Posted(c).id = nextId
        /\ Posted(c).request = requests[c]
    BY <1>2, <1>a, PostsSets DEF Posted
  <2>3. UNCHANGED <<engine, files, initialized, workspaceOptions>> BY <1>2 DEF Posts
  <2>4. \A id \in DOMAIN pending : id # Old(c) => PendingSame(id) BY <2>1 DEF PendingSame
  <2>5. \A n \in Answers : n.id # nextId
    <3>1. \A n \in Answers : n.id \in Nat /\ n.id < nextId BY <1>a, HeldApart
    <3>. QED BY <3>1
  <2>6. \A n \in Answers' : n.id \in DOMAIN pending' => n \in Answers /\ PendingSame(n.id)
    BY <2>1, <2>2, <2>5 DEF PendingSame
  <2>7. Posted(c) \in Held' /\ Posted(c).id \in DOMAIN pending' BY <2>1, <2>2
  <2> DEFINE old == requests[pending[Old(c)].call]
  <2>8. ASSUME Old(c) \in DOMAIN pending
        PROVE  /\ ~IsInit(old) /\ \A f \in File : IsUpdate(old, f) => IsUpdate(requests[c], f)
               /\ old.kind = "configure" => requests[c].kind = "configure"
               /\ \A e \in Held : e.id = Old(c) => e.request = old
    BY <1>2, <2>8, SupersedesItsLike
  <2>9. \A n : n.id = Old(c) => Answered(n) = old BY DEF Answered
  <2> HIDE DEF old
  <2>10. SUFFICES ASSUME engine'.ready
                 PROVE  /\ \A f \in File : engine'.files[f] # 0 /\ f \notin engine'.rejected => FileIsKnown(f)'
                        /\ NoFile \notin engine'.rejected => OptionsAreKnown'
                        /\ ~initialized' => (\E m \in Answers : Telling(m) /\ IsInit(Answered(m)))'
    BY <1>c
  <2>11. ASSUME NEW f \in File, engine'.files[f] # 0, f \notin engine'.rejected PROVE FileIsKnown(f)'
    <3>1. FileIsKnown(f) BY <1>b, <2>3, <2>10, <2>11 DEF Present
    <3>2. CASE IsUpdate(requests[c], f) BY <2>2, <2>7, <3>2 DEF FileIsKnown
    <3>3. CASE ~IsUpdate(requests[c], f)
      <4>1. \A n \in Answers' : (n \in Answers /\ PendingSame(n.id)) \/ ~Drops(n, f)' BY <1>d, <2>6
      <4>2. ASSUME NEW n \in Answers, Adds(n, f) PROVE n \in Answers' /\ PendingSame(n.id)
        <5>1. n.id \in DOMAIN pending BY <1>e, <4>2
        <5>2. IsInit(Answered(n)) \/ IsUpdate(Answered(n), f) BY <4>2 DEF Adds
        <5>3. n.id # Old(c) BY <2>8, <2>9, <3>3, <5>1, <5>2
        <5>. QED BY <2>2, <2>4, <5>1, <5>3
      <4>3. ASSUME NEW e \in Held, e.id \in DOMAIN pending, IsUpdate(e.request, f)
            PROVE  e \in Held' /\ e.id \in DOMAIN pending'
        <5>1. e.id # Old(c) BY <2>8, <3>3, <4>3
        <5>. QED BY <2>1, <2>2, <4>3, <5>1
      <4>. QED BY <1>a, <2>3, <3>1, <4>1, <4>2, <4>3, FileStaysKnown
    <3>. QED BY <3>2, <3>3
  <2>12. ASSUME NoFile \notin engine'.rejected PROVE OptionsAreKnown'
    <3>1. OptionsAreKnown BY <1>b, <2>3, <2>10, <2>12
    <3>2. CASE requests[c].kind = "configure" BY <2>2, <2>7, <3>2 DEF OptionsAreKnown
    <3>3. CASE requests[c].kind # "configure"
      <4>1. \A n \in Answers' : (n \in Answers /\ PendingSame(n.id)) \/ ~Sets(n)' BY <1>d, <2>6
      <4>2. ASSUME NEW n \in Answers, Sets(n) PROVE n \in Answers' /\ PendingSame(n.id)
        <5>1. n.id \in DOMAIN pending BY <1>e, <4>2
        <5>2. IsInit(Answered(n)) \/ Answered(n).kind = "configure" BY <4>2 DEF Sets, IsInit
        <5>3. n.id # Old(c) BY <2>8, <2>9, <3>3, <5>1, <5>2
        <5>. QED BY <2>2, <2>4, <5>1, <5>3
      <4>3. ASSUME NEW e \in Held, e.id \in DOMAIN pending, e.request.kind = "configure"
            PROVE  e \in Held' /\ e.id \in DOMAIN pending'
        <5>1. e.id # Old(c) BY <2>8, <3>3, <4>3
        <5>. QED BY <2>1, <2>2, <4>3, <5>1
      <4>. QED BY <1>a, <2>3, <3>1, <4>1, <4>2, <4>3, OptionsStayKnown
    <3>. QED BY <3>2, <3>3
  <2>13. ASSUME ~initialized' PROVE (\E m \in Answers : Telling(m) /\ IsInit(Answered(m)))'
    <3>1. PICK m \in Answers : Telling(m) /\ IsInit(Answered(m)) BY <1>b, <2>3, <2>10, <2>13
    <3>2. m.id \in DOMAIN pending BY <1>e, <3>1
    <3>3. m.id # Old(c) BY <2>8, <2>9, <3>1, <3>2
    <3>. QED BY <1>g, <2>2, <2>4, <3>1, <3>2, <3>3
  <2>. QED BY <2>11, <2>12, <2>13
<1>3. ASSUME NEW c, GivesUp(c) \/ Retries(c) PROVE Known'
  <2>1. UNCHANGED <<queued, active, toClient, pending, cancelling, cancelled, nextId, files,
                    initialized, workspaceOptions>>
    BY <1>3 DEF GivesUp, Retries
  <2>2. engine' = engine BY <1>3, RetryJoins DEF GivesUp, Joins
  <2>. QED BY <1>i, <1>j, <2>1, <2>2
<1>4. ASSUME NEW r \in replays, ReplayLoad(r) \/ ReplayPost(r) PROVE Known'
  <2>1. r.worker = worker /\ engine' = engine BY <1>4 DEF ReplayLoad, ReplayPost, LoaderOf
  <2>2. engine = FreshEngine BY <2>1 DEF Lives, LoadersComeFirst
  <2>. QED BY <1>f, <2>1, <2>2 DEF Known
<1>5. ASSUME NEW error \in Errors, Loses(error) PROVE Known'
  <2>1. engine' = FreshEngine BY <1>5 DEF Loses, LoseWorker
  <2>. QED BY <1>f, <2>1 DEF Known
<1>6. ASSUME Ignores PROVE Known'
  <2> DEFINE m == Head(toClient)
  <2>1. Held' = Held /\ Answers' = Answers \ {m} /\ m.id \notin DOMAIN pending
    <3>1. Reading(m) BY <1>6, ReadingCases
    <3>. QED BY <1>6, <1>a, <3>1, ReadsSets DEF Reading, Ignores
  <2>2. UNCHANGED <<pending, engine, files, initialized, workspaceOptions>> BY <1>6 DEF Ignores
  <2>3. \A n \in Answers : n.id \in DOMAIN pending => n \in Answers' /\ PendingSame(n.id)
    BY <2>1, <2>2 DEF PendingSame
  <2>4. \A n \in Answers' : n.id \in DOMAIN pending' => PendingSame(n.id) BY <2>2 DEF PendingSame
  <2> HIDE DEF m
  <2>. QED BY <1>h, <2>1, <2>2, <2>3, <2>4
<1>7. ASSUME NEW m, EndsReplay(m) PROVE Known'
  <2>1. /\ Held' = Held /\ Answers' = Answers \ {m} /\ m \in Answers
    BY <1>7, <1>a, ReadingCases, ReadsSets DEF Reading
  <2>2. UNCHANGED <<engine, files, initialized, workspaceOptions>> BY <1>7 DEF EndsReplay, AnswerReplay
  <2>3. m.id \in DOMAIN pending /\ ready.worker # 0 BY <1>7 DEF EndsReplay, Lives, BarrierHolds
  <2>4. /\ initialized /\ PendingCalls = {} /\ \A id \in DOMAIN pending : id = m.id
    BY <2>3 DEF Lives, BarrierHolds
  <2>5. DOMAIN pending' = {} BY <1>7, <2>4, EndsTyped
  <2>6. \A n : ~Sets(n) /\ \A f : ~Adds(n, f) BY <2>4 DEF Sets, Adds, Telling
  <2>7. \A e \in Held : e.id \notin DOMAIN pending
    <3>1. \A e \in Held : m.id < e.id /\ e.id \in Nat /\ m.id \in Nat BY <1>a, <2>1, HeldApart
    <3>. QED BY <2>4, <3>1
  <2>8. \A f : FileIsKnown(f) => FileIsKnown(f)'
    <3>1. SUFFICES ASSUME NEW f, FileIsKnown(f) PROVE FileIsKnown(f)' OBVIOUS
    <3>2. f \in files BY <2>6, <2>7, <3>1 DEF FileIsKnown
    <3>. QED BY <1>d, <2>2, <2>5, <3>2 DEF FileIsKnown
  <2>9. OptionsAreKnown => OptionsAreKnown'
    <3>1. SUFFICES ASSUME OptionsAreKnown PROVE OptionsAreKnown' OBVIOUS
    <3>2. engine.options = workspaceOptions BY <2>6, <2>7, <3>1 DEF OptionsAreKnown
    <3>. QED BY <1>d, <2>2, <2>5, <3>2 DEF OptionsAreKnown
  <2>. QED BY <1>b, <1>c, <2>2, <2>4, <2>8, <2>9 DEF Present
<1>8. ASSUME NEW m, NEW c, LearnsFrom(m, c) PROVE Known'
  <2>1. /\ Held' = Held /\ Answers' = Answers \ {m} /\ m \in Answers /\ \A n \in Answers' : m.id < n.id
    BY <1>8, <1>a, ReadingCases, ReadsSets DEF Reading
  <2>2. engine' = engine BY <1>8 DEF LearnsFrom, AnswerCall
  <2>3. /\ DOMAIN pending' = DOMAIN pending \ {m.id}
        /\ \A id \in DOMAIN pending \ {m.id} : PendingSame(id)
    BY <1>8, <1>a, LearnsTyped DEF PendingSame
  <2>4. \A n \in Answers : n # m => n \in Answers' /\ n.id # m.id /\ n.id > m.id
    <3>1. \A n \in Answers : n.id \in Nat BY <1>a, HeldApart
    <3>. QED BY <2>1, <3>1
  <2>5. \A n \in Answers' : n \in Answers /\ (n.id \in DOMAIN pending' => PendingSame(n.id))
    BY <2>1, <2>3
  <2>6. \A e \in Held : e.id \in DOMAIN pending => e \in Held' /\ e.id \in DOMAIN pending'
    <3>1. \A e \in Held : m.id < e.id /\ e.id \in Nat /\ m.id \in Nat BY <1>a, <2>1, HeldApart
    <3>. QED BY <2>1, <2>3, <3>1
  <2>7. SUFFICES ASSUME engine'.ready
                 PROVE  /\ \A f \in File : engine'.files[f] # 0 /\ f \notin engine'.rejected => FileIsKnown(f)'
                        /\ NoFile \notin engine'.rejected => OptionsAreKnown'
                        /\ ~initialized' => (\E n \in Answers : Telling(n) /\ IsInit(Answered(n)))'
    BY <1>c
  <2>8. ASSUME NEW f \in File, engine'.files[f] # 0, f \notin engine'.rejected PROVE FileIsKnown(f)'
    <3>1. FileIsKnown(f) BY <1>b, <2>2, <2>7, <2>8 DEF Present
    <3>2. (Adds(m, f) => f \in files') /\ (f \in files /\ ~Drops(m, f) => f \in files')
      BY <1>8, <1>a, LearnsWhatIsTold
    <3>3. ASSUME Adds(m, f), \A n \in Answers : n.id > m.id => ~Drops(n, f) PROVE FileIsKnown(f)'
      <4>1. \A n \in Answers' : ~Drops(n, f) BY <2>1, <2>4, <3>3
      <4>2. \A n \in Answers' : ~Drops(n, f)' BY <1>a, <1>d, <2>5, <4>1, SameTelling
      <4>. QED BY <3>2, <3>3, <4>2 DEF FileIsKnown
    <3>4. ASSUME ~(Adds(m, f) /\ \A n \in Answers : n.id > m.id => ~Drops(n, f)), ~Drops(m, f) \/ f \notin files
          PROVE  FileIsKnown(f)'
      <4>1. f \in files => f \in files' BY <3>2, <3>4
      <4>2. \A n \in Answers' : (n \in Answers /\ PendingSame(n.id)) \/ ~Drops(n, f)' BY <1>d, <2>5
      <4>3. CASE Adds(m, f)
        <5>1. f \in files' BY <3>2, <4>3
        <5>2. PICK n \in Answers : n.id > m.id /\ Drops(n, f) BY <3>4, <4>3
        <5>3. CASE \E e \in Held : e.id \in DOMAIN pending /\ IsUpdate(e.request, f)
          BY <2>6, <5>3 DEF FileIsKnown
        <5>4. CASE f \in files /\ \A k \in Answers : ~Drops(k, f) BY <5>2, <5>4
        <5>5. ASSUME NEW k \in Answers, Adds(k, f), \A j \in Answers : j.id > k.id => ~Drops(j, f)
              PROVE  FileIsKnown(f)'
          <6>1. k # m BY <5>2, <5>5
          <6>2. k \in Answers' /\ k.id \in DOMAIN pending /\ PendingSame(k.id)
            BY <1>e, <2>3, <2>4, <5>5, <6>1
          <6>3. Adds(k, f)' BY <1>a, <5>5, <6>2, SameTelling
          <6>4. \A j \in Answers' : j.id > k.id => ~Drops(j, f)'
            BY <1>a, <1>d, <2>5, <5>5, SameTelling
          <6>. QED BY <6>2, <6>3, <6>4 DEF FileIsKnown
        <5>. QED BY <3>1, <5>3, <5>4, <5>5 DEF FileIsKnown
      <4>4. CASE ~Adds(m, f)
        <5>1. \A n \in Answers : Adds(n, f) => n \in Answers' /\ PendingSame(n.id)
          BY <1>e, <2>3, <2>4, <4>4
        <5>. QED BY <1>a, <2>6, <3>1, <4>1, <4>2, <5>1, FileStaysKnown
      <4>. QED BY <4>3, <4>4
    <3>5. ASSUME Drops(m, f), ~Adds(m, f) PROVE FileIsKnown(f)'
      <4>1. CASE \E e \in Held : e.id \in DOMAIN pending /\ IsUpdate(e.request, f)
        BY <2>6, <4>1 DEF FileIsKnown
      <4>2. ASSUME NEW k \in Answers, Adds(k, f), \A j \in Answers : j.id > k.id => ~Drops(j, f)
            PROVE  FileIsKnown(f)'
        <5>1. k # m BY <3>5, <4>2
        <5>2. k \in Answers' /\ PendingSame(k.id) BY <1>e, <2>3, <2>4, <4>2, <5>1
        <5>3. Adds(k, f)' BY <1>a, <4>2, <5>2, SameTelling
        <5>4. \A j \in Answers' : j.id > k.id => ~Drops(j, f)'
          BY <1>a, <1>d, <2>5, <4>2, SameTelling
        <5>. QED BY <5>2, <5>3, <5>4 DEF FileIsKnown
      <4>. QED BY <2>1, <3>1, <3>5, <4>1, <4>2 DEF FileIsKnown
    <3>6. ~(Adds(m, f) /\ Drops(m, f)) BY DEF Adds, Drops, IsInit, IsUpdate
    <3>. QED BY <3>3, <3>4, <3>5, <3>6
  <2>9. ASSUME NoFile \notin engine'.rejected PROVE OptionsAreKnown'
    <3>1. OptionsAreKnown BY <1>b, <2>2, <2>7, <2>9
    <3>2. /\ Sets(m) => workspaceOptions' = Answered(m).options
          /\ ~Sets(m) => workspaceOptions' = workspaceOptions
      BY <1>8, <1>a, LearnsWhatIsTold
    <3>3. \A n \in Answers' : Sets(n)' => Sets(n) BY <1>a, <1>d, <2>5, SameTelling
    <3>4. CASE engine.options = workspaceOptions /\ \A n \in Answers : ~Sets(n)
      <4>1. engine'.options = workspaceOptions' BY <2>1, <2>2, <3>2, <3>4
      <4>2. \A n \in Answers' : ~Sets(n)' BY <2>5, <3>3, <3>4
      <4>. QED BY <4>1, <4>2 DEF OptionsAreKnown
    <3>5. ASSUME NEW k \in Answers, Sets(k), Answered(k).options = engine.options,
                 \A n \in Answers : n.id > k.id => ~Sets(n)
          PROVE  OptionsAreKnown'
      <4>1. CASE k = m
        <5>1. engine'.options = workspaceOptions' BY <2>2, <3>2, <3>5, <4>1
        <5>2. \A n \in Answers' : ~Sets(n)' BY <2>1, <2>4, <3>3, <3>5, <4>1
        <5>. QED BY <5>1, <5>2 DEF OptionsAreKnown
      <4>2. CASE k # m
        <5>1. k \in Answers' /\ PendingSame(k.id) /\ Telling(k) BY <1>e, <2>3, <2>4, <3>5, <4>2 DEF Sets
        <5>2. Sets(k)' /\ Answered(k)' = Answered(k) BY <1>a, <3>5, <5>1, SameTelling
        <5>3. Answered(k)'.options = engine'.options BY <2>2, <3>5, <5>2
        <5>4. \A n \in Answers' : n.id > k.id => ~Sets(n)' BY <2>5, <3>3, <3>5
        <5>. QED BY <5>1, <5>2, <5>3, <5>4 DEF OptionsAreKnown
      <4>. QED BY <4>1, <4>2
    <3>6. CASE \E e \in Held : e.id \in DOMAIN pending /\ e.request.kind = "configure"
      BY <2>6, <3>6 DEF OptionsAreKnown
    <3>. QED BY <3>1, <3>4, <3>5, <3>6 DEF OptionsAreKnown
  <2>10. ASSUME ~initialized' PROVE (\E n \in Answers : Telling(n) /\ IsInit(Answered(n)))'
    <3>1. ~initialized /\ ~(Telling(m) /\ IsInit(Answered(m)))
      BY <1>8, <1>a, <2>10, LearnsWhatIsTold
    <3>2. PICK n \in Answers : Telling(n) /\ IsInit(Answered(n)) BY <1>b, <2>2, <2>7, <3>1
    <3>3. n \in Answers' /\ PendingSame(n.id) BY <1>e, <2>3, <2>4, <3>1, <3>2
    <3>. QED BY <1>g, <3>2, <3>3
  <2>. QED BY <2>8, <2>9, <2>10
<1>9. ASSUME Take PROVE Known'
  <2>1. UNCHANGED <<pending, engine, files, initialized, workspaceOptions>> BY <1>9 DEF Take
  <2>2. Answers' = Answers /\ Held' \subseteq Held BY <1>9, <1>a, TakeSets, HeldLess
  <2>3. \A e \in Held : e.id \in DOMAIN pending => e \in Held'
    <3>1. \A e \in Held : e.id \in DOMAIN pending => e.id \notin cancelled
      BY <1>a DEF UnderWay, CancelledIsGone
    <3>. QED BY <1>9, <1>a, <3>1, TakeSets
  <2>4. /\ \A n \in Answers : n.id \in DOMAIN pending => n \in Answers' /\ PendingSame(n.id)
        /\ \A n \in Answers' : n.id \in DOMAIN pending' => PendingSame(n.id)
    BY <2>1, <2>2 DEF PendingSame
  <2>. QED BY <1>h, <2>1, <2>2, <2>3, <2>4
<1>10. ASSUME Finish \/ FinishWithError PROVE Known' BY <1>10, FinishKnownStep
<1>11. ASSUME (\E id \in cancelling : ReceiveCancel(id)) PROVE Known'
  <2>1. UNCHANGED <<queued, active, toClient, pending, engine, nextId, files, initialized, workspaceOptions>>
        /\ (cancelling \union cancelled)' \subseteq cancelling \union cancelled
    BY <1>11 DEF ReceiveCancel
  <2>2. Rests BY <2>1 DEF Rests, Held, Answers
  <2>. QED BY <1>i, <2>1, <2>2
<1>12. ASSUME UNCHANGED vars \/ \E r \in replays : ReplayAbandoned(r) PROVE Known'
  <2>1. UNCHANGED <<queued, active, toClient, pending, engine, cancelling, cancelled, nextId, files,
                    initialized, workspaceOptions>>
    BY <1>12 DEF ReplayAbandoned, vars
  <2>. QED BY <1>i, <1>j, <2>1
<1>13. ASSUME NEW c, PostsTooLate(c) PROVE FALSE BY <1>13, PostsLives DEF Posts, PostsTooLate
<1>14. ASSUME Hostside PROVE Known'
  BY <1>1, <1>2, <1>3, <1>4, <1>5, <1>6, <1>7, <1>8, <1>12, <1>13, <1>14 DEF Hostside
<1>15. ASSUME Threadside PROVE Known' BY <1>9, <1>10, <1>11, <1>15 DEF Threadside
<1>. QED BY <1>12, <1>14, <1>15, StepCases
-----------------------------------------------------------------------------
(* Every call is in one place.                                             *)

(* Those somebody will go on with are those not yet settled.               *)
Tracked == \A c \in Call : outcome[c] = "called" <=> c \in Outstanding

(* The text of an update is the one the call had just saved or typed.      *)
UpdatesCarryText ==
    \A c \in Call : AsksUpdate(c) => requests[c].contents[requests[c].file] # 0

(* No call is due, waiting or pending twice, nor in two of these ways.     *)
LEMMA OnePlace ==
  ASSUME TypeOK, Lives, CallsInOrder
  PROVE  /\ \A i, j \in DOMAIN runnable : runnable[i].call = runnable[j].call => i = j
         /\ \A i, j \in DOMAIN ready.waiters : ready.waiters[i] = ready.waiters[j] => i = j
         /\ \A i, j \in PendingCalls : pending[i].call = pending[j].call => i = j
         /\ \A i \in DOMAIN runnable : \A j \in DOMAIN ready.waiters : runnable[i].call # ready.waiters[j]
         /\ \A i \in DOMAIN runnable : \A id \in PendingCalls : runnable[i].call # pending[id].call
         /\ PendingCalls = {} \/ DOMAIN ready.waiters = {}
<1>1. Outstanding \subseteq Call /\ Call \subseteq Nat BY OutstandingAre, CallsAreNoReplay
<1>2. /\ \A i \in DOMAIN runnable : runnable[i].call \in Nat
      /\ \A i \in DOMAIN ready.waiters : ready.waiters[i] \in Nat
      /\ \A id \in PendingCalls : pending[id].call \in Nat
  BY <1>1 DEF Outstanding
<1>3. /\ \A i \in DOMAIN runnable : i \in Nat
      /\ \A i \in DOMAIN ready.waiters : i \in Nat
      /\ \A id \in PendingCalls : id \in Nat
  <2>1. DOMAIN runnable = 1..Len(runnable) /\ DOMAIN ready.waiters = 1..Len(ready.waiters)
    BY LenProperties DEF TypeOK
  <2>2. DOMAIN pending \subseteq 1..nextId - 1 /\ nextId \in Nat BY DEF TypeOK
  <2>. QED BY <2>1, <2>2 DEF PendingCalls
<1>4. ASSUME NEW i \in DOMAIN runnable, NEW j \in DOMAIN runnable, runnable[i].call = runnable[j].call
      PROVE  i = j
  <2>1. i < j => runnable[i].call # runnable[j].call BY <1>2 DEF CallsInOrder, Follows
  <2>2. j < i => runnable[i].call # runnable[j].call BY <1>2 DEF CallsInOrder, Follows
  <2>. QED BY <1>3, <1>4, <2>1, <2>2
<1>5. ASSUME NEW i \in DOMAIN ready.waiters, NEW j \in DOMAIN ready.waiters,
             ready.waiters[i] = ready.waiters[j]
      PROVE  i = j
  <2>1. (i < j \/ j < i) => ready.waiters[i] # ready.waiters[j] BY <1>2 DEF CallsInOrder
  <2>. QED BY <1>3, <1>5, <2>1
<1>6. ASSUME NEW i \in PendingCalls, NEW j \in PendingCalls, pending[i].call = pending[j].call
      PROVE  i = j
  <2>1. (i < j \/ j < i) => pending[i].call # pending[j].call BY <1>2 DEF CallsInOrder
  <2>. QED BY <1>3, <1>6, <2>1
<1>7. \A i \in DOMAIN runnable : \A j \in DOMAIN ready.waiters : runnable[i].call # ready.waiters[j]
  BY <1>2 DEF CallsInOrder
<1>8. \A i \in DOMAIN runnable : \A id \in PendingCalls : runnable[i].call # pending[id].call
  BY <1>2 DEF CallsInOrder
<1>9. PendingCalls = {} \/ DOMAIN ready.waiters = {}
  <2>1. ready.worker = 0 => ready.waiters = <<>> BY DEF Lives, BarrierHolds, NotReady
  <2>2. ready.worker # 0 => PendingCalls = {} BY DEF Lives, BarrierHolds
  <2>. QED BY <2>1, <2>2, NothingIn
<1>. QED BY <1>4, <1>5, <1>6, <1>7, <1>8, <1>9

(* A call that joins the others takes none of their places.                *)
LEMMA JoinsKeep ==
  ASSUME TypeOK, NEW c \in Call, NEW due \in Seq(ContinuationType), Joins(c, due), UNCHANGED pending
  PROVE  /\ c \in Outstanding'
         /\ \A i \in DOMAIN due : due[i].call \in Outstanding'
         /\ \A i \in DOMAIN ready.waiters : ready.waiters[i] \in Outstanding'
         /\ \A id \in PendingCalls : pending[id].call \in Outstanding'
<1>1. \A id \in PendingCalls : pending[id].call \in Outstanding' BY DEF Outstanding, PendingCalls
<1>2. CASE Waits(c, due)
  <2>1. ready.waiters \in Seq(Call) BY DEF TypeOK
  <2>2. /\ DOMAIN ready.waiters = 1..Len(ready.waiters) /\ Len(ready.waiters) \in Nat
        /\ DOMAIN Append(ready.waiters, c) = 1..Len(ready.waiters) + 1
        /\ \A i \in 1..Len(ready.waiters) : Append(ready.waiters, c)[i] = ready.waiters[i]
        /\ Append(ready.waiters, c)[Len(ready.waiters) + 1] = c
    BY <2>1, AppendedAt
  <2>3. runnable' = due /\ ready'.waiters = Append(ready.waiters, c) BY <1>2 DEF Waits
  <2>4. /\ Len(ready.waiters) + 1 \in DOMAIN ready'.waiters /\ ready'.waiters[Len(ready.waiters) + 1] = c
        /\ \A i \in DOMAIN ready.waiters : i \in DOMAIN ready'.waiters /\ ready'.waiters[i] = ready.waiters[i]
    BY <2>2, <2>3
  <2>5. c \in Outstanding' /\ \A i \in DOMAIN ready.waiters : ready.waiters[i] \in Outstanding'
    BY <2>4 DEF Outstanding
  <2>6. \A i \in DOMAIN due : due[i].call \in Outstanding' BY <2>3 DEF Outstanding
  <2>. QED BY <1>1, <2>5, <2>6
<1>3. CASE GoesOn(c, due)
  <2> DEFINE x == ResolvedWith(c, worker')
  <2>1. x \in ContinuationType /\ x.call = c
    BY DEF ResolvedWith, ContinuationType, Joins
  <2>2. runnable' = Append(due, x) /\ ready' = ready BY <1>3 DEF GoesOn
  <2> HIDE DEF x
  <2>3. /\ DOMAIN due = 1..Len(due) /\ Len(due) \in Nat
        /\ DOMAIN Append(due, x) = 1..Len(due) + 1
        /\ \A i \in 1..Len(due) : Append(due, x)[i] = due[i]
        /\ Append(due, x)[Len(due) + 1] = x
    BY <2>1, AppendedAt
  <2>4. /\ Len(due) + 1 \in DOMAIN runnable' /\ runnable'[Len(due) + 1] = x
        /\ \A i \in DOMAIN due : i \in DOMAIN runnable' /\ runnable'[i] = due[i]
    BY <2>2, <2>3
  <2>5. c \in Outstanding' /\ \A i \in DOMAIN due : due[i].call \in Outstanding'
    BY <2>1, <2>4 DEF Outstanding
  <2>6. \A i \in DOMAIN ready.waiters : ready.waiters[i] \in Outstanding' BY <2>2 DEF Outstanding
  <2>. QED BY <1>1, <2>5, <2>6
<1>. QED BY <1>2, <1>3 DEF Joins

(* A call leaves when it is superseded, given up or answered.              *)
LEMMA StaysOutstanding ==
  ASSUME TypeOK, IssuedInOrder, Lives, [Next]_vars, NEW d \in Outstanding
  PROVE  \/ d \in Outstanding'
         \/ \E c : Posts(c) /\ Old(c) \in DOMAIN pending /\ pending[Old(c)].call = d
         \/ GivesUp(d) \/ \E m : LearnsFrom(m, d)
<1> USE DEF client, calls, thread, world
<1> DEFINE Goal == \/ d \in Outstanding'
                   \/ \E c : Posts(c) /\ Old(c) \in DOMAIN pending /\ pending[Old(c)].call = d
                   \/ GivesUp(d) \/ \E m : LearnsFrom(m, d)
<1>a. \/ \E i \in DOMAIN runnable : runnable[i].call = d
      \/ \E i \in DOMAIN ready.waiters : ready.waiters[i] = d
      \/ \E id \in PendingCalls : pending[id].call = d
  BY DEF Outstanding
<1>b. runnable = <<>> => DOMAIN runnable = {} BY NothingIn
<1>1. ASSUME NEW c \in Call, NEW op \in Operation, Issue(c, op) /\ (AnswersAtOnce(c, op) \/ GoesAway(c, op))
      PROVE  Goal
  <2>1. UNCHANGED pending /\ runnable = <<>> BY <1>1 DEF Issue
  <2>2. CASE AnswersAtOnce(c, op) BY <2>1, <2>2 DEF AnswersAtOnce, Outstanding, PendingCalls
  <2>3. CASE GoesAway(c, op)
    <3>1. Joins(c, runnable) /\ runnable \in Seq(ContinuationType) BY <1>1, <2>3, IssueJoins DEF TypeOK
    <3>. QED BY <1>a, <1>b, <2>1, <3>1, JoinsKeep
  <2>. QED BY <1>1, <2>2, <2>3
<1>2. ASSUME NEW c, Posts(c) \/ PostsTooLate(c) PROVE Goal
  <2>1. Posts(c) BY <1>2, PostsLives
  <2> DEFINE due == Tail(runnable)
  <2>2. /\ \A i \in DOMAIN runnable : i # 1 => i - 1 \in DOMAIN due /\ due[i - 1] = runnable[i]
        /\ runnable' = due /\ runnable[1].call = c
    BY <2>1, TailResolved DEF Posts
  <2>3. ready' = ready BY <2>1 DEF Posts
  <2>k. \A k : [call |-> c, key |-> k].call = c OBVIOUS
  <2>p. /\ DOMAIN pending' = (DOMAIN pending \ {Old(c)}) \union {nextId} /\ nextId \notin DOMAIN pending
        /\ pending'[nextId] = [call |-> c, key |-> Key(c)] /\ c \in Call
        /\ \A id \in DOMAIN pending \ {Old(c)} : pending'[id] = pending[id]
    BY <2>1, PostsTyped
  <2>4. /\ DOMAIN pending' = (DOMAIN pending \ {Old(c)}) \union {nextId} /\ nextId \notin DOMAIN pending
        /\ pending'[nextId].call = c /\ c \in Call
        /\ \A id \in DOMAIN pending \ {Old(c)} : pending'[id] = pending[id]
    BY <2>k, <2>p
  <2>5. nextId \in PendingCalls' BY <2>4, CallsAreNoReplay DEF PendingCalls
  <2>6. \A id \in PendingCalls : id # Old(c) => id \in PendingCalls' /\ pending'[id] = pending[id]
    BY <2>4 DEF PendingCalls
  <2>7. ASSUME NEW i \in DOMAIN runnable, runnable[i].call = d PROVE d \in Outstanding'
    BY <2>2, <2>4, <2>5, <2>7 DEF Outstanding
  <2>8. ASSUME NEW i \in DOMAIN ready.waiters, ready.waiters[i] = d PROVE d \in Outstanding'
    BY <2>3, <2>8 DEF Outstanding
  <2>9. ASSUME NEW id \in PendingCalls, pending[id].call = d, id # Old(c) PROVE d \in Outstanding'
    BY <2>6, <2>9 DEF Outstanding
  <2>10. ASSUME Old(c) \in PendingCalls, pending[Old(c)].call = d PROVE Goal
    BY <2>1, <2>10 DEF PendingCalls
  <2>. QED BY <1>a, <2>7, <2>8, <2>9, <2>10
<1>3. ASSUME NEW c, Retries(c) PROVE Goal
  <2>1. UNCHANGED pending BY <1>3 DEF Retries
  <2> DEFINE due == Tail(runnable)
  <2>2. c \in Call /\ due \in Seq(ContinuationType) /\ Joins(c, due) /\ runnable # <<>>
        /\ runnable[1].call = c
    BY <1>3, RetryJoins
  <2>3. \A i \in DOMAIN runnable : i # 1 => i - 1 \in DOMAIN due /\ due[i - 1] = runnable[i]
    BY <2>2, TailResolved
  <2> HIDE DEF due
  <2>4. /\ c \in Outstanding'
        /\ \A i \in DOMAIN due : due[i].call \in Outstanding'
        /\ \A i \in DOMAIN ready.waiters : ready.waiters[i] \in Outstanding'
        /\ \A id \in PendingCalls : pending[id].call \in Outstanding'
    BY <2>1, <2>2, JoinsKeep
  <2>5. \A i \in DOMAIN runnable : runnable[i].call \in Outstanding'
    BY <2>2, <2>3, <2>4
  <2>. QED BY <1>a, <2>4, <2>5
<1>4. ASSUME NEW c, GivesUp(c) PROVE Goal
  <2> DEFINE due == Tail(runnable)
  <2>1. runnable # <<>> /\ Head(runnable).call = c /\ runnable' = due /\ UNCHANGED client
    BY <1>4 DEF GivesUp
  <2>2. /\ \A i \in DOMAIN runnable : i # 1 => i - 1 \in DOMAIN due /\ due[i - 1] = runnable[i]
        /\ runnable[1].call = c
    BY <2>1, TailResolved
  <2>3. ASSUME NEW i \in DOMAIN runnable, runnable[i].call = d PROVE Goal
    <3>1. CASE i = 1 BY <1>4, <2>2, <2>3, <3>1
    <3>2. CASE i # 1 BY <2>1, <2>2, <2>3, <3>2 DEF Outstanding
    <3>. QED BY <3>1, <3>2
  <2>4. ASSUME NEW i \in DOMAIN ready.waiters, ready.waiters[i] = d PROVE d \in Outstanding'
    BY <2>1, <2>4 DEF Outstanding
  <2>5. ASSUME NEW id \in PendingCalls, pending[id].call = d PROVE d \in Outstanding'
    BY <2>1, <2>5 DEF Outstanding, PendingCalls
  <2> HIDE DEF Goal
  <2>6. d \in Outstanding' => Goal BY DEF Goal
  <2>. QED BY <1>a, <2>3, <2>4, <2>5, <2>6
<1>5. ASSUME NEW error \in Errors, Loses(error) PROVE d \in Outstanding'
  <2>1. PICK ids \in InOrder(PendingCalls) : runnable' = RejectedBy(error, ids) BY <1>5, LosesTyped
  <2>2. /\ Len(ready.waiters) \in Nat /\ Len(ids) \in Nat
        /\ DOMAIN runnable' = 1..Len(ready.waiters) + Len(ids)
        /\ \A i \in 1..Len(ready.waiters) : runnable'[i] = RejectedWith(ready.waiters[i], error)
        /\ \A i \in 1..Len(ids) :
             runnable'[Len(ready.waiters) + i] = RejectedWith(pending[ids[i]].call, error)
    BY <2>1, RejectedAt
  <2>3. DOMAIN ready.waiters = 1..Len(ready.waiters) BY LenProperties DEF TypeOK
  <2>4. \A c : RejectedWith(c, error).call = c BY DEF RejectedWith
  <2>5. ASSUME NEW i \in DOMAIN ready.waiters, ready.waiters[i] = d PROVE d \in Outstanding'
    <3>1. i \in DOMAIN runnable' /\ runnable'[i].call = d BY <2>2, <2>3, <2>4, <2>5
    <3>. QED BY <3>1 DEF Outstanding
  <2>6. ASSUME NEW id \in PendingCalls, pending[id].call = d PROVE d \in Outstanding'
    <3>1. PICK i \in 1..Len(ids) : ids[i] = id BY <2>1, IdsOfPending
    <3>2. Len(ready.waiters) + i \in DOMAIN runnable' BY <2>2
    <3>3. runnable'[Len(ready.waiters) + i].call = d BY <2>2, <2>4, <2>6, <3>1
    <3>. QED BY <3>2, <3>3 DEF Outstanding
  <2>. QED BY <1>5, <1>a, <1>b, <2>5, <2>6 DEF Loses
<1>6. ASSUME NEW r \in replays, ReplayLoad(r) \/ ReplayAbandoned(r) PROVE Goal
  BY <1>6 DEF ReplayLoad, ReplayAbandoned, Outstanding, PendingCalls
<1>7. ASSUME NEW r \in replays, ReplayPost(r) PROVE Goal
  <2>1. \A id \in DOMAIN pending : id \in DOMAIN pending' /\ pending'[id] = pending[id]
    <3>1. nextId \notin DOMAIN pending /\ nextId \in Nat BY DEF TypeOK
    <3>. QED BY <1>7, <3>1 DEF ReplayPost
  <2>2. UNCHANGED <<runnable, ready>> BY <1>7 DEF ReplayPost
  <2>. QED BY <2>1, <2>2 DEF Outstanding, PendingCalls
<1>8. ASSUME NEW m, EndsReplay(m) PROVE d \in Outstanding'
  <2>1. \A i \in DOMAIN ready.waiters : i \in DOMAIN runnable' /\ runnable'[i].call = ready.waiters[i]
    <3>1. DOMAIN ready.waiters = 1..Len(ready.waiters) BY LenProperties DEF TypeOK
    <3>2. \A c : ResolvedWith(c, worker).call = c BY DEF ResolvedWith
    <3>. QED BY <1>8, <3>1, <3>2, EndsTyped
  <2>2. PendingCalls = {} BY <1>8 DEF EndsReplay, Lives, BarrierHolds
  <2>3. DOMAIN runnable = {} BY <1>8, <1>b DEF EndsReplay
  <2>. QED BY <1>a, <2>1, <2>2, <2>3 DEF Outstanding
<1>9. ASSUME NEW m, NEW c, LearnsFrom(m, c) PROVE Goal
  <2>1. \A id \in PendingCalls : id # m.id => id \in PendingCalls' /\ pending'[id] = pending[id]
    BY <1>9, LearnsTyped DEF PendingCalls
  <2>2. UNCHANGED <<runnable, ready>> /\ pending[m.id].call = c BY <1>9 DEF LearnsFrom, AnswerCall
  <2>3. ASSUME NEW id \in PendingCalls, pending[id].call = d PROVE d = c \/ d \in Outstanding'
    BY <2>1, <2>2, <2>3 DEF Outstanding
  <2>4. (\E i \in DOMAIN runnable : runnable[i].call = d) => d \in Outstanding'
    BY <2>2 DEF Outstanding
  <2>5. (\E i \in DOMAIN ready.waiters : ready.waiters[i] = d) => d \in Outstanding'
    BY <2>2 DEF Outstanding
  <2>. QED BY <1>9, <1>a, <2>3, <2>4, <2>5
<1>10. ASSUME UNCHANGED <<pending, ready, runnable>> PROVE Goal BY <1>10 DEF Outstanding, PendingCalls
<1>11. ASSUME Ignores \/ Threadside \/ UNCHANGED vars PROVE Goal
  BY <1>10, <1>11 DEF Ignores, Threadside, ReceiveCancel, Take, Finish, FinishWithError, vars
<1>12. d \in Outstanding' => Goal OBVIOUS
<1> HIDE DEF Goal
<1>13. ASSUME Hostside PROVE Goal
  BY <1>1, <1>2, <1>3, <1>4, <1>5, <1>6, <1>7, <1>8, <1>9, <1>11, <1>12, <1>13 DEF Hostside
<1>14. Goal BY <1>11, <1>13, StepCases
<1>. QED BY <1>14 DEF Goal

(* A call that is superseded, given up or answered is nowhere else.        *)
LEMMA LeavesForGood ==
  ASSUME TypeOK, IssuedInOrder, Lives, CallsInOrder, [Next]_vars, NEW d
  PROVE  /\ \A c : Posts(c) /\ Old(c) \in DOMAIN pending /\ pending[Old(c)].call = d =>
                d \in Outstanding /\ d \notin Outstanding'
         /\ GivesUp(d) => d \in Outstanding /\ d \notin Outstanding'
         /\ \A m : LearnsFrom(m, d) => d \in Outstanding /\ d \notin Outstanding'
<1> USE DEF client
<1>1. ASSUME NEW c, Posts(c), Old(c) \in DOMAIN pending, pending[Old(c)].call = d
      PROVE  d \in Outstanding /\ d \notin Outstanding'
  <2>1. Old(c) \in PendingCalls BY <1>1, PostsLives DEF PendingCalls, Lives, BarrierHolds
  <2> DEFINE due == Tail(runnable)
  <2>2. /\ \A i \in DOMAIN due : i + 1 \in DOMAIN runnable /\ due[i] = runnable[i + 1]
        /\ runnable' = due /\ 1 \in DOMAIN runnable /\ runnable[1].call = c
    BY <1>1, TailResolved DEF Posts
  <2> HIDE DEF due
  <2>3. c # d /\ \A i \in DOMAIN runnable : runnable[i].call # d BY <1>1, <2>1, <2>2, OnePlace
  <2>4. DOMAIN ready'.waiters = {}
    <3>1. ready' = ready BY <1>1 DEF Posts
    <3>2. ready = NotReady BY <1>1, PostsLives
    <3>3. ready'.waiters = <<>> BY <3>1, <3>2 DEF NotReady
    <3>. QED BY <3>3, NothingIn
  <2>k. \A k : [call |-> c, key |-> k].call = c OBVIOUS
  <2>p. /\ DOMAIN pending' = (DOMAIN pending \ {Old(c)}) \union {nextId}
        /\ pending'[nextId] = [call |-> c, key |-> Key(c)]
        /\ \A id \in DOMAIN pending \ {Old(c)} : pending'[id] = pending[id]
    BY <1>1, PostsTyped
  <2>5. /\ DOMAIN pending' = (DOMAIN pending \ {Old(c)}) \union {nextId}
        /\ pending'[nextId].call = c
        /\ \A id \in DOMAIN pending \ {Old(c)} : pending'[id] = pending[id]
    BY <2>k, <2>p
  <2>6. \A id \in PendingCalls : pending[id].call = d => id = Old(c) BY <1>1, <2>1, OnePlace
  <2>7. \A id \in PendingCalls' : pending'[id].call # d
    BY <2>3, <2>5, <2>6 DEF PendingCalls
  <2>8. \A i \in DOMAIN runnable' : runnable'[i].call # d BY <2>2, <2>3
  <2>. QED BY <1>1, <2>1, <2>4, <2>7, <2>8 DEF Outstanding
<1>2. ASSUME GivesUp(d) PROVE d \in Outstanding /\ d \notin Outstanding'
  <2> DEFINE due == Tail(runnable)
  <2>1. runnable # <<>> /\ Head(runnable).call = d /\ runnable' = due /\ UNCHANGED client
    BY <1>2 DEF GivesUp
  <2>2. /\ \A i \in DOMAIN due : i \in Nat /\ i + 1 \in DOMAIN runnable /\ due[i] = runnable[i + 1]
        /\ 1 \in DOMAIN runnable /\ runnable[1].call = d /\ DOMAIN due = 1..Len(runnable) - 1
        /\ Len(runnable) \in Nat
    BY <2>1, TailResolved
  <2> HIDE DEF due
  <2>3. \A i \in DOMAIN runnable : runnable[i].call = d => i = 1 BY <2>2, OnePlace
  <2>4. \A i \in DOMAIN due : i + 1 # 1 BY <2>2
  <2>5. \A i \in DOMAIN runnable' : runnable'[i].call # d BY <2>1, <2>2, <2>3, <2>4
  <2>6. /\ \A i \in DOMAIN ready.waiters : ready.waiters[i] # d
        /\ \A id \in PendingCalls : pending[id].call # d
    BY <2>2, OnePlace
  <2>. QED BY <2>1, <2>2, <2>5, <2>6 DEF Outstanding, PendingCalls
<1>3. ASSUME NEW m, LearnsFrom(m, d) PROVE d \in Outstanding /\ d \notin Outstanding'
  <2>1. m.id \in PendingCalls /\ pending[m.id].call = d /\ UNCHANGED <<runnable, ready>>
    BY <1>3 DEF LearnsFrom, AnswerCall
  <2>2. /\ \A i \in DOMAIN runnable : runnable[i].call # d
        /\ \A id \in PendingCalls : pending[id].call = d => id = m.id
        /\ DOMAIN ready.waiters = {}
    BY <2>1, OnePlace
  <2>3. \A id \in PendingCalls' : id \in PendingCalls /\ id # m.id /\ pending'[id] = pending[id]
    BY <1>3, LearnsTyped DEF PendingCalls
  <2>. QED BY <2>1, <2>2, <2>3 DEF Outstanding
<1>. QED BY <1>1, <1>2, <1>3

(* Every step keeps a call unsettled just as long as somebody will go on   *)
(* with it.                                                                *)
LEMMA TrackedStep ==
  ASSUME TypeOK, Lives, Requests, CallsInOrder, Tracked, [Next]_vars
  PROVE  Tracked'
<1> USE DEF client, calls, thread, world
<1>a. IssuedInOrder BY DEF Requests
<1>b. outcome \in [Call -> {"idle", "called"} \union Settled] BY DEF TypeOK
<1>c. \A v \in Errors \union {"ok"} : v # "called" BY DEF Errors
<1>d. SUFFICES ASSUME NEW d \in Call PROVE outcome'[d] = "called" <=> d \in Outstanding'
  BY DEF Tracked
<1>e. outcome[d] = "called" <=> d \in Outstanding BY DEF Tracked
<1> DEFINE Leaves == \/ \E c : Posts(c) /\ Old(c) \in DOMAIN pending /\ pending[Old(c)].call = d
                     \/ GivesUp(d) \/ \E m : LearnsFrom(m, d)
           Starts == \E op \in Operation : Issue(d, op) /\ GoesAway(d, op)
<1>1. d \in Outstanding => d \in Outstanding' \/ Leaves BY <1>a, StaysOutstanding
<1>2. d \in Outstanding' => d \in Outstanding \/ Starts BY <1>a, OutstandingStep
<1>3. Leaves => d \in Outstanding /\ d \notin Outstanding' BY <1>a, LeavesForGood
(* How the outcome changes.                                                *)
<1>4. ASSUME Leaves PROVE outcome'[d] # "called"
  <2>1. ASSUME NEW c, Posts(c), Old(c) \in DOMAIN pending, pending[Old(c)].call = d
        PROVE  outcome'[d] # "called"
    <3>1. outcome' = [outcome EXCEPT ![d] = "SUPERSEDED"] BY <2>1 DEF Posts
    <3>. QED BY <1>b, <3>1
  <2>2. ASSUME GivesUp(d) PROVE outcome'[d] # "called"
    <3>1. outcome' = [outcome EXCEPT ![d] = Head(runnable).error] BY <2>2 DEF GivesUp
    <3>2. Head(runnable).error \in Errors BY <2>2, DueTyped DEF GivesUp, ContinuationType
    <3>. QED BY <1>b, <1>c, <3>1, <3>2
  <2>3. ASSUME NEW m, LearnsFrom(m, d) PROVE outcome'[d] # "called"
    <3>1. outcome' = [outcome EXCEPT ![d] = IF m.ok THEN "ok" ELSE "ANALYSIS_ERROR"]
      BY <2>3 DEF LearnsFrom, AnswerCall
    <3>. QED BY <1>b, <3>1
  <2>. QED BY <1>4, <2>1, <2>2, <2>3
<1>5. ASSUME Starts PROVE outcome'[d] = "called" /\ d \in Outstanding'
  <2>1. PICK op \in Operation : Issue(d, op) /\ GoesAway(d, op) BY <1>5
  <2>2. outcome' = [outcome EXCEPT ![d] = "called"] BY <2>1 DEF GoesAway
  <2>3. Joins(d, runnable) /\ runnable \in Seq(ContinuationType) /\ UNCHANGED pending
    BY <2>1, IssueJoins DEF TypeOK
  <2>. QED BY <1>b, <2>2, <2>3, JoinsKeep
<1> HIDE DEF Leaves, Starts
<1> DEFINE Goal == outcome'[d] = "called" <=> d \in Outstanding'
<1>6. ASSUME ~Leaves, ~Starts, outcome'[d] = outcome[d] PROVE Goal BY <1>1, <1>2, <1>6, <1>e
<1>7. ASSUME Leaves \/ Starts PROVE Goal BY <1>3, <1>4, <1>5, <1>7
<1>8. ASSUME ~Leaves, ~Starts PROVE Goal
  <2>1. ASSUME NEW c \in Call, NEW op \in Operation, Issue(c, op), AnswersAtOnce(c, op) PROVE Goal
    <3>1. outcome' = [outcome EXCEPT ![c] = IF AnsweredLocally(op) THEN "ok" ELSE "WORKER_DISPOSED"]
      BY <2>1 DEF AnswersAtOnce
    <3>2. CASE c # d BY <1>6, <1>8, <3>1, <3>2
    <3>3. CASE c = d
      <4>1. outcome[d] = "idle" BY <2>1, <3>3 DEF Issue
      <4>2. outcome'[d] # "called" BY <1>b, <3>1, <3>3
      <4>. QED BY <1>2, <1>8, <1>e, <4>1, <4>2
    <3>. QED BY <3>2, <3>3
  <2>2. ASSUME NEW c \in Call, NEW op \in Operation, Issue(c, op), GoesAway(c, op) PROVE Goal
    <3>1. outcome' = [outcome EXCEPT ![c] = "called"] BY <2>2 DEF GoesAway
    <3>2. c # d BY <1>8, <2>2 DEF Starts
    <3>. QED BY <1>6, <1>8, <3>1, <3>2
  <2>3. ASSUME NEW c, Posts(c) \/ PostsTooLate(c) PROVE Goal
    <3>1. Posts(c) BY <2>3, PostsLives
    <3>2. CASE Old(c) \in DOMAIN pending
      <4>1. pending[Old(c)].call # d BY <1>8, <3>1, <3>2 DEF Leaves
      <4>2. outcome' = [outcome EXCEPT ![pending[Old(c)].call] = "SUPERSEDED"] BY <3>1, <3>2 DEF Posts
      <4>. QED BY <1>6, <1>8, <4>1, <4>2
    <3>3. CASE Old(c) \notin DOMAIN pending
      <4>1. outcome' = outcome BY <3>1, <3>3 DEF Posts
      <4>. QED BY <1>6, <1>8, <4>1
    <3>. QED BY <3>2, <3>3
  <2>4. ASSUME NEW c, Retries(c) PROVE Goal BY <1>6, <1>8, <2>4 DEF Retries
  <2>5. ASSUME NEW c, GivesUp(c) PROVE Goal
    <3>1. c # d BY <1>8, <2>5 DEF Leaves
    <3>2. outcome' = [outcome EXCEPT ![c] = Head(runnable).error] BY <2>5 DEF GivesUp
    <3>. QED BY <1>6, <1>8, <3>1, <3>2
  <2>6. ASSUME NEW m, NEW c, LearnsFrom(m, c) PROVE Goal
    <3>1. c # d BY <1>8, <2>6 DEF Leaves
    <3>2. outcome' = [outcome EXCEPT ![c] = IF m.ok THEN "ok" ELSE "ANALYSIS_ERROR"]
      BY <2>6 DEF LearnsFrom, AnswerCall
    <3>. QED BY <1>6, <1>8, <3>1, <3>2
  <2>7. ASSUME NEW error \in Errors, Loses(error) PROVE Goal
    BY <1>6, <1>8, <2>7 DEF Loses, LoseWorker
  <2>8. ASSUME NEW m, EndsReplay(m) PROVE Goal BY <1>6, <1>8, <2>8 DEF EndsReplay, AnswerReplay
  <2>9. ASSUME NEW r \in replays, ReplayLoad(r) \/ ReplayAbandoned(r) \/ ReplayPost(r) PROVE Goal
    <3>1. UNCHANGED calls BY <2>9 DEF ReplayLoad, ReplayAbandoned, ReplayPost
    <3>. QED BY <1>6, <1>8, <3>1
  <2>10. ASSUME Ignores \/ Threadside \/ UNCHANGED vars PROVE Goal
    <3>1. outcome' = outcome
      BY <2>10 DEF Ignores, Threadside, ReceiveCancel, Take, Finish, FinishWithError, vars
    <3>. QED BY <1>6, <1>8, <3>1
  <2>11. ASSUME Hostside PROVE Goal
    BY <2>1, <2>2, <2>3, <2>4, <2>5, <2>6, <2>7, <2>8, <2>9, <2>10, <2>11 DEF Hostside
  <2>. QED BY <2>10, <2>11, StepCases
<1>. QED BY <1>7, <1>8

(* An update is asked with the text of its time.                           *)
LEMMA UpdatesCarryTextStep ==
  ASSUME TypeOK, IssuedInOrder, Lives, UpdatesCarryText, [Next]_vars
  PROVE  UpdatesCarryText'
<1>1. CASE ~IssueStep
  <2>1. requests' = requests BY <1>1, OtherSteps
  <2>. QED BY <2>1 DEF UpdatesCarryText, AsksUpdate
<1>2. CASE IssueStep
  <2>1. PICK c \in Call, op \in Operation : Issue(c, op) BY <1>2 DEF IssueStep
  <2>2. World(op) /\ requests' = [requests EXCEPT ![c] = RequestOf(op)] BY <2>1 DEF Issue
  <2>3. requests \in [Call -> RequestType \union {NoRequest}] BY DEF TypeOK
  <2>4. requests'[c] = RequestOf(op) /\ \A d \in Call : d # c => requests'[d] = requests[d]
    BY <2>2, <2>3
  <2>5. ASSUME RequestOf(op).kind = "updateFile"
        PROVE  RequestOf(op).contents[RequestOf(op).file] # 0
    <3>1. op.kind = "updateFile" /\ op.file \in File
      BY <2>5 DEF RequestOf, Operation, NamesAFile
    <3>2. clock' = clock + 1 /\ clock \in Nat BY <2>2, <3>1 DEF World, TypeOK
    <3>3. clock' # 0 BY <3>2
    <3>4. dirty \in [File -> 0..clock] /\ disk \in [File -> 0..clock] BY DEF TypeOK
    <3>5. /\ disk' = IF op.unsaved THEN disk ELSE [disk EXCEPT ![op.file] = clock']
          /\ dirty' = [dirty EXCEPT ![op.file] = IF op.unsaved THEN clock' ELSE 0]
      BY <2>2, <3>1 DEF World
    <3>6. Current'[op.file] # 0 BY <3>1, <3>3, <3>4, <3>5 DEF Current
    <3>7. RequestOf(op).contents = Only(op.file, Current') /\ RequestOf(op).file = op.file
      BY <3>1 DEF RequestOf
    <3>8. Only(op.file, Current')[op.file] = Current'[op.file] BY <3>1 DEF Only
    <3>. QED BY <3>6, <3>7, <3>8
  <2> DEFINE asked == requests'
  <2>6. \A d \in Call : asked[d].kind = "updateFile" => asked[d].contents[asked[d].file] # 0
    BY <2>4, <2>5 DEF UpdatesCarryText, AsksUpdate
  <2>. QED BY <2>6 DEF UpdatesCarryText, AsksUpdate
<1>. QED BY <1>1, <1>2

-----------------------------------------------------------------------------
(* The invariant: each part is preserved with the help of others.          *)
Inv == TypeOK /\ Lives /\ Requests /\ CallsInOrder /\ ToldFirst /\ Fresh /\ Known
       /\ Tracked /\ UpdatesCarryText

(* At the start no worker lives, nothing was asked and nothing is known.   *)
LEMMA InitInv == ASSUME Init PROVE Inv
<1> USE DEF Init
<1>1. /\ Held = {} /\ Answers = {} /\ DOMAIN runnable = {} /\ DOMAIN ready.waiters = {}
      /\ PendingCalls = {} /\ Outstanding = {}
  <2>1. DOMAIN runnable = {} /\ Elements(toClient) = {} /\ Elements(queued) = {} BY NothingIn
  <2>2. DOMAIN ready.waiters = {} BY NothingIn DEF NotReady
  <2>3. PendingCalls = {} BY DEF PendingCalls
  <2>. QED BY <2>1, <2>2, <2>3 DEF Held, Answers, Outstanding
<1>2. TypeOK
  <2>1. /\ nextId \in Nat \ {0} /\ worker \in Nat /\ spawned \in Nat
        /\ replays \subseteq LoaderType /\ files \subseteq File
    OBVIOUS
  <2>9. disposed \in BOOLEAN /\ initialized \in BOOLEAN /\ needsReplay \in BOOLEAN OBVIOUS
  <2>10. DOMAIN pending = {} /\ DOMAIN pendingByKey = {} OBVIOUS
  <2>2. ready \in [worker : Nat, waiters : Seq(Call)] BY DEF NotReady
  <2>3. unsavedFiles \in [File -> Nat] /\ workspaceOptions \in Nat BY DEF Empty
  <2>4. /\ requests \in [Call -> RequestType \union {NoRequest}] /\ attempt \in [Call -> 0..2]
        /\ outcome \in [Call -> {"idle", "called"} \union Settled]
    OBVIOUS
  <2>5. /\ runnable \in Seq(ContinuationType) /\ queued \in Seq(PostedType)
        /\ toClient \in Seq(AnswerType)
    OBVIOUS
  <2>6. /\ active \in PostedType \union {Idle}
        /\ cancelling \subseteq 1..nextId - 1 /\ cancelled \subseteq 1..nextId - 1
    OBVIOUS
  <2>7. engine \in EngineType BY DEF FreshEngine, Empty, EngineType
  <2>8. /\ disk \in [File -> 0..clock] /\ dirty \in [File -> 0..clock]
        /\ settings \in Nat /\ clock \in Nat
    BY DEF Empty
  <2>. QED BY <2>1, <2>2, <2>3, <2>4, <2>5, <2>6, <2>7, <2>8, <2>9, <2>10 DEF TypeOK
<1>3. Lives
  <2>1. WithoutWorker /\ WorkersAreNumbered /\ LoadersComeFirst
    BY <1>1 DEF WithoutWorker, WorkersAreNumbered, LoadersComeFirst
  <2>2. BarrierHolds BY DEF BarrierHolds, NotReady
  <2>3. ResolvedByCurrent BY <1>1 DEF ResolvedByCurrent
  <2>. QED BY <2>1, <2>2, <2>3 DEF Lives
<1>4. Requests
  <2>1. IssuedInOrder BY <1>1 DEF IssuedInOrder
  <2>2. IdsInOrder
    <3>1. DOMAIN queued = {} /\ DOMAIN toClient = {} BY NothingIn
    <3>2. active.id < nextId BY DEF Idle
    <3>. QED BY <1>1, <3>1, <3>2 DEF IdsInOrder
  <2>3. KeysAgree BY DEF KeysAgree, PendingByKeyExact
  <2>4. UnderWay
    BY <1>1 DEF UnderWay, PendingIsUnderWay, PendingIsAsAsked, CancelledIsGone, SupersededIsReplaced
  <2>. QED BY <2>1, <2>2, <2>3, <2>4 DEF Requests
<1>5. CallsInOrder BY <1>1 DEF CallsInOrder
<1>6. ToldFirst
  <2>1. HeldAreTold BY <1>1 DEF HeldAreTold
  <2>2. ResolvedAreTold BY <1>1 DEF ResolvedAreTold
  <2>. QED BY <1>1, <2>1, <2>2 DEF ToldFirst
<1>7. Fresh
  <2>1. \A c \in Call : requests[c] = NoRequest /\ outcome[c] = "idle" OBVIOUS
  <2>2. \A c : ~AsksUpdate(c) /\ ~Updated(c) BY <2>1 DEF AsksUpdate, Updated, NoRequest
  <2>. QED BY <1>1, <2>1, <2>2 DEF Fresh, ContentsInOrder, UpdatedIsCovered, PendingIsCovered
<1>8. Known
  <2>1. ~engine.ready BY DEF FreshEngine
  <2>. QED BY <2>1 DEF Known
<1>9. Tracked /\ UpdatesCarryText
  <2>1. \A c \in Call : requests[c] = NoRequest /\ outcome[c] = "idle" OBVIOUS
  <2>2. \A c : ~AsksUpdate(c) BY <2>1 DEF AsksUpdate, NoRequest
  <2>. QED BY <1>1, <2>1, <2>2 DEF Tracked, UpdatesCarryText
<1>. QED BY <1>2, <1>3, <1>4, <1>5, <1>6, <1>7, <1>8, <1>9 DEF Inv

(* Every step keeps the invariant.                                         *)
LEMMA StepInv == ASSUME Inv, [Next]_vars PROVE Inv'
<1>. USE DEF Inv
<1>1. TypeOK' BY TypeStep DEF Requests
<1>2. Lives' BY LivesStep DEF Requests
<1>3. Requests' BY RequestsStep
<1>4. CallsInOrder' BY CallsInOrderStep
<1>5. ToldFirst' BY ToldFirstStep
<1>6. Fresh'
  <2>1. ContentsInOrder' BY ContentsInOrderStep DEF Fresh, Requests
  <2>2. PendingIsCovered' BY PendingIsCoveredStep DEF Fresh
  <2>3. UpdatedIsCovered' BY UpdatedIsCoveredStep DEF Fresh
  <2>. QED BY <2>1, <2>2, <2>3 DEF Fresh
<1>7. Known' BY <1>1, KnownStep
<1>8. Tracked' BY TrackedStep
<1>9. UpdatesCarryText' BY UpdatesCarryTextStep DEF Requests
<1>. QED BY <1>1, <1>2, <1>3, <1>4, <1>5, <1>6, <1>7, <1>8, <1>9

(* The invariant holds of every behaviour.                                 *)
THEOREM InvHolds == Spec => []Inv
<1>1. Init => Inv BY InitInv
<1>2. Inv /\ [Next]_vars => Inv' BY StepInv
<1>. QED BY <1>1, <1>2, PTL DEF Spec

(* Every variable of the client, of the thread and of the world has its    *)
(* type: ids and versions are numbers, requests are well formed.           *)
THEOREM TypeCorrect == Spec => []TypeOK
<1>1. Inv => TypeOK BY DEF Inv
<1>. QED BY <1>1, InvHolds, PTL

(* pendingByKey and pending always agree: a key leads to the one request   *)
(* pending under it, so _supersede cancels no stranger and misses none.    *)
THEOREM KeysCorrect == Spec => []PendingByKeyExact
<1>1. Inv => PendingByKeyExact BY DEF Inv, Requests, KeysAgree
<1>. QED BY <1>1, InvHolds, PTL

(* While _ready waits for a replay nothing but the replay has been posted, *)
(* and a worker carries out nothing before it was told a workspace.        *)
THEOREM BarrierCorrect == Spec => []ReplayBarrier
<1>1. ASSUME Inv PROVE ReplayBarrier
  <2> USE <1>1 DEF Inv
  <2>1. ASSUME ready.worker # 0
        PROVE  worker = ready.worker /\ \A id \in DOMAIN pending : pending[id].call = Replay
    BY <2>1 DEF Lives, BarrierHolds, PendingCalls
  <2>2. ASSUME active # Idle, active.request.kind # "initializeWorkspace"
        PROVE  engine.ready \/ engine.initFailed
    <3>1. active \in Held BY <2>2 DEF Held
    <3>2. \A g \in Held : g.id =< active.id => g = active
      <4>1. \A g \in Held : g.id \in Nat /\ (g = active \/ active.id < g.id)
        BY <2>2, HeldApart DEF Requests
      <4>. QED BY <3>1, <4>1
    <3>3. ~IsInit(active.request) BY <2>2 DEF IsInit
    <3>. QED BY <3>1, <3>2, <3>3 DEF ToldFirst, HeldAreTold, Aware
  <2>. QED BY <2>1, <2>2 DEF ReplayBarrier
<1>. QED BY <1>1, InvHolds, PTL

(* At rest, the worker holds no content older than an update that was      *)
(* answered: superseding, retrying and replaying never go back.            *)
THEOREM FreshCorrect == Spec => []NoStaleContent
<1>1. ASSUME Inv PROVE NoStaleContent
  <2>1. ASSUME NEW c \in Call, outcome[c] = "ok", requests[c].kind = "updateFile", requests[c].admitted
        PROVE  Covers(engine.files, c)
    BY <1>1, <2>1 DEF Inv, Fresh, UpdatedIsCovered, Updated, AsksUpdate
  <2>. QED BY <2>1 DEF NoStaleContent, Covers
<1>. QED BY <1>1, InvHolds, PTL

(* At rest, what the worker analyses is what the client would replay to    *)
(* the next one: a crash makes no file and no setting disappear.           *)
THEOREM KnownCorrect == Spec => []NothingForgotten
<1>1. ASSUME Inv PROVE NothingForgotten
  <2>1. SUFFICES ASSUME Quiet, engine.ready
                 PROVE  /\ \A f \in Present(engine.files) : f \notin engine.rejected => f \in files
                        /\ NoFile \notin engine.rejected => engine.options = workspaceOptions
    BY DEF NothingForgotten
  <2>2. Answers = {} /\ Held = {}
    <3>1. Elements(queued) = {} /\ Elements(toClient) = {} BY <2>1, NothingIn DEF Quiet
    <3>. QED BY <2>1, <3>1 DEF Quiet, Held, Answers
  <2>3. /\ \A f \in Present(engine.files) \ engine.rejected : FileIsKnown(f)
        /\ NoFile \notin engine.rejected => OptionsAreKnown
    BY <1>1, <2>1 DEF Inv, Known
  <2>4. \A f : FileIsKnown(f) => f \in files BY <2>2 DEF FileIsKnown
  <2>5. OptionsAreKnown => engine.options = workspaceOptions BY <2>2 DEF OptionsAreKnown
  <2>. QED BY <2>3, <2>4, <2>5
<1>. QED BY <1>1, InvHolds, PTL

(* Every call not settled is in exactly one place that will settle it: due,*)
(* waiting for the replay, or pending; a settled one is in none.  No       *)
(* promise of the client is forgotten, and none is gone on with twice.     *)
THEOREM CallsAreTracked == Spec => []EveryCallTracked
<1>1. ASSUME Inv PROVE EveryCallTracked
  <2>1. SUFFICES ASSUME NEW c \in Call PROVE Tracks(c) = IF outcome[c] = "called" THEN 1 ELSE 0
    BY DEF EveryCallTracked
  <2> DEFINE Due == {i \in DOMAIN runnable : runnable[i].call = c}
             Waiting == {i \in DOMAIN ready.waiters : ready.waiters[i] = c}
             Asking == {id \in DOMAIN pending : pending[id].call = c}
  <2>2. Asking = {id \in PendingCalls : pending[id].call = c} BY CallsAreNoReplay DEF PendingCalls
  <2>3. outcome[c] = "called" <=> Due # {} \/ Waiting # {} \/ Asking # {}
    BY <1>1, <2>2 DEF Inv, Tracked, Outstanding
  <2>4. /\ \A i, j \in Due : i = j
        /\ \A i, j \in Waiting : i = j
        /\ \A i, j \in Asking : i = j
        /\ Due # {} => Waiting = {} /\ Asking = {}
        /\ Waiting # {} => Asking = {}
    BY <1>1, <2>2, OnePlace DEF Inv
  <2>5. Tracks(c) = Cardinality(Due) + Cardinality(Waiting) + Cardinality(Asking) BY DEF Tracks
  <2> HIDE DEF Due, Waiting, Asking
  <2>6. ASSUME NEW S, \A i, j \in S : i = j PROVE Cardinality(S) = IF S = {} THEN 0 ELSE 1
    <3>1. CASE S = {} BY <3>1, FS_EmptySet
    <3>2. ASSUME NEW x \in S PROVE Cardinality(S) = 1
      <4>1. S = {x} BY <2>6, <3>2
      <4>. QED BY <4>1, FS_Singleton
    <3>. QED BY <3>1, <3>2
  <2>7. /\ Cardinality(Due) = IF Due = {} THEN 0 ELSE 1
        /\ Cardinality(Waiting) = IF Waiting = {} THEN 0 ELSE 1
        /\ Cardinality(Asking) = IF Asking = {} THEN 0 ELSE 1
    BY <2>4, <2>6
  <2>. QED BY <2>3, <2>4, <2>5, <2>7
<1>. QED BY <1>1, InvHolds, PTL

(* The files the client would replay grow only by the answer to a call     *)
(* that names them: a loader of _materializeReplayFiles that outlived its  *)
(* worker brings back nothing that was removed meanwhile.                  *)
THEOREM FilesGrowCorrect == Spec => FilesGrowByAnswersOnly
<1> USE DEF client, calls, thread, world
<1> DEFINE Grows == \A f \in files' \ files :
                       \E c \in Call : /\ outcome[c] = "called" /\ outcome'[c] = "ok"
                                       /\ requests[c].contents[f] /= 0
<1>1. ASSUME Inv, [Next]_vars PROVE [Grows]_vars
  <2>1. TypeOK /\ Lives /\ IssuedInOrder BY <1>1 DEF Inv, Requests
  <2>2. CASE files' \subseteq files BY <2>2
  <2>3. ASSUME NEW m, NEW c, LearnsFrom(m, c) PROVE Grows
    <3>1. c \in Call /\ requests[c] \in RequestType BY <2>1, <2>3, LearnsTyped
    <3>2. c \in Outstanding BY <2>3 DEF LearnsFrom, Outstanding
    <3>3. outcome[c] = "called" BY <1>1, <3>1, <3>2 DEF Inv, Tracked
    <3>4. outcome \in [Call -> {"idle", "called"} \union Settled] BY <2>1 DEF TypeOK
    <3>5. CASE ~m.ok BY <2>3, <3>5 DEF LearnsFrom, AnswerCall
    <3>6. CASE m.ok
      <4>1. outcome' = [outcome EXCEPT ![c] = IF m.ok THEN "ok" ELSE "ANALYSIS_ERROR"]
            /\ files' = FilesAfter(requests[c], m)
        BY <2>3, <3>6 DEF LearnsFrom, AnswerCall, Learn
      <4>2. outcome'[c] = "ok" BY <3>1, <3>4, <3>6, <4>1
      <4>3. ASSUME NEW f \in files' \ files PROVE requests[c].contents[f] # 0
        <5>1. CASE IsInit(requests[c])
          BY <4>1, <4>3, <5>1 DEF FilesAfter, IsInit, Present
        <5>2. CASE requests[c].kind = "updateFile"
          <6>1. f = requests[c].file BY <4>1, <4>3, <5>2 DEF FilesAfter
          <6>2. requests[c].contents[requests[c].file] # 0
            BY <1>1, <3>1, <5>2 DEF Inv, UpdatesCarryText, AsksUpdate
          <6>. QED BY <6>1, <6>2
        <5>3. CASE ~IsInit(requests[c]) /\ requests[c].kind # "updateFile"
          BY <4>1, <4>3, <5>3 DEF FilesAfter, IsInit
        <5>. QED BY <5>1, <5>2, <5>3
      <4>. QED BY <3>1, <3>3, <4>2, <4>3
    <3>. QED BY <3>5, <3>6
  <2>4. ASSUME NEW r \in replays, ReplayLoad(r) PROVE files' \subseteq files
    <3>1. r.todo \subseteq files BY <2>1, <2>4 DEF ReplayLoad, LoaderOf, Lives, LoadersComeFirst
    <3>2. PICK f \in r.todo : files' = files \ {f} \/ files' = files \union {f}
      BY <2>4 DEF ReplayLoad
    <3>. QED BY <3>1, <3>2
  <2>. QED BY <1>1, <2>1, <2>2, <2>3, <2>4, KnowledgeStays
<1>. QED BY <1>1, InvHolds, PTL DEF Spec, FilesGrowByAnswersOnly

(* After dispose no worker lives and none is spawned, nothing is pending   *)
(* and nothing waits -- whatever was due, loading or on its way then.      *)
THEOREM DisposedCorrect == Spec => DisposedIsFinal
<1> USE DEF client, calls, thread, world
<1> DEFINE Stays == disposed => /\ disposed' /\ worker' = 0 /\ spawned' = spawned
                                /\ DOMAIN pending' = {} /\ ready' = NotReady
<1>1. ASSUME Inv, Inv', [Next]_vars PROVE [Stays]_vars
  <2>1. SUFFICES ASSUME disposed PROVE disposed' /\ spawned' = spawned
    BY <1>1, <2>1 DEF Inv, Lives, WithoutWorker, WorkersAreNumbered
  <2>2. TypeOK /\ Lives BY <1>1 DEF Inv
  <2>3. ASSUME NEW c \in Call, NEW op \in Operation, Issue(c, op), AnswersAtOnce(c, op) \/ GoesAway(c, op)
        PROVE  disposed' /\ spawned' = spawned
    <3>1. AnswersAtOnce(c, op) BY <2>1, <2>2, <2>3, IssueJoins
    <3>. QED BY <2>1, <2>3, <3>1 DEF Issue, AnswersAtOnce
  <2>4. ASSUME NEW c, Posts(c) \/ PostsTooLate(c) \/ Retries(c) \/ GivesUp(c)
        PROVE  disposed' /\ spawned' = spawned
    BY <2>1, <2>4 DEF Posts, PostsTooLate, Retries, GivesUp
  <2>5. ASSUME NEW error \in Errors, Loses(error) PROVE disposed' /\ spawned' = spawned
    BY <2>1, <2>5 DEF Loses, LoseWorker
  <2>6. ASSUME NEW r \in replays, ReplayLoad(r) \/ ReplayAbandoned(r) \/ ReplayPost(r)
        PROVE  disposed' /\ spawned' = spawned
    BY <2>1, <2>6 DEF ReplayLoad, ReplayAbandoned, ReplayPost
  <2>7. ASSUME NEW m, EndsReplay(m) \/ \E c : LearnsFrom(m, c) PROVE disposed' /\ spawned' = spawned
    BY <2>1, <2>7 DEF EndsReplay, AnswerReplay, LearnsFrom, AnswerCall
  <2>8. ASSUME Ignores \/ Threadside \/ UNCHANGED vars PROVE disposed' /\ spawned' = spawned
    BY <2>1, <2>8 DEF Ignores, Threadside, ReceiveCancel, Take, Finish, FinishWithError, vars
  <2>9. ASSUME Hostside PROVE disposed' /\ spawned' = spawned
    BY <2>3, <2>4, <2>5, <2>6, <2>7, <2>8, <2>9 DEF Hostside
  <2>. QED BY <1>1, <2>8, <2>9, StepCases
<1>. QED BY <1>1, InvHolds, PTL DEF Spec, DisposedIsFinal
=============================================================================
