------------------------ MODULE DataflowWorkerClient ------------------------
(***************************************************************************)
(* The protocol between the extension host and the analysis thread:        *)
(* src/src/dataflow/worker-client.js on one side, the message loop of      *)
(* src/src/dataflow/worker.js on the other.                                *)
(*                                                                         *)
(* A call of the client becomes a request to the current worker; a worker  *)
(* that crashed, timed out or was cancelled is replaced, and the new one   *)
(* is first told the whole workspace again (the replay) while every other  *)
(* call waits.  A request supersedes the pending one of its cancel key.    *)
(*                                                                         *)
(* One step is one macrotask of the host's event loop, or one promise      *)
(* continuation: those wait in `runnable`, in order, and everything else   *)
(* waits for it to be empty, as the event loop does.                       *)
(*                                                                         *)
(* File contents are version numbers, 0 for an absent file; options too.   *)
(***************************************************************************)
EXTENDS Integers, Sequences, FiniteSets

CONSTANTS
    File,         \* normalised paths
    Call,         \* the calls the host makes, in this order: 1..N
    Ops,          \* [Call -> set of operations that call may be]
    FailingKinds, \* requests the analysis may answer with an error
    MaxLosses     \* bound: only the first MaxLosses workers crash or are cancelled

ASSUME CallsAreNumbered == Call = 1..Cardinality(Call) /\ IsFiniteSet(Call)

Kinds == {"initializeWorkspace", "updateFile", "removeFile", "query", "configure"}
NoFile == "no file"
NoKey == <<"none", NoFile>>
Replay == 0               \* the client's own initializeWorkspace

ASSUME NoFileIsNoFile == NoFile \notin File
ASSUME LossesAreBounded == MaxLosses \in Nat

(* What a call asks for: an update or a removal names a file.  An update   *)
(* may carry unsaved editor text, and a source the engine does not admit   *)
(* (too large, too complex).                                               *)
NamesAFile(request) == request.kind \in {"updateFile", "removeFile"} => request.file \in File

Operation == {op \in [kind : Kinds, file : File \union {NoFile},
                      unsaved : BOOLEAN, admitted : BOOLEAN] : NamesAFile(op)}
ASSUME OpsAreOperations == Ops \in [Call -> SUBSET Operation]

RetriableErrors == {"WORKER_EXIT"}
Errors == {"SUPERSEDED", "WORKER_TIMEOUT", "WORKER_CANCELLED", "WORKER_DISPOSED",
           "WORKER_EXIT", "ANALYSIS_ERROR"}
Settled == {"ok"} \union Errors

VARIABLES
    \* the client
    nextId, pending, pendingByKey, worker, spawned, ready, replays,
    disposed, initialized, needsReplay, files, unsavedFiles, workspaceOptions,
    \* the calls and the promise continuations due
    requests, outcome, attempt, runnable,
    \* the worker thread and the channel back
    queued, active, cancelling, cancelled, engine, toClient,
    \* the disk, the unsaved editor texts, the settings; a clock for versions
    disk, dirty, settings, clock

client == <<nextId, pending, pendingByKey, worker, spawned, ready, replays, disposed,
            initialized, needsReplay, files, unsavedFiles, workspaceOptions>>
calls == <<requests, outcome, attempt, runnable>>
thread == <<queued, active, cancelling, cancelled, engine, toClient>>
world == <<disk, dirty, settings, clock>>
vars == <<client, calls, thread, world>>

Empty == [f \in File |-> 0]
NoRequest == [kind |-> "none"]
NotReady == [worker |-> 0, waiters |-> <<>>]
Idle == [id |-> 0]
FreshEngine == [ready |-> FALSE, initFailed |-> FALSE, files |-> Empty, options |-> 0,
                rejected |-> {}]

Present(contents) == {f \in File : contents[f] /= 0}

(* What the editor or else the disk holds.                                 *)
Current == [f \in File |-> IF dirty[f] /= 0 THEN dirty[f] ELSE disk[f]]

CancelKey(request) ==
    CASE request.kind = "initializeWorkspace" -> NoKey
      [] request.kind = "updateFile" -> <<"update", request.file>>
      [] request.kind = "removeFile" -> <<"remove", request.file>>
      [] request.kind = "query" -> <<"query", NoFile>>
      [] request.kind = "configure" -> <<"configure", NoFile>>
-----------------------------------------------------------------------------
Init ==
    /\ nextId = 1
    /\ pending = [id \in {} |-> Idle]
    /\ pendingByKey = [key \in {} |-> 0]
    /\ worker = 0 /\ spawned = 0
    /\ ready = NotReady /\ replays = {}
    /\ disposed = FALSE /\ initialized = FALSE /\ needsReplay = FALSE
    /\ files = {} /\ unsavedFiles = Empty /\ workspaceOptions = 0
    /\ requests = [c \in Call |-> NoRequest]
    /\ outcome = [c \in Call |-> "idle"]
    /\ attempt = [c \in Call |-> 0]
    /\ runnable = <<>>
    /\ queued = <<>> /\ active = Idle /\ cancelling = {} /\ cancelled = {}
    /\ engine = FreshEngine
    /\ toClient = <<>>
    /\ disk \in {d \in [File -> {0, 1}] : \E f \in File : d[f] = 1}
    /\ dirty = Empty /\ settings = 1 /\ clock = 1
-----------------------------------------------------------------------------
(* Continuations: what a call's _ensureReady, or its request, came to.     *)
ResolvedWith(c, w) == [call |-> c, worker |-> w, error |-> "none"]
RejectedWith(c, error) == [call |-> c, worker |-> 0, error |-> error]

(* _ensureReady, up to its first await: wait for a replay under way, else  *)
(* go on with the worker there is, else spawn one -- and replay, unless    *)
(* the call is itself an initializeWorkspace.                              *)

(* As if a spawned worker were ready: the replay is not waited for.        *)
BarrierDown == FALSE

BarrierUp == ready.worker /= 0

(* c awaits its worker; `due` are the continuations due, `replay` is       *)
(* needsReplay as c sees it.                                               *)
EnsureReady(c, kind, replay, due) ==
    \/ /\ BarrierUp
       /\ ready' = [ready EXCEPT !.waiters = Append(@, c)]
       /\ runnable' = due
       /\ UNCHANGED <<worker, spawned, replays, engine>>
    \/ /\ ~BarrierUp /\ worker /= 0
       /\ runnable' = Append(due, ResolvedWith(c, worker))
       /\ UNCHANGED <<worker, spawned, ready, replays, engine>>
    \/ /\ ~BarrierUp /\ worker = 0
       /\ spawned' = spawned + 1
       /\ worker' = spawned + 1
       /\ engine' = FreshEngine
       /\ IF replay /\ kind /= "initializeWorkspace"
          THEN /\ ready' = [worker |-> spawned + 1, waiters |-> <<c>>]
               /\ replays' = replays \union {[worker |-> spawned + 1, todo |-> files,
                                              contents |-> Empty]}
               /\ runnable' = due
          ELSE /\ runnable' = Append(due, ResolvedWith(c, spawned + 1))
               /\ UNCHANGED <<ready, replays>>

-----------------------------------------------------------------------------
(* The calls.  Each first changes the world it reports: the saved file,    *)
(* the editor's text, the deletion, the settings.                          *)

World(op) ==
    CASE op.kind = "updateFile" ->
           /\ clock' = clock + 1
           /\ disk' = IF op.unsaved THEN disk ELSE [disk EXCEPT ![op.file] = clock']
           /\ dirty' = [dirty EXCEPT ![op.file] = IF op.unsaved THEN clock' ELSE 0]
           /\ UNCHANGED settings
      [] op.kind = "removeFile" ->
           /\ disk' = [disk EXCEPT ![op.file] = 0]
           /\ dirty' = [dirty EXCEPT ![op.file] = 0]
           /\ UNCHANGED <<settings, clock>>
      [] op.kind = "configure" ->
           /\ clock' = clock + 1
           /\ settings' = clock'
           /\ UNCHANGED <<disk, dirty>>
      [] OTHER -> UNCHANGED world

Only(f, contents) == [g \in File |-> IF g = f THEN contents[g] ELSE 0]

(* The request of a call: an update before the first initializeWorkspace   *)
(* becomes an initializeWorkspace of that one file.                        *)
RequestOf(op) ==
    [kind |-> IF op.kind = "updateFile" /\ ~initialized THEN "initializeWorkspace" ELSE op.kind,
     file |-> op.file,
     admitted |-> op.kind /= "updateFile" \/ op.admitted,
     contents |-> IF op.kind = "updateFile" THEN Only(op.file, Current') ELSE Current',
     unsaved |-> {f \in File : dirty'[f] /= 0},
     options |-> settings']

(* Before the workspace is initialised the other calls answer at once.     *)
AnsweredLocally(op) ==
    ~initialized /\ op.kind \in {"removeFile", "query", "configure"}

Refused(op) == disposed /\ ~AnsweredLocally(op)

Issue(c, op) ==
    /\ runnable = <<>>
    /\ outcome[c] = "idle" /\ \A d \in Call : d < c => outcome[d] /= "idle"
    /\ World(op)
    /\ requests' = [requests EXCEPT ![c] = RequestOf(op)]
    /\ UNCHANGED <<nextId, pending, pendingByKey, disposed, initialized, needsReplay,
                   files, unsavedFiles, queued, active, cancelling, cancelled, toClient>>
    /\ \/ /\ AnsweredLocally(op) \/ Refused(op)
          /\ outcome' = [outcome EXCEPT ![c] =
                            IF AnsweredLocally(op) THEN "ok" ELSE "WORKER_DISPOSED"]
          /\ workspaceOptions' = IF AnsweredLocally(op) /\ op.kind = "configure"
                                 THEN settings' ELSE workspaceOptions
          /\ UNCHANGED <<worker, spawned, ready, replays, attempt, runnable, engine>>
       \/ /\ ~AnsweredLocally(op) /\ ~Refused(op)
          /\ outcome' = [outcome EXCEPT ![c] = "called"]
          /\ attempt' = [attempt EXCEPT ![c] = 1]
          /\ EnsureReady(c, requests'[c].kind, needsReplay, runnable)
          /\ UNCHANGED workspaceOptions

-----------------------------------------------------------------------------
(* Posting and finishing requests.                                         *)

WithoutId(id) == [i \in DOMAIN pending \ {id} |-> pending[i]]

(* _finishRequest: the key is freed only if it is still this request's.    *)
KeysWithout(id, keys) ==
    [k \in {k \in DOMAIN keys : keys[k] /= id} |-> keys[k]]

(* The continuation of c after _ensureReady: _post, or its rejection when  *)
(* the worker is no longer the current one.  A pending request with the    *)
(* same key is superseded first.                                           *)
Post ==
    /\ runnable /= <<>> /\ Head(runnable).error = "none"
    /\ LET c == Head(runnable).call
           key == CancelKey(requests[c])
           old == IF key \in DOMAIN pendingByKey THEN pendingByKey[key] ELSE 0
           superseded == old \in DOMAIN pending
       IN  IF disposed \/ Head(runnable).worker /= worker
           THEN /\ outcome' = [outcome EXCEPT ![c] =
                                  IF disposed THEN "WORKER_DISPOSED" ELSE "WORKER_CANCELLED"]
                /\ UNCHANGED <<nextId, pending, pendingByKey, queued, cancelling>>
           ELSE /\ outcome' = IF superseded
                              THEN [outcome EXCEPT ![pending[old].call] = "SUPERSEDED"]
                              ELSE outcome
                /\ cancelling' = IF superseded THEN cancelling \union {old} ELSE cancelling
                /\ pending' = [id \in (DOMAIN pending \ {old}) \union {nextId} |->
                                 IF id = nextId THEN [call |-> c, key |-> key] ELSE pending[id]]
                /\ pendingByKey' = IF key = NoKey THEN pendingByKey
                                   ELSE [k \in DOMAIN pendingByKey \union {key} |->
                                           IF k = key THEN nextId ELSE pendingByKey[k]]
                /\ queued' = Append(queued, [id |-> nextId, request |-> requests[c]])
                /\ nextId' = nextId + 1
    /\ runnable' = Tail(runnable)
    /\ UNCHANGED <<worker, spawned, ready, replays, disposed, initialized, needsReplay,
                   files, unsavedFiles, workspaceOptions, requests, attempt,
                   active, cancelled, engine, toClient, world>>

(* The catch of _request: one retry, after a crash only.                   *)
Catch ==
    /\ runnable /= <<>> /\ Head(runnable).error /= "none"
    /\ LET c == Head(runnable).call
           kind == requests[c].kind
       IN  IF attempt[c] = 1 /\ ~disposed /\ Head(runnable).error \in RetriableErrors
           THEN /\ attempt' = [attempt EXCEPT ![c] = 2]
                /\ needsReplay' = (initialized /\ kind /= "initializeWorkspace")
                /\ EnsureReady(c, kind, needsReplay', Tail(runnable))
                /\ UNCHANGED outcome
           ELSE /\ outcome' = [outcome EXCEPT ![c] = Head(runnable).error]
                /\ runnable' = Tail(runnable)
                /\ UNCHANGED <<attempt, needsReplay, worker, spawned, ready, replays, engine>>
    /\ UNCHANGED <<nextId, pending, pendingByKey, disposed, initialized, files, unsavedFiles,
                   workspaceOptions, requests, queued, active, cancelling, cancelled,
                   toClient, world>>

(* The ids of S in the order of a Map, the oldest first.  (Or the newest.) *)
NewestFirst(S) ==
    {ids \in [1..Cardinality(S) -> S] :
        /\ \A id \in S : \E i \in DOMAIN ids : ids[i] = id
        /\ \A i, j \in DOMAIN ids : i < j => ids[i] > ids[j]}

InOrder(S) ==
    {ids \in [1..Cardinality(S) -> S] :
        /\ \A id \in S : \E i \in DOMAIN ids : ids[i] = id
        /\ \A i, j \in DOMAIN ids : i < j => ids[i] < ids[j]}

PendingCalls == {id \in DOMAIN pending : pending[id].call /= Replay}

(* The end of the current worker: the waiters of a replay under way and    *)
(* the pending requests are rejected with `error`, in order; what it had   *)
(* already sent may still arrive.                                          *)
RejectedBy(error, ids) ==
    [i \in 1..Len(ready.waiters) |-> RejectedWith(ready.waiters[i], error)] \o
    [i \in 1..Len(ids) |-> RejectedWith(pending[ids[i]].call, error)]

LoseWorker(error) ==
    /\ worker' = 0
    /\ ready' = NotReady
    /\ \E ids \in InOrder(PendingCalls) : runnable' = runnable \o RejectedBy(error, ids)
    /\ pending' = [id \in {} |-> Idle]
    /\ pendingByKey' = [key \in {} |-> 0]
    /\ queued' = <<>> /\ active' = Idle /\ cancelling' = {} /\ cancelled' = {}
    /\ engine' = FreshEngine
    /\ UNCHANGED <<toClient, nextId, spawned, initialized, files, unsavedFiles, workspaceOptions,
                   requests, outcome, attempt, world>>

(* _fail of the current worker.                                            *)
Fail(error) ==
    /\ needsReplay' = initialized
    /\ LoseWorker(error)
    /\ UNCHANGED disposed

Crash ==
    /\ runnable = <<>> /\ worker \in 1..MaxLosses
    /\ Fail("WORKER_EXIT")
    /\ UNCHANGED replays

(* Every posted request arms a timer, the replay's as any other.           *)
TimedCallsOnly == PendingCalls

Timed == DOMAIN pending

Timeout ==
    /\ runnable = <<>> /\ Timed /= {}
    /\ Fail("WORKER_TIMEOUT")
    /\ UNCHANGED replays

CancelActive ==
    /\ runnable = <<>> /\ worker \in 1..MaxLosses
    /\ Fail("WORKER_CANCELLED")
    /\ UNCHANGED replays

Dispose ==
    /\ runnable = <<>> /\ ~disposed
    /\ disposed' = TRUE
    /\ LoseWorker("WORKER_DISPOSED")
    /\ UNCHANGED <<needsReplay, replays>>

-----------------------------------------------------------------------------
(* The replay: _materializeReplayFiles awaits the loader once per file,    *)
(* and looks after each whether its worker is still the current one.       *)

LoaderOf(r) == r.worker = worker /\ ~disposed

ReplayLoad(r) ==
    /\ runnable = <<>> /\ LoaderOf(r)
    /\ \E f \in r.todo :
         LET text == IF unsavedFiles[f] /= 0 THEN unsavedFiles[f] ELSE Current[f]
         IN  /\ replays' = (replays \ {r}) \union
                  {[r EXCEPT !.todo = @ \ {f}, !.contents[f] = text]}
             /\ files' = IF text = 0 THEN files \ {f} ELSE files \union {f}
             /\ unsavedFiles' = IF text = 0 THEN [unsavedFiles EXCEPT ![f] = 0] ELSE unsavedFiles
    /\ UNCHANGED <<nextId, pending, pendingByKey, worker, spawned, ready, disposed,
                   initialized, needsReplay, workspaceOptions, calls, thread, world>>

(* The loader fails: the worker is given up.                               *)
ReplayLoadFails(r) ==
    /\ runnable = <<>> /\ LoaderOf(r) /\ r.todo /= {}
    /\ Fail("ANALYSIS_ERROR")
    /\ replays' = replays \ {r}

(* A loader that outlived its worker finds out and stops.                  *)
ReplayAbandoned(r) ==
    /\ runnable = <<>> /\ ~LoaderOf(r)
    /\ replays' = replays \ {r}
    /\ UNCHANGED <<nextId, pending, pendingByKey, worker, spawned, ready, disposed,
                   initialized, needsReplay, files, unsavedFiles, workspaceOptions,
                   calls, thread, world>>

ReplayPost(r) ==
    /\ runnable = <<>> /\ LoaderOf(r) /\ r.todo = {}
    /\ replays' = replays \ {r}
    /\ pending' = [id \in DOMAIN pending \union {nextId} |->
                     IF id = nextId THEN [call |-> Replay, key |-> NoKey] ELSE pending[id]]
    /\ queued' = Append(queued, [id |-> nextId, request |->
                     [kind |-> "initializeWorkspace", file |-> NoFile, admitted |-> TRUE,
                      contents |-> r.contents, unsaved |-> Present(unsavedFiles),
                      options |-> workspaceOptions]])
    /\ nextId' = nextId + 1
    /\ UNCHANGED <<pendingByKey, worker, spawned, ready, disposed, initialized, needsReplay,
                   files, unsavedFiles, workspaceOptions, calls,
                   active, cancelling, cancelled, engine, toClient, world>>

-----------------------------------------------------------------------------
(* Answers.                                                                *)

(* What the client records of a request answered with m: the files it      *)
(* would replay, and the unsaved texts it would replay them with.  (The    *)
(* mutant learns files from an initializeWorkspace alone.)                 *)
FilesOfTheIndexOnly(request, m) ==
    IF request.kind = "initializeWorkspace" THEN Present(request.contents) ELSE files

FilesAfter(request, m) ==
    CASE request.kind = "initializeWorkspace" ->
           IF request.admitted THEN Present(request.contents) ELSE {}
      [] request.kind = "updateFile" /\ request.admitted -> files \union {request.file}
      [] request.kind = "updateFile" /\ ~request.admitted -> files \ {request.file}
      [] request.kind = "removeFile" /\ m.removed -> files \ {request.file}
      [] OTHER -> files

UnsavedAfter(request, m) ==
    LET Text(f) == IF request.admitted /\ f \in request.unsaved THEN request.contents[f] ELSE 0
    IN  CASE request.kind = "initializeWorkspace" -> [f \in File |-> Text(f)]
          [] request.kind = "updateFile" ->
               [unsavedFiles EXCEPT ![request.file] = Text(request.file)]
          [] request.kind = "removeFile" /\ m.removed ->
               [unsavedFiles EXCEPT ![request.file] = 0]
          [] OTHER -> unsavedFiles

Learn(request, m) ==
    /\ files' = FilesAfter(request, m)
    /\ unsavedFiles' = UnsavedAfter(request, m)
    /\ workspaceOptions' = IF request.kind \in {"initializeWorkspace", "configure"}
                           THEN request.options ELSE workspaceOptions
    /\ IF request.kind = "initializeWorkspace"
       THEN initialized' = TRUE /\ needsReplay' = FALSE
       ELSE UNCHANGED <<initialized, needsReplay>>

(* The answer to a call.                                                   *)
AnswerCall(m, c) ==
    /\ pending' = WithoutId(m.id)
    /\ pendingByKey' = KeysWithout(m.id, pendingByKey)
    /\ outcome' = [outcome EXCEPT ![c] = IF m.ok THEN "ok" ELSE "ANALYSIS_ERROR"]
    /\ IF m.ok THEN Learn(requests[c], m)
               ELSE UNCHANGED <<files, unsavedFiles, workspaceOptions, initialized, needsReplay>>
    /\ toClient' = Tail(toClient)
    /\ UNCHANGED <<nextId, worker, spawned, ready, replays, disposed, requests, attempt,
                   runnable, queued, active, cancelling, cancelled, engine, world>>

(* The replay is done: the barrier falls and the waiters go on, in order.  *)
AnswerReplay(m) ==
    /\ pending' = WithoutId(m.id)
    /\ needsReplay' = FALSE
    /\ ready' = NotReady
    /\ runnable' = [i \in 1..Len(ready.waiters) |-> ResolvedWith(ready.waiters[i], worker)]
    /\ toClient' = Tail(toClient)
    /\ UNCHANGED <<nextId, pendingByKey, worker, spawned, replays, disposed, initialized,
                   files, unsavedFiles, workspaceOptions, requests, outcome, attempt,
                   queued, active, cancelling, cancelled, engine, world>>

(* The message handler looks the request up by its id: an answer nobody    *)
(* waits for any more is dropped.                                          *)
Deliver ==
    /\ runnable = <<>> /\ toClient /= <<>>
    /\ LET m == Head(toClient)
       IN  \/ /\ m.id \notin DOMAIN pending
              /\ toClient' = Tail(toClient)
              /\ UNCHANGED <<client, calls, queued, active, cancelling, cancelled, engine, world>>
           \/ /\ m.id \in DOMAIN pending /\ pending[m.id].call /= Replay
              /\ AnswerCall(m, pending[m.id].call)
           \/ /\ m.id \in DOMAIN pending /\ pending[m.id].call = Replay /\ m.ok
              /\ AnswerReplay(m)
           \/ /\ m.id \in DOMAIN pending /\ pending[m.id].call = Replay /\ ~m.ok
              /\ Fail("ANALYSIS_ERROR")
              /\ UNCHANGED replays

-----------------------------------------------------------------------------
(* The worker thread: one request at a time, in order.                     *)

ReceiveCancel(id) ==
    /\ cancelling' = cancelling \ {id}
    /\ cancelled' = IF active.id = id \/ \E i \in DOMAIN queued : queued[i].id = id
                    THEN cancelled \union {id} ELSE cancelled
    /\ UNCHANGED <<client, calls, queued, active, engine, toClient, world>>

Take ==
    /\ active = Idle /\ queued /= <<>>
    /\ queued' = Tail(queued)
    /\ IF Head(queued).id \in cancelled
       THEN /\ cancelled' = cancelled \ {Head(queued).id}
            /\ UNCHANGED active
       ELSE /\ active' = Head(queued)
            /\ UNCHANGED cancelled
    /\ UNCHANGED <<client, calls, cancelling, engine, toClient, world>>

(* What the engine holds once it has carried out a request.                *)
Analysed(request) ==
    CASE request.kind = "initializeWorkspace" ->
           [FreshEngine EXCEPT !.ready = TRUE, !.options = request.options,
                !.files = IF request.admitted THEN request.contents ELSE Empty]
      [] request.kind = "updateFile" ->
           [engine EXCEPT !.files[request.file] =
                IF request.admitted THEN request.contents[request.file] ELSE 0]
      [] request.kind = "removeFile" -> [engine EXCEPT !.files[request.file] = 0]
      [] request.kind = "configure" -> [engine EXCEPT !.options = request.options]
      [] request.kind = "query" -> engine

(* An answer is held back if the request was cancelled meanwhile.          *)
Finish ==
    /\ active /= Idle
    /\ engine' = Analysed(active.request)
    /\ IF active.id \in cancelled
       THEN /\ cancelled' = cancelled \ {active.id}
            /\ UNCHANGED toClient
       ELSE /\ toClient' = Append(toClient, [id |-> active.id, ok |-> TRUE,
                 removed |-> active.request.kind = "removeFile" /\
                             engine.files[active.request.file] /= 0])
            /\ UNCHANGED cancelled
    /\ active' = Idle
    /\ UNCHANGED <<client, calls, queued, cancelling, world>>

(* What an analysis that throws may leave unlike what its answer says: a   *)
(* file, or the options (no file's).                                       *)
LeftUncertain(request) ==
    CASE request.kind = "query" -> {}
      [] request.kind = "configure" -> {NoFile}
      [] OTHER -> {request.file}

(* An analysis that throws: the engine is left as it was, or as far as it  *)
(* got; an initializeWorkspace has dropped everything first.  Errors are   *)
(* posted whether or not the request was cancelled.                        *)
FinishWithError ==
    /\ active /= Idle /\ active.request.kind \in FailingKinds
    /\ engine' \in
         IF active.request.kind = "initializeWorkspace"
         THEN {[FreshEngine EXCEPT !.initFailed = TRUE, !.options = active.request.options]}
         ELSE {[e EXCEPT !.rejected = @ \union LeftUncertain(active.request)] :
                  e \in {engine, Analysed(active.request)}}
    /\ toClient' = Append(toClient, [id |-> active.id, ok |-> FALSE, removed |-> FALSE])
    /\ active' = Idle
    /\ UNCHANGED <<client, calls, queued, cancelling, cancelled, world>>

Next ==
    \/ \E c \in Call : \E op \in Ops[c] : Issue(c, op)
    \/ Post \/ Catch
    \/ Crash \/ Timeout \/ CancelActive \/ Dispose
    \/ \E r \in replays :
          ReplayLoad(r) \/ ReplayLoadFails(r) \/ ReplayAbandoned(r) \/ ReplayPost(r)
    \/ Deliver
    \/ \E id \in cancelling : ReceiveCancel(id)
    \/ Take \/ Finish \/ FinishWithError

Spec == Init /\ [][Next]_vars

(* The host's event loop runs what is due, file reads end, and armed       *)
(* timers fire.  Nothing is assumed of the worker: it may hang for ever.   *)
Fairness ==
    /\ WF_vars(Post) /\ WF_vars(Catch)
    /\ WF_vars(\E r \in replays : ReplayLoad(r) \/ ReplayAbandoned(r) \/ ReplayPost(r))
    /\ WF_vars(Timeout)

FairSpec == Spec /\ Fairness
-----------------------------------------------------------------------------
(* A request as a call makes it, and as it is posted.                      *)
RequestType ==
    {r \in [kind : Kinds, file : File \union {NoFile}, admitted : BOOLEAN,
            contents : [File -> Nat], unsaved : SUBSET File, options : Nat] : NamesAFile(r)}
PostedType == [id : Nat \ {0}, request : RequestType]
AnswerType == [id : Nat \ {0}, ok : BOOLEAN, removed : BOOLEAN]

PendingType == [call : Call \union {Replay},
                key : {"none", "update", "remove", "query", "configure"} \X (File \union {NoFile})]
ContinuationType == [call : Call, worker : Nat, error : Errors \union {"none"}]
LoaderType == [worker : Nat \ {0}, todo : SUBSET File, contents : [File -> Nat]]
EngineType == [ready : BOOLEAN, initFailed : BOOLEAN, files : [File -> Nat], options : Nat,
               rejected : SUBSET (File \union {NoFile})]

TypeOK ==
    /\ nextId \in Nat \ {0} /\ worker \in Nat /\ spawned \in Nat
    /\ DOMAIN pending \subseteq 1..nextId - 1
    /\ \A id \in DOMAIN pending : pending[id] \in PendingType
    /\ \A key \in DOMAIN pendingByKey : pendingByKey[key] \in 1..nextId - 1
    /\ ready \in [worker : Nat, waiters : Seq(Call)]
    /\ replays \subseteq LoaderType
    /\ disposed \in BOOLEAN /\ initialized \in BOOLEAN /\ needsReplay \in BOOLEAN
    /\ files \subseteq File /\ unsavedFiles \in [File -> Nat] /\ workspaceOptions \in Nat
    /\ requests \in [Call -> RequestType \union {NoRequest}]
    /\ outcome \in [Call -> {"idle", "called"} \union Settled]
    /\ attempt \in [Call -> 0..2]
    /\ runnable \in Seq(ContinuationType)
    /\ queued \in Seq(PostedType) /\ active \in PostedType \union {Idle}
    /\ cancelling \subseteq 1..nextId - 1 /\ cancelled \subseteq 1..nextId - 1
    /\ engine \in EngineType
    /\ toClient \in Seq(AnswerType)
    /\ disk \in [File -> 0..clock] /\ dirty \in [File -> 0..clock]
    /\ settings \in Nat /\ clock \in Nat

(* The cancel keys and the pending requests agree: a key leads to the one  *)
(* pending request of that key, and no two pending requests share a key.   *)
(* A key that outlived its request would let nothing be superseded, or     *)
(* cancel a stranger.                                                      *)
PendingByKeyExact ==
    /\ \A k \in DOMAIN pendingByKey :
         pendingByKey[k] \in DOMAIN pending /\ pending[pendingByKey[k]].key = k
    /\ \A id \in DOMAIN pending : pending[id].key /= NoKey =>
         pending[id].key \in DOMAIN pendingByKey /\ pendingByKey[pending[id].key] = id

Tracks(c) ==
    Cardinality({i \in DOMAIN runnable : runnable[i].call = c}) +
    Cardinality({i \in DOMAIN ready.waiters : ready.waiters[i] = c}) +
    Cardinality({id \in DOMAIN pending : pending[id].call = c})

(* Every unsettled call is in exactly one place that will settle it, and   *)
(* no settled call is in any: a promise nobody holds would never settle,   *)
(* one held twice would be posted twice.                                   *)
EveryCallTracked ==
    \A c \in Call : Tracks(c) = IF outcome[c] = "called" THEN 1 ELSE 0

(* The replay barrier: while a replay is under way nothing but the replay  *)
(* has been sent to the new worker, and what a worker carries out it       *)
(* carries out on a workspace it was told about first -- unless that       *)
(* initializeWorkspace failed.                                             *)
ReplayBarrier ==
    /\ ready.worker /= 0 =>
         /\ worker = ready.worker
         /\ \A id \in DOMAIN pending : pending[id].call = Replay
    /\ (active /= Idle /\ active.request.kind /= "initializeWorkspace") =>
         engine.ready \/ engine.initFailed

Quiet == /\ runnable = <<>> /\ toClient = <<>> /\ queued = <<>> /\ active = Idle
         /\ DOMAIN pending = {} /\ ready = NotReady

(* At rest, every file the worker analyses is one the client would replay  *)
(* to the next worker, and under the same options: no crash makes a file   *)
(* disappear.  (But for a file whose update, and options whose configure,  *)
(* the analysis rejected, and after an initializeWorkspace that failed.)   *)
NothingForgotten ==
    (Quiet /\ worker /= 0 /\ engine.ready) =>
        /\ Present(engine.files) \subseteq files \union engine.rejected
        /\ NoFile \in engine.rejected \/ engine.options = workspaceOptions

(* At rest, the worker holds no content older than an update that          *)
(* succeeded: superseding, retrying and replaying never go back.           *)
NoStaleContent ==
    (Quiet /\ worker /= 0) =>
        \A c \in Call :
           (outcome[c] = "ok" /\ requests[c].kind = "updateFile" /\ requests[c].admitted) =>
               LET f == requests[c].file
               IN  engine.files[f] = 0 \/ engine.files[f] >= requests[c].contents[f]

(* The files the client would replay grow only by an answered request that *)
(* names them: a loader that outlived its worker brings nothing back.      *)
FilesGrowByAnswersOnly ==
    [][\A f \in files' \ files :
         \E c \in Call : /\ outcome[c] = "called" /\ outcome'[c] = "ok"
                         /\ requests[c].contents[f] /= 0]_vars

(* After dispose nothing is pending, no worker lives, and none is spawned. *)
DisposedIsFinal ==
    [][disposed => /\ disposed' /\ worker' = 0 /\ spawned' = spawned
                   /\ DOMAIN pending' = {} /\ ready' = NotReady]_vars

(* Every call settles, even if no worker ever answers.                     *)
EveryCallSettles == \A c \in Call : outcome[c] = "called" ~> outcome[c] \in Settled

(* What the client believes the worker analyses is what it analyses: at    *)
(* rest, after any calls, its record of files is the worker's.             *)
SnapshotMatchesWorker ==
    (Quiet /\ worker /= 0 /\ engine.ready) => files = Present(engine.files)

(* A query is answered from a workspace the worker has been told about.    *)
QueriesAnsweredFromReadyWorkspace ==
    (active /= Idle /\ active.request.kind = "query") => engine.ready
=============================================================================
