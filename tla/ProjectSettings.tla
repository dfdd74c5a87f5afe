--------------------------- MODULE ProjectSettings ---------------------------
(***************************************************************************)
(* How the settings of a project reach the worker and its findings the     *)
(* session: the reloads of .traceguard.json and composer.json and the      *)
(* temporary models of src/src/audit-session.js, the synchronisation that  *)
(* reloads them (src/src/analysis/workspace-file-sync.js), the full index, *)
(* and the generations of _rebuildModel.                                   *)
(*                                                                         *)
(* A step is what runs between two awaits: nothing serialises the reloads, *)
(* the index and the changes of the models.  The worker carries out its    *)
(* requests in order, and an answer to a rebuild is a delta.  The          *)
(* workspace has been indexed once.                                        *)
(***************************************************************************)
EXTENDS Naturals, Sequences

CONSTANTS
  Documents,    \* a file of settings of a root: [kind, root]
  Configs,      \* what the file may say
  Empty,        \* no file, or a file that says nothing
  Broken,       \* a file that is invalid, oversized or cannot be read
  Keys,         \* role, language and function of a temporary model
  Models,       \* temporary models
  NoModel,
  MaxActs, MaxFailures  \* bounds: what the user and the file system do, requests that fail

VARIABLES
  file,       \* what each document holds
  due,        \* the monitor has a change to synchronise
  kept,       \* projectConfigurationsByRoot, projectIdentitiesByRoot
  models,     \* temporaryModelConfigurationsByRoot
  task,       \* reloads under way: of the synchronisation, of a command, of the index
  generation, \* modelGeneration
  requests,   \* to the worker, in order
  worker,     \* the options the worker has
  findings,   \* those the session shows
  lost,       \* history: a delta was dropped since the findings were whole
  behind,     \* history: answers due until one to a request made after the last failure
  begun,      \* history: reloads that began, so far
  ended,      \* history: of each kind, the latest to begin of those that ended
  overlapped, \* history: a reload ended after one that began later
  joined,     \* history: the last request is an index with settings of before a reload that joined it
  acts, failures

world == <<file, due>>
session == <<kept, models, generation>>
outcome == <<worker, findings, lost, behind>>
queue == <<requests, joined>>
order == <<begun, ended, overlapped>>
bounds == <<acts, failures>>
vars == <<world, session, task, queue, outcome, order, bounds>>

Kinds == {"configuration", "identity"}
Tasks == {"sync", "command", "index"}
Of(kind) == {d \in Documents : d.kind = kind}
NoModels == [k \in Keys |-> NoModel]
NothingRead == [d \in {} |-> Empty]
NoTask == [pc |-> "idle", todo |-> {}, previous |-> NothingRead, read |-> NothingRead, began |-> 0]

(* _effectiveProjectConfigurations, as _flowOptions sends it                *)
Effective == [kept |-> kept, models |-> models]

(* Each setting has findings of its own.                                   *)
FindingsOf(options) ==
  {<<d, options.kept[d]>> : d \in {x \in Documents : options.kept[x] # Empty}}
    \union {<<k, options.models[k]>> : k \in {x \in Keys : options.models[x] # NoModel}}

Init ==
  /\ file \in [Documents -> Configs \union {Empty}] /\ due = FALSE
  /\ kept = file /\ models = NoModels /\ generation = 0
  /\ task = [t \in Tasks |-> NoTask] /\ requests = <<>> /\ joined = FALSE
  /\ worker = Effective /\ findings = FindingsOf(worker)
  /\ lost = FALSE /\ behind = 0
  /\ begun = 0 /\ ended = [k \in Kinds |-> 0] /\ overlapped = FALSE
  /\ acts = 0 /\ failures = 0

-----------------------------------------------------------------------------
(* Reloads.                                                                *)

Reload(step, kind) ==
  [pc |-> step, todo |-> Of(kind), previous |-> [d \in Of(kind) |-> kept[d]], read |-> NothingRead,
   began |-> begun + 1]

Begins == begun' = begun + 1 /\ UNCHANGED <<ended, overlapped>>

(* A document that cannot be used leaves its root what it had when the     *)
(* reload began, and the other roots to theirs.                            *)
Value(t, d) == IF file[d] = Broken THEN task[t].previous[d] ELSE file[d]

(* The roots are read in their order.                                      *)
First(t) == CHOOSE d \in task[t].todo : TRUE

Read(t, d) == [x \in DOMAIN task[t].read \union {d} |->
                 IF x = d THEN Value(t, d) ELSE task[t].read[x]]

(* What the session has once the last document is read.                    *)
Reloaded(t, d) ==
  [x \in Documents |-> IF x \in DOMAIN Read(t, d) THEN Read(t, d)[x] ELSE kept[x]]

Others(t) == task[t].todo \ {First(t)}

ReadsOneOfMore(t) ==
  /\ task[t].todo # {} /\ Others(t) # {}
  /\ LET d == First(t) IN
       task' = [task EXCEPT ![t].todo = Others(t), ![t].read = Read(t, d)]
  /\ UNCHANGED <<world, session, queue, outcome, order, bounds>>

(* Reloads are told apart only while others are under way.                 *)
Overlaps(t) == \E u \in Tasks \ {t} : task[u].pc \in Kinds
Unordered == [k \in Kinds |-> 0]

ReadsLast(t, kind) ==
  /\ task[t].todo # {} /\ Others(t) = {}
  /\ kept' = Reloaded(t, First(t))
  /\ overlapped' = (overlapped \/ task[t].began < ended[kind])
  /\ ended' = IF Overlaps(t)
                THEN [ended EXCEPT ![kind] = IF @ < task[t].began THEN task[t].began ELSE @]
                ELSE Unordered

Ends(t) == begun' = IF Overlaps(t) THEN begun ELSE 0

-----------------------------------------------------------------------------
(* Requests.                                                               *)

NoUndo == [k \in {} |-> NoModel]

Request(kind, options, number, undo) ==
  [kind |-> kind, options |-> options, generation |-> number, undo |-> undo]

(* _rebuildModel up to its await, after the settings have become kept and  *)
(* models.                                                                 *)
Rebuild(undo) ==
  /\ generation' = generation + 1
  /\ requests' = Append(requests, Request("configure", Effective', generation', undo))
  /\ joined' = FALSE

-----------------------------------------------------------------------------
Acts == acts < MaxActs /\ acts' = acts + 1

(* The world: a document is changed, and the watcher tells the monitor.    *)
Edit(d) ==
  /\ Acts
  /\ \E c \in (Configs \union {Empty, Broken}) \ {file[d]} : file' = [file EXCEPT ![d] = c]
  /\ due' = TRUE
  /\ UNCHANGED <<session, task, queue, outcome, order, failures>>

(* The synchronisation of a change to a document: it waits for an index    *)
(* under way, reloads, and has the workspace indexed.                      *)
StartSync ==
  /\ due /\ task["sync"].pc = "idle" /\ task["index"].pc = "idle"
  /\ due' = FALSE
  /\ task' = [task EXCEPT !["sync"] = Reload("configuration", "configuration")]
  /\ Begins
  /\ UNCHANGED <<file, session, queue, outcome, bounds>>

SyncConfiguration ==
  /\ task["sync"].pc = "configuration"
  /\ ReadsLast("sync", "configuration")
  /\ begun' = begun + 1
  /\ task' = [task EXCEPT !["sync"] = Reload("identity", "identity")]
  /\ UNCHANGED <<world, models, generation, queue, outcome, bounds>>

SyncIdentity ==
  /\ task["sync"].pc = "identity"
  /\ ReadsLast("sync", "identity") /\ Ends("sync")
  /\ task' = [task EXCEPT !["sync"] = [NoTask EXCEPT !.pc = "reloaded"]]
  /\ UNCHANGED <<world, models, generation, queue, outcome, bounds>>

(* indexWorkspace: the index under way is the one that is awaited.  A new  *)
(* one reloads the identities first.                                       *)
StartIndex(others) ==
  IF task["index"].pc = "idle"
    THEN task' = [others EXCEPT !["index"] = Reload("identity", "identity")] /\ Begins /\ UNCHANGED joined
    ELSE task' = others /\ UNCHANGED order
         /\ joined' = (joined \/ (task["index"].pc = "posted" /\ requests[Len(requests)].options # Effective))

SyncIndex ==
  /\ task["sync"].pc = "reloaded"
  /\ StartIndex([task EXCEPT !["sync"].pc = "waiting"])
  /\ UNCHANGED <<world, session, requests, outcome, bounds>>

Refresh ==
  /\ Acts
  /\ task["index"].pc = "idle"
  /\ StartIndex(task)
  /\ UNCHANGED <<world, session, requests, outcome, failures>>

IndexIdentity ==
  /\ task["index"].pc = "identity"
  /\ ReadsLast("index", "identity") /\ Ends("index")
  /\ task' = [task EXCEPT !["index"] = [NoTask EXCEPT !.pc = "reading"]]
  /\ UNCHANGED <<world, models, generation, queue, outcome, bounds>>

(* The sources are read, and analysed under the settings of this moment.   *)
PostIndex ==
  /\ task["index"].pc = "reading"
  /\ requests' = Append(requests, Request("index", Effective, 0, NoUndo)) /\ joined' = FALSE
  /\ task' = [task EXCEPT !["index"].pc = "posted"]
  /\ UNCHANGED <<world, session, outcome, order, bounds>>

(* A command writes a model into the document, and reloads.                *)
Mark(d) ==
  /\ Acts
  /\ d.kind = "configuration" /\ task["command"].pc = "idle"
  /\ \E c \in Configs \ {file[d]} : file' = [file EXCEPT ![d] = c]
  /\ due' = TRUE
  /\ task' = [task EXCEPT !["command"] = Reload("configuration", "configuration")]
  /\ Begins
  /\ UNCHANGED <<session, queue, outcome, failures>>

Marked ==
  /\ task["command"].pc = "configuration"
  /\ ReadsLast("command", "configuration") /\ Ends("command")
  /\ task' = [task EXCEPT !["command"] = NoTask]
  /\ UNCHANGED models
  /\ IF kept' # kept THEN Rebuild(NoUndo) ELSE UNCHANGED <<generation, queue>>
  /\ UNCHANGED <<world, outcome, bounds>>

-----------------------------------------------------------------------------
(* Temporary models.                                                       *)

AddTemporaryModel(k) ==
  /\ Acts
  /\ \E m \in Models \ {models[k]} : models' = [models EXCEPT ![k] = m]
  /\ UNCHANGED kept
  /\ Rebuild([x \in {k} |-> models[k]])
  /\ UNCHANGED <<world, task, outcome, order, failures>>

ClearTemporaryModels ==
  /\ Acts
  /\ models # NoModels
  /\ models' = NoModels
  /\ UNCHANGED kept
  /\ Rebuild(models)
  /\ UNCHANGED <<world, task, outcome, order, failures>>

-----------------------------------------------------------------------------
(* Answers.                                                                *)

Answered == behind' = IF behind = 0 THEN 0 ELSE behind - 1

EndIndex == task' = [task EXCEPT !["index"] = NoTask,
                                 !["sync"] = IF @.pc = "waiting" THEN NoTask ELSE @]

(* A slip: the findings of an index are added to those of before.          *)
ShowIndexOnTop(options) == findings' = findings \union FindingsOf(options)

ShowIndex(options) == findings' = FindingsOf(options)

Delta(before, after) ==
  [upsert |-> FindingsOf(after) \ FindingsOf(before), removed |-> FindingsOf(before) \ FindingsOf(after)]

ApplyDelta(delta) == (findings \ delta.removed) \union delta.upsert

AnswerIndex ==
  /\ requests # <<>> /\ Head(requests).kind = "index"
  /\ requests' = Tail(requests)
  /\ worker' = Head(requests).options
  /\ ShowIndex(worker')
  /\ lost' = FALSE /\ Answered
  /\ EndIndex
  /\ UNCHANGED <<world, session, joined, order, bounds>>

(* An answer that a later rebuild has overtaken is dropped whole.          *)
AnswerRebuild ==
  /\ requests # <<>> /\ Head(requests).kind = "configure"
  /\ requests' = Tail(requests)
  /\ worker' = Head(requests).options
  /\ LET delta == Delta(worker, worker') IN
       IF Head(requests).generation = generation
         THEN findings' = ApplyDelta(delta) /\ UNCHANGED lost
         ELSE lost' = (lost \/ FindingsOf(worker) # FindingsOf(worker')) /\ UNCHANGED findings
  /\ Answered
  /\ UNCHANGED <<world, session, task, joined, order, bounds>>

(* A request fails, carried out or not: a model that was added or cleared  *)
(* is put back, and the monitor has the synchronisation run again.         *)
RequestFails ==
  /\ requests # <<>> /\ failures < MaxFailures /\ failures' = failures + 1
  /\ requests' = Tail(requests)
  /\ worker' \in {worker, Head(requests).options}
  /\ behind' = Len(requests)
  /\ lost' = (lost \/ worker' # worker)
  /\ IF Head(requests).kind = "index"
       THEN /\ EndIndex
            /\ due' = (due \/ task["sync"].pc = "waiting")
            /\ UNCHANGED models
       ELSE /\ models' = [k \in Keys |-> IF k \in DOMAIN Head(requests).undo
                                           THEN Head(requests).undo[k] ELSE models[k]]
            /\ UNCHANGED <<task, due>>
  /\ UNCHANGED <<file, kept, generation, findings, joined, order, acts>>

Step ==
  \/ StartSync \/ SyncConfiguration \/ SyncIdentity \/ SyncIndex
  \/ IndexIdentity \/ PostIndex \/ Marked
  \/ \E t \in Tasks : ReadsOneOfMore(t)
  \/ AnswerIndex \/ AnswerRebuild

Next ==
  \/ Step \/ Refresh \/ ClearTemporaryModels \/ RequestFails
  \/ \E d \in Documents : Edit(d) \/ Mark(d)
  \/ \E k \in Keys : AddTemporaryModel(k)

Spec == Init /\ [][Next]_vars /\ WF_vars(Step)
-----------------------------------------------------------------------------
Values == Configs \union {Empty, Broken}
PartOf(keys, values) == UNION {[some -> values] : some \in SUBSET keys}
Temporary == Models \union {NoModel}
Options == [kept : [Documents -> Values], models : [Keys -> Temporary]]
TaskType ==
  [pc : Kinds \union {"idle", "reloaded", "waiting", "reading", "posted"}, todo : SUBSET Documents,
   previous : PartOf(Documents, Values), read : PartOf(Documents, Values), began : Nat]
RequestType ==
  [kind : {"index", "configure"}, options : Options, generation : Nat, undo : PartOf(Keys, Temporary)]

TypeOK ==
  /\ file \in [Documents -> Values] /\ due \in BOOLEAN
  /\ kept \in [Documents -> Values] /\ models \in [Keys -> Temporary] /\ generation \in Nat
  /\ task \in [Tasks -> TaskType]
  /\ requests \in Seq(RequestType) /\ joined \in BOOLEAN
  /\ worker \in Options /\ lost \in BOOLEAN /\ behind \in Nat
  /\ begun \in Nat /\ ended \in [Kinds -> Nat] /\ overlapped \in BOOLEAN
  /\ acts \in Nat /\ failures \in Nat

Quiet == ~due /\ requests = <<>> /\ \A t \in Tasks : task[t].pc = "idle"

(* Once nothing is under way the session has what the documents say,        *)
(* whatever reloads of the synchronisation, of commands and of indexes ran  *)
(* into each other, except of documents that cannot be used, and except     *)
(* after a reload that another one overtook.                               *)
SettingsFollowFiles ==
  Quiet /\ ~overlapped => \A kind \in Kinds : \A d \in Of(kind) : file[d] # Broken => kept[d] = file[d]

(* And the worker has the settings of the session, with its temporary       *)
(* models. The exceptions are a request that failed last (the session has   *)
(* put models back, or kept settings the worker may not have), and a        *)
(* synchronisation that found an index already sent.                       *)
WorkerFollowsSettings == Quiet /\ behind = 0 /\ ~joined => worker = Effective

(* The findings shown are those of the worker's settings, though rebuilds  *)
(* bring only what changed and an index may come between them; except      *)
(* after a rebuild whose answer another one overtook, until the next       *)
(* index.                                                                  *)
FindingsFollowWorker == requests = <<>> /\ ~lost => findings = FindingsOf(worker)

(* So what the documents say reaches what is shown.                        *)
FindingsFollowSettings == SettingsFollowFiles /\ WorkerFollowsSettings /\ FindingsFollowWorker

=============================================================================
