----------------------- MODULE SettingsAndTreesProofs -----------------------
(***************************************************************************)
(* Three parts of what surrounds an analysis, side by side as in           *)
(* MCLanguageAssets; no part's proofs use another's, but for lemmas on     *)
(* numbers.                                                                *)
(*                                                                         *)
(* Settings: what the documents of settings say reaches the session, the   *)
(* worker and the findings shown, for any documents and models, and        *)
(* however reloads, indexes, temporary models and failed requests run into *)
(* each other.                                                             *)
(*                                                                         *)
(* Trees: a tree parsed with the edit between two texts has every          *)
(* character where a parse from nothing has it, row and column, whatever   *)
(* the texts (EditedTreeIsExact); and so every tree kept is that of the    *)
(* text analysed, and of a file known.                                     *)
(*                                                                         *)
(* Scopes: every function is searched once and in its own scope, whatever  *)
(* folders were opened and closed, in whatever order, and stand in one     *)
(* another.                                                                *)
(***************************************************************************)
EXTENDS ProjectSettings, SourceTrees, ProjectScopes, TLAPS, FiniteSetTheorems, WellFoundedInduction

(* A reload has read some of the documents of its kind, and has the others *)
(* still to read; who does not reload has none.                            *)
WellRead(r) ==
  IF r.pc \in Kinds
    THEN r.todo \union DOMAIN r.read = Of(r.pc) /\ DOMAIN r.previous = Of(r.pc)
    ELSE r.todo = {}
ReloadsReadTheirKind == \A t \in Tasks : WellRead(task[t])

(* Reloads under way are numbered in the order they began.                 *)
ReloadsAreNumbered ==
  \A t \in Tasks : task[t].pc \in Kinds =>
    /\ task[t].began =< begun
    /\ \A u \in Tasks \ {t} : task[u].pc \in Kinds => task[u].began # task[t].began

(* What a reload will leave of a document is what the document says.       *)
WillFollow(t, d) == d \in task[t].todo \/ task[t].read[d] = file[d]

BeganLast(t, kind) ==
  /\ task[t].pc = kind
  /\ \A u \in Tasks : task[u].pc = kind => task[u].began =< task[t].began

(* The session has what a document says and no reload that is not known to *)
(* be overtaken is under way, or the one that began last will leave it.    *)
Follows(kind, d) ==
  \/ kept[d] = file[d] /\ \A t \in Tasks : task[t].pc = kind => task[t].began < ended[kind]
  \/ \E t \in Tasks : BeganLast(t, kind) /\ WillFollow(t, d)

(* A synchronisation reloads the identities after the configurations.      *)
Awaited(kind) == kind = "identity" /\ task["sync"].pc = "configuration"

FilesAreFollowed ==
  ~overlapped /\ ~due =>
    \A kind \in Kinds : ~Awaited(kind) =>
      \A d \in Of(kind) : file[d] # Broken => Follows(kind, d)

(* What the worker will have when it has answered.                         *)
Latest == IF requests = <<>> THEN worker ELSE requests[Len(requests)].options

(* Settings have changed, and an index is to come.                         *)
IndexToCome == task["sync"].pc \in {"identity", "reloaded"} \/ task["index"].pc \notin {"idle", "posted"}

(* No request made since the last failure has yet to be answered, or one    *)
(* has.                                                                    *)
MadeSince == behind = 0 \/ behind =< Len(requests)

LatestIsEffective ==
  /\ behind =< Len(requests) + 1
  /\ MadeSince /\ ~joined => IndexToCome \/ Latest = Effective

(* An index that was posted is under way, and no other.                    *)
PostedIsSent ==
  /\ task["index"].pc = "posted" <=> \E i \in 1..Len(requests) : requests[i].kind = "index"
  /\ \A i, j \in 1..Len(requests) : requests[i].kind = "index" /\ requests[j].kind = "index" => i = j

FindingsAreOfWorker == ~lost => findings = FindingsOf(worker)

IInv ==
  /\ TypeOK /\ ReloadsReadTheirKind /\ ReloadsAreNumbered /\ FilesAreFollowed
  /\ LatestIsEffective /\ PostedIsSent /\ FindingsAreOfWorker
-----------------------------------------------------------------------------
(* What the parts of a step are.                                           *)
LEMMA NoTaskType == NoTask \in TaskType
<1>1. NothingRead \in [{} -> Values] BY DEF NothingRead
<1>2. NothingRead \in PartOf(Documents, Values) BY <1>1 DEF PartOf
<1>. QED BY <1>2 DEF NoTask, TaskType

LEMMA ReloadType ==
  ASSUME TypeOK, NEW kind \in Kinds
  PROVE  Reload(kind, kind) \in TaskType
<1>1. Of(kind) \in SUBSET Documents BY DEF Of
<1>2. [d \in Of(kind) |-> kept[d]] \in [Of(kind) -> Values] BY <1>1 DEF TypeOK
<1>3. [d \in Of(kind) |-> kept[d]] \in PartOf(Documents, Values) BY <1>1, <1>2 DEF PartOf
<1>4. NothingRead \in [{} -> Values] BY DEF NothingRead
<1>5. NothingRead \in PartOf(Documents, Values) BY <1>4 DEF PartOf
<1>. QED BY <1>1, <1>3, <1>5 DEF Reload, TaskType, TypeOK

LEMMA FirstIsToDo ==
  ASSUME NEW t \in Tasks, task[t].todo # {}
  PROVE  First(t) \in task[t].todo
BY DEF First

LEMMA ReadType ==
  ASSUME TypeOK, ReloadsReadTheirKind, NEW t \in Tasks, NEW d \in task[t].todo
  PROVE  /\ d \in Documents
         /\ Read(t, d) \in PartOf(Documents, Values)
         /\ Reloaded(t, d) \in [Documents -> Values]
         /\ DOMAIN Read(t, d) = DOMAIN task[t].read \union {d}
<1>1. task[t] \in TaskType BY DEF TypeOK
<1>2. d \in Documents BY <1>1 DEF TaskType
<1>3. PICK some \in SUBSET Documents : task[t].read \in [some -> Values] BY <1>1 DEF TaskType, PartOf
<1>4. task[t].pc \in Kinds /\ DOMAIN task[t].previous = Of(task[t].pc) /\ d \in Of(task[t].pc)
  BY DEF ReloadsReadTheirKind, WellRead
<1>5. task[t].previous[d] \in Values BY <1>1, <1>4 DEF TaskType, PartOf
<1>6. Value(t, d) \in Values BY <1>2, <1>5 DEF Value, TypeOK
<1>7. Read(t, d) \in [some \union {d} -> Values] BY <1>3, <1>6 DEF Read
<1>8. some \union {d} \in SUBSET Documents BY <1>2, <1>3
<1>9. Read(t, d) \in PartOf(Documents, Values) BY <1>7, <1>8 DEF PartOf
<1>10. Reloaded(t, d) \in [Documents -> Values] BY <1>7 DEF Reloaded, TypeOK
<1>11. DOMAIN Read(t, d) = DOMAIN task[t].read \union {d} BY DEF Read
<1>. QED BY <1>2, <1>9, <1>10, <1>11

LEMMA RequestTyped ==
  ASSUME NEW kind \in {"index", "configure"}, NEW options \in Options, NEW number \in Nat,
         NEW undo \in PartOf(Keys, Temporary)
  PROVE  Request(kind, options, number, undo) \in RequestType
BY DEF Request, RequestType

LEMMA NoUndoType == NoUndo \in PartOf(Keys, Temporary)
<1>1. NoUndo \in [{} -> Temporary] BY DEF NoUndo
<1>. QED BY <1>1 DEF PartOf

LEMMA EffectiveType ==
  ASSUME TypeOK
  PROVE  Effective \in Options
BY DEF TypeOK, Effective, Options

(* The two steps that reloads of every kind are made of.                   *)
LEMMA ReadsLastTyped ==
  ASSUME TypeOK, ReloadsReadTheirKind, NEW t \in Tasks, NEW kind \in Kinds, ReadsLast(t, kind)
  PROVE  kept' \in [Documents -> Values] /\ overlapped' \in BOOLEAN /\ ended' \in [Kinds -> Nat]
<1>1. First(t) \in task[t].todo BY FirstIsToDo DEF ReadsLast
<1>2. kept' \in [Documents -> Values] BY <1>1, ReadType DEF ReadsLast
<1>3. task[t].began \in Nat BY DEF TypeOK, TaskType
<1>4. overlapped' \in BOOLEAN BY DEF ReadsLast, TypeOK
<1>5. ended' \in [Kinds -> Nat] BY <1>3 DEF ReadsLast, TypeOK, Unordered
<1>. QED BY <1>2, <1>4, <1>5

LEMMA RebuildTyped ==
  ASSUME TypeOK, kept' \in [Documents -> Values], models' \in [Keys -> Temporary],
         NEW undo \in PartOf(Keys, Temporary), Rebuild(undo)
  PROVE  generation' \in Nat /\ requests' \in Seq(RequestType) /\ joined' \in BOOLEAN
<1>1. generation' \in Nat BY DEF Rebuild, TypeOK
<1>2. Effective' \in Options BY DEF Effective, Options
<1>3. Request("configure", Effective', generation', undo) \in RequestType BY <1>1, <1>2, RequestTyped
<1>4. requests' \in Seq(RequestType) BY <1>3 DEF Rebuild, TypeOK
<1>. QED BY <1>1, <1>4 DEF Rebuild

LEMMA StartIndexTyped ==
  ASSUME TypeOK, NEW others \in [Tasks -> TaskType], StartIndex(others)
  PROVE  task' \in [Tasks -> TaskType] /\ begun' \in Nat /\ ended' = ended /\ overlapped' = overlapped /\ joined' \in BOOLEAN
<1>1. Reload("identity", "identity") \in TaskType BY ReloadType DEF Kinds
<1>2. CASE task["index"].pc = "idle"
  BY <1>1, <1>2 DEF StartIndex, Begins, TypeOK, Tasks
<1>3. CASE task["index"].pc # "idle"
  BY <1>3 DEF StartIndex, TypeOK, order
<1>. QED BY <1>2, <1>3

LEMMA EndIndexTyped ==
  ASSUME TypeOK, EndIndex
  PROVE  task' \in [Tasks -> TaskType]
BY NoTaskType DEF EndIndex, TypeOK, Tasks

LEMMA HeadTyped ==
  ASSUME TypeOK, requests # <<>>
  PROVE  /\ Head(requests) \in RequestType /\ Tail(requests) \in Seq(RequestType)
         /\ Len(requests) \in Nat \ {0} /\ Len(Tail(requests)) = Len(requests) - 1
BY DEF TypeOK

LEMMA AnsweredTyped ==
  ASSUME TypeOK, Answered
  PROVE  behind' \in Nat
BY DEF TypeOK, Answered
-----------------------------------------------------------------------------
LEMMA TypeStep ==
  ASSUME TypeOK, ReloadsReadTheirKind, [Next]_vars
  PROVE  TypeOK'
<1>. USE DEF world, session, queue, outcome, order, bounds
<1>1. ASSUME NEW d \in Documents, Edit(d) PROVE TypeOK'
  <2>1. file' \in [Documents -> Values] BY <1>1 DEF Edit, TypeOK, Values
  <2>. QED BY <1>1, <2>1 DEF Edit, Acts, TypeOK
<1>2. CASE StartSync
  <2>1. Reload("configuration", "configuration") \in TaskType BY ReloadType DEF Kinds
  <2>2. task' \in [Tasks -> TaskType] BY <1>2, <2>1 DEF StartSync, TypeOK, Tasks
  <2>3. due' \in BOOLEAN BY <1>2 DEF StartSync
  <2>4. UNCHANGED <<file, session, queue, outcome, bounds, ended, overlapped>> /\ begun' = begun + 1
    BY <1>2 DEF StartSync, Begins
  <2>. QED BY <2>2, <2>3, <2>4 DEF TypeOK
<1>3. CASE SyncConfiguration
  <2>1. Reload("identity", "identity") \in TaskType BY ReloadType DEF Kinds
  <2>2. kept' \in [Documents -> Values] /\ overlapped' \in BOOLEAN /\ ended' \in [Kinds -> Nat]
    BY <1>3, ReadsLastTyped DEF SyncConfiguration, Kinds, Tasks
  <2>. QED BY <1>3, <2>1, <2>2 DEF SyncConfiguration, TypeOK, Tasks
<1>4. CASE SyncIdentity
  <2>1. [NoTask EXCEPT !.pc = "reloaded"] \in TaskType BY NoTaskType DEF TaskType
  <2>2. kept' \in [Documents -> Values] /\ overlapped' \in BOOLEAN /\ ended' \in [Kinds -> Nat]
    BY <1>4, ReadsLastTyped DEF SyncIdentity, Kinds, Tasks
  <2>. QED BY <1>4, <2>1, <2>2 DEF SyncIdentity, Ends, TypeOK, Tasks
<1>5. CASE SyncIndex
  <2>1. [task EXCEPT !["sync"].pc = "waiting"] \in [Tasks -> TaskType] BY DEF TypeOK, TaskType, Tasks
  <2>2. task' \in [Tasks -> TaskType] /\ begun' \in Nat /\ ended' = ended /\ overlapped' = overlapped /\ joined' \in BOOLEAN
    BY <1>5, <2>1, StartIndexTyped DEF SyncIndex
  <2>. QED BY <1>5, <2>2 DEF SyncIndex, TypeOK
<1>6. CASE Refresh
  <2>1. task \in [Tasks -> TaskType] BY DEF TypeOK
  <2>2. task' \in [Tasks -> TaskType] /\ begun' \in Nat /\ ended' = ended /\ overlapped' = overlapped /\ joined' \in BOOLEAN
    BY <1>6, <2>1, StartIndexTyped DEF Refresh
  <2>. QED BY <1>6, <2>2 DEF Refresh, Acts, TypeOK
<1>7. CASE IndexIdentity
  <2>1. [NoTask EXCEPT !.pc = "reading"] \in TaskType BY NoTaskType DEF TaskType
  <2>2. kept' \in [Documents -> Values] /\ overlapped' \in BOOLEAN /\ ended' \in [Kinds -> Nat]
    BY <1>7, ReadsLastTyped DEF IndexIdentity, Kinds, Tasks
  <2>. QED BY <1>7, <2>1, <2>2 DEF IndexIdentity, Ends, TypeOK, Tasks
<1>8. CASE PostIndex
  <2>1. Request("index", Effective, 0, NoUndo) \in RequestType BY RequestTyped, EffectiveType, NoUndoType
  <2>2. requests' \in Seq(RequestType) BY <1>8, <2>1 DEF PostIndex, TypeOK
  <2>3. task' \in [Tasks -> TaskType] BY <1>8 DEF PostIndex, TypeOK, Tasks, TaskType
  <2>. QED BY <1>8, <2>2, <2>3 DEF PostIndex, TypeOK
<1>9. ASSUME NEW d \in Documents, Mark(d) PROVE TypeOK'
  <2>1. Reload("configuration", "configuration") \in TaskType BY ReloadType DEF Kinds
  <2>2. file' \in [Documents -> Values] BY <1>9 DEF Mark, TypeOK, Values
  <2>. QED BY <1>9, <2>1, <2>2 DEF Mark, Acts, Begins, TypeOK, Tasks
<1>10. CASE Marked
  <2>1. kept' \in [Documents -> Values] /\ overlapped' \in BOOLEAN /\ ended' \in [Kinds -> Nat]
    BY <1>10, ReadsLastTyped DEF Marked, Kinds, Tasks
  <2>2. models' \in [Keys -> Temporary] BY <1>10 DEF Marked, TypeOK
  <2>3. generation' \in Nat /\ requests' \in Seq(RequestType) /\ joined' \in BOOLEAN
    BY <1>10, <2>1, <2>2, RebuildTyped, NoUndoType DEF Marked, TypeOK
  <2>4. task' \in [Tasks -> TaskType] BY <1>10, NoTaskType DEF Marked, TypeOK, Tasks
  <2>. QED BY <1>10, <2>1, <2>2, <2>3, <2>4 DEF Marked, Ends, TypeOK
<1>11. ASSUME NEW t \in Tasks, ReadsOneOfMore(t) PROVE TypeOK'
  <2>1. First(t) \in task[t].todo BY <1>11, FirstIsToDo DEF ReadsOneOfMore
  <2>2. Read(t, First(t)) \in PartOf(Documents, Values) BY <2>1, ReadType
  <2>3. Others(t) \in SUBSET Documents BY DEF Others, TypeOK, TaskType
  <2>4. task' \in [Tasks -> TaskType]
    BY <1>11, <2>2, <2>3 DEF ReadsOneOfMore, TypeOK, TaskType
  <2>. QED BY <1>11, <2>4 DEF ReadsOneOfMore, TypeOK
<1>12. ASSUME NEW k \in Keys, AddTemporaryModel(k) PROVE TypeOK'
  <2>1. models' \in [Keys -> Temporary] BY <1>12 DEF AddTemporaryModel, TypeOK, Temporary
  <2>2. [x \in {k} |-> models[k]] \in PartOf(Keys, Temporary)
    <3>1. [x \in {k} |-> models[k]] \in [{k} -> Temporary] BY DEF TypeOK
    <3>. QED BY <3>1 DEF PartOf
  <2>3. kept' \in [Documents -> Values] BY <1>12 DEF AddTemporaryModel, TypeOK
  <2>4. generation' \in Nat /\ requests' \in Seq(RequestType) /\ joined' \in BOOLEAN
    BY <1>12, <2>1, <2>2, <2>3, RebuildTyped DEF AddTemporaryModel
  <2>. QED BY <1>12, <2>1, <2>3, <2>4 DEF AddTemporaryModel, Acts, TypeOK
<1>13. CASE ClearTemporaryModels
  <2>1. models' \in [Keys -> Temporary] BY <1>13 DEF ClearTemporaryModels, NoModels, Temporary
  <2>2. models \in PartOf(Keys, Temporary) BY DEF TypeOK, PartOf
  <2>3. kept' \in [Documents -> Values] BY <1>13 DEF ClearTemporaryModels, TypeOK
  <2>4. generation' \in Nat /\ requests' \in Seq(RequestType) /\ joined' \in BOOLEAN
    BY <1>13, <2>1, <2>2, <2>3, RebuildTyped DEF ClearTemporaryModels
  <2>. QED BY <1>13, <2>1, <2>3, <2>4 DEF ClearTemporaryModels, Acts, TypeOK
<1>14. CASE AnswerIndex
  <2>1. Head(requests) \in RequestType /\ requests' \in Seq(RequestType) BY <1>14, HeadTyped DEF AnswerIndex
  <2>2. worker' \in Options BY <1>14, <2>1 DEF AnswerIndex, RequestType
  <2>3. task' \in [Tasks -> TaskType] BY <1>14, EndIndexTyped DEF AnswerIndex
  <2>. QED BY <1>14, <2>1, <2>2, <2>3, AnsweredTyped DEF AnswerIndex, TypeOK
<1>15. CASE AnswerRebuild
  <2>1. Head(requests) \in RequestType /\ requests' \in Seq(RequestType) BY <1>15, HeadTyped DEF AnswerRebuild
  <2>2. worker' \in Options BY <1>15, <2>1 DEF AnswerRebuild, RequestType
  <2>3. lost' \in BOOLEAN BY <1>15 DEF AnswerRebuild, TypeOK
  <2>. QED BY <1>15, <2>1, <2>2, <2>3, AnsweredTyped DEF AnswerRebuild, TypeOK
<1>16. CASE RequestFails
  <2>1. Head(requests) \in RequestType /\ requests' \in Seq(RequestType) /\ Len(requests) \in Nat
    BY <1>16, HeadTyped DEF RequestFails
  <2>2. worker' \in Options BY <1>16, <2>1 DEF RequestFails, RequestType, TypeOK
  <2>3. task' \in [Tasks -> TaskType] /\ due' \in BOOLEAN
    BY <1>16, EndIndexTyped DEF RequestFails, TypeOK
  <2>4. models' \in [Keys -> Temporary]
    <3>1. PICK some \in SUBSET Keys : Head(requests).undo \in [some -> Temporary]
      BY <2>1 DEF RequestType, PartOf
    <3>. QED BY <1>16, <3>1 DEF RequestFails, TypeOK
  <2>. QED BY <1>16, <2>1, <2>2, <2>3, <2>4 DEF RequestFails, TypeOK
<1>17. CASE UNCHANGED vars BY <1>17 DEF vars, TypeOK
<1>. QED
  BY <1>1, <1>2, <1>3, <1>4, <1>5, <1>6, <1>7, <1>8, <1>9, <1>10, <1>11, <1>12, <1>13, <1>14, <1>15, <1>16, <1>17
  DEF Next, Step
-----------------------------------------------------------------------------
LEMMA ReloadBegins ==
  ASSUME NEW kind \in Kinds
  PROVE  LET r == Reload(kind, kind)
         IN  /\ r.pc = kind /\ r.todo = Of(kind) /\ r.began = begun + 1
             /\ WellRead(r)
BY DEF Reload, WellRead, NothingRead

LEMMA NoTaskRests ==
  ASSUME NEW step \in {"idle", "reloaded", "reading"}
  PROVE  LET r == [NoTask EXCEPT !.pc = step]
         IN  r.pc = step /\ r.pc \notin Kinds /\ WellRead(r)
BY DEF NoTask, WellRead, Kinds

LEMMA ReadStep ==
  ASSUME TypeOK, ReloadsReadTheirKind, [Next]_vars
  PROVE  ReloadsReadTheirKind'
<1>. USE DEF world, session, queue, outcome, order, bounds
<1>. SUFFICES ASSUME NEW t \in Tasks
              PROVE  WellRead(task'[t])
  BY DEF ReloadsReadTheirKind, WellRead
<1>0. task[t] \in TaskType /\ WellRead(task[t]) BY DEF TypeOK, ReloadsReadTheirKind
<1>a. task \in [Tasks -> TaskType] BY DEF TypeOK
<1>b. WellRead(NoTask) BY DEF NoTask, WellRead, Kinds
<1>c. WellRead(Reload("configuration", "configuration")) /\ WellRead(Reload("identity", "identity"))
  BY ReloadBegins DEF Kinds
<1>1. ASSUME NEW u \in Tasks, ReadsOneOfMore(u) PROVE WellRead(task'[t])
  <2>1. First(u) \in task[u].todo BY <1>1, FirstIsToDo DEF ReadsOneOfMore
  <2>2. DOMAIN Read(u, First(u)) = DOMAIN task[u].read \union {First(u)} BY <2>1, ReadType
  <2>3. task' = [task EXCEPT ![u].todo = Others(u), ![u].read = Read(u, First(u))] BY <1>1 DEF ReadsOneOfMore
  <2>4. CASE u = t
    <3>1. task'[t] = [task[t] EXCEPT !.todo = Others(t), !.read = Read(t, First(t))] BY <1>a, <2>3, <2>4
    <3>2. /\ task'[t].todo = task[t].todo \ {First(t)} /\ task'[t].read = Read(t, First(t))
          /\ task'[t].pc = task[t].pc /\ task'[t].previous = task[t].previous
      BY <1>0, <3>1 DEF TaskType, Others
    <3>. QED BY <1>0, <2>1, <2>2, <2>4, <3>2 DEF WellRead
  <2>5. CASE u # t BY <1>0, <1>a, <2>3, <2>5
  <2>. QED BY <2>4, <2>5
<1>2. CASE StartSync BY <1>0, <1>a, <1>c, <1>2 DEF StartSync
<1>3. CASE SyncConfiguration BY <1>0, <1>a, <1>c, <1>3 DEF SyncConfiguration
<1>4. CASE SyncIdentity BY <1>0, <1>a, <1>4, NoTaskRests DEF SyncIdentity
<1>5. ASSUME NEW others \in [Tasks -> TaskType], StartIndex(others), WellRead(others[t])
      PROVE  WellRead(task'[t])
  BY <1>5, <1>c DEF StartIndex
<1>6. CASE SyncIndex
  <2>1. task["sync"].pc = "reloaded" /\ "sync" \in Tasks BY <1>6 DEF SyncIndex, Tasks
  <2>2. task["sync"] \in TaskType /\ WellRead(task["sync"]) BY <2>1 DEF TypeOK, ReloadsReadTheirKind
  <2>3. task["sync"].todo = {} BY <2>1, <2>2 DEF WellRead, Kinds
  <2>. DEFINE others == [task EXCEPT !["sync"].pc = "waiting"]
  <2>4. others \in [Tasks -> TaskType] BY <1>a, <2>1 DEF TaskType
  <2>5. WellRead(others[t])
    <3>1. CASE t = "sync" BY <1>a, <2>2, <2>3, <3>1 DEF WellRead, TaskType, Kinds
    <3>2. CASE t # "sync" BY <1>0, <1>a, <3>2
    <3>. QED BY <3>1, <3>2
  <2>. HIDE DEF others
  <2>6. StartIndex(others) BY <1>6 DEF SyncIndex, others
  <2>. QED BY <1>5, <2>4, <2>5, <2>6
<1>7. CASE Refresh BY <1>0, <1>a, <1>5, <1>7 DEF Refresh
<1>8. CASE IndexIdentity BY <1>0, <1>a, <1>8, NoTaskRests DEF IndexIdentity
<1>9. CASE PostIndex
  <2>1. task["index"].todo = {} BY <1>9 DEF PostIndex, ReloadsReadTheirKind, WellRead, Kinds, Tasks
  <2>2. CASE t = "index" BY <1>0, <1>a, <1>9, <2>1, <2>2 DEF PostIndex, WellRead, TaskType, Kinds
  <2>3. CASE t # "index" BY <1>0, <1>a, <1>9, <2>3 DEF PostIndex
  <2>. QED BY <2>2, <2>3
<1>10. ASSUME NEW d \in Documents, Mark(d) PROVE WellRead(task'[t]) BY <1>0, <1>a, <1>c, <1>10 DEF Mark
<1>11. CASE Marked BY <1>0, <1>a, <1>b, <1>11 DEF Marked
<1>12. ASSUME EndIndex PROVE WellRead(task'[t]) BY <1>0, <1>a, <1>b, <1>12 DEF EndIndex
<1>13. CASE AnswerIndex BY <1>12, <1>13 DEF AnswerIndex
<1>14. CASE RequestFails BY <1>0, <1>12, <1>14 DEF RequestFails
<1>15. ASSUME UNCHANGED task PROVE WellRead(task'[t]) BY <1>0, <1>15
<1>16. CASE AnswerRebuild BY <1>15, <1>16 DEF AnswerRebuild
<1>17. CASE ClearTemporaryModels BY <1>15, <1>17 DEF ClearTemporaryModels
<1>18. ASSUME NEW k \in Keys, AddTemporaryModel(k) PROVE WellRead(task'[t]) BY <1>15, <1>18 DEF AddTemporaryModel
<1>19. ASSUME NEW d \in Documents, Edit(d) PROVE WellRead(task'[t]) BY <1>15, <1>19 DEF Edit
<1>20. CASE UNCHANGED vars BY <1>15, <1>20 DEF vars
<1>. QED
  BY <1>1, <1>2, <1>3, <1>4, <1>6, <1>7, <1>8, <1>9, <1>10, <1>11, <1>13, <1>14, <1>16, <1>17, <1>18, <1>19, <1>20
  DEF Next, Step
-----------------------------------------------------------------------------
(* A reload goes on as it was, or is over.                                 *)
Stays(u) == task'[u].pc \in Kinds => task[u].pc = task'[u].pc /\ task[u].began = task'[u].began

LEMMA NumbersKept ==
  ASSUME TypeOK, ReloadsAreNumbered, \A u \in Tasks : Stays(u), begun' = begun
  PROVE  ReloadsAreNumbered'
BY DEF ReloadsAreNumbered, Stays

LEMMA NumbersBegun ==
  ASSUME TypeOK, ReloadsAreNumbered, NEW t \in Tasks, \A u \in Tasks \ {t} : Stays(u),
         task'[t].began = begun + 1, begun' = begun + 1
  PROVE  ReloadsAreNumbered'
<1>1. \A u \in Tasks : task[u].began \in Nat BY DEF TypeOK, TaskType
<1>2. begun \in Nat BY DEF TypeOK
<1>. QED BY <1>1, <1>2 DEF ReloadsAreNumbered, Stays

LEMMA NumbersEnded ==
  ASSUME TypeOK, ReloadsAreNumbered, NEW t \in Tasks, \A u \in Tasks \ {t} : Stays(u),
         task'[t].pc \notin Kinds, Ends(t)
  PROVE  ReloadsAreNumbered'
BY DEF ReloadsAreNumbered, Stays, Ends, Overlaps

LEMMA NumberStep ==
  ASSUME TypeOK, ReloadsReadTheirKind, ReloadsAreNumbered, [Next]_vars
  PROVE  ReloadsAreNumbered'
<1>. USE DEF world, session, queue, outcome, order, bounds
<1>a. task \in [Tasks -> TaskType] /\ Tasks = {"sync", "command", "index"} BY DEF TypeOK, Tasks
<1>b. NoTask.pc \notin Kinds BY DEF NoTask, Kinds
<1>c. /\ Reload("configuration", "configuration").began = begun + 1
      /\ Reload("identity", "identity").began = begun + 1
  BY DEF Reload
<1>1. ASSUME NEW u \in Tasks, ReadsOneOfMore(u) PROVE ReloadsAreNumbered'
  <2>1. \A t \in Tasks : Stays(t) BY <1>1, <1>a DEF ReadsOneOfMore, Stays, TaskType
  <2>. QED BY <1>1, <2>1, NumbersKept DEF ReadsOneOfMore
<1>2. CASE StartSync
  <2>1. \A t \in Tasks \ {"sync"} : Stays(t) BY <1>2, <1>a DEF StartSync, Stays
  <2>. QED BY <1>2, <1>a, <1>c, <2>1, NumbersBegun DEF StartSync, Begins
<1>3. CASE SyncConfiguration
  <2>1. \A t \in Tasks \ {"sync"} : Stays(t) BY <1>3, <1>a DEF SyncConfiguration, Stays
  <2>. QED BY <1>3, <1>a, <1>c, <2>1, NumbersBegun DEF SyncConfiguration
<1>4. CASE SyncIdentity
  <2>1. \A t \in Tasks \ {"sync"} : Stays(t) BY <1>4, <1>a DEF SyncIdentity, Stays
  <2>2. task'["sync"].pc \notin Kinds BY <1>4, <1>a, NoTaskRests DEF SyncIdentity
  <2>. QED BY <1>4, <1>a, <2>1, <2>2, NumbersEnded DEF SyncIdentity
<1>5. ASSUME NEW others \in [Tasks -> TaskType], StartIndex(others),
             \A t \in Tasks : others[t].pc \in Kinds => others[t] = task[t]
      PROVE  ReloadsAreNumbered'
  <2>1. CASE task["index"].pc = "idle"
    <3>1. \A t \in Tasks \ {"index"} : Stays(t) BY <1>5, <2>1 DEF StartIndex, Stays
    <3>. QED BY <1>5, <1>a, <1>c, <2>1, <3>1, NumbersBegun DEF StartIndex, Begins
  <2>2. CASE task["index"].pc # "idle"
    <3>1. \A t \in Tasks : Stays(t) BY <1>5, <2>2 DEF StartIndex, Stays
    <3>. QED BY <1>5, <2>2, <3>1, NumbersKept DEF StartIndex
  <2>. QED BY <2>1, <2>2
<1>6. CASE SyncIndex
  <2>. DEFINE others == [task EXCEPT !["sync"].pc = "waiting"]
  <2>1. others \in [Tasks -> TaskType] BY <1>a DEF TaskType
  <2>2. \A t \in Tasks : others[t].pc \in Kinds => others[t] = task[t] BY <1>a DEF Kinds, TaskType
  <2>3. StartIndex(others) BY <1>6 DEF SyncIndex
  <2>. HIDE DEF others
  <2>. QED BY <1>5, <2>1, <2>2, <2>3
<1>7. CASE Refresh BY <1>a, <1>5, <1>7 DEF Refresh
<1>8. CASE IndexIdentity
  <2>1. \A t \in Tasks \ {"index"} : Stays(t) BY <1>8, <1>a DEF IndexIdentity, Stays
  <2>2. task'["index"].pc \notin Kinds BY <1>8, <1>a, NoTaskRests DEF IndexIdentity
  <2>. QED BY <1>8, <1>a, <2>1, <2>2, NumbersEnded DEF IndexIdentity
<1>9. CASE PostIndex
  <2>1. \A t \in Tasks : Stays(t) BY <1>9, <1>a DEF PostIndex, Stays, TaskType, Kinds
  <2>. QED BY <1>9, <2>1, NumbersKept DEF PostIndex
<1>10. ASSUME NEW d \in Documents, Mark(d) PROVE ReloadsAreNumbered'
  <2>1. \A t \in Tasks \ {"command"} : Stays(t) BY <1>10, <1>a DEF Mark, Stays
  <2>. QED BY <1>10, <1>a, <1>c, <2>1, NumbersBegun DEF Mark, Begins
<1>11. CASE Marked
  <2>1. \A t \in Tasks \ {"command"} : Stays(t) BY <1>11, <1>a DEF Marked, Stays
  <2>2. task'["command"].pc \notin Kinds BY <1>11, <1>a, <1>b DEF Marked
  <2>. QED BY <1>11, <1>a, <2>1, <2>2, NumbersEnded DEF Marked
<1>12. ASSUME EndIndex, begun' = begun PROVE ReloadsAreNumbered'
  <2>1. \A t \in Tasks : Stays(t) BY <1>12, <1>a, <1>b DEF EndIndex, Stays
  <2>. QED BY <1>12, <2>1, NumbersKept
<1>13. CASE AnswerIndex BY <1>12, <1>13 DEF AnswerIndex
<1>14. ASSUME task' = task, begun' = begun PROVE ReloadsAreNumbered' BY <1>14 DEF ReloadsAreNumbered
<1>15. CASE RequestFails BY <1>12, <1>14, <1>15 DEF RequestFails
<1>16. CASE AnswerRebuild BY <1>14, <1>16 DEF AnswerRebuild
<1>17. CASE ClearTemporaryModels BY <1>14, <1>17 DEF ClearTemporaryModels
<1>18. ASSUME NEW k \in Keys, AddTemporaryModel(k) PROVE ReloadsAreNumbered' BY <1>14, <1>18 DEF AddTemporaryModel
<1>19. ASSUME NEW d \in Documents, Edit(d) PROVE ReloadsAreNumbered' BY <1>14, <1>19 DEF Edit
<1>20. CASE UNCHANGED vars BY <1>14, <1>20 DEF vars
<1>. QED
  BY <1>1, <1>2, <1>3, <1>4, <1>6, <1>7, <1>8, <1>9, <1>10, <1>11, <1>13, <1>15, <1>16, <1>17, <1>18, <1>19, <1>20
  DEF Next, Step
-----------------------------------------------------------------------------
(* The indexes among the requests.                                         *)
IndexAt(queued, i) == i \in 1..Len(queued) /\ queued[i].kind = "index"

LEMMA AppendedAt ==
  ASSUME NEW queued \in Seq(RequestType), NEW r \in RequestType
  PROVE  /\ Append(queued, r) # <<>> /\ Len(Append(queued, r)) = Len(queued) + 1
         /\ Append(queued, r)[Len(queued) + 1] = r
         /\ \A i : IndexAt(Append(queued, r), i) <=> IndexAt(queued, i) \/ (i = Len(queued) + 1 /\ r.kind = "index")
<1>1. Len(queued) \in Nat OBVIOUS
<1>2. \A i \in 1..Len(queued) : Append(queued, r)[i] = queued[i] OBVIOUS
<1>3. Len(Append(queued, r)) = Len(queued) + 1 /\ Append(queued, r)[Len(queued) + 1] = r OBVIOUS
<1>4. Append(queued, r) # <<>> BY <1>1, <1>3
<1>. QED BY <1>1, <1>2, <1>3, <1>4 DEF IndexAt

LEMMA AnsweredAt ==
  ASSUME NEW queued \in Seq(RequestType), queued # <<>>
  PROVE  \A i : IndexAt(Tail(queued), i) <=> i \in Nat \ {0} /\ IndexAt(queued, i + 1)
<1>1. Len(queued) \in Nat \ {0} /\ Len(Tail(queued)) = Len(queued) - 1 OBVIOUS
<1>2. \A i \in 1..Len(Tail(queued)) : Tail(queued)[i] = queued[i + 1] OBVIOUS
<1>. QED BY <1>1, <1>2 DEF IndexAt

LEMMA HeadAt ==
  ASSUME NEW queued \in Seq(RequestType), queued # <<>>
  PROVE  Head(queued) = queued[1] /\ 1 \in 1..Len(queued)
OBVIOUS

LEMMA PostedByPlace ==
  PostedIsSent <=>
    /\ task["index"].pc = "posted" <=> \E i : IndexAt(requests, i)
    /\ \A i, j : IndexAt(requests, i) /\ IndexAt(requests, j) => i = j
BY DEF PostedIsSent, IndexAt

LEMMA PostedNextByPlace ==
  PostedIsSent' <=>
    /\ task'["index"].pc = "posted" <=> \E i : IndexAt(requests', i)
    /\ \A i, j : IndexAt(requests', i) /\ IndexAt(requests', j) => i = j
BY DEF PostedIsSent, IndexAt

SameIndex == task'["index"].pc = "posted" <=> task["index"].pc = "posted"

LEMMA PostedKept ==
  ASSUME PostedIsSent, SameIndex, requests' = requests
  PROVE  PostedIsSent'
BY PostedByPlace, PostedNextByPlace DEF SameIndex

LEMMA PostedRebuild ==
  ASSUME TypeOK, TypeOK', PostedIsSent, SameIndex, NEW undo, Rebuild(undo)
  PROVE  PostedIsSent'
<1>. DEFINE r == Request("configure", Effective', generation', undo)
<1>1. requests' = Append(requests, r) /\ requests \in Seq(RequestType) /\ requests' \in Seq(RequestType)
  BY DEF Rebuild, TypeOK
<1>2. r.kind # "index" BY DEF Request
<1>. HIDE DEF r
<1>3. Len(requests) \in Nat /\ Len(requests') = Len(requests) + 1 /\ requests'[Len(requests) + 1] = r BY <1>1
<1>4. r \in RequestType BY <1>1, <1>3
<1>5. \A i : IndexAt(requests', i) <=> IndexAt(requests, i) BY <1>1, <1>2, <1>4, AppendedAt
<1>. QED BY <1>5, PostedByPlace, PostedNextByPlace DEF SameIndex

LEMMA PostedAnswered ==
  ASSUME TypeOK, PostedIsSent, requests # <<>>, requests' = Tail(requests),
         IF Head(requests).kind = "index" THEN EndIndex ELSE task' = task
  PROVE  PostedIsSent'
<1>1. \A i : IndexAt(requests', i) <=> i \in Nat \ {0} /\ IndexAt(requests, i + 1) BY AnsweredAt DEF TypeOK
<1>2. CASE Head(requests).kind = "index"
  <2>1. IndexAt(requests, 1) BY <1>2, HeadAt DEF TypeOK, IndexAt
  <2>2. \A i : ~IndexAt(requests', i) BY <1>1, <2>1, PostedByPlace
  <2>3. task'["index"].pc # "posted" BY <1>2 DEF EndIndex, TypeOK, Tasks, NoTask
  <2>. QED BY <2>2, <2>3, PostedNextByPlace
<1>3. CASE Head(requests).kind # "index"
  <2>1. ~IndexAt(requests, 1) BY <1>3, HeadAt DEF TypeOK, IndexAt
  <2>2. \A i : IndexAt(requests, i) => i - 1 \in Nat \ {0} /\ IndexAt(requests', i - 1)
    <3>1. \A i : IndexAt(requests, i) => i \in Nat /\ i # 0 /\ i # 1
      BY <2>1 DEF IndexAt, TypeOK
    <3>. QED BY <1>1, <3>1
  <2>3. (\E i : IndexAt(requests', i)) <=> (\E i : IndexAt(requests, i)) BY <1>1, <2>2
  <2>4. \A i, j : IndexAt(requests', i) /\ IndexAt(requests', j) => i = j
    <3>. SUFFICES ASSUME NEW i, NEW j, IndexAt(requests', i), IndexAt(requests', j) PROVE i = j
      OBVIOUS
    <3>1. i \in Nat /\ j \in Nat BY <1>1
    <3>2. i + 1 = j + 1 BY <1>1, PostedByPlace
    <3>. QED BY <3>1, <3>2
  <2>. QED BY <1>3, <2>3, <2>4, PostedByPlace, PostedNextByPlace
<1>. QED BY <1>2, <1>3

LEMMA PostedStep ==
  ASSUME TypeOK, TypeOK', PostedIsSent, [Next]_vars
  PROVE  PostedIsSent'
<1>. USE DEF world, session, queue, outcome, order, bounds
<1>a. task \in [Tasks -> TaskType] /\ Tasks = {"sync", "command", "index"} BY DEF TypeOK, Tasks
<1>1. ASSUME NEW u \in Tasks, ReadsOneOfMore(u) PROVE PostedIsSent'
  <2>1. SameIndex BY <1>1, <1>a DEF ReadsOneOfMore, SameIndex, TaskType
  <2>. QED BY <1>1, <2>1, PostedKept DEF ReadsOneOfMore
<1>2. CASE StartSync
  <2>1. SameIndex BY <1>2, <1>a DEF StartSync, SameIndex
  <2>. QED BY <1>2, <2>1, PostedKept DEF StartSync
<1>3. CASE SyncConfiguration
  <2>1. SameIndex BY <1>3, <1>a DEF SyncConfiguration, SameIndex
  <2>. QED BY <1>3, <2>1, PostedKept DEF SyncConfiguration
<1>4. CASE SyncIdentity
  <2>1. SameIndex BY <1>4, <1>a DEF SyncIdentity, SameIndex
  <2>. QED BY <1>4, <2>1, PostedKept DEF SyncIdentity
<1>5. ASSUME NEW others, StartIndex(others), others["index"] = task["index"], others \in [Tasks -> TaskType]
      PROVE  SameIndex
  <2>1. CASE task["index"].pc = "idle" BY <1>5, <1>a, <2>1 DEF StartIndex, SameIndex, Reload
  <2>2. CASE task["index"].pc # "idle" BY <1>5, <2>2 DEF StartIndex, SameIndex
  <2>. QED BY <2>1, <2>2
<1>6. CASE SyncIndex
  <2>. DEFINE others == [task EXCEPT !["sync"].pc = "waiting"]
  <2>1. others \in [Tasks -> TaskType] BY <1>a DEF TaskType
  <2>2. others["index"] = task["index"] BY <1>a
  <2>3. StartIndex(others) BY <1>6 DEF SyncIndex
  <2>. HIDE DEF others
  <2>4. SameIndex BY <1>5, <2>1, <2>2, <2>3
  <2>. QED BY <1>6, <2>4, PostedKept DEF SyncIndex
<1>7. CASE Refresh
  <2>1. SameIndex BY <1>a, <1>5, <1>7 DEF Refresh
  <2>. QED BY <1>7, <2>1, PostedKept DEF Refresh
<1>8. CASE IndexIdentity
  <2>1. SameIndex BY <1>8, <1>a DEF IndexIdentity, SameIndex, NoTask
  <2>. QED BY <1>8, <2>1, PostedKept DEF IndexIdentity
<1>9. CASE PostIndex
  <2>. DEFINE r == Request("index", Effective, 0, NoUndo)
  <2>1. r \in RequestType BY RequestTyped, EffectiveType, NoUndoType
  <2>2. r.kind = "index" BY DEF Request
  <2>. HIDE DEF r
  <2>3. requests' = Append(requests, r) /\ requests \in Seq(RequestType) BY <1>9 DEF PostIndex, TypeOK, r
  <2>4. \A i : IndexAt(requests', i) <=> IndexAt(requests, i) \/ i = Len(requests) + 1
    BY <2>1, <2>2, <2>3, AppendedAt
  <2>5. \A i : ~IndexAt(requests, i) BY <1>9, PostedByPlace DEF PostIndex
  <2>6. task'["index"].pc = "posted" BY <1>9, <1>a DEF PostIndex, TaskType
  <2>. QED BY <2>4, <2>5, <2>6, PostedNextByPlace
<1>10. ASSUME NEW d \in Documents, Mark(d) PROVE PostedIsSent'
  <2>1. SameIndex BY <1>10, <1>a DEF Mark, SameIndex
  <2>. QED BY <1>10, <2>1, PostedKept DEF Mark
<1>11. CASE Marked
  <2>1. SameIndex BY <1>11, <1>a DEF Marked, SameIndex
  <2>2. CASE kept' # kept BY <1>11, <2>1, <2>2, PostedRebuild DEF Marked
  <2>3. CASE kept' = kept BY <1>11, <2>1, <2>3, PostedKept DEF Marked
  <2>. QED BY <2>2, <2>3
<1>12. CASE AnswerIndex BY <1>12, PostedAnswered DEF AnswerIndex
<1>13. CASE AnswerRebuild BY <1>13, PostedAnswered DEF AnswerRebuild
<1>14. CASE RequestFails BY <1>14, PostedAnswered DEF RequestFails
<1>15. CASE ClearTemporaryModels
  <2>1. SameIndex BY <1>15 DEF ClearTemporaryModels, SameIndex
  <2>. QED BY <1>15, <2>1, PostedRebuild DEF ClearTemporaryModels
<1>16. ASSUME NEW k \in Keys, AddTemporaryModel(k) PROVE PostedIsSent'
  <2>1. SameIndex BY <1>16 DEF AddTemporaryModel, SameIndex
  <2>. QED BY <1>16, <2>1, PostedRebuild DEF AddTemporaryModel
<1>17. ASSUME NEW d \in Documents, Edit(d) PROVE PostedIsSent'
  BY <1>17, PostedKept DEF Edit, SameIndex
<1>18. CASE UNCHANGED vars BY <1>18, PostedKept DEF vars, SameIndex
<1>. QED
  BY <1>1, <1>2, <1>3, <1>4, <1>6, <1>7, <1>8, <1>9, <1>10, <1>11, <1>12, <1>13, <1>14, <1>15, <1>16, <1>17, <1>18
  DEF Next, Step
-----------------------------------------------------------------------------
(* The findings.                                                           *)
LEMMA AnotherRebuild ==
  ASSUME FindingsAreOfWorker, AnswerRebuild
  PROVE  FindingsAreOfWorker'
<1>. DEFINE had == FindingsOf(worker)
            has == FindingsOf(worker')
            delta == Delta(worker, worker')
<1>1. FindingsAreOfWorker' <=> (~lost' => findings' = has) BY DEF FindingsAreOfWorker, FindingsOf
<1>2. ~lost => findings = had BY DEF FindingsAreOfWorker
<1>3. CASE Head(requests).generation = generation
  <2>1. findings' = ApplyDelta(delta) /\ lost' = lost BY <1>3 DEF AnswerRebuild
  <2>2. delta.removed = had \ has /\ delta.upsert = has \ had BY DEF Delta
  <2>3. findings' = (findings \ (had \ has)) \union (has \ had) BY <2>1, <2>2 DEF ApplyDelta
  <2>. HIDE DEF had, has
  <2>4. findings = had => findings' = has BY <2>3
  <2>5. ~lost' => findings = had BY <1>2, <2>1
  <2>. QED BY <1>1, <2>4, <2>5
<1>4. CASE Head(requests).generation # generation
  <2>1. findings' = findings BY <1>4 DEF AnswerRebuild
  <2>2. lost' = (lost \/ had # has) BY <1>4 DEF AnswerRebuild
  <2>. HIDE DEF had, has
  <2>3. ~lost' => ~lost BY <2>2
  <2>4. ~lost' => had = has BY <2>2
  <2>. QED BY <1>1, <1>2, <2>1, <2>3, <2>4
<1>. QED BY <1>3, <1>4

LEMMA FindingsStep ==
  ASSUME FindingsAreOfWorker, [Next]_vars
  PROVE  FindingsAreOfWorker'
<1>. USE DEF world, session, queue, outcome, order, bounds
<1>1. ASSUME UNCHANGED outcome PROVE FindingsAreOfWorker'
  BY <1>1 DEF FindingsAreOfWorker, FindingsOf
<1>2. CASE AnswerIndex
  <2>1. findings' = FindingsOf(worker') BY <1>2 DEF AnswerIndex, ShowIndex, FindingsOf
  <2>. QED BY <2>1 DEF FindingsAreOfWorker, FindingsOf
<1>3. CASE RequestFails
  <2>1. lost' = (lost \/ worker' # worker) /\ findings' = findings BY <1>3 DEF RequestFails
  <2>2. ~lost' => ~lost BY <2>1
  <2>3. ~lost' => worker' = worker BY <2>1
  <2>. QED BY <2>1, <2>2, <2>3 DEF FindingsAreOfWorker, FindingsOf
<1>4. ASSUME NEW u \in Tasks, ReadsOneOfMore(u) PROVE UNCHANGED outcome BY <1>4 DEF ReadsOneOfMore
<1>5. StartSync \/ SyncConfiguration \/ SyncIdentity \/ SyncIndex \/ Refresh => UNCHANGED outcome
  BY DEF StartSync, SyncConfiguration, SyncIdentity, SyncIndex, Refresh
<1>6. IndexIdentity \/ PostIndex \/ Marked \/ ClearTemporaryModels => UNCHANGED outcome
  BY DEF IndexIdentity, PostIndex, Marked, ClearTemporaryModels
<1>7. ASSUME NEW d \in Documents, Edit(d) \/ Mark(d) PROVE UNCHANGED outcome BY <1>7 DEF Edit, Mark
<1>8. ASSUME NEW k \in Keys, AddTemporaryModel(k) PROVE UNCHANGED outcome BY <1>8 DEF AddTemporaryModel
<1>9. UNCHANGED vars => UNCHANGED outcome BY DEF vars
<1>. QED BY <1>1, <1>2, <1>3, <1>4, <1>5, <1>6, <1>7, <1>8, <1>9, AnotherRebuild DEF Next, Step
-----------------------------------------------------------------------------
(* What the worker will have.                                              *)
LEMMA LatestKept ==
  ASSUME LatestIsEffective, UNCHANGED <<kept, models, requests, worker, behind, joined>>,
         IndexToCome => IndexToCome'
  PROVE  LatestIsEffective'
<1>1. Latest' = Latest /\ Effective' = Effective BY DEF Latest, Effective
<1>2. MadeSince' <=> MadeSince BY DEF MadeSince
<1>3. joined' = joined /\ behind' = behind /\ requests' = requests OBVIOUS
<1>. QED BY <1>1, <1>2, <1>3 DEF LatestIsEffective

LEMMA LatestToCome ==
  ASSUME LatestIsEffective, UNCHANGED <<requests, behind>>, IndexToCome'
  PROVE  LatestIsEffective'
BY DEF LatestIsEffective

LEMMA LatestAppended ==
  ASSUME TypeOK, LatestIsEffective, NEW r \in RequestType, requests' = Append(requests, r),
         r.options = Effective', behind' = behind
  PROVE  LatestIsEffective'
<1>1. requests \in Seq(RequestType) /\ Len(requests) \in Nat /\ behind \in Nat BY DEF TypeOK
<1>2. requests' # <<>> /\ Len(requests') = Len(requests) + 1 /\ requests'[Len(requests')] = r
  BY <1>1, AppendedAt
<1>3. Latest' = Effective' BY <1>2 DEF Latest
<1>4. behind' =< Len(requests') + 1 BY <1>1, <1>2 DEF LatestIsEffective
<1>. QED BY <1>3, <1>4 DEF LatestIsEffective

LEMMA LatestRebuilt ==
  ASSUME TypeOK, TypeOK', LatestIsEffective, NEW undo, Rebuild(undo), behind' = behind
  PROVE  LatestIsEffective'
<1>. DEFINE r == Request("configure", Effective', generation', undo)
<1>1. requests' = Append(requests, r) /\ requests \in Seq(RequestType) /\ requests' \in Seq(RequestType)
  BY DEF Rebuild, TypeOK
<1>2. r.options = Effective' BY DEF Request
<1>. HIDE DEF r
<1>3. Len(requests) \in Nat /\ Len(requests') = Len(requests) + 1 /\ requests'[Len(requests) + 1] = r BY <1>1
<1>4. r \in RequestType BY <1>1, <1>3
<1>. QED BY <1>1, <1>2, <1>4, LatestAppended

LEMMA LatestOfTail ==
  ASSUME TypeOK, requests # <<>>, requests' = Tail(requests), worker' = Head(requests).options
  PROVE  Latest' = Latest
<1>1. requests \in Seq(RequestType) BY DEF TypeOK
<1>2. Len(requests) \in Nat \ {0} /\ Len(requests') = Len(requests) - 1 BY <1>1
<1>3. CASE Len(requests) = 1
  <2>1. requests' = <<>> BY <1>1, <1>3
  <2>2. Head(requests) = requests[Len(requests)] BY <1>1, <1>3
  <2>. QED BY <2>1, <2>2 DEF Latest
<1>4. CASE Len(requests) # 1
  <2>1. Len(requests') \in Nat \ {0} BY <1>2, <1>4
  <2>2. requests' # <<>> BY <2>1
  <2>3. requests'[Len(requests')] = requests[Len(requests)] BY <1>1, <1>2, <1>4
  <2>. QED BY <2>2, <2>3 DEF Latest
<1>. QED BY <1>3, <1>4

LEMMA LatestAnswered ==
  ASSUME TypeOK, LatestIsEffective, requests # <<>>, requests' = Tail(requests),
         worker' = Head(requests).options, Answered, UNCHANGED <<kept, models, joined>>,
         IndexToCome => IndexToCome'
  PROVE  LatestIsEffective'
<1>1. requests \in Seq(RequestType) /\ behind \in Nat BY DEF TypeOK
<1>2. Len(requests) \in Nat \ {0} /\ Len(requests') = Len(requests) - 1 BY <1>1
<1>3. behind =< Len(requests) + 1 BY DEF LatestIsEffective
<1>4. behind' =< Len(requests') + 1 BY <1>1, <1>2, <1>3 DEF Answered
<1>5. MadeSince' => MadeSince BY <1>1, <1>2 DEF MadeSince, Answered
<1>6. Latest' = Latest /\ Effective' = Effective BY LatestOfTail DEF Effective
<1>7. joined' = joined OBVIOUS
<1>. QED BY <1>4, <1>5, <1>6, <1>7 DEF LatestIsEffective

LEMMA LatestFailed ==
  ASSUME TypeOK, RequestFails
  PROVE  LatestIsEffective'
<1>1. requests \in Seq(RequestType) /\ requests # <<>> BY DEF TypeOK, RequestFails
<1>2. Len(requests) \in Nat \ {0} /\ Len(Tail(requests)) = Len(requests) - 1 BY <1>1
<1>3. behind' = Len(requests) /\ Len(requests') = Len(requests) - 1 BY <1>2 DEF RequestFails
<1>4. ~MadeSince' BY <1>2, <1>3 DEF MadeSince
<1>5. behind' =< Len(requests') + 1 BY <1>2, <1>3
<1>. QED BY <1>4, <1>5 DEF LatestIsEffective

(* A synchronisation that finds an index under way waits for it: either    *)
(* the index has yet to read the settings, or it was sent with them.       *)
LEMMA LatestOnSync ==
  ASSUME TypeOK, LatestIsEffective, PostedIsSent, SyncIndex
  PROVE  LatestIsEffective'
<1>. USE DEF session, outcome
<1>a. task \in [Tasks -> TaskType] /\ Tasks = {"sync", "command", "index"} BY DEF TypeOK, Tasks
<1>. DEFINE others == [task EXCEPT !["sync"].pc = "waiting"]
<1>1. others \in [Tasks -> TaskType] /\ others["index"] = task["index"] BY <1>a DEF TaskType
<1>2. StartIndex(others) BY DEF SyncIndex
<1>. HIDE DEF others
<1>3. CASE task["index"].pc = "idle"
  <2>1. task'["index"].pc = "identity" BY <1>a, <1>1, <1>2, <1>3 DEF StartIndex, Reload
  <2>2. IndexToCome' BY <2>1 DEF IndexToCome
  <2>. QED BY <2>2, LatestToCome DEF SyncIndex
<1>4. CASE task["index"].pc \notin {"idle", "posted"}
  <2>1. task'["index"].pc = task["index"].pc BY <1>1, <1>2, <1>4 DEF StartIndex
  <2>2. IndexToCome' BY <1>4, <2>1 DEF IndexToCome
  <2>. QED BY <2>2, LatestToCome DEF SyncIndex
<1>5. CASE task["index"].pc = "posted"
  <2>1. joined' = (joined \/ requests[Len(requests)].options # Effective) BY <1>2, <1>5 DEF StartIndex
  <2>2. \E i \in 1..Len(requests) : requests[i].kind = "index" BY <1>5 DEF PostedIsSent
  <2>3. requests # <<>> BY <2>2
  <2>4. Latest' = requests[Len(requests)].options /\ Effective' = Effective
    BY <2>3 DEF Latest, Effective, SyncIndex
  <2>5. ~joined' => Latest' = Effective' BY <2>1, <2>4
  <2>6. behind' =< Len(requests') + 1 BY DEF LatestIsEffective, SyncIndex
  <2>. QED BY <2>5, <2>6 DEF LatestIsEffective
<1>. QED BY <1>3, <1>4, <1>5

LEMMA LatestStep ==
  ASSUME TypeOK, TypeOK', LatestIsEffective, PostedIsSent, [Next]_vars
  PROVE  LatestIsEffective'
<1>. USE DEF world, session, queue, outcome, order, bounds
<1>a. task \in [Tasks -> TaskType] /\ Tasks = {"sync", "command", "index"} BY DEF TypeOK, Tasks
<1>1. ASSUME NEW u \in Tasks, ReadsOneOfMore(u) PROVE LatestIsEffective'
  <2>1. IndexToCome => IndexToCome' BY <1>1, <1>a DEF ReadsOneOfMore, IndexToCome, TaskType
  <2>. QED BY <1>1, <2>1, LatestKept DEF ReadsOneOfMore
<1>2. CASE StartSync
  <2>1. IndexToCome => IndexToCome' BY <1>2, <1>a DEF StartSync, IndexToCome
  <2>. QED BY <1>2, <2>1, LatestKept DEF StartSync
<1>3. CASE SyncConfiguration
  <2>1. IndexToCome' BY <1>3, <1>a DEF SyncConfiguration, IndexToCome, Reload
  <2>. QED BY <1>3, <2>1, LatestToCome DEF SyncConfiguration
<1>4. CASE SyncIdentity
  <2>1. IndexToCome' BY <1>4, <1>a DEF SyncIdentity, IndexToCome, NoTask
  <2>. QED BY <1>4, <2>1, LatestToCome DEF SyncIdentity
<1>5. CASE SyncIndex BY <1>5, LatestOnSync
<1>6. CASE Refresh
  <2>1. task'["index"].pc = "identity" BY <1>6, <1>a DEF Refresh, StartIndex, Reload
  <2>2. IndexToCome' BY <2>1 DEF IndexToCome
  <2>. QED BY <1>6, <2>2, LatestToCome DEF Refresh
<1>7. CASE IndexIdentity
  <2>1. IndexToCome' BY <1>7, <1>a DEF IndexIdentity, IndexToCome, NoTask
  <2>. QED BY <1>7, <2>1, LatestToCome DEF IndexIdentity
<1>8. CASE PostIndex
  <2>. DEFINE r == Request("index", Effective, 0, NoUndo)
  <2>1. r \in RequestType BY RequestTyped, EffectiveType, NoUndoType
  <2>2. r.options = Effective' BY <1>8 DEF Request, PostIndex, Effective
  <2>3. requests' = Append(requests, r) /\ behind' = behind BY <1>8 DEF PostIndex
  <2>. HIDE DEF r
  <2>. QED BY <2>1, <2>2, <2>3, LatestAppended
<1>9. ASSUME NEW d \in Documents, Mark(d) PROVE LatestIsEffective'
  <2>1. IndexToCome => IndexToCome' BY <1>9, <1>a DEF Mark, IndexToCome
  <2>. QED BY <1>9, <2>1, LatestKept DEF Mark
<1>10. CASE Marked
  <2>1. CASE kept' # kept BY <1>10, <2>1, LatestRebuilt DEF Marked
  <2>2. CASE kept' = kept
    <3>1. IndexToCome => IndexToCome' BY <1>10, <1>a DEF Marked, IndexToCome
    <3>. QED BY <1>10, <2>2, <3>1, LatestKept DEF Marked
  <2>. QED BY <2>1, <2>2
<1>11. CASE AnswerIndex
  <2>1. Head(requests).kind = "index" /\ requests # <<>> BY <1>11 DEF AnswerIndex
  <2>2. \E i \in 1..Len(requests) : requests[i].kind = "index" BY <2>1, HeadAt DEF TypeOK
  <2>3. task["index"].pc = "posted" BY <2>2 DEF PostedIsSent
  <2>4. IndexToCome => task'["sync"] = task["sync"] BY <1>11, <1>a, <2>3 DEF AnswerIndex, EndIndex, IndexToCome
  <2>5. IndexToCome => IndexToCome' BY <2>3, <2>4 DEF IndexToCome
  <2>. QED BY <1>11, <2>5, LatestAnswered DEF AnswerIndex
<1>12. CASE AnswerRebuild
  <2>1. IndexToCome => IndexToCome' BY <1>12 DEF AnswerRebuild, IndexToCome
  <2>. QED BY <1>12, <2>1, LatestAnswered DEF AnswerRebuild
<1>13. CASE RequestFails BY <1>13, LatestFailed
<1>14. CASE ClearTemporaryModels BY <1>14, LatestRebuilt DEF ClearTemporaryModels
<1>15. ASSUME NEW k \in Keys, AddTemporaryModel(k) PROVE LatestIsEffective'
  BY <1>15, LatestRebuilt DEF AddTemporaryModel
<1>16. ASSUME NEW d \in Documents, Edit(d) PROVE LatestIsEffective'
  BY <1>16, LatestKept DEF Edit, IndexToCome
<1>17. CASE UNCHANGED vars BY <1>17, LatestKept DEF vars, IndexToCome
<1>. QED
  BY <1>1, <1>2, <1>3, <1>4, <1>5, <1>6, <1>7, <1>8, <1>9, <1>10, <1>11, <1>12, <1>13, <1>14, <1>15, <1>16, <1>17
  DEF Next, Step
-----------------------------------------------------------------------------
(* What the documents say.                                                 *)
LEMMA ReadIsFollowed ==
  ASSUME TypeOK, ReloadsReadTheirKind, NEW t \in Tasks, task[t].todo # {}, task[t].pc \in Kinds,
         NEW d \in Of(task[t].pc), file[d] # Broken, WillFollow(t, d)
  PROVE  d \in Others(t) \/ Read(t, First(t))[d] = file[d]
<1>1. First(t) \in task[t].todo BY FirstIsToDo
<1>2. task[t].todo \union DOMAIN task[t].read = Of(task[t].pc) BY DEF ReloadsReadTheirKind, WellRead
<1>3. CASE d = First(t) BY <1>3 DEF Read, Value
<1>4. CASE d # First(t) /\ d \in task[t].todo BY <1>4 DEF Others
<1>5. CASE d \notin task[t].todo
  <2>1. task[t].read[d] = file[d] /\ d \in DOMAIN task[t].read /\ d # First(t)
    BY <1>1, <1>2, <1>5 DEF WillFollow
  <2>. QED BY <2>1 DEF Read
<1>. QED BY <1>3, <1>4, <1>5

LEMMA LastIsRead ==
  ASSUME TypeOK, ReloadsReadTheirKind, NEW t \in Tasks, NEW kind \in Kinds, task[t].pc = kind,
         ReadsLast(t, kind)
  PROVE  /\ \A d \in Of(kind) : kept'[d] = Read(t, First(t))[d]
         /\ \A d \in Documents \ Of(kind) : kept'[d] = kept[d]
<1>1. First(t) \in task[t].todo BY FirstIsToDo DEF ReadsLast
<1>2. task[t].todo = {First(t)} BY <1>1 DEF ReadsLast, Others
<1>3. task[t].todo \union DOMAIN task[t].read = Of(kind) BY DEF ReloadsReadTheirKind, WellRead
<1>4. DOMAIN Read(t, First(t)) = Of(kind) BY <1>2, <1>3 DEF Read
<1>5. kept' = Reloaded(t, First(t)) BY DEF ReadsLast
<1>6. Of(kind) \subseteq Documents BY DEF Of
<1>. QED BY <1>4, <1>5, <1>6 DEF Reloaded

LEMMA FollowsKept ==
  ASSUME NEW kind \in Kinds, NEW d, Follows(kind, d), kept'[d] = kept[d], file' = file,
         ended'[kind] = ended[kind],
         \A t \in Tasks : task[t].pc = kind \/ task'[t].pc = kind => task'[t] = task[t]
  PROVE  Follows(kind, d)'
BY DEF Follows, BeganLast, WillFollow

LEMMA FollowsBegun ==
  ASSUME TypeOK, ReloadsAreNumbered, NEW kind \in Kinds, NEW d \in Of(kind), NEW t \in Tasks,
         task'[t] = Reload(kind, kind),
         \A u \in Tasks \ {t} : task'[u].pc = kind => task'[u] = task[u]
  PROVE  Follows(kind, d)'
<1>1. task'[t].pc = kind /\ d \in task'[t].todo /\ task'[t].began = begun + 1 BY DEF Reload
<1>2. begun \in Nat /\ \A u \in Tasks : task[u].began \in Nat BY DEF TypeOK, TaskType
<1>3. \A u \in Tasks : task[u].pc = kind => task[u].began =< begun BY DEF ReloadsAreNumbered
<1>4. \A u \in Tasks : task'[u].pc = kind => task'[u].began =< task'[t].began BY <1>1, <1>2, <1>3
<1>5. BeganLast(t, kind)' BY <1>1, <1>4 DEF BeganLast
<1>. QED BY <1>1, <1>5 DEF Follows, WillFollow

LEMMA FollowsEnded ==
  ASSUME TypeOK, ReloadsReadTheirKind, ReloadsAreNumbered, NEW kind \in Kinds, NEW t \in Tasks,
         task[t].pc = kind, ReadsLast(t, kind), ~overlapped', file' = file,
         task'[t].pc # kind, \A u \in Tasks \ {t} : task'[u] = task[u],
         NEW d \in Of(kind), file[d] # Broken, Follows(kind, d)
  PROVE  Follows(kind, d)'
<1>1. ended[kind] \in Nat /\ \A u \in Tasks : task[u].began \in Nat BY DEF TypeOK, TaskType
<1>2. overlapped' = (overlapped \/ task[t].began < ended[kind]) BY DEF ReadsLast
<1>3. ended[kind] =< task[t].began
  <2>1. ~(task[t].began < ended[kind]) BY <1>2
  <2>. QED BY <1>1, <2>1
<1>4. PICK v \in Tasks : BeganLast(v, kind) /\ WillFollow(v, d) BY <1>1, <1>3 DEF Follows
<1>5. CASE v = t
  <2>1. Read(t, First(t))[d] = file[d] BY <1>4, <1>5, ReadIsFollowed DEF ReadsLast
  <2>2. kept'[d] = file'[d] BY <2>1, LastIsRead
  <2>3. ASSUME NEW u \in Tasks, task'[u].pc = kind PROVE task'[u].began < ended'[kind]
    <3>1. u # t /\ task'[u] = task[u] /\ task[u].pc = kind BY <2>3
    <3>2. Overlaps(t) BY <3>1 DEF Overlaps
    <3>3. ended'[kind] = task[t].began BY <1>1, <1>3, <3>2 DEF ReadsLast, TypeOK
    <3>4. task[u].began =< task[t].began BY <1>4, <1>5, <3>1 DEF BeganLast
    <3>5. task[u].began # task[t].began BY <3>1 DEF ReloadsAreNumbered
    <3>. QED BY <1>1, <3>1, <3>3, <3>4, <3>5
  <2>. QED BY <2>2, <2>3 DEF Follows
<1>6. CASE v # t
  <2>1. task'[v] = task[v] BY <1>6
  <2>2. BeganLast(v, kind)' BY <1>4, <2>1 DEF BeganLast
  <2>3. WillFollow(v, d)' BY <1>4, <2>1 DEF WillFollow
  <2>. QED BY <2>2, <2>3 DEF Follows
<1>. QED BY <1>5, <1>6

LEMMA FollowsOther ==
  ASSUME TypeOK, ReloadsReadTheirKind, NEW kind \in Kinds, NEW other \in Kinds, kind # other,
         NEW t \in Tasks, task[t].pc = other, ReadsLast(t, other), file' = file,
         task'[t].pc # kind, \A u \in Tasks \ {t} : task'[u] = task[u],
         NEW d \in Of(kind), Follows(kind, d)
  PROVE  Follows(kind, d)'
<1>1. d \in Documents \ Of(other) BY DEF Of
<1>2. kept'[d] = kept[d] BY <1>1, LastIsRead
<1>3. CASE Overlaps(t)
  <2>1. ended'[kind] = ended[kind] BY <1>3 DEF ReadsLast, TypeOK
  <2>. QED BY <1>2, <2>1, FollowsKept
<1>4. CASE ~Overlaps(t)
  <2>1. \A u \in Tasks : task[u].pc # kind BY <1>4 DEF Overlaps
  <2>2. \A u \in Tasks : task'[u].pc # kind BY <2>1
  <2>3. kept[d] = file[d] BY <2>1 DEF Follows, BeganLast
  <2>. QED BY <1>2, <2>2, <2>3 DEF Follows
<1>. QED BY <1>3, <1>4

LEMMA FilesKept ==
  ASSUME FilesAreFollowed, UNCHANGED <<file, kept, ended, overlapped>>, ~due' => ~due,
         \A t \in Tasks : task[t].pc \in Kinds \/ task'[t].pc \in Kinds => task'[t] = task[t]
  PROVE  FilesAreFollowed'
<1>. SUFFICES ASSUME ~overlapped', ~due', NEW kind \in Kinds, ~Awaited(kind)', NEW d \in Of(kind),
                     file'[d] # Broken
              PROVE  Follows(kind, d)'
  BY DEF FilesAreFollowed, Of
<1>1. overlapped' = overlapped /\ file' = file /\ kept' = kept /\ ended' = ended OBVIOUS
<1>2. ~overlapped /\ ~due BY <1>1
<1>3. "sync" \in Tasks BY DEF Tasks
<1>4. ~Awaited(kind) BY <1>3 DEF Awaited, Kinds
<1>5. Follows(kind, d) BY <1>1, <1>2, <1>4 DEF FilesAreFollowed
<1>. QED BY <1>1, <1>5, FollowsKept

LEMMA FilesReloaded ==
  ASSUME TypeOK, ReloadsReadTheirKind, ReloadsAreNumbered, FilesAreFollowed,
         NEW other \in Kinds, NEW t \in Tasks, task[t].pc = other, ReadsLast(t, other),
         UNCHANGED <<file, due>>, task'[t].pc \notin Kinds, \A u \in Tasks \ {t} : task'[u] = task[u],
         t = "sync" => other = "identity"
  PROVE  FilesAreFollowed'
<1>. SUFFICES ASSUME ~overlapped', ~due', NEW kind \in Kinds, ~Awaited(kind)', NEW d \in Of(kind),
                     file'[d] # Broken
              PROVE  Follows(kind, d)'
  BY DEF FilesAreFollowed, Of
<1>1. overlapped' = (overlapped \/ task[t].began < ended[other]) /\ file' = file /\ due' = due BY DEF ReadsLast
<1>2. ~overlapped BY <1>1
<1>3. ~due BY <1>1
<1>4. "sync" \in Tasks /\ Kinds = {"configuration", "identity"} BY DEF Tasks, Kinds
<1>5. ~Awaited(kind) BY <1>4 DEF Awaited
<1>6. file[d] # Broken BY <1>1
<1>7. Follows(kind, d) BY <1>2, <1>3, <1>5, <1>6 DEF FilesAreFollowed
<1>8. CASE kind = other BY <1>1, <1>6, <1>7, <1>8, FollowsEnded
<1>9. CASE kind # other BY <1>1, <1>6, <1>7, <1>9, FollowsOther
<1>. QED BY <1>8, <1>9

LEMMA FilesBegun ==
  ASSUME TypeOK, ReloadsAreNumbered, FilesAreFollowed, UNCHANGED <<file, due, kept, ended, overlapped>>,
         task["index"].pc = "idle", task'["index"] = Reload("identity", "identity"),
         \A t \in Tasks \ {"index"} : task[t].pc \in Kinds \/ task'[t].pc \in Kinds => task'[t] = task[t]
  PROVE  FilesAreFollowed'
<1>. SUFFICES ASSUME ~overlapped', ~due', NEW kind \in Kinds, ~Awaited(kind)', NEW d \in Of(kind),
                     file'[d] # Broken
              PROVE  Follows(kind, d)'
  BY DEF FilesAreFollowed, Of
<1>1. overlapped' = overlapped /\ due' = due /\ file' = file /\ kept' = kept /\ ended' = ended OBVIOUS
<1>2. "sync" \in Tasks /\ "index" \in Tasks /\ Kinds = {"configuration", "identity"} BY DEF Tasks, Kinds
<1>3. CASE kind = "identity" BY <1>2, <1>3, FollowsBegun
<1>4. CASE kind = "configuration"
  <2>1. ~overlapped /\ ~due /\ file[d] # Broken BY <1>1
  <2>2. ~Awaited(kind) BY <1>4 DEF Awaited
  <2>3. Follows(kind, d) BY <2>1, <2>2 DEF FilesAreFollowed
  <2>4. task'["index"].pc = "identity" BY DEF Reload
  <2>5. \A t \in Tasks : task[t].pc = kind \/ task'[t].pc = kind => task'[t] = task[t] BY <1>2, <1>4, <2>4
  <2>. QED BY <1>1, <2>3, <2>5, FollowsKept
<1>. QED BY <1>2, <1>3, <1>4

LEMMA FilesRead ==
  ASSUME TypeOK, ReloadsReadTheirKind, FilesAreFollowed, NEW t \in Tasks, ReadsOneOfMore(t)
  PROVE  FilesAreFollowed'
<1>. USE DEF world, session, queue, outcome, order, bounds
<1>. SUFFICES ASSUME ~overlapped', ~due', NEW kind \in Kinds, ~Awaited(kind)', NEW d \in Of(kind),
                     file'[d] # Broken
              PROVE  Follows(kind, d)'
  BY DEF FilesAreFollowed, Of
<1>1. overlapped' = overlapped /\ due' = due /\ file' = file /\ kept' = kept /\ ended' = ended BY DEF ReadsOneOfMore
<1>2. task' = [task EXCEPT ![t].todo = Others(t), ![t].read = Read(t, First(t))] /\ task[t].todo # {}
  BY DEF ReadsOneOfMore
<1>3. task \in [Tasks -> TaskType] /\ "sync" \in Tasks BY DEF TypeOK, Tasks
<1>4. \A u \in Tasks : task'[u].pc = task[u].pc /\ task'[u].began = task[u].began BY <1>2, <1>3 DEF TaskType
<1>5. ~overlapped /\ ~due /\ file[d] # Broken BY <1>1
<1>6. ~Awaited(kind) BY <1>3, <1>4 DEF Awaited
<1>7. Follows(kind, d) BY <1>5, <1>6 DEF FilesAreFollowed
<1>8. CASE kept[d] = file[d] /\ \A u \in Tasks : task[u].pc = kind => task[u].began < ended[kind]
  BY <1>1, <1>4, <1>8 DEF Follows
<1>9. ASSUME NEW u \in Tasks, BeganLast(u, kind), WillFollow(u, d) PROVE Follows(kind, d)'
  <2>1. BeganLast(u, kind)' BY <1>4, <1>9 DEF BeganLast
  <2>2. CASE u # t
    <3>1. task'[u] = task[u] BY <1>2, <1>3, <2>2
    <3>. QED BY <1>1, <1>9, <2>1, <3>1 DEF Follows, WillFollow
  <2>3. CASE u = t
    <3>1. task[t].pc = kind BY <1>9, <2>3 DEF BeganLast
    <3>2. d \in Others(t) \/ Read(t, First(t))[d] = file[d] BY <1>2, <1>5, <1>9, <2>3, <3>1, ReadIsFollowed
    <3>3. task'[t].todo = Others(t) /\ task'[t].read = Read(t, First(t)) BY <1>2, <1>3 DEF TaskType
    <3>. QED BY <1>1, <2>1, <2>3, <3>2, <3>3 DEF Follows, WillFollow
  <2>. QED BY <2>2, <2>3
<1>. QED BY <1>7, <1>8, <1>9 DEF Follows

LEMMA FilesStep ==
  ASSUME TypeOK, TypeOK', ReloadsReadTheirKind, ReloadsAreNumbered, PostedIsSent, FilesAreFollowed, [Next]_vars
  PROVE  FilesAreFollowed'
<1>. USE DEF world, session, queue, outcome, order, bounds
<1>a. task \in [Tasks -> TaskType] /\ Tasks = {"sync", "command", "index"} BY DEF TypeOK, Tasks
<1>b. Kinds = {"configuration", "identity"} BY DEF Kinds
<1>1. ASSUME NEW u \in Tasks, ReadsOneOfMore(u) PROVE FilesAreFollowed' BY <1>1, FilesRead
<1>2. CASE StartSync
  <2>1. task'["sync"] = Reload("configuration", "configuration") /\ "sync" \in Tasks
    BY <1>2, <1>a DEF StartSync
  <2>2. \A u \in Tasks \ {"sync"} : task'[u] = task[u] BY <1>2, <1>a DEF StartSync
  <2>3. ASSUME NEW d \in Of("configuration") PROVE Follows("configuration", d)'
    BY <1>b, <2>1, <2>2, FollowsBegun
  <2>4. Awaited("identity")' BY <2>1 DEF Awaited, Reload
  <2>5. \A d \in Of("configuration") : Follows("configuration", d)' BY <2>3
  <2>. QED BY <1>b, <2>4, <2>5 DEF FilesAreFollowed, Of
<1>3. CASE SyncConfiguration
  <2>1. task'["sync"] = Reload("identity", "identity") /\ "sync" \in Tasks BY <1>3, <1>a DEF SyncConfiguration
  <2>2. \A u \in Tasks \ {"sync"} : task'[u] = task[u] BY <1>3, <1>a DEF SyncConfiguration
  <2>3. task["sync"].pc = "configuration" /\ ReadsLast("sync", "configuration") /\ file' = file /\ due' = due
    BY <1>3 DEF SyncConfiguration
  <2>4. ASSUME NEW d \in Of("identity") PROVE Follows("identity", d)'
    BY <1>b, <2>1, <2>2, FollowsBegun
  <2>5. ASSUME ~overlapped', ~due', NEW d \in Of("configuration"), file'[d] # Broken
        PROVE  Follows("configuration", d)'
    <3>1. overlapped' = (overlapped \/ task["sync"].began < ended["configuration"]) BY <2>3 DEF ReadsLast
    <3>2. ~overlapped BY <2>5, <3>1
    <3>3. ~due BY <2>3, <2>5
    <3>4. file[d] # Broken BY <2>3, <2>5
    <3>5. ~Awaited("configuration") BY DEF Awaited
    <3>6. Follows("configuration", d) BY <1>b, <2>5, <3>2, <3>3, <3>4, <3>5 DEF FilesAreFollowed
    <3>7. task'["sync"].pc # "configuration" BY <2>1 DEF Reload
    <3>. QED BY <1>b, <2>1, <2>2, <2>3, <2>5, <3>4, <3>6, <3>7, FollowsEnded
  <2>6. \A d \in Of("identity") : Follows("identity", d)' BY <2>4
  <2>7. ~overlapped' /\ ~due' => \A d \in Of("configuration") : file'[d] # Broken => Follows("configuration", d)'
    BY <2>5
  <2>. QED BY <1>b, <2>6, <2>7 DEF FilesAreFollowed, Of
<1>4. CASE SyncIdentity
  <2>1. task'["sync"].pc \notin Kinds /\ \A u \in Tasks \ {"sync"} : task'[u] = task[u]
    BY <1>4, <1>a, <1>b DEF SyncIdentity, NoTask
  <2>. QED BY <1>4, <1>a, <1>b, <2>1, FilesReloaded DEF SyncIdentity
<1>5. CASE SyncIndex
  <2>. DEFINE others == [task EXCEPT !["sync"].pc = "waiting"]
  <2>1. others["index"] = task["index"] /\ \A u \in Tasks \ {"sync"} : others[u] = task[u] BY <1>a
  <2>2. task["sync"].pc \notin Kinds /\ others["sync"].pc \notin Kinds
    BY <1>5, <1>a, <1>b DEF SyncIndex, TaskType
  <2>3. StartIndex(others) /\ UNCHANGED <<file, due, kept>> BY <1>5 DEF SyncIndex
  <2>4. others \in [Tasks -> TaskType] BY <1>a DEF TaskType
  <2>. HIDE DEF others
  <2>5. CASE task["index"].pc = "idle"
    <3>1. task' = [others EXCEPT !["index"] = Reload("identity", "identity")] /\ UNCHANGED <<ended, overlapped>>
      BY <2>3, <2>5 DEF StartIndex, Begins
    <3>2. task'["index"] = Reload("identity", "identity") BY <1>a, <2>4, <3>1
    <3>3. \A u \in Tasks \ {"index"} : task'[u] = others[u] BY <1>a, <2>4, <3>1
    <3>. QED BY <1>a, <2>1, <2>2, <2>3, <2>5, <3>1, <3>2, <3>3, FilesBegun
  <2>6. CASE task["index"].pc # "idle"
    <3>1. task' = others /\ UNCHANGED <<ended, overlapped>> BY <2>3, <2>6 DEF StartIndex
    <3>. QED BY <1>a, <2>1, <2>2, <2>3, <3>1, FilesKept
  <2>. QED BY <2>5, <2>6
<1>6. CASE Refresh
  <2>1. task' = [task EXCEPT !["index"] = Reload("identity", "identity")]
        /\ UNCHANGED <<file, due, kept, ended, overlapped>>
    BY <1>6 DEF Refresh, StartIndex, Begins
  <2>2. task'["index"] = Reload("identity", "identity") /\ \A u \in Tasks \ {"index"} : task'[u] = task[u]
    BY <1>a, <2>1
  <2>. QED BY <1>6, <2>1, <2>2, FilesBegun DEF Refresh
<1>7. CASE IndexIdentity
  <2>1. task'["index"].pc \notin Kinds /\ \A u \in Tasks \ {"index"} : task'[u] = task[u]
    BY <1>7, <1>a, <1>b DEF IndexIdentity, NoTask
  <2>. QED BY <1>7, <1>a, <1>b, <2>1, FilesReloaded DEF IndexIdentity
<1>8. CASE PostIndex
  <2>1. \A u \in Tasks : task[u].pc \in Kinds \/ task'[u].pc \in Kinds => task'[u] = task[u]
    BY <1>8, <1>a, <1>b DEF PostIndex, TaskType
  <2>. QED BY <1>8, <2>1, FilesKept DEF PostIndex
<1>9. ASSUME NEW d \in Documents, Mark(d) \/ Edit(d) PROVE FilesAreFollowed'
  BY <1>9 DEF Mark, Edit, FilesAreFollowed
<1>10. CASE Marked
  <2>1. task'["command"].pc \notin Kinds /\ \A u \in Tasks \ {"command"} : task'[u] = task[u]
    BY <1>10, <1>a, <1>b DEF Marked, NoTask
  <2>. QED BY <1>10, <1>a, <1>b, <2>1, FilesReloaded DEF Marked
<1>11. ASSUME requests # <<>>, Head(requests).kind = "index", EndIndex
       PROVE  \A u \in Tasks : task[u].pc \in Kinds \/ task'[u].pc \in Kinds => task'[u] = task[u]
  <2>1. \E i \in 1..Len(requests) : requests[i].kind = "index" BY <1>11, HeadAt DEF TypeOK
  <2>2. task["index"].pc = "posted" BY <2>1 DEF PostedIsSent
  <2>3. NoTask.pc = "idle" BY DEF NoTask
  <2>. QED BY <1>11, <1>a, <1>b, <2>2, <2>3 DEF EndIndex
<1>12. CASE AnswerIndex BY <1>12, <1>11, FilesKept DEF AnswerIndex
<1>13. CASE AnswerRebuild BY <1>13, FilesKept DEF AnswerRebuild
<1>14. CASE RequestFails
  <2>1. CASE Head(requests).kind = "index"
    <3>1. due' = (due \/ task["sync"].pc = "waiting") BY <1>14, <2>1 DEF RequestFails
    <3>2. ~due' => ~due BY <3>1
    <3>3. \A u \in Tasks : task[u].pc \in Kinds \/ task'[u].pc \in Kinds => task'[u] = task[u]
      BY <1>11, <1>14, <2>1 DEF RequestFails
    <3>. QED BY <1>14, <3>2, <3>3, FilesKept DEF RequestFails
  <2>2. CASE Head(requests).kind # "index" BY <1>14, <2>2, FilesKept DEF RequestFails
  <2>. QED BY <2>1, <2>2
<1>15. CASE ClearTemporaryModels BY <1>15, FilesKept DEF ClearTemporaryModels
<1>16. ASSUME NEW k \in Keys, AddTemporaryModel(k) PROVE FilesAreFollowed'
  BY <1>16, FilesKept DEF AddTemporaryModel
<1>17. CASE UNCHANGED vars BY <1>17, FilesKept DEF vars
<1>. QED
  BY <1>1, <1>2, <1>3, <1>4, <1>5, <1>6, <1>7, <1>8, <1>9, <1>10, <1>12, <1>13, <1>14, <1>15, <1>16, <1>17
  DEF Next, Step
-----------------------------------------------------------------------------
LEMMA InitIInv ==
  ASSUME Init
  PROVE  IInv
<1>1. \A t \in Tasks : task[t] = NoTask /\ task[t].pc = "idle" /\ task[t].todo = {} BY DEF Init, NoTask
<1>2. file \in [Documents -> Values] /\ kept = file BY DEF Init, Values
<1>3. models \in [Keys -> Temporary] BY DEF Init, NoModels, Temporary
<1>4. task \in [Tasks -> TaskType] BY NoTaskType DEF Init
<1>5. worker \in Options BY <1>2, <1>3 DEF Init, Effective, Options
<1>6. requests \in Seq(RequestType) /\ Len(requests) = 0 BY DEF Init
<1>7. due \in BOOLEAN BY DEF Init
<1>8. joined \in BOOLEAN /\ lost \in BOOLEAN /\ overlapped \in BOOLEAN BY DEF Init
<1>9. generation \in Nat /\ behind \in Nat /\ begun \in Nat /\ ended \in [Kinds -> Nat] /\ acts \in Nat /\ failures \in Nat
  BY DEF Init
<1>10. TypeOK BY <1>2, <1>3, <1>4, <1>5, <1>6, <1>7, <1>8, <1>9 DEF TypeOK
<1>11. \A t \in Tasks : task[t].pc \notin Kinds BY <1>1 DEF Kinds
<1>12. ReloadsReadTheirKind BY <1>1, <1>11 DEF ReloadsReadTheirKind, WellRead
<1>13. ReloadsAreNumbered BY <1>11 DEF ReloadsAreNumbered
<1>14. FilesAreFollowed BY <1>2, <1>11 DEF FilesAreFollowed, Follows
<1>15. Latest = Effective BY DEF Init, Latest
<1>16. LatestIsEffective BY <1>6, <1>15 DEF Init, LatestIsEffective
<1>17. PostedIsSent BY <1>1, <1>6 DEF PostedIsSent, Tasks
<1>18. FindingsAreOfWorker BY DEF Init, FindingsAreOfWorker
<1>. QED BY <1>10, <1>12, <1>13, <1>14, <1>16, <1>17, <1>18 DEF IInv

LEMMA IInvStep ==
  ASSUME IInv, [Next]_vars
  PROVE  IInv'
<1>1. TypeOK' BY TypeStep DEF IInv
<1>. QED BY <1>1, ReadStep, NumberStep, FilesStep, LatestStep, PostedStep, FindingsStep DEF IInv

LEMMA Settled ==
  ASSUME IInv
  PROVE  FindingsFollowSettings
<1>1. SettingsFollowFiles
  <2>. SUFFICES ASSUME Quiet, ~overlapped, NEW kind \in Kinds, NEW d \in Of(kind), file[d] # Broken
                PROVE  kept[d] = file[d]
    BY DEF SettingsFollowFiles
  <2>1. \A t \in Tasks : task[t].pc \notin Kinds BY DEF Quiet, Kinds
  <2>2. ~Awaited(kind) BY <2>1 DEF Awaited, Tasks, Kinds
  <2>3. ~due BY DEF Quiet
  <2>4. Follows(kind, d) BY <2>2, <2>3 DEF IInv, FilesAreFollowed
  <2>. QED BY <2>1, <2>4 DEF Follows, BeganLast
<1>2. WorkerFollowsSettings
  <2>. SUFFICES ASSUME Quiet, behind = 0, ~joined PROVE worker = Effective BY DEF WorkerFollowsSettings
  <2>1. ~IndexToCome BY DEF Quiet, IndexToCome, Tasks
  <2>2. Latest = Effective BY <2>1 DEF IInv, LatestIsEffective, MadeSince
  <2>. QED BY <2>2 DEF Latest, Quiet
<1>3. FindingsFollowWorker BY DEF IInv, FindingsAreOfWorker, FindingsFollowWorker
<1>. QED BY <1>1, <1>2, <1>3 DEF FindingsFollowSettings

(* Settings, reloads, requests and answers keep their types.               *)
THEOREM TypeCorrect == Spec => []TypeOK
<1>1. Init => IInv BY InitIInv
<1>2. IInv /\ [Next]_vars => IInv' BY IInvStep
<1>3. IInv => TypeOK BY DEF IInv
<1>. QED BY <1>1, <1>2, <1>3, PTL DEF Spec

(* Once nothing is under way what the documents say is what the session    *)
(* has, what the session has is what the worker has, and what the worker   *)
(* has is what is shown (src/src/audit-session.js,                         *)
(* src/src/analysis/workspace-file-sync.js), with the exceptions           *)
(* FindingsFollowSettings names.                                           *)
THEOREM SettingsReachWhatIsShown == Spec => []FindingsFollowSettings
<1>1. Init => IInv BY InitIInv
<1>2. IInv /\ [Next]_vars => IInv' BY IInvStep
<1>3. IInv => FindingsFollowSettings BY Settled
<1>. QED BY <1>1, <1>2, <1>3, PTL DEF Spec
-----------------------------------------------------------------------------
(* Numbers.                                                                 *)
LEMMA LeastThereIs ==
    ASSUME NEW S \in SUBSET Nat, S # {}
    PROVE  \E n \in S : \A k \in S : n <= k
<1> DEFINE R == {p \in Nat \X Nat : p[1] < p[2]}
<1>1. IsWellFoundedOn(R, Nat)
  BY NatLessThanWellFounded, Zenon DEF OpToRel
<1>2. PICK n \in S : \A k \in S : <<k, n>> \notin R
  BY <1>1, WFMin, Zenon
<1>3. \A k \in S : ~(k < n)
  BY <1>2
<1> QED
  BY <1>3

LEMMA LargestOf ==
    ASSUME NEW m \in Nat, NEW S, S # {}, \A k \in S : k \in 0..m
    PROVE  Largest(S) \in S /\ \A k \in S : k <= Largest(S)
<1> DEFINE T == {m - k : k \in S}
<1>1. T \in SUBSET Nat /\ T # {}
  OBVIOUS
<1>2. PICK n \in T : \A k \in T : n <= k
  BY <1>1, LeastThereIs
<1>3. PICK l \in S : n = m - l
  BY <1>2
<1>4. \A k \in S : m - k \in T
  OBVIOUS
<1>5. \A k \in S : k <= l
  <2> TAKE k \in S
  <2>1. m - l <= m - k
    BY <1>2, <1>3, <1>4
  <2>2. k \in Int /\ l \in Int
    OBVIOUS
  <2> QED
    BY <2>1, <2>2
<1> HIDE DEF T
<1> QED
  BY <1>5, Zenon DEF Largest

LEMMA OneLargest ==
    ASSUME NEW S, \A k \in S : k \in Nat, NEW n \in S, \A k \in S : k <= n
    PROVE  Largest(S) = n
<1>1. Largest(S) \in S /\ \A k \in S : k <= Largest(S)
  BY Zenon DEF Largest
<1>2. Largest(S) <= n /\ n <= Largest(S) /\ Largest(S) \in Nat /\ n \in Nat
  BY <1>1
<1> QED
  BY <1>2
-----------------------------------------------------------------------------
(* The ends of lines among the first n characters.                          *)
LineEnds(text, n) == {j \in 1..n : text[j] = Newline}
LastEnd(S) == IF S = {} THEN 0 ELSE Largest(S)

LEMMA LastEndIs ==
    ASSUME NEW text, NEW n \in Nat
    PROVE  /\ LineEnds(text, n) \in SUBSET (1..n) /\ IsFiniteSet(LineEnds(text, n)) /\ Cardinality(LineEnds(text, n)) \in Nat
           /\ LastEnd(LineEnds(text, n)) \in 0..n
           /\ LineEnds(text, n) # {} => Largest(LineEnds(text, n)) \in 1..n
<1>1. LineEnds(text, n) \in SUBSET (1..n)
  BY DEF LineEnds
<1>2. IsFiniteSet(LineEnds(text, n)) /\ Cardinality(LineEnds(text, n)) \in Nat
  <2>1. 1 \in Int /\ n \in Int
    OBVIOUS
  <2>2. IsFiniteSet(1..n)
    BY <2>1, FS_Interval
  <2> QED
    BY <1>1, <2>2, FS_Subset, FS_CardinalityType
<1>3. LineEnds(text, n) # {} => Largest(LineEnds(text, n)) \in 1..n
  <2>1. \A k \in LineEnds(text, n) : k \in 0..n
    BY <1>1
  <2>2. LineEnds(text, n) # {} => Largest(LineEnds(text, n)) \in LineEnds(text, n)
    BY <2>1, LargestOf
  <2> QED
    BY <2>2, <1>1
<1> QED
  BY <1>1, <1>2, <1>3 DEF LastEnd

Place(text, n) == [row |-> Cardinality(LineEnds(text, n)), column |-> n - LastEnd(LineEnds(text, n))]

LEMMA PositionIs ==
    ASSUME NEW C, NEW text \in Seq(C), NEW n \in 0..Len(text)
    PROVE  PositionAt(text, n) = Place(text, n)
<1> DEFINE line == Append(Prefix(text, n), Newline)
<1>1. Prefix(text, n) \in Seq(C) /\ Len(Prefix(text, n)) = n /\ \A j \in 1..n : Prefix(text, n)[j] = text[j]
  BY DEF Prefix
<1>2. \A j \in 1..n : line[j] = text[j]
  <2> TAKE j \in 1..n
  <2>1. Prefix(text, n) \in Seq(C \union {Newline}) /\ Newline \in C \union {Newline}
    BY <1>1
  <2>2. line[j] = Prefix(text, n)[j]
    BY <1>1, <2>1
  <2> QED
    BY <1>1, <2>2
<1> HIDE DEF line
<1>3. n \in Nat /\ (n + 1) - 1 = n
  OBVIOUS
<1>4. {j \in 1..(n + 1) - 1 : line[j] = Newline} = LineEnds(text, n)
  <2>1. {j \in 1..n : line[j] = Newline} = {j \in 1..n : text[j] = Newline}
    BY <1>2
  <2> QED
    BY <1>3, <2>1 DEF LineEnds
<1>5. LineStart(line, n + 1) = IF LineEnds(text, n) = {} THEN 1 ELSE 1 + Largest(LineEnds(text, n))
  BY <1>4, Zenon DEF LineStart
<1>6. n + 1 - LineStart(line, n + 1) = n - LastEnd(LineEnds(text, n))
  <2>1. CASE LineEnds(text, n) = {}
    BY <1>5, <2>1 DEF LastEnd
  <2>2. CASE LineEnds(text, n) # {}
    <3>1. Largest(LineEnds(text, n)) \in 1..n
      BY <1>3, <2>2, LastEndIs
    <3> QED
      BY <1>3, <1>5, <2>2, <3>1 DEF LastEnd
  <2> QED
    BY <2>1, <2>2
<1> QED
  BY <1>6 DEF PositionAt, Place, LineEnds, line

LEMMA SameEnds ==
    ASSUME NEW before, NEW after, NEW n \in Nat, \A j \in 1..n : before[j] = after[j]
    PROVE  LineEnds(before, n) = LineEnds(after, n)
  BY DEF LineEnds

LEMMA CountedApart ==
    ASSUME NEW S, NEW T, IsFiniteSet(S), IsFiniteSet(T), S \intersect T = {}
    PROVE  Cardinality(S \union T) = Cardinality(S) + Cardinality(T)
<1>1. Cardinality(S \union T) = Cardinality(S) + Cardinality(T) - Cardinality(S \intersect T)
  BY FS_Union
<1>2. Cardinality(S \intersect T) = 0 /\ Cardinality(S) \in Nat /\ Cardinality(T) \in Nat
  BY FS_EmptySet, FS_CardinalityType
<1> QED
  BY <1>1, <1>2

(* Those among the n characters behind the first p.                         *)
Later(text, p, n) == {k \in 1..n : text[p + k] = Newline}

Counted(text, p, n) ==
    /\ IsFiniteSet(Later(text, p, n)) /\ Cardinality(Later(text, p, n)) \in Nat
    /\ Cardinality(Later(text, p, n)) = 0 <=> Later(text, p, n) = {}
    /\ Cardinality(LineEnds(text, p + n)) = Cardinality(LineEnds(text, p)) + Cardinality(Later(text, p, n))
    /\ Later(text, p, n) = {} => LastEnd(LineEnds(text, p + n)) = LastEnd(LineEnds(text, p))
    /\ Later(text, p, n) # {} => LastEnd(LineEnds(text, p + n)) = p + Largest(Later(text, p, n))
    /\ Later(text, p, n) # {} => Largest(Later(text, p, n)) \in 1..n

LEMMA EndsSplit ==
    ASSUME NEW text, NEW p \in Nat, NEW n \in Nat
    PROVE  Counted(text, p, n)
<1> DEFINE L == Later(text, p, n)
           M == {p + k : k \in L}
           f == [k \in L |-> p + k]
<1>1. L \subseteq 1..n /\ \A k \in L : k \in 1..n
  BY DEF Later
<1>2. IsFiniteSet(L) /\ Cardinality(L) \in Nat /\ (Cardinality(L) = 0 <=> L = {})
  <2>1. 1 \in Int /\ n \in Int
    OBVIOUS
  <2>2. IsFiniteSet(1..n)
    BY <2>1, FS_Interval
  <2> QED
    BY <1>1, <2>2, FS_Subset, FS_CardinalityType, FS_EmptySet
<1>3. \A j \in (p + 1)..(p + n) : text[j] = Newline <=> j - p \in L
  <2> TAKE j \in (p + 1)..(p + n)
  <2>1. j - p \in 1..n /\ p + (j - p) = j
    OBVIOUS
  <2> QED
    BY <2>1 DEF Later
<1>4. LineEnds(text, p + n) = LineEnds(text, p) \union M
  <2>1. ASSUME NEW j \in LineEnds(text, p + n) PROVE j \in LineEnds(text, p) \union M
    <3>1. j \in 1..(p + n) /\ text[j] = Newline
      BY DEF LineEnds
    <3>2. CASE j <= p
      BY <3>1, <3>2 DEF LineEnds
    <3>3. CASE ~(j <= p)
      <4>1. j - p \in L /\ j = p + (j - p)
        BY <1>3, <3>1, <3>3
      <4> QED
        BY <4>1
    <3> QED
      BY <3>2, <3>3
  <2>2. ASSUME NEW j \in LineEnds(text, p) PROVE j \in LineEnds(text, p + n)
    BY DEF LineEnds
  <2>3. ASSUME NEW k \in L PROVE p + k \in LineEnds(text, p + n)
    BY <1>1 DEF Later, LineEnds
  <2> QED
    BY <2>1, <2>2, <2>3
<1> HIDE DEF L
<1>5. LineEnds(text, p) \intersect M = {}
  <2>1. \A j \in LineEnds(text, p) : j \in 1..p
    BY DEF LineEnds
  <2>2. \A k \in L : ~(p + k \in 1..p)
    BY <1>1
  <2> QED
    BY <2>1, <2>2
<1>6. IsFiniteSet(M) /\ Cardinality(M) = Cardinality(L)
  <2>1. f \in [L -> M] /\ \A m \in M : \E k \in L : f[k] = m
    OBVIOUS
  <2>2. \A j, k \in L : f[j] = f[k] => j = k
    <3> TAKE j, k \in L
    <3>1. f[j] = p + j /\ f[k] = p + k /\ j \in Nat /\ k \in Nat
      BY <1>1
    <3> QED
      BY <3>1
  <2> HIDE DEF f
  <2>3. f \in Bijection(L, M)
    BY <2>1, <2>2 DEF Bijection, Injection, Surjection, IsInjective
  <2> QED
    BY <1>2, <2>3, FS_Bijection DEF ExistsBijection
<1>7. Cardinality(LineEnds(text, p + n)) = Cardinality(LineEnds(text, p)) + Cardinality(L)
  <2>1. IsFiniteSet(LineEnds(text, p)) /\ Cardinality(LineEnds(text, p)) \in Nat
    BY LastEndIs
  <2> HIDE DEF M
  <2> QED
    BY <1>2, <1>4, <1>5, <1>6, <2>1, CountedApart
<1>8. L = {} => LastEnd(LineEnds(text, p + n)) = LastEnd(LineEnds(text, p))
  BY <1>4
<1>9. ASSUME L # {}
      PROVE  Largest(L) \in 1..n /\ LastEnd(LineEnds(text, p + n)) = p + Largest(L)
  <2>1. Largest(L) \in L /\ \A k \in L : k <= Largest(L)
    <3>1. \A k \in L : k \in 0..n
      BY <1>1
    <3> QED
      BY <1>9, <3>1, LargestOf
  <2>2. p + Largest(L) \in LineEnds(text, p + n)
    BY <1>4, <2>1
  <2>3. \A j \in LineEnds(text, p + n) : j <= p + Largest(L)
    <3>1. Largest(L) \in 1..n
      BY <1>1, <2>1
    <3>2. ASSUME NEW j \in LineEnds(text, p) PROVE j <= p + Largest(L)
      <4>1. j \in 1..p
        BY DEF LineEnds
      <4> QED
        BY <3>1, <4>1
    <3>3. ASSUME NEW k \in L PROVE p + k <= p + Largest(L)
      <4>1. k \in Nat /\ k <= Largest(L)
        BY <1>1, <2>1
      <4> QED
        BY <3>1, <4>1
    <3> QED
      BY <1>4, <3>2, <3>3
  <2>4. \A j \in LineEnds(text, p + n) : j \in Nat
    BY DEF LineEnds
  <2>5. Largest(LineEnds(text, p + n)) = p + Largest(L)
    BY <2>2, <2>3, <2>4, OneLargest
  <2> QED
    BY <1>1, <2>1, <2>2, <2>5 DEF LastEnd
<1> QED
  BY <1>2, <1>7, <1>8, <1>9 DEF L, Counted
-----------------------------------------------------------------------------
(* The edit between two texts: what is before its start and what is behind  *)
(* its end is the same in both.                                             *)
Between(before, after, e) ==
    /\ e.start \in 0..Len(before) /\ e.start <= Len(after)
    /\ e.oldEnd \in e.start..Len(before) /\ e.newEnd \in e.start..Len(after)
    /\ Len(before) - e.oldEnd = Len(after) - e.newEnd
    /\ \A j \in 1..e.start : before[j] = after[j]
    /\ \A k \in 1..Len(before) - e.oldEnd : before[e.oldEnd + k] = after[e.newEnd + k]
    /\ e.oldPosition = PositionAt(before, e.oldEnd) /\ e.newPosition = PositionAt(after, e.newEnd)

LEMMA SingleEditIs ==
    ASSUME NEW C, NEW before \in Seq(C), NEW after \in Seq(C)
    PROVE  Between(before, after, SingleEdit(before, after))
<1> DEFINE start == Largest(Common(before, after))
           fits == {n \in CommonEnd(before, after) : Len(before) - n >= start /\ Len(after) - n >= start}
           end == Largest(fits)
<1>1. Len(before) \in Nat /\ Len(after) \in Nat
  OBVIOUS
<1>2. start \in Common(before, after)
  <2>1. 0 \in Common(before, after)
    BY <1>1 DEF Common, Prefix
  <2>2. \A n \in Common(before, after) : n \in 0..Len(before)
    BY DEF Common
  <2> QED
    BY <1>1, <2>1, <2>2, LargestOf
<1>3. /\ start \in 0..Len(before) /\ start <= Len(after)
      /\ Prefix(before, start) = Prefix(after, start)
  BY <1>2 DEF Common
<1> HIDE DEF start
<1>4. end \in fits
  <2>1. 0 \in fits
    <3>1. 0 \in CommonEnd(before, after)
      BY <1>1 DEF CommonEnd
    <3> QED
      BY <1>1, <1>3, <3>1
  <2>2. \A n \in fits : n \in 0..Len(before)
    BY DEF CommonEnd
  <2> QED
    BY <1>1, <2>1, <2>2, LargestOf
<1>5. /\ end \in 0..Len(before) /\ end <= Len(after) /\ Len(before) - end >= start /\ Len(after) - end >= start
      /\ SubSeq(before, Len(before) - end + 1, Len(before)) = SubSeq(after, Len(after) - end + 1, Len(after))
  BY <1>4 DEF CommonEnd
<1> HIDE DEF end
<1>6. \A j \in 1..start : before[j] = after[j]
  <2> TAKE j \in 1..start
  <2>1. SubSeq(before, 1, start)[j] = before[j] /\ SubSeq(after, 1, start)[j] = after[j]
    BY <1>1, <1>3
  <2> QED
    BY <1>3, <2>1 DEF Prefix
<1>7. \A k \in 1..end : before[Len(before) - end + k] = after[Len(after) - end + k]
  <2> TAKE k \in 1..end
  <2>1. /\ SubSeq(before, Len(before) - end + 1, Len(before))[k] = before[Len(before) - end + k]
        /\ SubSeq(after, Len(after) - end + 1, Len(after))[k] = after[Len(after) - end + k]
    BY <1>1, <1>5
  <2> QED
    BY <1>5, <2>1
<1>8. SingleEdit(before, after) = EditBetween(before, after, start, end)
  BY DEF SingleEdit, start, end, fits
<1>9. Between(before, after, EditBetween(before, after, start, end))
  BY <1>1, <1>3, <1>5, <1>6, <1>7 DEF Between, EditBetween
<1> QED
  BY <1>8, <1>9

(* A place behind the edit: in the line of its end the column moves, below  *)
(* the row.                                                                 *)
LEMMA MovedIs ==
    ASSUME NEW C, NEW before \in Seq(C), NEW after \in Seq(C), NEW e, Between(before, after, e),
           NEW n \in 0..Len(before) - e.oldEnd
    PROVE  Moved(PositionAt(before, e.oldEnd + n), e) = PositionAt(after, e.newEnd + n)
<1>0. PICK p, q : p = e.oldEnd /\ q = e.newEnd
  OBVIOUS
<1>1. /\ p \in 0..Len(before) /\ q \in 0..Len(after) /\ Len(before) - p = Len(after) - q /\ n \in 0..Len(before) - p
      /\ \A k \in 1..Len(before) - p : before[p + k] = after[q + k]
      /\ e.oldPosition = PositionAt(before, p) /\ e.newPosition = PositionAt(after, q)
  <2>1. Len(before) \in Nat /\ Len(after) \in Nat
    OBVIOUS
  <2>2. e.start \in Nat /\ p \in Nat /\ q \in Nat
    BY <1>0, <2>1 DEF Between
  <2> QED
    BY <1>0, <2>1, <2>2 DEF Between
<1>2. n \in Nat /\ p \in Nat /\ q \in Nat /\ p + n \in 0..Len(before) /\ q + n \in 0..Len(after)
  <2>1. Len(before) \in Nat /\ Len(after) \in Nat
    OBVIOUS
  <2> QED
    BY <1>1, <2>1
<1> DEFINE L == Later(before, p, n)
<1>3. L = Later(after, q, n)
  <2>1. \A k \in 1..n : before[p + k] = after[q + k]
    BY <1>1, <1>2
  <2> QED
    BY <2>1 DEF Later
<1>4. /\ PositionAt(before, p + n) = Place(before, p + n) /\ PositionAt(after, q + n) = Place(after, q + n)
      /\ e.oldPosition = Place(before, p) /\ e.newPosition = Place(after, q)
  <2>1. p \in 0..Len(before) /\ q \in 0..Len(after)
    BY <1>1
  <2>2. PositionAt(before, p + n) = Place(before, p + n) /\ PositionAt(before, p) = Place(before, p)
    BY <1>2, <2>1, PositionIs
  <2>3. PositionAt(after, q + n) = Place(after, q + n) /\ PositionAt(after, q) = Place(after, q)
    BY <1>2, <2>1, PositionIs
  <2> QED
    BY <1>1, <2>2, <2>3
<1>5. /\ Cardinality(L) \in Nat /\ (Cardinality(L) = 0 <=> L = {})
      /\ Cardinality(LineEnds(before, p + n)) = Cardinality(LineEnds(before, p)) + Cardinality(L)
      /\ L = {} => LastEnd(LineEnds(before, p + n)) = LastEnd(LineEnds(before, p))
      /\ L # {} => LastEnd(LineEnds(before, p + n)) = p + Largest(L) /\ Largest(L) \in 1..n
  <2>1. Counted(before, p, n)
    BY <1>2, EndsSplit
  <2> QED
    BY <2>1, Zenon DEF Counted
<1>6. /\ Cardinality(LineEnds(after, q + n)) = Cardinality(LineEnds(after, q)) + Cardinality(L)
      /\ L = {} => LastEnd(LineEnds(after, q + n)) = LastEnd(LineEnds(after, q))
      /\ L # {} => LastEnd(LineEnds(after, q + n)) = q + Largest(L)
  <2>1. Counted(after, q, n)
    BY <1>2, EndsSplit
  <2> QED
    BY <1>3, <2>1, Zenon DEF Counted
<1>7. /\ Cardinality(LineEnds(before, p)) \in Nat /\ Cardinality(LineEnds(after, q)) \in Nat
      /\ LastEnd(LineEnds(before, p)) \in Nat /\ LastEnd(LineEnds(after, q)) \in Nat
  BY <1>2, LastEndIs
<1> HIDE DEF L
<1> DEFINE at == PositionAt(before, p + n)
<1>8. CASE L = {}
  <2>1. at.row = e.oldPosition.row
    BY <1>4, <1>5, <1>7, <1>8 DEF Place
  <2>2. Moved(at, e) = [row |-> e.newPosition.row, column |-> at.column - e.oldPosition.column + e.newPosition.column]
    BY <2>1 DEF Moved
  <2>3. e.newPosition.row = Cardinality(LineEnds(after, q + n))
    BY <1>4, <1>5, <1>6, <1>7, <1>8 DEF Place
  <2>4. at.column - e.oldPosition.column + e.newPosition.column = (q + n) - LastEnd(LineEnds(after, q + n))
    BY <1>2, <1>4, <1>5, <1>6, <1>7, <1>8 DEF Place
  <2>7. Moved(at, e) = Place(after, q + n)
    <3> HIDE DEF at
    <3> QED
      BY <2>2, <2>3, <2>4, Zenon DEF Place
  <2> QED
    BY <1>0, <1>4, <2>7
<1>9. CASE L # {}
  <2>1. at.row # e.oldPosition.row
    BY <1>4, <1>5, <1>7, <1>9 DEF Place
  <2>2. Moved(at, e) = [at EXCEPT !.row = at.row - e.oldPosition.row + e.newPosition.row]
    BY <2>1 DEF Moved
  <2>3. at.row - e.oldPosition.row + e.newPosition.row = Cardinality(LineEnds(after, q + n))
    BY <1>4, <1>5, <1>6, <1>7 DEF Place
  <2>4. at.column = (q + n) - LastEnd(LineEnds(after, q + n))
    <3>1. Largest(L) \in Nat
      BY <1>5, <1>9
    <3> QED
      BY <1>2, <1>4, <1>5, <1>6, <1>9, <3>1 DEF Place
  <2>5. at = [row |-> at.row, column |-> at.column]
    BY <1>4 DEF Place
  <2>6. [at EXCEPT !.row = at.row - e.oldPosition.row + e.newPosition.row]
            = [row |-> at.row - e.oldPosition.row + e.newPosition.row, column |-> at.column]
    BY <2>5
  <2>7. Moved(at, e) = Place(after, q + n)
    <3> HIDE DEF at
    <3> QED
      BY <2>2, <2>3, <2>4, <2>6, Zenon DEF Place
  <2> QED
    BY <1>0, <1>4, <2>7
<1> QED
  BY <1>8, <1>9

(* A tree edited and parsed again is the one of a parse from nothing.       *)
THEOREM EditedTreeIsExact ==
    ASSUME NEW C, NEW before \in Seq(C), NEW after \in Seq(C)
    PROVE  Reparsed(Nodes(before), SingleEdit(before, after), after) = Nodes(after)
<1> DEFINE e == SingleEdit(before, after)
<1>1. Between(before, after, e)
  BY SingleEditIs
<1> HIDE DEF e
<1>2. Len(before) \in Nat /\ Len(after) \in Nat /\ DOMAIN after = 1..Len(after) /\ DOMAIN Nodes(before) = 1..Len(before)
  BY DEF Nodes
<1>3. ASSUME NEW i \in 1..Len(after), i <= e.start, i \in 1..Len(before)
      PROVE  Nodes(before)[i] = Node(after, i)
  <2>1. before[i] = after[i]
    BY <1>1, <1>3 DEF Between
  <2>2. i - 1 \in 0..Len(before) /\ i - 1 \in 0..Len(after) /\ i - 1 \in Nat
    BY <1>2, <1>3
  <2>3. LineEnds(before, i - 1) = LineEnds(after, i - 1)
    <3>1. \A j \in 1..(i - 1) : before[j] = after[j]
      BY <1>1, <1>3 DEF Between
    <3> QED
      BY <2>2, <3>1, SameEnds
  <2>4. PositionAt(before, i - 1) = PositionAt(after, i - 1)
    BY <2>2, <2>3, PositionIs DEF Place
  <2> QED
    BY <1>2, <1>3, <2>1, <2>4 DEF Nodes, Node
<1>4. ASSUME NEW i \in 1..Len(after), i > e.newEnd
      PROVE  LET old == i - e.newEnd + e.oldEnd
             IN  old \in 1..Len(before) => [Nodes(before)[old] EXCEPT !.at = Moved(@, e)] = Node(after, i)
  <2>0. PICK p, q, old, n : p = e.oldEnd /\ q = e.newEnd /\ old = i - q + p /\ n = i - q - 1
    OBVIOUS
  <2>1. /\ p \in Nat /\ q \in Nat /\ p <= Len(before) /\ q <= Len(after) /\ Len(before) - p = Len(after) - q
        /\ \A k \in 1..Len(before) - p : before[p + k] = after[q + k]
    <3>1. e.start \in Nat
      BY <1>1, <1>2 DEF Between
    <3> QED
      BY <1>1, <1>2, <2>0, <3>1 DEF Between
  <2>2. /\ n \in 0..Len(before) - p /\ old - 1 = p + n /\ i - 1 = q + n
        /\ n + 1 \in 1..Len(before) - p /\ old = p + (n + 1) /\ i = q + (n + 1)
    <3>1. i \in Int /\ i > q /\ i <= Len(after)
      BY <1>2, <1>4, <2>0
    <3>2. n \in Nat /\ n = i - q - 1
      BY <2>0, <2>1, <3>1
    <3>3. i = q + (n + 1) /\ i - 1 = q + n
      BY <2>1, <3>1, <3>2
    <3>4. old = p + (n + 1) /\ old - 1 = p + n
      BY <2>0, <2>1, <3>1, <3>2
    <3>5. n + 1 <= Len(before) - p
      BY <1>2, <2>1, <3>1, <3>2, <3>3
    <3>6. n \in 0..Len(before) - p /\ n + 1 \in 1..Len(before) - p
      BY <1>2, <2>1, <3>2, <3>5
    <3> QED
      BY <3>3, <3>4, <3>6
  <2>3. Moved(PositionAt(before, old - 1), e) = PositionAt(after, i - 1)
    BY <1>1, <2>0, <2>2, MovedIs
  <2>4. before[old] = after[i]
    BY <2>1, <2>2
  <2>5. old \in 1..Len(before) => Nodes(before)[old] = [character |-> before[old], at |-> PositionAt(before, old - 1)]
    BY <1>2 DEF Nodes, Node
  <2>6. \A c, at, to : [[character |-> c, at |-> at] EXCEPT !.at = to] = [character |-> c, at |-> to]
    OBVIOUS
  <2>7. [[character |-> before[old], at |-> PositionAt(before, old - 1)] EXCEPT !.at = PositionAt(after, i - 1)] = Node(after, i)
    BY <2>4, <2>6 DEF Node
  <2>8. old \in 1..Len(before) => [Nodes(before)[old] EXCEPT !.at = Moved(@, e)] = Node(after, i)
    BY <2>3, <2>5, <2>7
  <2> QED
    BY <2>0, <2>8
<1>5. \A i \in 1..Len(after) : Reparsed(Nodes(before), e, after)[i] = Node(after, i)
  BY <1>2, <1>3, <1>4 DEF Reparsed
<1>6. Reparsed(Nodes(before), e, after) = [i \in 1..Len(after) |-> Reparsed(Nodes(before), e, after)[i]]
  BY <1>2 DEF Reparsed
<1> QED
  BY <1>2, <1>5, <1>6 DEF Nodes, e
-----------------------------------------------------------------------------
(* What is kept: trees of files with the text they were parsed from, each   *)
(* as a parse from nothing gives it, and records of the texts analysed.     *)
Tree == {[file |-> f, text |-> t, nodes |-> Nodes(t)] : f \in Files, t \in Texts}
Record == {<<>>} \union {<<t>> : t \in Texts}

TreesTyped == trees \in Seq(Tree) /\ records \in [Files -> Record]
Current(ts, recs) == \A i \in DOMAIN ts : recs[ts[i].file] = <<ts[i].text>>
TreesInv == TreesTyped /\ Current(trees, records)

LEMMA TreesHave ==
    ASSUME NEW t \in Tree
    PROVE  t.file \in Files /\ t.text \in Texts /\ t.nodes = Nodes(t.text)
  BY DEF Tree

(* Each of n things in a row has a place of its own from 1 to n.            *)
LEMMA EveryPlaceIsTaken ==
    ASSUME NEW m \in Nat, NEW S \in SUBSET (1..m)
    PROVE  /\ Cardinality(S) \in Nat
           /\ \A n \in 1..Cardinality(S) : \E i \in S : Cardinality({j \in S : j <= i}) = n
<1> DEFINE Upto(i) == {j \in S : j <= i}
           rank == [i \in S |-> Cardinality(Upto(i))]
<1>1. IsFiniteSet(S) /\ Cardinality(S) \in Nat
  <2>1. 1 \in Int /\ m \in Int
    OBVIOUS
  <2>2. IsFiniteSet(1..m)
    BY <2>1, FS_Interval
  <2> QED
    BY <2>2, FS_Subset, FS_CardinalityType
<1>2. \A i \in S : IsFiniteSet(Upto(i)) /\ Cardinality(Upto(i)) \in 1..Cardinality(S)
  <2> TAKE i \in S
  <2>1. Upto(i) \in SUBSET S /\ i \in Upto(i)
    OBVIOUS
  <2>2. IsFiniteSet(Upto(i)) /\ Cardinality(Upto(i)) <= Cardinality(S) /\ Cardinality(Upto(i)) \in Nat
    BY <1>1, <2>1, FS_Subset, FS_CardinalityType
  <2>3. Cardinality(Upto(i)) # 0
    BY <2>1, <2>2, FS_EmptySet
  <2> HIDE DEF Upto
  <2> QED
    BY <1>1, <2>2, <2>3
<1>3. ASSUME NEW i \in S, NEW k \in S, i < k
      PROVE  Cardinality(Upto(i)) # Cardinality(Upto(k))
  <2>0. i \in Int /\ k \in Int /\ \A j \in S : j \in Int
    OBVIOUS
  <2>1. \A j \in S : j <= i => j <= k
    BY <1>3, <2>0
  <2>2. k <= k /\ ~(k <= i)
    BY <1>3, <2>0
  <2>3. Upto(i) \in SUBSET Upto(k) /\ k \in Upto(k) /\ k \notin Upto(i)
    BY <2>1, <2>2
  <2>4. IsFiniteSet(Upto(k))
    BY <1>2
  <2> HIDE DEF Upto
  <2>5. Cardinality(Upto(k)) = Cardinality(Upto(i)) => Upto(k) = Upto(i)
    BY <2>3, <2>4, FS_Subset
  <2> QED
    BY <2>3, <2>5
<1>4. \A i, k \in S : rank[i] = rank[k] => i = k
  <2> TAKE i, k \in S
  <2>1. i \in Int /\ k \in Int /\ (i < k \/ k < i \/ i = k)
    OBVIOUS
  <2>2. rank[i] = Cardinality(Upto(i)) /\ rank[k] = Cardinality(Upto(k))
    OBVIOUS
  <2> HIDE DEF Upto, rank
  <2> QED
    BY <1>3, <2>1, <2>2
<1>5. rank \in [S -> 1..Cardinality(S)]
  BY <1>2
<1>6. \A i \in S : rank[i] = Cardinality({j \in S : j <= i})
  OBVIOUS
<1> HIDE DEF rank
<1>7. rank \in Injection(S, 1..Cardinality(S))
  BY <1>4, <1>5, Zenon DEF Injection, IsInjective
<1>8. IsFiniteSet(1..Cardinality(S)) /\ Cardinality(1..Cardinality(S)) = Cardinality(S)
  <2>1. 1 \in Int /\ Cardinality(S) \in Int
    BY <1>1
  <2>2. /\ IsFiniteSet(1..Cardinality(S))
        /\ Cardinality(1..Cardinality(S)) = IF 1 > Cardinality(S) THEN 0 ELSE Cardinality(S) - 1 + 1
    BY <2>1, FS_Interval
  <2> QED
    BY <1>1, <2>2
<1>9. rank \in Surjection(S, 1..Cardinality(S))
  BY <1>7, <1>8, FS_Injection
<1>10. \A n \in 1..Cardinality(S) : \E i \in S : rank[i] = n
  BY <1>9, Zenon DEF Surjection
<1> QED
  BY <1>1, <1>6, <1>10

(* The trees left are trees there were, of other files.                     *)
LEMMA WithoutIs ==
    ASSUME NEW T, NEW ts \in Seq(T), NEW files
    PROVE  /\ Without(ts, files) \in Seq(T)
           /\ \A n \in DOMAIN Without(ts, files) :
                 \E i \in DOMAIN ts : Without(ts, files)[n] = ts[i] /\ ts[i].file \notin files
<1> DEFINE others == {i \in DOMAIN ts : ts[i].file \notin files}
           Nth(n) == CHOOSE i \in others : Cardinality({j \in others : j <= i}) = n
<1>1. DOMAIN ts = 1..Len(ts) /\ Len(ts) \in Nat /\ \A i \in DOMAIN ts : ts[i] \in T
  OBVIOUS
<1>2. others \in SUBSET (1..Len(ts))
  BY <1>1
<1>3. \A i \in others : i \in DOMAIN ts /\ ts[i].file \notin files
  OBVIOUS
<1>4. Without(ts, files) = [n \in 1..Cardinality(others) |-> ts[Nth(n)]]
  BY DEF Without
<1> HIDE DEF others
<1>5. Cardinality(others) \in Nat /\ \A n \in 1..Cardinality(others) : \E i \in others : Cardinality({j \in others : j <= i}) = n
  BY <1>1, <1>2, EveryPlaceIsTaken
<1>6. \A n \in 1..Cardinality(others) : Nth(n) \in others
  BY <1>5, Zenon
<1> HIDE DEF Nth
<1>7. \A n \in 1..Cardinality(others) : ts[Nth(n)] \in T
  BY <1>1, <1>3, <1>6
<1>8. Without(ts, files) \in [1..Cardinality(others) -> T]
  BY <1>4, <1>7
<1>9. Without(ts, files) \in Seq(T)
  BY <1>5, <1>8
<1> QED
  BY <1>3, <1>4, <1>6, <1>9

LEMMA EvictedIs ==
    ASSUME NEW T, NEW ts \in Seq(T)
    PROVE  /\ EvictTrees(ts) \in Seq(T)
           /\ \A n \in DOMAIN EvictTrees(ts) : \E i \in DOMAIN ts : EvictTrees(ts)[n] = ts[i]
<1>1. CASE Len(ts) <= MaxTrees
  BY <1>1 DEF EvictTrees
<1>2. CASE ~(Len(ts) <= MaxTrees)
  <2>1. Len(ts) \in Nat /\ MaxTrees \in Nat /\ Len(ts) > MaxTrees
    BY <1>2, TreesAreBounded
  <2> DEFINE first == Len(ts) - MaxTrees + 1
  <2>2. EvictTrees(ts) = SubSeq(ts, first, Len(ts)) /\ first \in 1..Len(ts) + 1
    BY <1>2, <2>1, TreesAreBounded DEF EvictTrees
  <2>3. first \in Nat /\ first >= 1
    BY <2>1
  <2> HIDE DEF first
  <2>4. /\ SubSeq(ts, first, Len(ts)) \in Seq(T)
        /\ \A n \in DOMAIN SubSeq(ts, first, Len(ts)) :
              first + n - 1 \in DOMAIN ts /\ SubSeq(ts, first, Len(ts))[n] = ts[first + n - 1]
    BY <2>1, <2>2, <2>3
  <2> QED
    BY <2>2, <2>4
<1> QED
  BY <1>1, <1>2

LEMMA AppendedIs ==
    ASSUME NEW T, NEW ts \in Seq(T), NEW t \in T
    PROVE  /\ Append(ts, t) \in Seq(T)
           /\ \A n \in DOMAIN Append(ts, t) : Append(ts, t)[n] = t \/ \E i \in DOMAIN ts : Append(ts, t)[n] = ts[i]
<1>1. Append(ts, t) \in Seq(T) /\ DOMAIN Append(ts, t) = 1..Len(ts) + 1 /\ DOMAIN ts = 1..Len(ts) /\ Len(ts) \in Nat
  OBVIOUS
<1>2. Append(ts, t)[Len(ts) + 1] = t
  OBVIOUS
<1>3. \A n \in 1..Len(ts) : Append(ts, t)[n] = ts[n]
  OBVIOUS
<1>4. \A n \in 1..Len(ts) + 1 : n \in 1..Len(ts) \/ n = Len(ts) + 1
  BY <1>1
<1> QED
  BY <1>1, <1>2, <1>3, <1>4, Zenon

(* What a parse gives is the tree of a parse from nothing: the one kept of  *)
(* the same text, or the one kept, edited, or one parsed from nothing.      *)
LEMMA ParsedIsExact ==
    ASSUME NEW ts \in Seq(Tree), NEW f \in Files, NEW text \in Texts
    PROVE  ParsedNodes(ts, f, text) = Nodes(text)
<1>1. CASE Retained(ts, f) = {}
  BY <1>1 DEF ParsedNodes
<1>2. CASE Retained(ts, f) # {}
  <2> DEFINE previous == CHOOSE t \in Retained(ts, f) : TRUE
  <2>1. previous \in Retained(ts, f)
    BY <1>2, Zenon
  <2>2. ParsedNodes(ts, f, text) =
            IF previous.text = text THEN previous.nodes ELSE Reparsed(previous.nodes, SingleEdit(previous.text, text), text)
    BY <1>2, Zenon DEF ParsedNodes
  <2> HIDE DEF previous
  <2>3. previous \in Tree
    BY <2>1 DEF Retained
  <2>4. previous.text \in Texts /\ previous.nodes = Nodes(previous.text)
    BY <2>3, TreesHave
  <2> DEFINE C == UNION {{t[i] : i \in DOMAIN t} : t \in Texts}
  <2>5. \A t \in Texts : t \in Seq(C)
    <3> TAKE t \in Texts
    <3>1. t \in Seq({t[i] : i \in DOMAIN t})
      BY TextsAreSequences
    <3>2. {t[i] : i \in DOMAIN t} \subseteq C
      OBVIOUS
    <3> DEFINE D == {t[i] : i \in DOMAIN t}
    <3> HIDE DEF C, D
    <3> QED
      <4>1. t \in Seq(D) /\ D \subseteq C
        BY <3>1, <3>2, Zenon DEF D
      <4> QED
        BY <4>1
  <2> HIDE DEF C
  <2>6. Reparsed(Nodes(previous.text), SingleEdit(previous.text, text), text) = Nodes(text)
    BY <2>4, <2>5, EditedTreeIsExact
  <2> QED
    BY <2>2, <2>4, <2>6, Zenon
<1> QED
  BY <1>1, <1>2

(* Trees kept as they are current stay so; that of the file is of the text. *)
LEMMA ParseIs ==
    ASSUME NEW ts \in Seq(Tree), NEW f \in Files, NEW text \in Texts
    PROVE  /\ Parse(ts, f, text) \in Seq(Tree)
           /\ \A n \in DOMAIN Parse(ts, f, text) :
                 \/ Parse(ts, f, text)[n].file = f /\ Parse(ts, f, text)[n].text = text
                 \/ \E i \in DOMAIN ts : Parse(ts, f, text)[n] = ts[i] /\ ts[i].file # f
<1> DEFINE tree == [file |-> f, text |-> text, nodes |-> ParsedNodes(ts, f, text)]
           rest == RemoveTree(ts, f)
           all == Append(rest, tree)
<1>1. tree \in Tree /\ tree.file = f /\ tree.text = text
  BY ParsedIsExact DEF Tree
<1>2. rest \in Seq(Tree) /\ \A n \in DOMAIN rest : \E i \in DOMAIN ts : rest[n] = ts[i] /\ ts[i].file \notin {f}
  BY WithoutIs, Zenon DEF RemoveTree
<1>3. Parse(ts, f, text) = EvictTrees(all)
  BY Zenon DEF Parse
<1> HIDE DEF tree, rest
<1>4. all \in Seq(Tree) /\ \A n \in DOMAIN all : all[n] = tree \/ \E i \in DOMAIN rest : all[n] = rest[i]
  <2>1. /\ Append(rest, tree) \in Seq(Tree)
        /\ \A n \in DOMAIN Append(rest, tree) :
              Append(rest, tree)[n] = tree \/ \E i \in DOMAIN rest : Append(rest, tree)[n] = rest[i]
    BY <1>1, <1>2, AppendedIs
  <2> QED
    BY <2>1
<1> HIDE DEF all
<1>5. /\ EvictTrees(all) \in Seq(Tree)
      /\ \A n \in DOMAIN EvictTrees(all) : \E i \in DOMAIN all : EvictTrees(all)[n] = all[i]
  BY <1>4, EvictedIs, Zenon
<1>6. \A n \in DOMAIN EvictTrees(all) : EvictTrees(all)[n] = tree \/ \E i \in DOMAIN ts : EvictTrees(all)[n] = ts[i] /\ ts[i].file # f
  BY <1>2, <1>4, <1>5
<1> QED
  BY <1>1, <1>3, <1>5, <1>6

LEMMA AnalysedIs ==
    ASSUME NEW ts \in Seq(Tree), NEW f \in Files, NEW text \in Texts
    PROVE  /\ Analysed(ts, f, text) \in Seq(Tree)
           /\ \A n \in DOMAIN Analysed(ts, f, text) :
                 \/ ~TooComplex(text) /\ Analysed(ts, f, text)[n].file = f /\ Analysed(ts, f, text)[n].text = text
                 \/ \E i \in DOMAIN ts : Analysed(ts, f, text)[n] = ts[i] /\ ts[i].file # f
<1> DEFINE parsed == Parse(ts, f, text)
<1>1. /\ parsed \in Seq(Tree)
      /\ \A n \in DOMAIN parsed :
            \/ parsed[n].file = f /\ parsed[n].text = text
            \/ \E i \in DOMAIN ts : parsed[n] = ts[i] /\ ts[i].file # f
  BY ParseIs
<1>2. Analysed(ts, f, text) = IF TooComplex(text) THEN Without(parsed, {f}) ELSE parsed
  BY DEF Analysed, RemoveTree
<1> HIDE DEF parsed
<1>3. /\ Without(parsed, {f}) \in Seq(Tree)
      /\ \A n \in DOMAIN Without(parsed, {f}) :
            \E i \in DOMAIN parsed : Without(parsed, {f})[n] = parsed[i] /\ parsed[i].file \notin {f}
  BY <1>1, WithoutIs
<1>4. CASE TooComplex(text)
  <2> DEFINE left == Without(parsed, {f})
  <2>1. left \in Seq(Tree) /\ \A n \in DOMAIN left : \E i \in DOMAIN parsed : left[n] = parsed[i] /\ parsed[i].file # f
    BY <1>3
  <2>2. Analysed(ts, f, text) = left
    BY <1>2, <1>4
  <2> HIDE DEF left
  <2>3. ASSUME NEW n \in DOMAIN left
        PROVE  \E i \in DOMAIN ts : left[n] = ts[i] /\ ts[i].file # f
    <3>1. PICK k \in DOMAIN parsed : left[n] = parsed[k] /\ parsed[k].file # f
      BY <2>1
    <3>2. PICK i \in DOMAIN ts : parsed[k] = ts[i] /\ ts[i].file # f
      BY <1>1, <3>1
    <3> QED
      BY <3>1, <3>2
  <2> QED
    BY <2>1, <2>2, <2>3, Zenon
<1>5. CASE ~TooComplex(text)
  BY <1>1, <1>2, <1>5
<1> QED
  BY <1>4, <1>5

(* Trees stay current that are of the text recorded, or were current and    *)
(* are of a file whose record stays.                                        *)
LEMMA StaysCurrent ==
    ASSUME NEW ts, NEW us, NEW recs, NEW next, Current(ts, recs),
           \A n \in DOMAIN us :
               \/ next[us[n].file] = <<us[n].text>>
               \/ \E i \in DOMAIN ts : us[n] = ts[i] /\ next[ts[i].file] = recs[ts[i].file]
    PROVE  Current(us, next)
  BY DEF Current

LEMMA RecordsAre ==
    ASSUME NEW recs \in [Files -> Record], NEW f \in Files, NEW text \in Texts
    PROVE  /\ [recs EXCEPT ![f] = <<text>>] \in [Files -> Record] /\ [recs EXCEPT ![f] = <<>>] \in [Files -> Record]
           /\ [recs EXCEPT ![f] = <<text>>][f] = <<text>>
           /\ \A g \in Files : g # f => [recs EXCEPT ![f] = <<text>>][g] = recs[g] /\ [recs EXCEPT ![f] = <<>>][g] = recs[g]
  BY DEF Record

LEMMA KnownIs ==
    ASSUME TreesInv, NEW f \in Known
    PROVE  \E text \in Texts : records[f] = <<text>>
  BY DEF TreesInv, TreesTyped, Record, Known

LEMMA TreesAreOfKnown ==
    ASSUME TreesInv, NEW i \in DOMAIN trees
    PROVE  trees[i].file \in Known /\ trees[i].file \in Files /\ records[trees[i].file] = <<trees[i].text>>
<1>1. trees[i] \in Tree
  BY DEF TreesInv, TreesTyped
<1>2. trees[i].file \in Files
  BY <1>1, TreesHave
<1>3. records[trees[i].file] = <<trees[i].text>>
  BY DEF TreesInv, Current
<1>4. \A x : <<x>> # <<>>
  OBVIOUS
<1> QED
  BY <1>2, <1>3, <1>4 DEF Known
-----------------------------------------------------------------------------
LEMMA UpdateFileStep ==
    ASSUME TreesInv, NEW f \in Files, UpdateFile(f)
    PROVE  TreesInv'
<1>1. PICK text \in Texts :
          IF Admitted(text) /\ ~TooComplex(text)
          THEN records' = [records EXCEPT ![f] = <<text>>] /\ trees' = Analysed(trees, f, text)
          ELSE /\ records' = [records EXCEPT ![f] = <<>>]
               /\ trees' = IF ~Admitted(text) THEN IF f \in Known THEN RemoveTree(trees, f) ELSE trees
                           ELSE Analysed(trees, f, text)
  BY Zenon DEF UpdateFile
<1>2. trees \in Seq(Tree) /\ records \in [Files -> Record] /\ Current(trees, records)
  BY DEF TreesInv, TreesTyped
<1>3. \A i \in DOMAIN trees : trees[i].file \in Known /\ trees[i].file \in Files
  BY TreesAreOfKnown
<1>4. records' \in [Files -> Record] /\ \A g \in Files : g # f => records'[g] = records[g]
  <2>1. records' = [records EXCEPT ![f] = <<text>>] \/ records' = [records EXCEPT ![f] = <<>>]
    BY <1>1, Zenon
  <2> QED
    BY <1>2, <2>1 DEF Record
<1>5. CASE Admitted(text)
  <2>1. trees' = Analysed(trees, f, text) /\ (~TooComplex(text) => records'[f] = <<text>>)
    BY <1>1, <1>2, <1>5, RecordsAre
  <2>2. /\ trees' \in Seq(Tree)
        /\ \A n \in DOMAIN trees' :
              \/ ~TooComplex(text) /\ trees'[n].file = f /\ trees'[n].text = text
              \/ \E i \in DOMAIN trees : trees'[n] = trees[i] /\ trees[i].file # f
    BY <1>2, <2>1, AnalysedIs
  <2>3. \A n \in DOMAIN trees' :
            \/ records'[trees'[n].file] = <<trees'[n].text>>
            \/ \E i \in DOMAIN trees : trees'[n] = trees[i] /\ records'[trees[i].file] = records[trees[i].file]
    BY <1>3, <1>4, <2>1, <2>2
  <2>4. Current(trees', records')
    BY <1>2, <2>3 DEF Current
  <2> QED
    BY <1>4, <2>2, <2>4 DEF TreesInv, TreesTyped, Current
<1>6. CASE ~Admitted(text) /\ f \in Known
  <2>1. trees' = Without(trees, {f})
    BY <1>1, <1>6 DEF RemoveTree
  <2>2. trees' \in Seq(Tree) /\ \A n \in DOMAIN trees' : \E i \in DOMAIN trees : trees'[n] = trees[i] /\ trees[i].file \notin {f}
    BY <1>2, <2>1, WithoutIs
  <2>3. \A n \in DOMAIN trees' :
            \E i \in DOMAIN trees : trees'[n] = trees[i] /\ records'[trees[i].file] = records[trees[i].file]
    BY <1>3, <1>4, <2>2
  <2>4. Current(trees', records')
    BY <1>2, <2>3, StaysCurrent
  <2> QED
    BY <1>4, <2>2, <2>4 DEF TreesInv, TreesTyped, Current
<1>7. CASE ~Admitted(text) /\ f \notin Known
  <2>1. trees' = trees
    BY <1>1, <1>7
  <2>2. \A i \in DOMAIN trees : records'[trees[i].file] = records[trees[i].file]
    BY <1>3, <1>4, <1>7
  <2>3. Current(trees', records')
    BY <1>2, <2>1, <2>2 DEF Current
  <2> QED
    BY <1>2, <1>4, <2>1, <2>3 DEF TreesInv, TreesTyped, Current
<1> QED
  BY <1>5, <1>6, <1>7

LEMMA RemoveFileStep ==
    ASSUME TreesInv, NEW f \in Files, RemoveFile(f)
    PROVE  TreesInv'
<1>1. f \in Known /\ records' = [records EXCEPT ![f] = <<>>] /\ trees' = Without(trees, {f})
  BY DEF RemoveFile, RemoveTree
<1>2. trees \in Seq(Tree) /\ records \in [Files -> Record] /\ Current(trees, records)
  BY DEF TreesInv, TreesTyped
<1>3. \A i \in DOMAIN trees : trees[i].file \in Files
  BY TreesAreOfKnown
<1>4. records' \in [Files -> Record] /\ \A g \in Files : g # f => records'[g] = records[g]
  BY <1>1, <1>2 DEF Record
<1>5. trees' \in Seq(Tree) /\ \A n \in DOMAIN trees' : \E i \in DOMAIN trees : trees'[n] = trees[i] /\ trees[i].file \notin {f}
  BY <1>1, <1>2, WithoutIs
<1>6. \A n \in DOMAIN trees' :
          \E i \in DOMAIN trees : trees'[n] = trees[i] /\ records'[trees[i].file] = records[trees[i].file]
  BY <1>3, <1>4, <1>5
<1>7. Current(trees', records')
  BY <1>2, <1>6, StaysCurrent
<1> QED
  BY <1>4, <1>5, <1>7 DEF TreesInv, TreesTyped, Current

LEMMA ReparseDependentStep ==
    ASSUME TreesInv, NEW f \in Files, ReparseDependent(f)
    PROVE  TreesInv'
<1>1. f \in Known /\ records' = records /\ trees' = Parse(trees, f, records[f][1])
  BY DEF ReparseDependent
<1>2. trees \in Seq(Tree) /\ records \in [Files -> Record] /\ Current(trees, records)
  BY DEF TreesInv, TreesTyped
<1>3. PICK text \in Texts : records[f] = <<text>>
  BY <1>1, KnownIs
<1>4. trees' = Parse(trees, f, text)
  BY <1>1, <1>3
<1>5. /\ trees' \in Seq(Tree)
      /\ \A n \in DOMAIN trees' :
            \/ trees'[n].file = f /\ trees'[n].text = text
            \/ \E i \in DOMAIN trees : trees'[n] = trees[i] /\ trees[i].file # f
  BY <1>2, <1>4, ParseIs
<1>6. \A n \in DOMAIN trees' :
          \/ records'[trees'[n].file] = <<trees'[n].text>>
          \/ \E i \in DOMAIN trees : trees'[n] = trees[i] /\ records'[trees[i].file] = records[trees[i].file]
  BY <1>1, <1>3, <1>5
<1>7. Current(trees', records')
  <2>1. \A i \in DOMAIN trees : records[trees[i].file] = <<trees[i].text>>
    BY <1>2 DEF Current
  <2>2. \A n \in DOMAIN trees' : records'[trees'[n].file] = <<trees'[n].text>>
    BY <1>1, <1>6, <2>1
  <2> QED
    BY <2>2 DEF Current
<1> QED
  BY <1>1, <1>2, <1>5, <1>7 DEF TreesInv, TreesTyped, Current

(* All the trees there were are of files that were known: none is left.     *)
LEMMA InitializeWorkspaceStep ==
    ASSUME TreesInv, NEW f \in Files, InitializeWorkspace(f)
    PROVE  TreesInv'
<1>1. PICK text \in Texts :
          /\ records' = [g \in Files |-> IF g = f /\ ~TooComplex(text) THEN <<text>> ELSE <<>>]
          /\ trees' = Analysed(Without(trees, Known), f, text)
  BY DEF InitializeWorkspace
<1>2. trees \in Seq(Tree)
  BY DEF TreesInv, TreesTyped
<1>3. \A i \in DOMAIN trees : trees[i].file \in Known
  BY TreesAreOfKnown
<1>4. PICK left : left = Without(trees, Known)
  OBVIOUS
<1>5. left \in Seq(Tree) /\ \A n \in DOMAIN left : \E i \in DOMAIN trees : left[n] = trees[i] /\ trees[i].file \notin Known
  BY <1>2, <1>4, WithoutIs
<1>6. \A n : n \notin DOMAIN left
  BY <1>3, <1>5
<1>7. trees' = Analysed(left, f, text)
  BY <1>1, <1>4
<1>8. /\ trees' \in Seq(Tree)
      /\ \A n \in DOMAIN trees' : ~TooComplex(text) /\ trees'[n].file = f /\ trees'[n].text = text
  BY <1>5, <1>6, <1>7, AnalysedIs
<1>9. records' \in [Files -> Record] /\ (~TooComplex(text) => records'[f] = <<text>>)
  BY <1>1 DEF Record
<1>10. Current(trees', records')
  BY <1>8, <1>9 DEF Current
<1> QED
  BY <1>8, <1>9, <1>10 DEF TreesInv, TreesTyped, Current

(* Every tree kept is one of a file known, of the text analysed of it, as a *)
(* parse from nothing gives it.                                             *)
THEOREM TreesStayExact == TreesSpec => []TreesInv
<1>1. TreesInit => TreesInv
  BY DEF TreesInit, TreesInv, TreesTyped, Record, Current
<1>2. TreesInv /\ [TreesNext]_treeVars => TreesInv'
  <2> SUFFICES ASSUME TreesInv, [TreesNext]_treeVars
               PROVE  TreesInv'
    OBVIOUS
  <2>1. CASE TreesNext
    BY <2>1, UpdateFileStep, RemoveFileStep, ReparseDependentStep, InitializeWorkspaceStep DEF TreesNext
  <2>2. CASE UNCHANGED treeVars
    BY <2>2 DEF treeVars, TreesInv, TreesTyped, Current
  <2> QED
    BY <2>1, <2>2
<1> QED
  BY <1>1, <1>2, PTL DEF TreesSpec

(* A tree parsed incrementally is the one a parse from nothing would give,  *)
(* and only files that are known have one: whatever the texts, the edits    *)
(* between them, the files and the number of trees that are kept.           *)
THEOREM TreesCorrect == TreesSpec => []TreesAreExact
<1>1. TreesInv => TreesAreExact
  <2> SUFFICES ASSUME TreesInv, NEW i \in DOMAIN trees
               PROVE  /\ trees[i].nodes = Nodes(trees[i].text)
                      /\ trees[i].file \in Known /\ records[trees[i].file] = <<trees[i].text>>
    BY DEF TreesAreExact
  <2>1. trees[i] \in Tree
    BY DEF TreesInv, TreesTyped
  <2> QED
    BY <2>1, TreesHave, TreesAreOfKnown
<1> QED
  BY <1>1, TreesStayExact, PTL
-----------------------------------------------------------------------------
(* Scopes: the roots around a path stand in one another (WithinWithin).     *)
SourcePaths == Seq(STRING)

LEMMA WithinIs ==
    ASSUME NEW r \in SourcePaths, NEW p \in SourcePaths
    PROVE  Within(r, p) <=> Len(r) <= Len(p) /\ \A i \in 1..Len(r) : r[i] = p[i]
<1>1. CASE Len(r) <= Len(p)
  <2>1. /\ Len(r) \in Nat /\ Len(p) \in Nat
        /\ SubSeq(r, 1, Len(r)) = [i \in 1..Len(r) |-> r[i]]
        /\ SubSeq(p, 1, Len(r)) = [i \in 1..Len(r) |-> p[i]]
    BY <1>1 DEF SourcePaths
  <2>2. SubSeq(r, 1, Len(r)) = SubSeq(p, 1, Len(r)) <=> \A i \in 1..Len(r) : r[i] = p[i]
    BY <2>1
  <2> QED
    BY <1>1, <2>2 DEF Within, IsPrefix
<1>2. CASE ~(Len(r) <= Len(p))
  BY <1>2 DEF Within, IsPrefix
<1> QED
  BY <1>1, <1>2

LEMMA WithinWithin ==
    ASSUME NEW q \in SourcePaths, NEW r \in SourcePaths, NEW p \in SourcePaths, Within(r, p)
    PROVE  /\ Within(q, r) => Within(q, p)
           /\ Within(q, p) /\ Len(q) <= Len(r) => Within(q, r)
<1>1. \A s \in SourcePaths : Len(s) \in Nat
  BY DEF SourcePaths
<1>2. Len(r) <= Len(p) /\ \A i \in 1..Len(r) : r[i] = p[i]
  BY WithinIs
<1>3. Within(q, r) <=> Len(q) <= Len(r) /\ \A i \in 1..Len(q) : q[i] = r[i]
  BY WithinIs
<1>4. Within(q, p) <=> Len(q) <= Len(p) /\ \A i \in 1..Len(q) : q[i] = p[i]
  BY WithinIs
<1>5. Len(q) <= Len(r) => 1..Len(q) \subseteq 1..Len(r)
  BY <1>1
<1>6. (\A i \in 1..Len(q) : i \in 1..Len(r)) =>
        ((\A i \in 1..Len(q) : q[i] = r[i]) <=> (\A i \in 1..Len(q) : q[i] = p[i]))
  BY <1>2
<1> QED
  BY <1>1, <1>2, <1>3, <1>4, <1>5, <1>6

(* The root of a path is around it, and every other around it is around the *)
(* root.                                                                    *)
LEMMA RootIs ==
    ASSUME NEW roots \in Seq(Folders), NEW p \in SourcePaths
    PROVE  \/ RootFor(roots, p) = None /\ \A s \in ToSet(roots) : ~Within(s, p)
           \/ /\ RootFor(roots, p) \in ToSet(roots) /\ RootFor(roots, p) # None
              /\ Within(RootFor(roots, p), p)
              /\ \A s \in ToSet(roots) : Within(s, p) => Within(s, RootFor(roots, p))
<1> DEFINE around == {r \in ToSet(roots) : Within(r, p)}
           root == RootFor(roots, p)
<1>1. root = IF around = {} THEN None ELSE CHOOSE r \in around : \A s \in around : Len(s) <= Len(r)
  BY DEF RootFor
<1>2. \A s \in ToSet(roots) : s \in SourcePaths /\ s # None
  BY FoldersArePaths DEF ToSet, SourcePaths, None
<1> HIDE DEF root
<1>3. CASE around = {}
  BY <1>1, <1>3 DEF root
<1>4. CASE around # {}
  <2> DEFINE lengths == {Len(s) : s \in around}
  <2>1. \A s \in around : Len(s) \in 0..Len(p)
    BY <1>2, WithinIs DEF SourcePaths
  <2>2. Len(p) \in Nat
    BY DEF SourcePaths
  <2>3. lengths # {} /\ \A k \in lengths : k \in 0..Len(p)
    BY <1>4, <2>1
  <2>4. \A s \in around : Len(s) \in lengths
    OBVIOUS
  <2>5. \A k \in lengths : \E r \in around : k = Len(r)
    OBVIOUS
  <2> HIDE DEF around, lengths
  <2>6. Largest(lengths) \in lengths /\ \A k \in lengths : k <= Largest(lengths)
    BY <2>2, <2>3, LargestOf
  <2>7. \E r \in around : \A s \in around : Len(s) <= Len(r)
    BY <2>4, <2>5, <2>6
  <2>8. root \in around /\ \A s \in around : Len(s) <= Len(root)
    BY <1>1, <1>4, <2>7, Zenon
  <2>9. \A s \in ToSet(roots) : Within(s, p) => Within(s, root)
    BY <1>2, <2>8, WithinWithin DEF around
  <2> QED
    BY <1>2, <2>8, <2>9 DEF root, around
<1> QED
  BY <1>3, <1>4

ScopesTyped == open \in Seq(Folders) /\ rooted \in Seq(Folders)

LEMMA ScopesKeepTyped == ScopesSpec => []ScopesTyped
<1>1. ScopesInit => ScopesTyped
  BY DEF ScopesInit, ScopesTyped
<1>2. ScopesTyped /\ [ScopesNext]_scopeVars => ScopesTyped'
  <2> SUFFICES ASSUME ScopesTyped, [ScopesNext]_scopeVars PROVE ScopesTyped'
    OBVIOUS
  <2>1. CASE OpenFolder
    <3>1. PICK f \in Folders, i \in 1..Len(open) + 1 : open' = InsertAt(open, i, f)
      BY <2>1 DEF OpenFolder
    <3>2. InsertAt(open, i, f) \in Seq(Folders)
      BY <3>1 DEF InsertAt, ScopesTyped
    <3> QED
      BY <2>1, <3>1, <3>2 DEF OpenFolder, ScopesTyped
  <2>2. CASE CloseFolder
    <3>1. PICK i \in DOMAIN open : open' = RemoveAt(open, i)
      BY <2>2 DEF CloseFolder
    <3>2. RemoveAt(open, i) \in Seq(Folders)
      BY <3>1 DEF RemoveAt, ScopesTyped
    <3> QED
      BY <2>2, <3>1, <3>2 DEF CloseFolder, ScopesTyped
  <2>3. CASE ReloadRoots \/ RunDataflowAnalysis \/ UNCHANGED scopeVars
    BY <2>3 DEF ReloadRoots, RunDataflowAnalysis, scopeVars, ScopesTyped
  <2> QED
    BY <2>1, <2>2, <2>3 DEF ScopesNext
<1> QED
  BY <1>1, <1>2, PTL DEF ScopesSpec

(* Files of one group have the same folders around them, if no folder was   *)
(* opened since the roots were loaded.                                      *)
LEMMA RootedTogether ==
    ASSUME ScopesTyped, ToSet(open) \subseteq ToSet(rooted), NEW p \in SourcePaths, NEW q \in SourcePaths,
           WorkspaceRoot(p) = WorkspaceRoot(q), NEW f \in ToSet(open), Within(f, p)
    PROVE  Within(f, q)
<1> DEFINE root == RootFor(rooted, p)
<1>1. root = RootFor(rooted, q)
  BY DEF WorkspaceRoot
<1>2. f \in ToSet(rooted) /\ rooted \in Seq(Folders)
  BY DEF ScopesTyped
<1>3. root # None /\ Within(f, root)
  BY <1>2, RootIs
<1> HIDE DEF root
<1>4. root \in ToSet(rooted) /\ Within(root, q)
  BY <1>1, <1>2, <1>3, RootIs
<1>5. f \in SourcePaths /\ root \in SourcePaths
  BY <1>2, <1>4, FoldersArePaths DEF ToSet, SourcePaths
<1> QED
  BY <1>3, <1>4, <1>5, WithinWithin

LEMMA GroupedTogether ==
    ASSUME ScopesTyped, ToSet(open) \subseteq ToSet(rooted), NEW p \in SourcePaths, NEW q \in SourcePaths,
           GroupOf(p) = GroupOf(q)
    PROVE  WorkspaceRoot(p) = WorkspaceRoot(q)
<1>1. \A s \in SourcePaths : GroupOf(s) = WorkspaceRoot(s)
  <2> SUFFICES ASSUME NEW s \in SourcePaths PROVE GroupOf(s) = WorkspaceRoot(s)
    OBVIOUS
  <2>1. CASE WorkspaceRoot(s) # None
    BY <2>1 DEF GroupOf
  <2>2. CASE WorkspaceRoot(s) = None
    <3>1. \A f \in ToSet(rooted) : ~Within(f, s)
      BY <2>2, RootIs DEF WorkspaceRoot, ScopesTyped
    <3>2. RootFor(open, s) = None
      BY <3>1, RootIs DEF ScopesTyped
    <3> QED
      BY <2>2, <3>2 DEF GroupOf
  <2> QED
    BY <2>1, <2>2
<1> QED
  BY <1>1

LEMMA SettingsAnswer ==
    ASSUME ScopesTyped, ToSet(open) \subseteq ToSet(rooted), NEW p \in SourcePaths, NEW q \in SourcePaths,
           GroupOf(p) = GroupOf(q)
    PROVE  Answers(SettingsFor(q), p)
<1>1. \A f \in ToSet(open) : Within(f, p) <=> Within(f, q)
  BY GroupedTogether, RootedTogether
<1>2. open \in Seq(Folders)
  BY DEF ScopesTyped
<1>3. \/ SettingsFor(q) = None /\ \A s \in ToSet(open) : ~Within(s, q)
      \/ /\ SettingsFor(q) \in ToSet(open) /\ SettingsFor(q) # None
         /\ Within(SettingsFor(q), q)
         /\ \A s \in ToSet(open) : Within(s, q) => Within(s, SettingsFor(q))
  BY <1>2, RootIs DEF SettingsFor
<1> QED
  BY <1>1, <1>3 DEF Answers

(* The one group a function is searched in.                                 *)
LEMMA OneSearch ==
    ASSUME NEW i \in DOMAIN Sources, open # <<>>
    PROVE  {s \in ScopedPathResults : i \in s.functions} =
             {[functions |-> Group(Sources[i]), settings |-> SettingsFor(Sources[Earliest(Group(Sources[i]))])]}
<1> DEFINE Search(g) == [functions |-> g, settings |-> SettingsFor(Sources[Earliest(g)])]
<1>1. ScopedPathResults = {Search(g) : g \in {Group(p) : p \in ToSet(Sources)}}
  BY DEF ScopedPathResults
<1>2. \A g : Search(g).functions = g
  OBVIOUS
<1>3. \A p : i \in Group(p) => Group(p) = Group(Sources[i])
  BY DEF Group
<1>4. i \in Group(Sources[i]) /\ Sources[i] \in ToSet(Sources)
  BY DEF Group, ToSet
<1> HIDE DEF Search
<1>5. {s \in ScopedPathResults : i \in s.functions} = {Search(Group(Sources[i]))}
  BY <1>1, <1>2, <1>3, <1>4
<1> QED
  BY <1>5 DEF Search

LEMMA EarliestIs ==
    ASSUME NEW S \in SUBSET Nat, S # {}
    PROVE  Earliest(S) \in S
  BY LeastThereIs, Zenon DEF Earliest

(* Every function is searched once, and with the settings of the innermost  *)
(* folder around its file unless a folder was opened inside a root since    *)
(* the last reload; where none was opened or closed, its rules are those of *)
(* that folder, and the types it sees are of files in the same folders      *)
(* (dataflow/pipeline.js scopedPathResults, config/configuration-scope.js,  *)
(* dataflow/ir-adapter.js functionsFromAnalyses).                           *)
THEOREM EveryFunctionIsScoped == ScopesSpec => EachFunctionInItsScope
<1> DEFINE InScope(i) ==
             LET found == {s \in searches' : i \in s.functions}
             IN  /\ Cardinality(found) = 1
                 /\ ToSet(open) \subseteq ToSet(rooted) => \A s \in found : Answers(s.settings, Sources[i])
                 /\ open = rooted => Answers(scopes'[i].rules, Sources[i])
                 /\ open = rooted =>
                     \A j \in scopes'[i].types : \A f \in ToSet(open) : Within(f, Sources[i]) <=> Within(f, Sources[j])
<1>1. ASSUME ScopesTyped, RunDataflowAnalysis, NEW i \in DOMAIN Sources
      PROVE  InScope(i)
  <2> DEFINE found == {s \in searches' : i \in s.functions}
  <2>1. \A j \in DOMAIN Sources : Sources[j] \in SourcePaths
    BY SourcesArePaths DEF SourcePaths
  <2>2. open \in Seq(Folders) /\ rooted \in Seq(Folders)
    BY <1>1 DEF ScopesTyped
  <2>3. Cardinality(found) = 1 /\ (ToSet(open) \subseteq ToSet(rooted) => \A s \in found : Answers(s.settings, Sources[i]))
    <3>1. CASE open = <<>>
      <4>1. found = {[functions |-> DOMAIN Sources, settings |-> None]}
        BY <1>1, <3>1 DEF RunDataflowAnalysis, ScopedPathResults
      <4>2. ToSet(open) = {}
        BY <3>1 DEF ToSet
      <4> HIDE DEF found
      <4>3. Cardinality(found) = 1
        BY <4>1, FS_Singleton
      <4>4. Answers(None, Sources[i])
        BY <4>2 DEF Answers
      <4> QED
        BY <4>1, <4>3, <4>4
    <3>2. CASE open # <<>>
      <4> DEFINE group == Group(Sources[i])
                 j == Earliest(group)
      <4>1. found = {[functions |-> group, settings |-> SettingsFor(Sources[j])]}
        BY <1>1, <3>2, OneSearch DEF RunDataflowAnalysis
      <4>2. j \in DOMAIN Sources /\ GroupOf(Sources[j]) = GroupOf(Sources[i])
        <5>1. group \in SUBSET Nat /\ group # {}
          BY SourcesArePaths DEF Group
        <5>2. j \in group
          BY <5>1, EarliestIs
        <5> QED
          BY <5>2 DEF Group
      <4> HIDE DEF found, j, group
      <4>3. Cardinality(found) = 1
        BY <4>1, FS_Singleton
      <4>4. ToSet(open) \subseteq ToSet(rooted) => Answers(SettingsFor(Sources[j]), Sources[i])
        BY <1>1, <2>1, <4>2, SettingsAnswer
      <4> QED
        BY <4>1, <4>3, <4>4
    <3> QED
      BY <3>1, <3>2
  <2>4. scopes'[i] = [types |-> TypesOf(Sources[i]), rules |-> RootFor(rooted, Sources[i])]
    BY <1>1 DEF RunDataflowAnalysis
  <2>5. open = rooted => Answers(RootFor(rooted, Sources[i]), Sources[i])
    BY <1>1, <2>1, SettingsAnswer DEF SettingsFor
  <2>6. ASSUME open = rooted, NEW j \in TypesOf(Sources[i]), NEW f \in ToSet(open)
        PROVE  Within(f, Sources[i]) <=> Within(f, Sources[j])
    <3>1. j \in DOMAIN Sources /\ WorkspaceRoot(Sources[j]) = WorkspaceRoot(Sources[i])
      BY <2>6 DEF TypesOf
    <3> QED
      BY <1>1, <2>1, <2>6, <3>1, RootedTogether
  <2> QED
    BY <2>3, <2>4, <2>5, <2>6
<1>2. ScopesTyped /\ [ScopesNext]_scopeVars => [RunDataflowAnalysis => \A i \in DOMAIN Sources : InScope(i)]_scopeVars
  BY <1>1
<1> QED
  BY <1>2, ScopesKeepTyped, PTL DEF ScopesSpec, EachFunctionInItsScope
=============================================================================
