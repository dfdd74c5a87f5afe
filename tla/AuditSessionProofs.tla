-------------------------- MODULE AuditSessionProofs --------------------------
(***************************************************************************)
(* The session keeps its analyses current, for every set of files, every   *)
(* bound of the queue and every number of versions and of indexes.         *)
(*                                                                         *)
(* A saved file whose analysis is not of the disk is always led to one     *)
(* that is: its change is still to be told to a synchronisation (Reported),*)
(* a synchronisation has it before it (Awaited), or an update with the     *)
(* text of the disk is on its way (Underway).  While an index is under way *)
(* only the first will do, for what a synchronisation hands to the index   *)
(* may be dropped; so the reads of the index, its queue, its replay and    *)
(* the requests in the worker are all held to the first.  For the unsaved  *)
(* texts the queue, what the replay has of it and the worker stand in the  *)
(* order in which they write.                                              *)
(***************************************************************************)
EXTENDS AuditSession, FiniteSetTheorems, TLAPS

Value == 0..MaxClock
MaybeFile == File \union {NoFile}
Requests ==
    [kind : {"initialize", "update", "remove", "reanalyze"}, file : MaybeFile, text : Value,
     by : {"index", "live", "sync", "replay"}]
Item == [file : File, change : Change]
Busy == {"next", "lookup", "reading", "posted", "removing", "reanalyzing"}
Holding == {"lookup", "reading", "posted", "removing", "reanalyzing"}

WorldTyped ==
    /\ disk \in [File -> Value] /\ editor \in [File -> Value] /\ live \in [File -> Value]
    /\ clock \in 1..MaxClock
    /\ events \in SUBSET File
MonitorTyped ==
    /\ owed \in SUBSET File /\ taken \in SUBSET File
    /\ changes \in SUBSET File
    /\ batch \in [rescan : BOOLEAN, changes : SUBSET File]
    /\ {rescan, timer, running, pending, failed} \subseteq BOOLEAN
    /\ disposed = FALSE
SessionTyped ==
    /\ analysed \in [File -> Value] /\ snapshot \in [File -> Value]
    /\ toRead \in SUBSET File /\ orphans \in SUBSET File /\ overwritten \in SUBSET File
    /\ built \in BOOLEAN
    /\ phase \in {"none", "indexing", "ready", "cancelled", "failed"}
    /\ step \in {"idle", "reading", "analyzing", "replaying", "reconciling"}
    /\ indexes \in 0..MaxIndexes
TextGiven(change) == change.kind = "document" => change.text # 0
QueueTyped ==
    /\ dirtyQueue \in [File -> Change]
    /\ \A f \in File : TextGiven(dirtyQueue[f])
ReplayTyped ==
    /\ replay \in [pc : Busy \union {"idle"}, todo : SUBSET Item, file : MaybeFile,
                   kept : [File -> Value]]
    /\ replay.pc # "lookup"
    /\ replay.pc \in Holding => replay.file \in File
    /\ \A item \in replay.todo : TextGiven(item.change)
SyncTyped ==
    /\ sync \in [pc : Busy \union {"idle", "wait", "index"}, todo : SUBSET File,
                 file : MaybeFile, kept : [File -> Value]]
    /\ sync.pc \in Holding => sync.file \in File
WellFormed(r) ==
    /\ r.kind = "update" => r.file \in File /\ r.text # 0
    /\ r.kind = "initialize" <=> r.by = "index"
    /\ r.by = "live" => r.kind = "update"
WorkerTyped ==
    /\ worker \in Seq(Requests)
    /\ \A i \in DOMAIN worker : WellFormed(worker[i])
Types ==
    /\ WorldTyped /\ MonitorTyped /\ SessionTyped /\ QueueTyped /\ ReplayTyped /\ SyncTyped
    /\ WorkerTyped

(* How the stages of the index, the replay and the synchronisation fit.    *)
Stages ==
    /\ phase = "ready" => built /\ step \in {"idle", "reconciling"}
    /\ step \in {"replaying", "reconciling"} => built
    /\ step = "reconciling" => phase = "ready"
    /\ step = "analyzing" => toRead = {}
    /\ ~Indexing => dirtyQueue = NoChanges
    /\ replay.pc # "idle" => step = "replaying"
    /\ running <=> sync.pc # "idle"
    /\ sync.pc = "wait" /\ ~batch.rescan => taken \subseteq sync.todo

(* The requests in the worker: the one a task awaits is the only one it    *)
(* has there, and a file has one update there at most.                     *)
Awaits(pc, kind) ==
    \/ pc = "posted" /\ kind = "update"
    \/ pc = "removing" /\ kind = "remove"
    \/ pc = "reanalyzing" /\ kind = "reanalyze"
AwaitedRequests ==
    \A i \in DOMAIN worker :
        /\ worker[i].by = "sync" => Awaits(sync.pc, worker[i].kind)
        /\ worker[i].by = "replay" => Awaits(replay.pc, worker[i].kind)
        /\ worker[i].by = "index" => step = "analyzing"
OneEach ==
    \A i, j \in DOMAIN worker :
        (worker[i].by = worker[j].by /\ worker[i].by # "live") => i = j
OneUpdate ==
    \A i, j \in DOMAIN worker :
        (worker[i].kind = "update" /\ worker[j].kind = "update" /\ worker[i].file = worker[j].file)
            => i = j

(* What leads a saved file to its analysis.                                *)
Clean(f) == editor[f] = 0
Reported(f) == f \in events \/ f \in owed \/ (sync.pc = "wait" /\ f \in taken)
Awaited(f) ==
    /\ f \in taken
    /\ \/ sync.pc \in Busy /\ f \in sync.todo
       \/ sync.pc \in {"lookup", "reading"} /\ f = sync.file
       \/ sync.pc \in {"removing", "reanalyzing"} /\ f = sync.file /\ disk[f] = 0
Underway(f) == disk[f] # 0 /\ \E i \in Updates(f) : worker[i].text = disk[f]

(* What was read, queued or replayed of a saved file is what the disk      *)
(* holds, or its change is still to be told.                               *)
SnapshotSound ==
    step \in {"reading", "analyzing"} =>
        \A f \in File \ toRead : Clean(f) /\ snapshot[f] # disk[f] => Reported(f)
Stale(f, change) ==
    change.kind = "document" /\ Clean(f) /\ disk[f] # 0 /\ change.text # disk[f]
QueueSound == Indexing => \A f \in File : Stale(f, dirtyQueue[f]) => Reported(f)
ReplaySound ==
    step = "replaying" =>
        \A item \in replay.todo : Stale(item.file, item.change) => Reported(item.file)

(* The answers to come.  Those before the index's own will be replaced.    *)
Replaced(i) ==
    step = "reading" \/ \E j \in DOMAIN worker : j > i /\ worker[j].kind = "initialize"
Sound == phase = "ready" \/ step \in {"analyzing", "replaying"}
Misleads(i) ==
    LET f == worker[i].file
    IN  /\ worker[i].kind = "update" /\ Clean(f) /\ worker[i].text # disk[f]
        /\ disk[f] # 0 \/ worker[i].by = "sync"
UpdatesSound ==
    Sound => \A i \in DOMAIN worker : ~Replaced(i) /\ Misleads(i) =>
        LET f == worker[i].file IN Reported(f) \/ (~Indexing /\ Awaited(f))
Wrong(f) ==
    /\ f \notin overwritten /\ Clean(f) /\ analysed[f] # disk[f]
    /\ f \in orphans => disk[f] # 0
AnalysesSound ==
    (phase = "ready" \/ step = "replaying") =>
        \A f \in File : Wrong(f) =>
            Reported(f) \/ (~Indexing /\ (Awaited(f) \/ Underway(f)))

Fixed == Types /\ Stages /\ AwaitedRequests /\ OneEach /\ OneUpdate
IInv ==
    /\ Fixed
    /\ SnapshotSound /\ QueueSound /\ ReplaySound /\ UpdatesSound /\ AnalysesSound
-----------------------------------------------------------------------------
(* The unsaved texts, while the queue is replayed.                         *)
Unsaved(f) == editor[f] # 0 /\ f \notin overwritten
InQueue(f) == dirtyQueue[f].kind # "none"
InTodo(f) == \E item \in replay.todo : item.file = f
InHand(f) == replay.pc \in {"reading", "removing", "reanalyzing"} /\ replay.file = f
ToCome(f) == InQueue(f) \/ InTodo(f) \/ InHand(f)

LatestQueued ==
    Indexing => \A f \in File : editor[f] # 0 /\ dirtyQueue[f].kind = "document" =>
                    dirtyQueue[f].text = editor[f]
LatestReplayed ==
    step = "replaying" => \A item \in replay.todo :
        LET f == item.file
        IN  editor[f] # 0 /\ item.change.kind = "document" /\ item.change.text # editor[f]
                => InQueue(f)
LatestPosted ==
    step = "replaying" => \A i \in DOMAIN worker :
        LET f == worker[i].file
        IN  worker[i].kind = "update" /\ Unsaved(f) /\ worker[i].text # editor[f] => ToCome(f)
LatestAnalysed ==
    step = "replaying" => \A f \in File : Unsaved(f) /\ analysed[f] # editor[f] =>
        \/ ToCome(f)
        \/ \E i \in Updates(f) : worker[i].by = "replay" /\ worker[i].text = editor[f]
(* A deletion takes an analysis away: there is one.                        *)
DeletionsBite ==
    step = "replaying" => \A f \in File : Unsaved(f) /\ analysed[f] = 0 =>
        /\ dirtyQueue[f].kind # "delete"
        /\ \A item \in replay.todo :
              item.file = f /\ item.change.kind = "delete" => InQueue(f)
        /\ replay.pc \in {"removing", "reanalyzing"} /\ replay.file = f =>
              InQueue(f) \/ InTodo(f)

TextInv == LatestQueued /\ LatestReplayed /\ LatestPosted /\ LatestAnalysed /\ DeletionsBite
-----------------------------------------------------------------------------
(* Requests come and go, but keep their order: the worker loses its k-th   *)
(* request (none, when k is past the last), and may be sent r.             *)
Left(k) == IF k <= Len(worker) THEN Len(worker) - 1 ELSE Len(worker)
From(k, i) == IF i < k THEN i ELSE i + 1
Keeps(k) ==
    /\ k \in 1..(Len(worker) + 1)
    /\ worker' \in Seq(Requests)
    /\ \A i \in 1..Left(k) : worker'[i] = worker[From(k, i)]
Loses(k) == Keeps(k) /\ Len(worker') = Left(k)
Sends(k, r) == Keeps(k) /\ Len(worker') = Left(k) + 1 /\ worker'[Left(k) + 1] = r

LEMMA WorkerIsSequence ==
    ASSUME WorkerTyped
    PROVE  /\ Len(worker) \in Nat /\ DOMAIN worker = 1..Len(worker)
           /\ \A i \in DOMAIN worker : worker[i] \in Requests
BY DEF WorkerTyped

(* Where a request stands after the step, and where it stood before.       *)
LEMMA LeftFrom ==
    ASSUME WorkerTyped, NEW k \in 1..(Len(worker) + 1)
    PROVE  /\ Left(k) \in Nat
           /\ \A i \in 1..Left(k) : From(k, i) \in DOMAIN worker \ {k}
           /\ \A i, j \in 1..Left(k) : i < j <=> From(k, i) < From(k, j)
           /\ \A j \in DOMAIN worker \ {k} : \E i \in 1..Left(k) : From(k, i) = j
<1>1. Len(worker) \in Nat /\ DOMAIN worker = 1..Len(worker)
  BY WorkerIsSequence
<1>2. ASSUME NEW j \in DOMAIN worker \ {k} PROVE \E i \in 1..Left(k) : From(k, i) = j
  <2>1. CASE j < k
    BY <1>1, <2>1 DEF Left, From
  <2>2. CASE j > k
    <3>1. j - 1 \in 1..Left(k) /\ From(k, j - 1) = j
      BY <1>1, <2>2 DEF Left, From
    <3> QED
      BY <3>1
  <2> QED
    BY <1>1, <2>1, <2>2
<1> QED
  BY <1>1, <1>2 DEF Left, From

LEMMA TailOfSequence ==
    ASSUME NEW S, NEW s \in Seq(S), s # <<>>
    PROVE  /\ Tail(s) \in Seq(S) /\ Len(s) \in Nat \ {0} /\ Len(Tail(s)) = Len(s) - 1
           /\ \A i \in 1..Len(Tail(s)) : Tail(s)[i] = s[i + 1]
           /\ Head(s) = s[1] /\ DOMAIN s = 1..Len(s)
OBVIOUS

LEMMA AppendToSequence ==
    ASSUME NEW S, NEW s \in Seq(S), NEW r \in S
    PROVE  /\ Append(s, r) \in Seq(S) /\ Len(Append(s, r)) = Len(s) + 1 /\ Len(s) \in Nat
           /\ \A i \in 1..Len(s) : Append(s, r)[i] = s[i]
           /\ Append(s, r)[Len(s) + 1] = r
OBVIOUS

LEMMA PartsOfSequence ==
    ASSUME NEW S, NEW s \in Seq(S), NEW k \in 1..Len(s)
    PROVE  /\ SubSeq(s, 1, k - 1) \in Seq(S) /\ Len(SubSeq(s, 1, k - 1)) = k - 1
           /\ SubSeq(s, k + 1, Len(s)) \in Seq(S) /\ Len(SubSeq(s, k + 1, Len(s))) = Len(s) - k
           /\ \A i \in 1..(k - 1) : SubSeq(s, 1, k - 1)[i] = s[i]
           /\ \A i \in 1..(Len(s) - k) : SubSeq(s, k + 1, Len(s))[i] = s[k + i]
OBVIOUS

LEMMA JoinedSequences ==
    ASSUME NEW S, NEW r \in Seq(S), NEW s \in Seq(S)
    PROVE  /\ r \o s \in Seq(S) /\ Len(r \o s) = Len(r) + Len(s)
           /\ \A i \in 1..Len(r) : (r \o s)[i] = r[i]
           /\ \A i \in 1..Len(s) : (r \o s)[Len(r) + i] = s[i]
OBVIOUS

(* A sequence without its k-th element.                                    *)
LEMMA SequenceWithout ==
    ASSUME NEW S, NEW s \in Seq(S), NEW k \in 1..Len(s)
    PROVE  /\ SubSeq(s, 1, k - 1) \o SubSeq(s, k + 1, Len(s)) \in Seq(S)
           /\ Len(SubSeq(s, 1, k - 1) \o SubSeq(s, k + 1, Len(s))) = Len(s) - 1
           /\ \A i \in 1..(Len(s) - 1) :
                 (SubSeq(s, 1, k - 1) \o SubSeq(s, k + 1, Len(s)))[i] = s[From(k, i)]
<1> DEFINE before == SubSeq(s, 1, k - 1)
           after == SubSeq(s, k + 1, Len(s))
           rest == before \o after
<1>1. /\ before \in Seq(S) /\ Len(before) = k - 1
      /\ after \in Seq(S) /\ Len(after) = Len(s) - k
      /\ \A i \in 1..(k - 1) : before[i] = s[i]
      /\ \A i \in 1..(Len(s) - k) : after[i] = s[k + i]
  BY PartsOfSequence, Zenon
<1> HIDE DEF before, after
<1>2. /\ rest \in Seq(S) /\ Len(rest) = Len(before) + Len(after)
      /\ \A i \in 1..Len(before) : rest[i] = before[i]
      /\ \A i \in 1..Len(after) : rest[Len(before) + i] = after[i]
  <2>1. before \in Seq(S) /\ after \in Seq(S)
    BY <1>1
  <2> QED
    BY ONLY <2>1, JoinedSequences
<1> HIDE DEF rest
<1>3. Len(s) \in Nat
  OBVIOUS
<1>4. Len(rest) = Len(s) - 1
  BY <1>1, <1>2, <1>3
<1>5. /\ \A i \in 1..(k - 1) : rest[i] = before[i]
      /\ \A i \in 1..(Len(s) - k) : rest[(k - 1) + i] = after[i]
  BY <1>1, <1>2, Zenon
<1>6. ASSUME NEW i \in 1..(Len(s) - 1) PROVE rest[i] = s[From(k, i)]
  <2>1. CASE i < k
    BY <1>1, <1>3, <1>5, <2>1 DEF From
  <2>2. CASE ~(i < k)
    <3>1. PICK m \in 1..(Len(s) - k) : (k - 1) + m = i /\ k + m = i + 1
      <4>1. /\ i - (k - 1) \in 1..(Len(s) - k) /\ (k - 1) + (i - (k - 1)) = i
            /\ k + (i - (k - 1)) = i + 1
        BY <1>3, <2>2
      <4> QED
        BY <4>1
    <3>2. rest[i] = after[m] /\ after[m] = s[i + 1]
      BY <1>1, <1>5, <3>1
    <3> QED
      BY <2>2, <3>2 DEF From
  <2> QED
    BY <2>1, <2>2
<1> QED
  BY <1>2, <1>4, <1>6, Zenon DEF rest, before, after

LEMMA AppendSends ==
    ASSUME WorkerTyped, NEW r \in Requests, worker' = Append(worker, r)
    PROVE  Sends(Len(worker) + 1, r)
<1>1. Len(worker) \in Nat /\ DOMAIN worker = 1..Len(worker)
  BY WorkerIsSequence
<1> QED
  BY <1>1 DEF WorkerTyped, Sends, Keeps, Left, From

(* The oldest request is answered.                                         *)
LEMMA FirstIsLost ==
    ASSUME Len(worker) \in Nat \ {0}, worker' \in Seq(Requests), Len(worker') = Len(worker) - 1,
           \A i \in 1..Len(worker') : worker'[i] = worker[i + 1]
    PROVE  Loses(1)
<1>1. Left(1) = Len(worker')
  BY DEF Left
<1>2. \A i \in 1..Left(1) : From(1, i) = i + 1
  BY <1>1 DEF From
<1> QED
  BY <1>1, <1>2 DEF Loses, Keeps

LEMMA FirstGivesWay ==
    ASSUME NEW r, Len(worker) \in Nat \ {0}, worker' \in Seq(Requests), Len(worker') = Len(worker),
           \A i \in 1..(Len(worker) - 1) : worker'[i] = worker[i + 1],
           worker'[Len(worker)] = r
    PROVE  Sends(1, r)
<1>1. Left(1) = Len(worker) - 1
  BY DEF Left
<1>2. \A i \in 1..Left(1) : From(1, i) = i + 1
  BY <1>1 DEF From
<1> QED
  BY <1>1, <1>2 DEF Sends, Keeps

LEMMA AnswerLoses ==
    ASSUME WorkerTyped, worker # <<>>, worker' = Tail(worker)
    PROVE  Loses(1) /\ 1 \in DOMAIN worker /\ Head(worker) = worker[1]
<1>1. /\ worker' \in Seq(Requests) /\ Len(worker) \in Nat \ {0} /\ Len(worker') = Len(worker) - 1
      /\ \A i \in 1..Len(worker') : worker'[i] = worker[i + 1]
      /\ Head(worker) = worker[1] /\ DOMAIN worker = 1..Len(worker)
  BY TailOfSequence DEF WorkerTyped
<1>2. 1 \in DOMAIN worker
  BY <1>1
<1> QED
  BY <1>1, <1>2, FirstIsLost

LEMMA AnswerSends ==
    ASSUME WorkerTyped, worker # <<>>, NEW r \in Requests, worker' = Append(Tail(worker), r)
    PROVE  Sends(1, r) /\ 1 \in DOMAIN worker /\ Head(worker) = worker[1]
<1> DEFINE rest == Tail(worker)
<1>1. /\ rest \in Seq(Requests) /\ Len(worker) \in Nat \ {0} /\ Len(rest) = Len(worker) - 1
      /\ \A i \in 1..Len(rest) : rest[i] = worker[i + 1]
      /\ Head(worker) = worker[1] /\ DOMAIN worker = 1..Len(worker)
  BY TailOfSequence DEF WorkerTyped
<1>2. worker' = Append(rest, r)
  OBVIOUS
<1> HIDE DEF rest
<1>3. /\ worker' \in Seq(Requests) /\ Len(worker') = Len(rest) + 1
      /\ \A i \in 1..Len(rest) : worker'[i] = rest[i]
      /\ worker'[Len(rest) + 1] = r
  <2>1. /\ Append(rest, r) \in Seq(Requests) /\ Len(Append(rest, r)) = Len(rest) + 1
        /\ \A i \in 1..Len(rest) : Append(rest, r)[i] = rest[i]
        /\ Append(rest, r)[Len(rest) + 1] = r
    <3>1. rest \in Seq(Requests) /\ r \in Requests
      BY <1>1
    <3> QED
      BY ONLY <3>1, AppendToSequence
  <2> QED
    BY <1>2, <2>1, Zenon
<1>4. Len(rest) + 1 = Len(worker) /\ 1 \in DOMAIN worker
  BY <1>1
<1>5. /\ Len(worker') = Len(worker) /\ worker'[Len(worker)] = r
      /\ \A i \in 1..(Len(worker) - 1) : worker'[i] = worker[i + 1]
  BY <1>1, <1>3, <1>4, Zenon
<1> QED
  BY <1>1, <1>3, <1>4, <1>5, FirstGivesWay, Zenon

(* An update takes the place of the one of its file, if there is one.      *)
LEMMA UpdateSends ==
    ASSUME WorkerTyped, OneUpdate, NEW f \in File, NEW text \in Value \ {0},
           NEW by \in {"live", "sync", "replay"}, PostUpdate(f, text, by)
    PROVE  \E k \in 1..(Len(worker) + 1) :
              /\ Sends(k, Request("update", f, text, by))
              /\ Updates(f) = {k} \intersect DOMAIN worker
<1> DEFINE r == Request("update", f, text, by)
<1>1. Len(worker) \in Nat /\ DOMAIN worker = 1..Len(worker)
  BY WorkerIsSequence
<1>2. r \in Requests
  BY DEF Request, Requests, MaybeFile
<1>3. CASE Updates(f) = {}
  <2>1. worker' = Append(worker, r)
    BY <1>3 DEF PostUpdate, WithoutUpdate
  <2>2. Sends(Len(worker) + 1, r)
    BY <1>2, <2>1, AppendSends
  <2> QED
    BY <1>1, <1>3, <2>2
<1>4. CASE Updates(f) # {}
  <2> DEFINE k == CHOOSE i \in Updates(f) : TRUE
  <2>1. k \in DOMAIN worker /\ Updates(f) = {k}
    <3>1. k \in Updates(f)
      BY <1>4
    <3>2. \A i \in Updates(f) : i = k
      BY <3>1 DEF Updates, OneUpdate
    <3> QED
      BY <3>1, <3>2 DEF Updates
  <2> HIDE DEF k
  <2> DEFINE rest == SubSeq(worker, 1, k - 1) \o SubSeq(worker, k + 1, Len(worker))
  <2>2. worker' = Append(rest, r)
    BY <1>4 DEF PostUpdate, WithoutUpdate, k
  <2>3. /\ rest \in Seq(Requests) /\ Len(rest) = Len(worker) - 1
        /\ \A i \in 1..(Len(worker) - 1) : rest[i] = worker[From(k, i)]
    <3>1. worker \in Seq(Requests) /\ k \in 1..Len(worker)
      BY <1>1, <2>1 DEF WorkerTyped
    <3> QED
      BY ONLY <3>1, SequenceWithout DEF rest
  <2> HIDE DEF rest
  <2>4. /\ worker' \in Seq(Requests) /\ Len(worker') = Len(rest) + 1
        /\ \A i \in 1..Len(rest) : worker'[i] = rest[i]
        /\ worker'[Len(rest) + 1] = r
    BY <1>2, <2>2, <2>3, AppendToSequence
  <2>5. Sends(k, r)
    BY <1>1, <2>1, <2>3, <2>4 DEF Sends, Keeps, Left
  <2> QED
    BY <1>1, <2>1, <2>5
<1> QED
  BY <1>3, <1>4
-----------------------------------------------------------------------------
(* Who changes what.                                                       *)
LEMMA WorldSteps ==
    ASSUME Next
    PROVE  \/ \E f \in File : Edit(f) \/ Save(f) \/ External(f)
           \/ UNCHANGED <<disk, editor>>
BY DEF Next, LiveTimer, Watch, ReadFile, StartIndex, PostIndex, CancelIndex,
       CancelAnalysis, IndexFails, IndexAnalysed, ReplayTake, ReplayChange, ReplayRead,
       IndexReady, Reconciled, MonitorFlush, SyncBegin, SyncIndexed, SyncFile,
       SyncLookup, SyncRead, SyncDone, AnswerUpdate, AnswerRemove, AnswerReanalyze,
       world

LEMMA EventSteps ==
    ASSUME Next
    PROVE  \/ \E f \in File : Save(f) \/ External(f) \/ Watch(f)
           \/ UNCHANGED <<events>>
BY DEF Next, Edit, LiveTimer, ReadFile, StartIndex, PostIndex, CancelIndex,
       CancelAnalysis, IndexFails, IndexAnalysed, ReplayTake, ReplayChange, ReplayRead,
       IndexReady, Reconciled, MonitorFlush, SyncBegin, SyncIndexed, SyncFile,
       SyncLookup, SyncRead, SyncDone, AnswerUpdate, AnswerRemove, AnswerReanalyze,
       world

LEMMA IndexSteps ==
    ASSUME Next
    PROVE  \/ \E f \in File : ReadFile(f)
           \/ StartIndex \/ PostIndex \/ CancelIndex \/ CancelAnalysis \/ IndexFails
           \/ IndexAnalysed \/ IndexReady \/ Reconciled \/ SyncBegin
           \/ UNCHANGED <<built, phase, step, toRead, snapshot>>
BY DEF Next, Edit, LiveTimer, Save, External, Watch, ReplayTake, ReplayChange,
       ReplayRead, MonitorFlush, SyncIndexed, SyncFile, SyncLookup, SyncRead, SyncDone,
       AnswerUpdate, AnswerRemove, AnswerReanalyze, index

LEMMA QueueSteps ==
    ASSUME Next
    PROVE  \/ \E f \in File : Edit(f) \/ LiveTimer(f)
           \/ StartIndex \/ CancelIndex \/ CancelAnalysis \/ IndexFails
           \/ IndexAnalysed \/ ReplayTake \/ Reconciled \/ SyncBegin \/ SyncFile
           \/ SyncLookup
           \/ UNCHANGED <<dirtyQueue>>
BY DEF Next, Save, External, Watch, ReadFile, PostIndex, ReplayChange, ReplayRead,
       IndexReady, MonitorFlush, SyncIndexed, SyncRead, SyncDone, AnswerUpdate,
       AnswerRemove, AnswerReanalyze

LEMMA ReplaySteps ==
    ASSUME Next
    PROVE  \/ \E f \in File : LiveTimer(f) \/ Save(f)
           \/ PostIndex \/ CancelAnalysis \/ IndexFails \/ IndexAnalysed
           \/ ReplayTake \/ ReplayChange \/ ReplayRead \/ IndexReady \/ SyncFile
           \/ SyncRead \/ AnswerUpdate \/ AnswerRemove \/ AnswerReanalyze
           \/ UNCHANGED <<replay>>
BY DEF Next, Edit, External, Watch, ReadFile, StartIndex, CancelIndex, Reconciled,
       MonitorFlush, SyncBegin, SyncIndexed, SyncLookup, SyncDone

LEMMA WorkerSteps ==
    ASSUME Next
    PROVE  \/ \E f \in File : LiveTimer(f) \/ Save(f)
           \/ PostIndex \/ CancelAnalysis \/ IndexFails \/ IndexAnalysed
           \/ ReplayChange \/ ReplayRead \/ SyncFile \/ SyncLookup \/ SyncRead
           \/ AnswerUpdate \/ AnswerRemove \/ AnswerReanalyze
           \/ UNCHANGED <<worker>>
BY DEF Next, Edit, External, Watch, ReadFile, StartIndex, CancelIndex, ReplayTake,
       IndexReady, Reconciled, MonitorFlush, SyncBegin, SyncIndexed, SyncDone

LEMMA AnalysisSteps ==
    ASSUME Next
    PROVE  \/ CancelAnalysis \/ IndexFails \/ IndexAnalysed \/ ReplayRead
           \/ SyncRead \/ AnswerUpdate \/ AnswerReanalyze
           \/ UNCHANGED <<analysed, orphans, overwritten>>
BY DEF Next, Edit, LiveTimer, Save, External, Watch, ReadFile, StartIndex, PostIndex,
       CancelIndex, ReplayTake, ReplayChange, IndexReady, Reconciled, MonitorFlush,
       SyncBegin, SyncIndexed, SyncFile, SyncLookup, SyncDone, AnswerRemove, session

LEMMA SyncSteps ==
    ASSUME Next
    PROVE  \/ \E f \in File : LiveTimer(f) \/ Save(f)
           \/ CancelAnalysis \/ IndexFails \/ ReplayChange \/ ReplayRead
           \/ MonitorFlush \/ SyncBegin \/ SyncIndexed \/ SyncFile \/ SyncLookup
           \/ SyncRead \/ SyncDone \/ AnswerUpdate \/ AnswerRemove
           \/ AnswerReanalyze
           \/ UNCHANGED <<sync>>
BY DEF Next, Edit, External, Watch, ReadFile, StartIndex, PostIndex, CancelIndex,
       IndexAnalysed, ReplayTake, IndexReady, Reconciled

-----------------------------------------------------------------------------
(* What a step makes of the changes that are owed.                         *)
TakesBatch ==
    /\ sync' = [NoTask EXCEPT !.pc = "wait", !.todo = batch'.changes]
    /\ running' = TRUE
    /\ owed' \union taken' = owed
    /\ ~batch'.rescan => taken' \subseteq batch'.changes
EndsDrain == sync' = NoTask /\ running' = FALSE /\ owed' = owed /\ taken' = {}
GivesBack == sync' = NoTask /\ running' = FALSE /\ owed' = owed \union taken /\ taken' = {}
Tells == owed \subseteq owed' /\ UNCHANGED <<taken, batch, running, sync>>
Rests == UNCHANGED <<owed, taken, batch, running>>

LEMMA NotifyTells ==
    ASSUME NEW f \in File, Notify(f)
    PROVE  /\ owed \subseteq owed' /\ owed' \subseteq owed \union {f}
           /\ Active => f \in owed'
           /\ UNCHANGED <<taken, batch, running, disposed>>
BY DEF Notify, Mon!Enqueue, Mon!Schedule, monitor

LEMMA FailureGivesBack ==
    ASSUME MonitorTyped, SyncFails
    PROVE  GivesBack /\ running = TRUE /\ disposed' = disposed
BY DEF MonitorTyped, SyncFails, Mon!BatchFails, GivesBack

LEMMA TakingMoves ==
    ASSUME MonitorTyped, Mon!TakeBatch
    PROVE  owed' \union taken' = owed /\ (~batch'.rescan => taken' \subseteq batch'.changes)
BY DEF MonitorTyped, Mon!TakeBatch

LEMMA SuccessMoves ==
    ASSUME MonitorTyped, Mon!BatchSucceeds, NextBatch
    PROVE  TakesBatch \/ EndsDrain
<1>1. CASE Mon!MoreToDo
  <2>1. Mon!TakeBatch /\ running' = TRUE
    BY <1>1 DEF Mon!BatchSucceeds, MonitorTyped
  <2> QED
    BY <2>1, TakingMoves DEF NextBatch, TakesBatch
<1>2. CASE ~Mon!MoreToDo
  BY <1>2 DEF Mon!BatchSucceeds, NextBatch, EndsDrain
<1> QED
  BY <1>1, <1>2

LEMMA FlushMoves ==
    ASSUME MonitorTyped, MonitorFlush
    PROVE  \/ running /\ Rests /\ UNCHANGED sync
           \/ ~running /\ (TakesBatch \/ EndsDrain \/ (Rests /\ sync' = NoTask))
<1>1. CASE running
  BY <1>1 DEF MonitorFlush, Mon!Flush, Mon!queue, Mon!history, Rests
<1>2. CASE ~running /\ Mon!MoreToDo
  <2>1. Mon!TakeBatch /\ running' = TRUE
    BY <1>2 DEF MonitorFlush, Mon!Flush
  <2> QED
    BY <1>2, <2>1, TakingMoves DEF MonitorFlush, NextBatch, TakesBatch
<1>3. CASE ~running /\ ~Mon!MoreToDo
  <2>1. UNCHANGED <<batch, running, owed, taken>> /\ NextBatch
    BY <1>3 DEF MonitorFlush, Mon!Flush, Mon!queue, Mon!history
  <2>2. sync' = NoTask
    BY <1>3, <2>1 DEF NextBatch
  <2> QED
    BY <1>3, <2>1, <2>2 DEF Rests
<1> QED
  BY <1>1, <1>2, <1>3

(* No synchronisation is taken from those that wait, but by its failure or *)
(* its begin.                                                              *)
LEMMA MonitorSteps ==
    ASSUME MonitorTyped, Stages, Next
    PROVE  \/ Rests
           \/ Tells
           \/ GivesBack /\ SyncFails
           \/ sync.pc # "wait" /\ TakesBatch
           \/ sync.pc # "wait" /\ EndsDrain
<1> USE FailureGivesBack
<1>1. ASSUME NEW f \in File, LiveTimer(f) PROVE Rests \/ (GivesBack /\ SyncFails)
  BY <1>1 DEF LiveTimer, PostLive, monitor, Rests
<1>2. ASSUME NEW f \in File, Save(f) PROVE Rests \/ Tells \/ (GivesBack /\ SyncFails)
  BY <1>2, NotifyTells DEF Save, PostLive, monitor, Rests, Tells
<1>3. ASSUME NEW f \in File, Watch(f) PROVE Tells
  BY <1>3, NotifyTells DEF Watch, Tells
<1>4. CASE CancelAnalysis \/ IndexFails
  BY <1>4 DEF CancelAnalysis, IndexFails, monitor, Rests
<1>5. CASE ReplayChange
  BY <1>5 DEF ReplayChange, PostReplay, monitor, Rests
<1>6. CASE ReplayRead
  BY <1>6 DEF ReplayRead, PostReplay, monitor, Rests
<1>7. CASE IndexReady
  BY <1>7 DEF IndexReady, Rests
<1>8. CASE MonitorFlush
  BY <1>8, FlushMoves DEF Stages
<1>9. CASE SyncIndexed
  BY <1>9, SuccessMoves DEF SyncIndexed
<1>10. CASE SyncRead
  BY <1>10 DEF SyncRead, monitor, Rests
<1>11. CASE SyncDone
  BY <1>11, SuccessMoves DEF SyncDone
<1>12. CASE UNCHANGED monitor
  BY <1>12 DEF monitor, Rests
<1>13. \/ \E f \in File : LiveTimer(f) \/ Save(f) \/ Watch(f)
       \/ CancelAnalysis \/ IndexFails \/ ReplayChange \/ ReplayRead \/ IndexReady
       \/ MonitorFlush \/ SyncIndexed \/ SyncRead \/ SyncDone
       \/ UNCHANGED monitor
  BY DEF Next, Edit, External, ReadFile, StartIndex, PostIndex, CancelIndex, IndexAnalysed,
         ReplayTake, Reconciled, SyncBegin, SyncFile, SyncLookup, AnswerUpdate, AnswerRemove,
         AnswerReanalyze
<1> QED
  BY <1>1, <1>2, <1>3, <1>4, <1>5, <1>6, <1>7, <1>8, <1>9, <1>10, <1>11, <1>12, <1>13
-----------------------------------------------------------------------------
(* What a step makes of the requests.  An update that takes the place of   *)
(* another fails the synchronisation that awaits it, and a replay goes on. *)
Posts(k, f, text, by) ==
    /\ k \in 1..(Len(worker) + 1) /\ f \in File /\ text \in Value \ {0}
    /\ Updates(f) = {k} \intersect DOMAIN worker
    /\ Sends(k, Request("update", f, text, by))
Meets(k, by) == k \in DOMAIN worker /\ worker[k].by = by
SyncPassed(k) == IF Meets(k, "sync") THEN GivesBack ELSE UNCHANGED sync
ReplayPassed(k) == replay' = IF Meets(k, "replay") THEN [replay EXCEPT !.pc = "next"] ELSE replay

LEMMA SupersededMet ==
    ASSUME NEW k, NEW f, Updates(f) = {k} \intersect DOMAIN worker, NEW by
    PROVE  by \in Superseded(f) <=> Meets(k, by)
BY DEF Superseded, Meets

LEMMA TextTyped ==
    ASSUME WorldTyped, NEW f \in File
    PROVE  Text(f) \in Value /\ (editor[f] = 0 => Text(f) = disk[f]) /\ (editor[f] # 0 => Text(f) = editor[f])
BY DEF WorldTyped, Text

LEMMA LivePosts ==
    ASSUME Types, OneUpdate, NEW f \in File, NEW text \in Value \ {0}, PostLive(f, text)
    PROVE  \E k : Posts(k, f, text, "live") /\ SyncPassed(k) /\ ReplayPassed(k)
<1>1. PICK k \in 1..(Len(worker) + 1) :
          /\ Sends(k, Request("update", f, text, "live"))
          /\ Updates(f) = {k} \intersect DOMAIN worker
  BY UpdateSends DEF PostLive, Types
<1>2. SyncPassed(k)
  BY <1>1, SupersededMet, FailureGivesBack DEF PostLive, SyncPassed, Types
<1>3. ReplayPassed(k)
  BY <1>1, SupersededMet DEF PostLive, ReplayPassed
<1> QED
  BY <1>1, <1>2, <1>3 DEF Posts

LEMMA ReplayPosts ==
    ASSUME Types, OneUpdate, NEW task, NEW f \in File, NEW text \in Value \ {0},
           PostReplay(task, f, text)
    PROVE  \E k : /\ Posts(k, f, text, "replay") /\ SyncPassed(k)
                  /\ replay' = [task EXCEPT !.pc = "posted", !.file = f]
<1>1. PICK k \in 1..(Len(worker) + 1) :
          /\ Sends(k, Request("update", f, text, "replay"))
          /\ Updates(f) = {k} \intersect DOMAIN worker
  BY UpdateSends DEF PostReplay, Types
<1>2. SyncPassed(k)
  BY <1>1, SupersededMet, FailureGivesBack DEF PostReplay, SyncPassed, Types
<1> QED
  BY <1>1, <1>2 DEF Posts, PostReplay

LEMMA SyncPosts ==
    ASSUME Types, OneUpdate, NEW task, NEW f \in File, NEW text \in Value \ {0},
           PostSync(task, f, text)
    PROVE  \E k : /\ Posts(k, f, text, "sync") /\ ReplayPassed(k)
                  /\ sync' = [task EXCEPT !.pc = "posted", !.file = f]
<1>1. PICK k \in 1..(Len(worker) + 1) :
          /\ Sends(k, Request("update", f, text, "sync"))
          /\ Updates(f) = {k} \intersect DOMAIN worker
  BY UpdateSends DEF PostSync, Types
<1>2. ReplayPassed(k)
  BY <1>1, SupersededMet DEF PostSync, ReplayPassed
<1> QED
  BY <1>1, <1>2 DEF Posts, PostSync

LEMMA LiveTimerMoves ==
    ASSUME Types, OneUpdate, NEW f \in File, LiveTimer(f)
    PROVE  \/ Indexing /\ UNCHANGED <<worker, replay, sync>>
           \/ ~Indexing /\ UNCHANGED dirtyQueue /\ \E k, text :
                /\ Posts(k, f, text, "live") /\ SyncPassed(k) /\ ReplayPassed(k)
                /\ Text(f) # 0 => text = Text(f)
<1>1. CASE Indexing
  BY <1>1 DEF LiveTimer
<1>2. CASE ~Indexing
  <2> DEFINE text == IF Text(f) = 0 THEN live[f] ELSE Text(f)
  <2>1. text \in Value \ {0}
    BY TextTyped DEF LiveTimer, Types, WorldTyped
  <2>2. PostLive(f, text) /\ UNCHANGED dirtyQueue
    BY <1>2 DEF LiveTimer
  <2> QED
    BY <1>2, <2>1, <2>2, LivePosts
<1> QED
  BY <1>1, <1>2

LEMMA SaveMoves ==
    ASSUME Types, OneUpdate, NEW f \in File, Save(f)
    PROVE  \/ Active /\ f \in events' /\ UNCHANGED <<worker, replay, sync>>
           \/ ~Active /\ ~Indexing /\ \E k :
                Posts(k, f, editor[f], "live") /\ SyncPassed(k) /\ ReplayPassed(k)
<1>1. CASE Active
  BY <1>1 DEF Save
<1>2. CASE ~Active
  <2>1. editor[f] \in Value \ {0} /\ PostLive(f, editor[f])
    BY <1>2 DEF Save, Types, WorldTyped
  <2> QED
    BY <1>2, <2>1, LivePosts DEF Active
<1> QED
  BY <1>1, <1>2

LEMMA RequestTyped ==
    ASSUME NEW kind \in {"initialize", "update", "remove", "reanalyze"}, NEW f \in MaybeFile,
           NEW text \in Value, NEW by \in {"index", "live", "sync", "replay"}
    PROVE  /\ Request(kind, f, text, by) \in Requests
           /\ Request(kind, f, text, by).kind = kind /\ Request(kind, f, text, by).file = f
           /\ Request(kind, f, text, by).text = text /\ Request(kind, f, text, by).by = by
BY DEF Request, Requests

LEMMA RequestFields ==
    ASSUME NEW kind, NEW f, NEW text, NEW by
    PROVE  /\ Request(kind, f, text, by).kind = kind /\ Request(kind, f, text, by).file = f
           /\ Request(kind, f, text, by).text = text /\ Request(kind, f, text, by).by = by
BY DEF Request
LEMMA ZeroIsValue == 0 \in Value /\ NoFile \in MaybeFile
BY BoundsAreNatural DEF Value, MaybeFile

LEMMA PostIndexMoves ==
    ASSUME Types, PostIndex
    PROVE  Sends(Len(worker) + 1, Request("initialize", NoFile, 0, "index"))
BY AppendSends, RequestTyped, ZeroIsValue DEF Types, PostIndex

LEMMA PostRemoveMoves ==
    ASSUME Types, NEW f \in File, NEW by \in {"sync", "replay"}, PostRemove(f, by)
    PROVE  Sends(Len(worker) + 1, Request("remove", f, 0, by))
BY AppendSends, RequestTyped, ZeroIsValue DEF Types, PostRemove, MaybeFile

LEMMA ReplayChangeMoves ==
    ASSUME Types, OneUpdate, ReplayChange
    PROVE  /\ replay.pc = "next"
           /\ \E item \in replay.todo :
                \/ /\ item.change.kind = "delete" /\ analysed[item.file] = 0
                   /\ replay' = Replayed(item) /\ UNCHANGED <<worker, sync>>
                \/ /\ item.change.kind = "delete" /\ analysed[item.file] # 0
                   /\ replay' = Removing(Replayed(item), item.file)
                   /\ Sends(Len(worker) + 1, Request("remove", item.file, 0, "replay"))
                   /\ UNCHANGED sync
                \/ /\ item.change.kind = "document"
                   /\ \E k : /\ Posts(k, item.file, item.change.text, "replay") /\ SyncPassed(k)
                             /\ replay' = [Replayed(item) EXCEPT !.pc = "posted", !.file = item.file]
                \/ /\ item.change.kind = "file"
                   /\ replay' = [Replayed(item) EXCEPT !.pc = "reading", !.file = item.file]
                   /\ UNCHANGED <<worker, sync>>
<1>1. PICK item \in replay.todo :
        \/ /\ item.change.kind = "delete" /\ analysed[item.file] = 0
           /\ replay' = Replayed(item) /\ UNCHANGED <<worker, sync>>
        \/ /\ item.change.kind = "delete" /\ analysed[item.file] # 0
           /\ replay' = Removing(Replayed(item), item.file)
           /\ PostRemove(item.file, "replay") /\ UNCHANGED sync
        \/ /\ item.change.kind = "document"
           /\ PostReplay(Replayed(item), item.file, item.change.text)
        \/ /\ item.change.kind = "file"
           /\ replay' = [Replayed(item) EXCEPT !.pc = "reading", !.file = item.file]
           /\ UNCHANGED <<worker, sync>>
  BY DEF ReplayChange
<1>2. item.file \in File /\ (item.change.kind = "document" => item.change.text \in Value \ {0})
  BY DEF Types, ReplayTyped, Item, Change, TextGiven, Value
<1>3. ASSUME item.change.kind = "document", PostReplay(Replayed(item), item.file, item.change.text)
      PROVE  \E k : /\ Posts(k, item.file, item.change.text, "replay") /\ SyncPassed(k)
                    /\ replay' = [Replayed(item) EXCEPT !.pc = "posted", !.file = item.file]
  BY <1>2, <1>3, ReplayPosts
<1>4. ASSUME PostRemove(item.file, "replay")
      PROVE  Sends(Len(worker) + 1, Request("remove", item.file, 0, "replay"))
  BY <1>2, <1>4, PostRemoveMoves
<1>5. replay.pc = "next"
  BY DEF ReplayChange
<1> QED
  BY <1>1, <1>3, <1>4, <1>5

LEMMA ReplayReadMoves ==
    ASSUME Types, OneUpdate, ReplayRead
    PROVE  /\ replay.pc = "reading" /\ replay.file \in File /\ LateRead(replay.file)
           /\ \/ /\ disk[replay.file] = 0 /\ replay' = [replay EXCEPT !.pc = "next"]
                 /\ UNCHANGED <<worker, sync>>
              \/ /\ disk[replay.file] # 0
                 /\ \E k : /\ Posts(k, replay.file, disk[replay.file], "replay") /\ SyncPassed(k)
                           /\ replay' = [replay EXCEPT !.pc = "posted", !.file = replay.file]
<1>1. replay.pc = "reading" /\ replay.file \in File /\ LateRead(replay.file)
  BY DEF ReplayRead, Types, ReplayTyped, Holding
<1>2. CASE disk[replay.file] = 0
  BY <1>1, <1>2 DEF ReplayRead
<1>3. CASE disk[replay.file] # 0
  <2>1. PostReplay(replay, replay.file, disk[replay.file])
    BY <1>3 DEF ReplayRead
  <2>2. disk[replay.file] \in Value \ {0}
    BY <1>1, <1>3 DEF Types, WorldTyped
  <2> QED
    BY <1>1, <1>3, <2>1, <2>2, ReplayPosts
<1> QED
  BY <1>2, <1>3

LEMMA SyncFileMoves ==
    ASSUME Types, OneUpdate, SyncFile
    PROVE  /\ sync.pc = "next"
           /\ \E f \in sync.todo :
                \/ /\ editor[f] # 0 /\ Indexing /\ Queue(f, "document", editor[f])
                   /\ sync' = Synced(f) /\ UNCHANGED <<worker, replay>>
                \/ /\ editor[f] # 0 /\ ~Indexing /\ UNCHANGED dirtyQueue
                   /\ \E k : /\ Posts(k, f, editor[f], "sync") /\ ReplayPassed(k)
                             /\ sync' = [Synced(f) EXCEPT !.pc = "posted", !.file = f]
                \/ /\ editor[f] = 0 /\ sync' = [Synced(f) EXCEPT !.pc = "lookup", !.file = f]
                   /\ UNCHANGED <<worker, dirtyQueue, replay>>
<1>1. sync.pc = "next" /\ sync.todo \subseteq File
  BY DEF SyncFile, Types, SyncTyped
<1>2. PICK f \in sync.todo :
        \/ /\ editor[f] # 0 /\ Indexing /\ Queue(f, "document", editor[f])
           /\ sync' = Synced(f) /\ UNCHANGED <<worker, replay>>
        \/ /\ editor[f] # 0 /\ ~Indexing /\ UNCHANGED dirtyQueue
           /\ PostSync(Synced(f), f, editor[f])
        \/ /\ editor[f] = 0 /\ sync' = [Synced(f) EXCEPT !.pc = "lookup", !.file = f]
           /\ UNCHANGED <<worker, dirtyQueue, replay>>
  BY DEF SyncFile
<1>3. ASSUME editor[f] # 0, PostSync(Synced(f), f, editor[f])
      PROVE  \E k : /\ Posts(k, f, editor[f], "sync") /\ ReplayPassed(k)
                    /\ sync' = [Synced(f) EXCEPT !.pc = "posted", !.file = f]
  <2>1. f \in File /\ editor[f] \in Value \ {0}
    BY <1>1, <1>3 DEF Types, WorldTyped
  <2> QED
    BY <1>3, <2>1, SyncPosts
<1> QED
  BY <1>1, <1>2, <1>3

LEMMA SyncReadMoves ==
    ASSUME Types, OneUpdate, SyncRead
    PROVE  /\ sync.pc = "reading" /\ sync.file \in File
           /\ \/ disk[sync.file] = 0 /\ GivesBack /\ UNCHANGED <<worker, replay, overwritten>>
              \/ /\ disk[sync.file] # 0 /\ LateRead(sync.file) /\ UNCHANGED monitor
                 /\ \E k : /\ Posts(k, sync.file, disk[sync.file], "sync") /\ ReplayPassed(k)
                           /\ sync' = [sync EXCEPT !.pc = "posted", !.file = sync.file]
<1>1. sync.pc = "reading" /\ sync.file \in File
  BY DEF SyncRead, Types, SyncTyped, Holding
<1>2. CASE disk[sync.file] = 0
  BY <1>1, <1>2, FailureGivesBack DEF SyncRead, Types
<1>3. CASE disk[sync.file] # 0
  <2>1. PostSync(sync, sync.file, disk[sync.file]) /\ LateRead(sync.file) /\ UNCHANGED monitor
    BY <1>3 DEF SyncRead
  <2>2. disk[sync.file] \in Value \ {0}
    BY <1>1, <1>3 DEF Types, WorldTyped
  <2> QED
    BY <1>1, <1>3, <2>1, <2>2, SyncPosts
<1> QED
  BY <1>2, <1>3

LEMMA AnswerMoves ==
    ASSUME Types, worker # <<>>, worker' = Tail(worker)
    PROVE  Loses(1) /\ 1 \in DOMAIN worker /\ Head(worker) = worker[1]
BY AnswerLoses DEF Types

LEMMA AnswerRemoveMoves ==
    ASSUME Types, AnswerRemove
    PROVE  /\ 1 \in DOMAIN worker /\ worker[1].kind = "remove" /\ worker[1].by \in {"sync", "replay"}
           /\ Sends(1, Request("reanalyze", NoFile, 0, worker[1].by))
           /\ Resume(worker[1].by, "reanalyzing")
<1>1. worker # <<>> /\ Head(worker).kind = "remove" /\ Resume(Head(worker).by, "reanalyzing")
  BY DEF AnswerRemove
<1>2. 1 \in DOMAIN worker /\ Head(worker) = worker[1]
  BY <1>1, TailOfSequence DEF Types, WorkerTyped
<1>3. worker[1].by \in {"sync", "replay"}
  BY <1>1, <1>2, WorkerIsSequence DEF Types, WorkerTyped, WellFormed, Requests
<1>4. Request("reanalyze", NoFile, 0, worker[1].by) \in Requests
  BY <1>3, RequestTyped, ZeroIsValue
<1>5. worker' = Append(Tail(worker), Request("reanalyze", NoFile, 0, worker[1].by))
  BY <1>2 DEF AnswerRemove
<1> QED
  BY <1>1, <1>2, <1>3, <1>4, <1>5, AnswerSends DEF Types
-----------------------------------------------------------------------------
(* Types.                                                                  *)
LEMMA WorldKept ==
    ASSUME Next
    PROVE  \/ \E f \in File : Edit(f) \/ LiveTimer(f) \/ Save(f) \/ External(f) \/ Watch(f)
           \/ UNCHANGED world
BY DEF Next, ReadFile, StartIndex, PostIndex, CancelIndex, CancelAnalysis, IndexFails,
       IndexAnalysed, ReplayTake, ReplayChange, ReplayRead, IndexReady, Reconciled,
       MonitorFlush, SyncBegin, SyncIndexed, SyncFile, SyncLookup, SyncRead, SyncDone,
       AnswerUpdate, AnswerRemove, AnswerReanalyze

LEMMA WorldTypedNext ==
    ASSUME WorldTyped, Next
    PROVE  WorldTyped'
<1>0. /\ clock \in 1..MaxClock /\ MaxClock \in Nat
      /\ \A c \in 1..MaxClock : c \in Value
      /\ 0 \in Value /\ (clock < MaxClock => clock + 1 \in 1..MaxClock)
  BY BoundsAreNatural DEF WorldTyped, Value
<1>1. ASSUME NEW f \in File, Edit(f) PROVE WorldTyped'
  BY <1>0, <1>1 DEF WorldTyped, Edit
<1>2. ASSUME NEW f \in File, LiveTimer(f) PROVE WorldTyped'
  BY <1>0, <1>2 DEF WorldTyped, LiveTimer
<1>3. ASSUME NEW f \in File, Save(f) PROVE WorldTyped'
  <2>1. live' = live \/ live' = [live EXCEPT ![f] = 0]
    BY <1>3 DEF Save
  <2>2. /\ clock' = clock /\ disk' = [disk EXCEPT ![f] = editor[f]]
        /\ editor' = [editor EXCEPT ![f] = 0] /\ events' = events \union {f}
    BY <1>3 DEF Save
  <2> QED
    BY <1>0, <2>1, <2>2 DEF WorldTyped
<1>4. ASSUME NEW f \in File, External(f) PROVE WorldTyped'
  <2>1. PICK version \in {clock', 0} : disk' = [disk EXCEPT ![f] = version]
    BY <1>4 DEF External
  <2>2. clock' \in 1..MaxClock /\ UNCHANGED <<editor, live>> /\ events' = events \union {f}
    BY <1>0, <1>4 DEF External
  <2>3. version \in Value
    BY <1>0, <2>2
  <2> QED
    BY <2>1, <2>2, <2>3 DEF WorldTyped
<1>5. ASSUME NEW f \in File, Watch(f) PROVE WorldTyped'
  BY <1>5 DEF WorldTyped, Watch
<1>6. CASE UNCHANGED world
  BY <1>6 DEF WorldTyped, world
<1> QED
  BY <1>1, <1>2, <1>3, <1>4, <1>5, <1>6, WorldKept

LEMMA MonitorTypedNext ==
    ASSUME MonitorTyped, Next
    PROVE  MonitorTyped'
<1>0. ASSUME Mon!TakeBatch
      PROVE  /\ owed' \in SUBSET File /\ taken' \in SUBSET File /\ changes' \in SUBSET File
             /\ batch' \in [rescan : BOOLEAN, changes : SUBSET File]
             /\ rescan' = FALSE /\ failed' = failed
  BY <1>0 DEF MonitorTyped, Mon!TakeBatch
<1>1. ASSUME NEW f \in File, Notify(f) PROVE MonitorTyped'
  BY <1>1 DEF MonitorTyped, Notify, Mon!Enqueue, Mon!Schedule, Mon!Armed, Mon!RescanAfter,
              Mon!Overfull, monitor
<1>2. ASSUME SyncFails PROVE MonitorTyped'
  BY <1>2 DEF MonitorTyped, SyncFails, Mon!BatchFails, Mon!NoBatch, Mon!TellPending
<1>3. ASSUME Mon!BatchSucceeds PROVE MonitorTyped'
  <2>1. CASE Mon!MoreToDo
    <3>1. Mon!TakeBatch /\ UNCHANGED <<timer, disposed, running, pending>>
      BY <1>3, <2>1 DEF Mon!BatchSucceeds
    <3> QED
      BY <1>0, <3>1 DEF MonitorTyped
  <2>2. CASE ~Mon!MoreToDo
    <3>1. /\ running' = FALSE /\ batch' = Mon!NoBatch /\ taken' = {}
          /\ pending' \in {pending, FALSE}
          /\ UNCHANGED <<changes, rescan, owed, failed, timer, disposed>>
      BY <1>3, <2>2 DEF Mon!BatchSucceeds, Mon!TellPending
    <3> QED
      BY <3>1 DEF MonitorTyped, Mon!NoBatch
  <2> QED
    BY <2>1, <2>2
<1>4. CASE MonitorFlush
  <2>0. Mon!Flush
    BY <1>4 DEF MonitorFlush
  <2>1. CASE running
    BY <2>0, <2>1 DEF MonitorTyped, Mon!Flush, Mon!queue, Mon!history
  <2>2. CASE ~running /\ Mon!MoreToDo
    <3>1. Mon!TakeBatch /\ timer' = FALSE /\ running' = TRUE /\ UNCHANGED <<disposed, pending>>
      BY <2>0, <2>2 DEF Mon!Flush
    <3> QED
      BY <1>0, <3>1 DEF MonitorTyped
  <2>3. CASE ~running /\ ~Mon!MoreToDo
    BY <2>0, <2>3 DEF MonitorTyped, Mon!Flush, Mon!queue, Mon!history, Mon!TellPending
  <2> QED
    BY <2>1, <2>2, <2>3
<1>5. CASE UNCHANGED monitor
  BY <1>5 DEF MonitorTyped, monitor
<1>6. CASE IndexReady
  BY <1>6 DEF MonitorTyped, IndexReady
<1>7. \/ \E f \in File : Notify(f)
      \/ SyncFails \/ Mon!BatchSucceeds \/ MonitorFlush \/ IndexReady \/ UNCHANGED monitor
  BY DEF Next, Edit, LiveTimer, PostLive, Save, External, Watch, ReadFile, StartIndex,
         PostIndex, CancelIndex, CancelAnalysis, IndexFails, IndexAnalysed, ReplayTake,
         ReplayChange, PostReplay, ReplayRead, Reconciled, SyncBegin, SyncIndexed, SyncFile,
         SyncLookup, SyncRead, SyncDone, AnswerUpdate, AnswerRemove, AnswerReanalyze
<1> QED
  BY <1>1, <1>2, <1>3, <1>4, <1>5, <1>6, <1>7

(* What is at the head of the worker, and the analyses to put back.        *)
LEMMA HeadOfWorker ==
    ASSUME WorkerTyped, worker # <<>>
    PROVE  /\ 1 \in DOMAIN worker /\ Head(worker) = worker[1]
           /\ worker[1] \in Requests /\ WellFormed(worker[1])
BY TailOfSequence, WorkerIsSequence DEF WorkerTyped

LEMMA WithoutTyped ==
    ASSUME NEW task, task.kept \in [File -> Value]
    PROVE  Without(task) \in [File -> Value]
BY ZeroIsValue DEF Without

LEMMA AnalysedTypedNext ==
    ASSUME Types, Next
    PROVE  /\ analysed' \in [File -> Value]
           /\ orphans' \in SUBSET File /\ overwritten' \in SUBSET File
<1> USE DEF Types, SessionTyped
<1>1. CASE CancelAnalysis
  BY <1>1 DEF CancelAnalysis, ReplayTyped, SyncTyped
<1>2. CASE IndexFails
  BY <1>2 DEF IndexFails, ReplayTyped
<1>3. CASE IndexAnalysed
  BY <1>3 DEF IndexAnalysed
<1>4. CASE ReplayRead
  BY <1>4 DEF ReplayRead, LateRead, ReplayTyped, Holding
<1>5. CASE SyncRead
  BY <1>5 DEF SyncRead, LateRead, SyncTyped, Holding
<1>6. CASE AnswerUpdate
  <2>1. Head(worker).file \in File /\ Head(worker).text \in Value
    BY <1>6, HeadOfWorker DEF AnswerUpdate, WellFormed, Requests
  <2> QED
    BY <1>6, <2>1 DEF AnswerUpdate
<1>7. CASE AnswerReanalyze
  <2>1. Without(sync) \in [File -> Value] /\ Without(replay) \in [File -> Value]
    BY WithoutTyped DEF SyncTyped, ReplayTyped
  <2> QED
    BY <1>7, <2>1 DEF AnswerReanalyze
<1> QED
  BY <1>1, <1>2, <1>3, <1>4, <1>5, <1>6, <1>7, AnalysisSteps

LEMMA SessionTypedNext ==
    ASSUME Types, Next
    PROVE  SessionTyped'
<1>1. /\ analysed' \in [File -> Value]
      /\ orphans' \in SUBSET File /\ overwritten' \in SUBSET File
  BY AnalysedTypedNext
<1>2. /\ snapshot' \in [File -> Value] /\ toRead' \in SUBSET File /\ built' \in BOOLEAN
      /\ phase' \in {"none", "indexing", "ready", "cancelled", "failed"}
      /\ step' \in {"idle", "reading", "analyzing", "replaying", "reconciling"}
  <2> USE DEF Types, SessionTyped
  <2>1. CASE BeginIndex
    BY <2>1, ZeroIsValue DEF BeginIndex, Nothing
  <2>2. ASSUME NEW f \in File, ReadFile(f) PROVE <1>2
    BY <2>2, TextTyped DEF ReadFile
  <2>3. CASE EndIndex /\ phase' \in {"ready", "cancelled", "failed", phase}
    BY <2>3 DEF EndIndex
  <2>4. CASE PostIndex \/ IndexAnalysed \/ IndexReady
    BY <2>4 DEF PostIndex, IndexAnalysed, IndexReady
  <2>5. CASE UNCHANGED <<built, phase, step, toRead, snapshot>>
    BY <2>5
  <2> QED
    BY <2>1, <2>2, <2>3, <2>4, <2>5, IndexSteps DEF StartIndex, CancelIndex, CancelAnalysis,
       IndexFails, Reconciled, SyncBegin, index
<1>3. indexes' \in 0..MaxIndexes
  <2>1. indexes' = indexes \/ (indexes < MaxIndexes /\ indexes' = indexes + 1)
    BY DEF Next, Edit, LiveTimer, Save, External, Watch, ReadFile, StartIndex, PostIndex,
           CancelIndex, CancelAnalysis, IndexFails, IndexAnalysed, ReplayTake, ReplayChange,
           ReplayRead, IndexReady, Reconciled, MonitorFlush, SyncBegin, SyncIndexed, SyncFile,
           SyncLookup, SyncRead, SyncDone, AnswerUpdate, AnswerRemove, AnswerReanalyze
  <2> QED
    BY <2>1, BoundsAreNatural DEF Types, SessionTyped
<1> QED
  BY <1>1, <1>2, <1>3 DEF SessionTyped

LEMMA QueueTypedNext ==
    ASSUME Types, Next
    PROVE  QueueTyped'
<1> USE DEF Types, QueueTyped
<1>0. /\ \A kind \in {"none", "file", "document", "delete"}, text \in Value :
            [kind |-> kind, text |-> text] \in Change
      /\ NoChanges \in [File -> Change] /\ \A f \in File : TextGiven(NoChanges[f])
      /\ 0 \in Value
  BY ZeroIsValue DEF Change, NoChanges, NoChange, Value, TextGiven
<1>1. ASSUME NEW f, NEW kind \in {"file", "document", "delete"}, NEW text \in Value,
             kind = "document" => text # 0, Queue(f, kind, text)
      PROVE  QueueTyped'
  <2>1. [kind |-> kind, text |-> text] \in Change /\ TextGiven([kind |-> kind, text |-> text])
    BY <1>0, <1>1 DEF TextGiven
  <2> QED
    BY <2>1, <1>1 DEF Queue
<1>2. ASSUME NEW f \in File, Edit(f) PROVE QueueTyped'
  <2>1. clock' \in Value \ {0}
    BY <1>2, WorldTypedNext, BoundsAreNatural DEF WorldTyped, Value
  <2>2. Queue(f, "document", clock') \/ dirtyQueue' = dirtyQueue
    BY <1>2 DEF Edit
  <2> QED
    BY <1>1, <2>1, <2>2
<1>3. ASSUME NEW f \in File, LiveTimer(f) PROVE QueueTyped'
  <2> DEFINE text == IF Text(f) = 0 THEN live[f] ELSE Text(f)
  <2>1. text \in Value \ {0}
    BY <1>3, TextTyped DEF LiveTimer, WorldTyped
  <2>2. Queue(f, "document", text) \/ dirtyQueue' = dirtyQueue
    BY <1>3 DEF LiveTimer
  <2> QED
    BY <1>1, <2>1, <2>2
<1>4. CASE dirtyQueue' = NoChanges
  BY <1>0, <1>4
<1>5. CASE IndexAnalysed
  <2>1. dirtyQueue' = [f \in File |-> IF editor[f] # 0
                                      THEN [kind |-> "document", text |-> editor[f]]
                                      ELSE dirtyQueue[f]]
    BY <1>5 DEF IndexAnalysed, QueueWithOpenDirtyDocuments
  <2>2. \A f \in File : editor[f] \in Value
    BY DEF WorldTyped
  <2> QED
    BY <2>1, <2>2, <1>0 DEF TextGiven
<1>6. CASE SyncFile
  <2>1. PICK f \in sync.todo : \/ editor[f] # 0 /\ Queue(f, "document", editor[f])
                               \/ dirtyQueue' = dirtyQueue
    BY <1>6 DEF SyncFile
  <2>2. editor[f] \in Value
    BY DEF SyncTyped, WorldTyped
  <2> QED
    BY <2>1, <2>2, <1>1
<1>7. CASE SyncLookup
  <2>1. \/ Queue(sync.file, "delete", 0) \/ Queue(sync.file, "file", 0)
        \/ dirtyQueue' = dirtyQueue
    BY <1>7 DEF SyncLookup
  <2> QED
    BY <1>0, <1>1, <2>1
<1>8. CASE dirtyQueue' = dirtyQueue
  BY <1>8
<1> QED
  BY <1>2, <1>3, <1>4, <1>5, <1>6, <1>7, <1>8, QueueSteps DEF StartIndex, BeginIndex, CancelIndex,
     CancelAnalysis, IndexFails, EndIndex, ReplayTake, QueueTaken, Reconciled, SyncBegin

LEMMA NoTaskTyped ==
    /\ NoTask.pc = "idle" /\ NoTask.todo = {} /\ NoTask.file = NoFile
    /\ NoTask.kept \in [File -> Value]
BY ZeroIsValue DEF NoTask, Nothing

LEMMA ReplayTypedNext ==
    ASSUME Types, OneUpdate, AwaitedRequests, Next
    PROVE  ReplayTyped'
<1> USE DEF ReplayTyped
<1>0. ReplayTyped
  BY DEF Types
<1>1. CASE replay' = [replay EXCEPT !.pc = "next"]
  BY <1>0, <1>1 DEF Busy, Holding
<1>2. ASSUME NEW k, ReplayPassed(k) PROVE ReplayTyped'
  BY <1>0, <1>1, <1>2 DEF ReplayPassed
<1>3. CASE UNCHANGED replay
  BY <1>0, <1>3
<1>4. ASSUME NEW f \in File, LiveTimer(f) \/ Save(f) PROVE ReplayTyped'
  BY <1>2, <1>3, <1>4, LiveTimerMoves, SaveMoves
<1>5. CASE PostIndex
  <2>1. analysed \in [File -> Value]
    BY DEF Types, SessionTyped
  <2> QED
    BY <1>5, <2>1, ZeroIsValue DEF PostIndex, NoTask, Busy, Holding
<1>6. CASE CancelAnalysis \/ IndexFails \/ IndexAnalysed \/ IndexReady
  <2>1. replay' = NoTask \/ replay' = [NoTask EXCEPT !.pc = "next"]
    BY <1>6 DEF CancelAnalysis, IndexFails, IndexAnalysed, IndexReady
  <2> QED
    BY <2>1, ZeroIsValue DEF NoTask, Nothing, Busy, Holding
<1>7. CASE ReplayTake
  <2>1. \A f \in File : dirtyQueue[f] \in Change /\ TextGiven(dirtyQueue[f])
    BY DEF Types, QueueTyped
  <2>2. {[file |-> f, change |-> dirtyQueue[f]] : f \in Queued} \in SUBSET Item
    BY <2>1 DEF Queued, Item
  <2> DEFINE todo == {[file |-> f, change |-> dirtyQueue[f]] : f \in Queued}
  <2>3. \A item \in todo : TextGiven(item.change)
    BY <2>1 DEF Queued
  <2>4. replay' = [replay EXCEPT !.todo = todo] /\ todo \in SUBSET Item
    BY <1>7, <2>2 DEF ReplayTake
  <2> HIDE DEF todo
  <2> QED
    BY <1>0, <2>3, <2>4 DEF Busy, Holding
<1>8. CASE ReplayChange
  <2>1. PICK item \in replay.todo :
             \/ replay' = Replayed(item)
             \/ replay' = Removing(Replayed(item), item.file)
             \/ replay' = [Replayed(item) EXCEPT !.pc = "posted", !.file = item.file]
             \/ replay' = [Replayed(item) EXCEPT !.pc = "reading", !.file = item.file]
    BY <1>8, ReplayChangeMoves
  <2>2. item.file \in File /\ analysed \in [File -> Value]
    BY <1>0 DEF Item, Types, SessionTyped
  <2> QED
    BY <1>0, <2>1, <2>2 DEF Replayed, Removing, Busy, Holding, MaybeFile
<1>9. CASE ReplayRead
  <2>1. \/ replay' = [replay EXCEPT !.pc = "next"]
        \/ replay' = [replay EXCEPT !.pc = "posted", !.file = replay.file]
    BY <1>9, ReplayReadMoves
  <2>2. replay.file \in File
    BY <1>9, ReplayReadMoves
  <2> QED
    BY <1>0, <2>1, <2>2 DEF Busy, Holding, MaybeFile
<1>10. CASE SyncFile \/ SyncRead
  BY <1>2, <1>3, <1>10, SyncFileMoves, SyncReadMoves
<1>11. CASE AnswerUpdate \/ AnswerReanalyze
  <2>1. replay' = replay \/ replay' = [replay EXCEPT !.pc = "next"]
    BY <1>11 DEF AnswerUpdate, AnswerReanalyze, Resume
  <2> QED
    BY <1>1, <1>3, <2>1
<1>12. CASE AnswerRemove
  <2>1. \/ UNCHANGED replay
        \/ replay.pc = "removing" /\ replay' = [replay EXCEPT !.pc = "reanalyzing"]
    BY <1>12, AnswerRemoveMoves DEF AwaitedRequests, Awaits, Resume
  <2> QED
    BY <1>0, <2>1 DEF Busy, Holding
<1> QED
  BY <1>3, <1>4, <1>5, <1>6, <1>7, <1>8, <1>9, <1>10, <1>11, <1>12, ReplaySteps

LEMMA SyncTypedNext ==
    ASSUME Types, OneUpdate, AwaitedRequests, Next
    PROVE  SyncTyped'
<1> USE DEF SyncTyped
<1>0. SyncTyped
  BY DEF Types
<1>1. CASE sync' = NoTask
  BY <1>1, NoTaskTyped, ZeroIsValue DEF NoTask, Busy, Holding
<1>2. CASE UNCHANGED sync
  BY <1>0, <1>2
<1>3. ASSUME NEW k, SyncPassed(k) PROVE SyncTyped'
  BY <1>1, <1>2, <1>3 DEF SyncPassed, GivesBack
<1>4. ASSUME NEW f \in File, LiveTimer(f) \/ Save(f) PROVE SyncTyped'
  BY <1>2, <1>3, <1>4, LiveTimerMoves, SaveMoves
<1>5. CASE CancelAnalysis \/ IndexFails
  BY <1>1, <1>2, <1>5 DEF CancelAnalysis, IndexFails, SyncFails
<1>6. CASE ReplayChange \/ ReplayRead
  BY <1>2, <1>3, <1>6, ReplayChangeMoves, ReplayReadMoves
<1>7. CASE TakesBatch
  <2>1. MonitorTyped'
    BY MonitorTypedNext DEF Types
  <2>2. batch'.changes \in SUBSET File
    BY <2>1 DEF MonitorTyped
  <2>3. sync' = [pc |-> "wait", todo |-> batch'.changes, file |-> NoFile, kept |-> NoTask.kept]
    BY <1>7 DEF TakesBatch, NoTask
  <2> QED
    BY <2>2, <2>3, NoTaskTyped, ZeroIsValue DEF Busy, Holding
<1>8. CASE MonitorFlush
  <2>1. UNCHANGED sync \/ TakesBatch \/ sync' = NoTask
    BY <1>8, FlushMoves DEF Types, EndsDrain
  <2> QED
    BY <1>1, <1>2, <1>7, <2>1
<1>9. CASE SyncBegin
  <2>1. sync' = [sync EXCEPT !.pc = "index"] \/ sync' = [sync EXCEPT !.pc = "next"]
    BY <1>9 DEF SyncBegin
  <2> QED
    BY <1>0, <2>1 DEF Busy, Holding
<1>10. CASE SyncIndexed \/ SyncDone
  <2>1. TakesBatch \/ sync' = NoTask
    BY <1>10, SuccessMoves DEF SyncIndexed, SyncDone, Types, EndsDrain, SyncFails
  <2> QED
    BY <1>1, <1>7, <2>1
<1>11. CASE SyncFile
  <2>1. PICK f \in sync.todo : \/ sync' = Synced(f)
                               \/ sync' = [Synced(f) EXCEPT !.pc = "posted", !.file = f]
                               \/ sync' = [Synced(f) EXCEPT !.pc = "lookup", !.file = f]
    BY <1>11, SyncFileMoves
  <2>2. f \in File
    BY <1>0
  <2> QED
    <3>1. sync.pc = "next"
      BY <1>11, SyncFileMoves
    <3>2. CASE sync' = Synced(f)
      BY <1>0, <3>1, <3>2 DEF Synced, Busy, Holding
    <3>3. CASE sync' = [Synced(f) EXCEPT !.pc = "posted", !.file = f]
      BY <1>0, <2>2, <3>3 DEF Synced, Busy, Holding, MaybeFile
    <3>4. CASE sync' = [Synced(f) EXCEPT !.pc = "lookup", !.file = f]
      BY <1>0, <2>2, <3>4 DEF Synced, Busy, Holding, MaybeFile
    <3> QED
      BY <2>1, <3>2, <3>3, <3>4
<1>12. CASE SyncLookup
  <2>1. /\ sync.pc = "lookup"
        /\ \/ sync' = [sync EXCEPT !.pc = "next"]
           \/ sync' = [sync EXCEPT !.pc = "reading"]
           \/ sync' = Removing(sync, sync.file)
    BY <1>12 DEF SyncLookup
  <2>2. sync.file \in File /\ analysed \in [File -> Value]
    BY <1>0, <2>1 DEF Holding, Types, SessionTyped
  <2> QED
    BY <1>0, <2>1, <2>2 DEF Removing, Busy, Holding, MaybeFile
<1>13. CASE SyncRead
  <2>1. \/ sync' = NoTask
        \/ sync' = [sync EXCEPT !.pc = "posted", !.file = sync.file]
    BY <1>13, SyncReadMoves DEF GivesBack
  <2>2. sync.file \in File
    BY <1>13, SyncReadMoves
  <2> QED
    BY <1>0, <1>1, <2>1, <2>2 DEF Busy, Holding, MaybeFile
<1>14. CASE AnswerUpdate \/ AnswerReanalyze
  <2>1. sync' = sync \/ sync' = [sync EXCEPT !.pc = "next"]
    BY <1>14 DEF AnswerUpdate, AnswerReanalyze, Resume
  <2> QED
    BY <1>0, <2>1 DEF Busy, Holding
<1>15. CASE AnswerRemove
  <2>1. \/ UNCHANGED sync
        \/ sync.pc = "removing" /\ sync' = [sync EXCEPT !.pc = "reanalyzing"]
    BY <1>15, AnswerRemoveMoves DEF AwaitedRequests, Awaits, Resume
  <2> QED
    BY <1>0, <2>1 DEF Busy, Holding
<1> QED
  BY <1>2, <1>4, <1>5, <1>6, <1>8, <1>9, <1>10, <1>11, <1>12, <1>13, <1>14, <1>15, SyncSteps

(* The requests after the step, by where they stood.                       *)
LEMMA AfterLoss ==
    ASSUME WorkerTyped, NEW k, Loses(k)
    PROVE  /\ Left(k) \in Nat /\ DOMAIN worker' = 1..Left(k)
           /\ \A i \in DOMAIN worker' :
                 From(k, i) \in DOMAIN worker \ {k} /\ worker'[i] = worker[From(k, i)]
           /\ \A i, j \in DOMAIN worker' : i < j <=> From(k, i) < From(k, j)
           /\ \A i, j \in DOMAIN worker' : From(k, i) = From(k, j) => i = j
           /\ \A j \in DOMAIN worker \ {k} : \E i \in DOMAIN worker' : From(k, i) = j
<1>1. DOMAIN worker' = 1..Left(k) /\ k \in 1..(Len(worker) + 1)
  BY DEF Loses, Keeps
<1>2. \A i, j \in DOMAIN worker' : From(k, i) = From(k, j) => i = j
  BY <1>1, LeftFrom DEF From
<1> QED
  BY <1>1, <1>2, LeftFrom DEF Loses, Keeps

LEMMA AfterSend ==
    ASSUME WorkerTyped, NEW k, NEW r, Sends(k, r)
    PROVE  /\ Left(k) \in Nat /\ DOMAIN worker' = 1..(Left(k) + 1)
           /\ worker'[Left(k) + 1] = r
           /\ \A i \in 1..Left(k) :
                 /\ i \in DOMAIN worker'
                 /\ From(k, i) \in DOMAIN worker \ {k} /\ worker'[i] = worker[From(k, i)]
           /\ \A i, j \in 1..Left(k) : i < j <=> From(k, i) < From(k, j)
           /\ \A i, j \in 1..Left(k) : From(k, i) = From(k, j) => i = j
           /\ \A j \in DOMAIN worker \ {k} : \E i \in 1..Left(k) : From(k, i) = j
<1>1. k \in 1..(Len(worker) + 1) /\ DOMAIN worker' = 1..(Left(k) + 1)
  BY DEF Sends, Keeps
<1>2. \A i, j \in 1..Left(k) : From(k, i) = From(k, j) => i = j
  BY <1>1, LeftFrom DEF From
<1>3. Left(k) \in Nat /\ \A i \in 1..Left(k) : i \in DOMAIN worker'
  BY <1>1, LeftFrom
<1> QED
  BY <1>1, <1>2, <1>3, LeftFrom DEF Sends, Keeps
-----------------------------------------------------------------------------
(* The stages, and what the requests in the worker are for.                *)

(* The answer to the index comes while the index awaits it.                *)
LEMMA IndexAnswered ==
    ASSUME Fixed, IndexFails \/ IndexAnalysed
    PROVE  /\ step = "analyzing" /\ replay.pc = "idle" /\ Loses(1)
           /\ 1 \in DOMAIN worker /\ worker[1].kind = "initialize" /\ worker[1].by = "index"
<1>1. worker # <<>> /\ worker' = Tail(worker) /\ Head(worker).kind = "initialize"
  BY DEF IndexFails, IndexAnalysed
<1>2. 1 \in DOMAIN worker /\ worker[1].kind = "initialize" /\ worker[1].by = "index"
  BY <1>1, HeadOfWorker DEF Fixed, Types, WellFormed
<1>3. step = "analyzing"
  BY <1>2 DEF Fixed, AwaitedRequests
<1> QED
  BY <1>1, <1>2, <1>3, AnswerMoves DEF Fixed, Stages

(* What becomes of the drain and of the synchronisation it awaits.         *)
Goes == sync.pc # "idle" /\ sync'.pc \notin {"idle", "wait"}
Stays ==
    /\ UNCHANGED <<running, taken, batch>>
    /\ UNCHANGED sync \/ Goes \/ (~running /\ sync' = NoTask)

LEMMA DrainSteps ==
    ASSUME Fixed, Next
    PROVE  GivesBack \/ EndsDrain \/ TakesBatch \/ Stays
<1> USE DEF Fixed
<1>0. /\ MonitorTyped /\ SyncTyped
      /\ \A pc : [sync EXCEPT !.pc = pc].pc = pc
  BY DEF Types, SyncTyped
<1>1. CASE UNCHANGED sync
  BY <1>0, <1>1, MonitorSteps DEF Stays, Rests, Tells
<1>2. ASSUME NEW k, SyncPassed(k) PROVE GivesBack \/ UNCHANGED sync
  BY <1>2 DEF SyncPassed
<1>3. (\E f \in File : LiveTimer(f) \/ Save(f)) => GivesBack \/ UNCHANGED sync
  BY <1>2, LiveTimerMoves, SaveMoves
<1>4. CancelAnalysis \/ IndexFails => GivesBack \/ UNCHANGED sync
  BY <1>0, FailureGivesBack DEF CancelAnalysis, IndexFails
<1>5. ReplayChange \/ ReplayRead => GivesBack \/ UNCHANGED sync
  BY <1>2, ReplayChangeMoves, ReplayReadMoves
<1>6. CASE MonitorFlush
  BY <1>0, <1>6, FlushMoves DEF Stays, Rests
<1>7. CASE SyncBegin
  BY <1>0, <1>7 DEF SyncBegin, Stays, Goes, monitor
<1>8. CASE SyncIndexed \/ SyncDone
  BY <1>0, <1>8, SuccessMoves, FailureGivesBack DEF SyncIndexed, SyncDone
<1>9. CASE SyncFile
  <2>1. UNCHANGED monitor /\ sync.pc = "next"
    BY <1>9 DEF SyncFile
  <2>2. PICK f : \/ sync' = Synced(f)
                 \/ sync' = [Synced(f) EXCEPT !.pc = "posted", !.file = f]
                 \/ sync' = [Synced(f) EXCEPT !.pc = "lookup", !.file = f]
    BY <1>9, SyncFileMoves
  <2>3. sync'.pc \in {"next", "posted", "lookup"}
    BY <1>0, <2>1, <2>2 DEF Synced, SyncTyped
  <2> QED
    BY <2>1, <2>3 DEF Stays, Goes, monitor
<1>10. CASE SyncLookup
  <2>1. UNCHANGED monitor /\ sync.pc = "lookup"
    BY <1>10 DEF SyncLookup
  <2>2. sync'.pc \in {"next", "reading", "removing"}
    BY <1>0, <1>10 DEF SyncLookup, SyncTyped, Removing
  <2> QED
    BY <2>1, <2>2 DEF Stays, Goes, monitor
<1>11. CASE SyncRead
  <2>1. sync.pc = "reading"
    BY <1>11, SyncReadMoves
  <2>2. \/ GivesBack
        \/ UNCHANGED monitor /\ sync' = [sync EXCEPT !.pc = "posted", !.file = sync.file]
    BY <1>11, SyncReadMoves
  <2> QED
    BY <1>0, <2>1, <2>2 DEF Stays, Goes, monitor, SyncTyped
<1>12. CASE AnswerUpdate \/ AnswerRemove \/ AnswerReanalyze
  <2>1. CASE Head(worker).by = "sync"
    <3>1. sync.pc # "idle"
      BY <1>12, <2>1, HeadOfWorker DEF AnswerUpdate, AnswerRemove, AnswerReanalyze,
         AwaitedRequests, Awaits, Types
    <3>2. sync'.pc \in {"next", "reanalyzing"} /\ UNCHANGED monitor
      BY <1>0, <1>12, <2>1 DEF AnswerUpdate, AnswerRemove, AnswerReanalyze, Resume
    <3> QED
      BY <3>1, <3>2 DEF Stays, Goes, monitor
  <2>2. CASE Head(worker).by # "sync"
    BY <1>1, <1>12, <2>2 DEF AnswerUpdate, AnswerRemove, AnswerReanalyze, Resume
  <2> QED
    BY <2>1, <2>2
<1> QED
  BY <1>1, <1>3, <1>4, <1>5, <1>6, <1>7, <1>8, <1>9, <1>10, <1>11, <1>12, SyncSteps

LEMMA StagesNext ==
    ASSUME Fixed, Next
    PROVE  Stages'
<1> USE DEF Fixed, Stages, Indexing
<1>1. /\ phase' = "ready" => built' /\ step' \in {"idle", "reconciling"}
      /\ step' \in {"replaying", "reconciling"} => built'
      /\ step' = "reconciling" => phase' = "ready"
      /\ step' = "analyzing" => toRead' = {}
  <2>1. CASE IndexFails \/ IndexAnalysed
    BY <2>1, IndexAnswered DEF IndexFails, IndexAnalysed, EndIndex
  <2>2. CASE ~(IndexFails \/ IndexAnalysed)
    BY <2>2, IndexSteps DEF ReadFile, StartIndex, PostIndex, CancelIndex, CancelAnalysis,
       IndexReady, Reconciled, SyncBegin, BeginIndex, EndIndex, index
  <2> QED
    BY <2>1, <2>2
<1>2. ~Indexing' => dirtyQueue' = NoChanges
  <2>1. CASE BeginIndex \/ EndIndex
    BY <2>1 DEF BeginIndex, EndIndex
  <2>2. CASE Indexing' \/ (UNCHANGED <<step, dirtyQueue>>)
    BY <2>2
  <2>3. ~Indexing' /\ ~BeginIndex /\ ~EndIndex => step' = step
    BY IndexSteps, IndexAnswered DEF ReadFile, StartIndex, PostIndex, CancelIndex,
       CancelAnalysis, IndexFails, IndexAnalysed, IndexReady, Reconciled, SyncBegin, index
  <2>4. ~Indexing /\ ~BeginIndex => dirtyQueue' = dirtyQueue
    BY QueueSteps, IndexAnswered DEF Edit, LiveTimer, StartIndex, CancelIndex, CancelAnalysis,
       IndexFails, IndexAnalysed, ReplayTake, Reconciled, SyncBegin, SyncFile, SyncLookup
  <2> QED
    BY <2>1, <2>2, <2>3, <2>4
<1>3. replay'.pc # "idle" => step' = "replaying"
  <2>1. CASE step = "replaying" /\ step' = "replaying"
    BY <2>1
  <2>2. CASE IndexAnalysed
    BY <2>2 DEF IndexAnalysed
  <2>3. CASE replay' = NoTask
    BY <2>3 DEF NoTask
  <2>4. CASE PostIndex
    BY <2>4 DEF PostIndex, NoTask
  <2>5. replay.pc = "idle" => replay'.pc = "idle" \/ IndexAnalysed
    <3>1. SUFFICES ASSUME replay.pc = "idle", ~IndexAnalysed PROVE replay'.pc = "idle"
      OBVIOUS
    <3>2. \A k : ~Meets(k, "replay")
      BY <3>1 DEF Meets, AwaitedRequests, Awaits
    <3>3. \A k : ReplayPassed(k) => replay' = replay
      BY <3>2 DEF ReplayPassed
    <3>4. ASSUME NEW f \in File, LiveTimer(f) \/ Save(f) PROVE replay' = replay
      BY <3>3, <3>4, LiveTimerMoves, SaveMoves
    <3>5. SyncFile \/ SyncRead => replay' = replay
      BY <3>3, SyncFileMoves, SyncReadMoves
    <3>6. AnswerUpdate \/ AnswerRemove \/ AnswerReanalyze => replay' = replay
      <4>1. worker # <<>> => Head(worker).by # "replay"
        BY <3>2, HeadOfWorker DEF Meets, Types
      <4> QED
        BY <4>1 DEF AnswerUpdate, AnswerRemove, AnswerReanalyze, Resume
    <3> QED
      BY <3>1, <3>4, <3>5, <3>6, ReplaySteps, NoTaskTyped DEF PostIndex, CancelAnalysis, IndexFails,
         ReplayTake, ReplayChange, ReplayRead, IndexReady, NoTask
  <2>6. step = "replaying" => step' = "replaying" \/ replay' = NoTask
    BY IndexSteps, IndexAnswered DEF ReadFile, StartIndex, PostIndex, CancelIndex, CancelAnalysis,
       IndexReady, Reconciled, SyncBegin, BeginIndex, index
  <2> QED
    BY <2>1, <2>2, <2>3, <2>5, <2>6
<1>4. /\ running' <=> sync'.pc # "idle"
      /\ sync'.pc = "wait" /\ ~batch'.rescan => taken' \subseteq sync'.todo
  <2>0. NoTask.pc = "idle"
    BY NoTaskTyped
  <2>1. CASE TakesBatch
    BY <2>0, <2>1 DEF TakesBatch, NoTask
  <2>2. CASE EndsDrain \/ GivesBack
    BY <2>0, <2>2 DEF EndsDrain, GivesBack
  <2>3. CASE Stays
    BY <2>3, <2>0 DEF Stays, Goes
  <2> QED
    BY <2>1, <2>2, <2>3, DrainSteps
<1> QED
  BY <1>1, <1>2, <1>3, <1>4

(* The requests fit their tasks after a step when those that stay do, and  *)
(* the new one.                                                            *)
AwaitedThen(r) ==
    /\ r.by = "sync" => Awaits(sync'.pc, r.kind)
    /\ r.by = "replay" => Awaits(replay'.pc, r.kind)
    /\ r.by = "index" => step' = "analyzing"
Joins(r, k) ==
    \A j \in DOMAIN worker \ {k} :
        /\ r.by # "live" => worker[j].by # r.by
        /\ r.kind = "update" => worker[j].kind # "update" \/ worker[j].file # r.file
Fit == WorkerTyped /\ AwaitedRequests /\ OneEach /\ OneUpdate

LEMMA UntouchedFit ==
    ASSUME Fit, UNCHANGED worker, \A j \in DOMAIN worker : AwaitedThen(worker[j])
    PROVE  Fit'
BY DEF Fit, WorkerTyped, AwaitedRequests, OneEach, OneUpdate, AwaitedThen

LEMMA LossFits ==
    ASSUME Fit, NEW k, Loses(k), \A j \in DOMAIN worker \ {k} : AwaitedThen(worker[j])
    PROVE  Fit'
<1>1. /\ \A i \in DOMAIN worker' :
            From(k, i) \in DOMAIN worker \ {k} /\ worker'[i] = worker[From(k, i)]
      /\ \A i, j \in DOMAIN worker' : From(k, i) = From(k, j) => i = j
  BY AfterLoss DEF Fit
<1>2. WorkerTyped'
  BY <1>1 DEF Fit, WorkerTyped, Loses, Keeps
<1>3. AwaitedRequests'
  BY <1>1 DEF AwaitedRequests, AwaitedThen
<1>4. OneEach' /\ OneUpdate'
  BY <1>1 DEF Fit, OneEach, OneUpdate
<1> QED
  BY <1>2, <1>3, <1>4 DEF Fit

LEMMA SendFits ==
    ASSUME Fit, NEW k, NEW r, Sends(k, r), WellFormed(r), AwaitedThen(r), Joins(r, k),
           \A j \in DOMAIN worker \ {k} : AwaitedThen(worker[j])
    PROVE  Fit'
<1>1. /\ \A i \in 1..Left(k) :
            From(k, i) \in DOMAIN worker \ {k} /\ worker'[i] = worker[From(k, i)]
      /\ \A i, j \in 1..Left(k) : From(k, i) = From(k, j) => i = j
      /\ worker'[Left(k) + 1] = r
      /\ \A i \in DOMAIN worker' : i \in 1..Left(k) \/ i = Left(k) + 1
  <2>1. DOMAIN worker' = 1..(Left(k) + 1) /\ Left(k) \in Nat
    BY AfterSend DEF Fit
  <2> QED
    BY <2>1, AfterSend DEF Fit
<1>2. WorkerTyped'
  BY <1>1 DEF Fit, WorkerTyped, Sends, Keeps
<1>3. AwaitedRequests'
  BY <1>1 DEF AwaitedRequests, AwaitedThen
<1>4. OneEach'
  BY <1>1 DEF Fit, OneEach, Joins
<1>5. OneUpdate'
  BY <1>1 DEF Fit, OneUpdate, Joins
<1> QED
  BY <1>2, <1>3, <1>4, <1>5 DEF Fit

(* A superseded request leaves the task that awaits it with none.          *)
LEMMA PassedFit ==
    ASSUME Fixed, NEW k
    PROVE  /\ SyncPassed(k) => \A j \in DOMAIN worker \ {k} :
                worker[j].by = "sync" => Awaits(sync'.pc, worker[j].kind)
           /\ ReplayPassed(k) => \A j \in DOMAIN worker \ {k} :
                worker[j].by = "replay" => Awaits(replay'.pc, worker[j].kind)
BY DEF Fixed, SyncPassed, ReplayPassed, Meets, AwaitedRequests, OneEach

LEMMA PostsFit ==
    ASSUME Fixed, NEW k, NEW f, NEW text, NEW by \in {"live", "sync", "replay"},
           Posts(k, f, text, by), UNCHANGED step,
           IF by = "sync" THEN sync.pc \notin {"posted", "removing", "reanalyzing"} /\ sync'.pc = "posted"
                          ELSE SyncPassed(k),
           IF by = "replay" THEN replay.pc \notin {"posted", "removing", "reanalyzing"} /\ replay'.pc = "posted"
                            ELSE ReplayPassed(k)
    PROVE  Fit'
<1> DEFINE r == Request("update", f, text, by)
<1>1. r.kind = "update" /\ r.file = f /\ r.text = text /\ r.by = by
  BY RequestFields
<1>2. Sends(k, r) /\ WellFormed(r)
  BY <1>1 DEF Posts, WellFormed
<1>3. by = "sync" => \A j \in DOMAIN worker : worker[j].by # "sync"
  BY DEF Fixed, AwaitedRequests, Awaits
<1>4. by = "replay" => \A j \in DOMAIN worker : worker[j].by # "replay"
  BY DEF Fixed, AwaitedRequests, Awaits
<1>5. Joins(r, k)
  BY <1>1, <1>3, <1>4 DEF Joins, Posts, Updates
<1>6. AwaitedThen(r)
  BY <1>1 DEF AwaitedThen, Awaits
<1>7. \A j \in DOMAIN worker \ {k} : AwaitedThen(worker[j])
  BY <1>3, <1>4, PassedFit DEF AwaitedThen, Fixed, AwaitedRequests
<1> HIDE DEF r
<1> QED
  BY <1>2, <1>5, <1>6, <1>7, SendFits DEF Fixed, Fit, Types

LEMMA RemoveFits ==
    ASSUME Fixed, NEW f, NEW by \in {"sync", "replay"}, UNCHANGED step,
           Sends(Len(worker) + 1, Request("remove", f, 0, by)),
           IF by = "sync" THEN sync.pc \notin {"posted", "removing", "reanalyzing"} /\ sync'.pc = "removing"
                          ELSE UNCHANGED sync,
           IF by = "replay" THEN replay.pc \notin {"posted", "removing", "reanalyzing"} /\ replay'.pc = "removing"
                            ELSE UNCHANGED replay
    PROVE  Fit'
<1> DEFINE r == Request("remove", f, 0, by)
<1>1. r.kind = "remove" /\ r.file = f /\ r.text = 0 /\ r.by = by
  BY RequestFields
<1>2. Sends(Len(worker) + 1, r) /\ WellFormed(r)
  BY <1>1 DEF WellFormed
<1>3. by = "sync" => \A j \in DOMAIN worker : worker[j].by # "sync"
  BY DEF Fixed, AwaitedRequests, Awaits
<1>4. by = "replay" => \A j \in DOMAIN worker : worker[j].by # "replay"
  BY DEF Fixed, AwaitedRequests, Awaits
<1>5. Joins(r, Len(worker) + 1)
  BY <1>1, <1>3, <1>4 DEF Joins
<1>6. AwaitedThen(r)
  BY <1>1 DEF AwaitedThen, Awaits
<1>7. \A j \in DOMAIN worker \ {Len(worker) + 1} : AwaitedThen(worker[j])
  BY <1>3, <1>4 DEF AwaitedThen, Fixed, AwaitedRequests
<1> HIDE DEF r
<1> QED
  BY <1>2, <1>5, <1>6, <1>7, SendFits DEF Fixed, Fit, Types

LEMMA FitNext ==
    ASSUME Fixed, Next
    PROVE  Fit'
<1>0. Fit /\ Types /\ OneUpdate /\ Stages /\ AwaitedRequests
  BY DEF Fixed, Fit, Types
<1> DEFINE Waits == {"posted", "removing", "reanalyzing"}
<1>1. /\ \A pc : [sync EXCEPT !.pc = pc].pc = pc
      /\ \A pc : [replay EXCEPT !.pc = pc].pc = pc
      /\ NoTask.pc = "idle"
  BY <1>0, NoTaskTyped DEF Types, SyncTyped, ReplayTyped
<1>2. ASSUME UNCHANGED worker, sync.pc \in Waits => sync'.pc = sync.pc,
             replay.pc \in Waits => replay'.pc = replay.pc,
             step = "analyzing" => step' = "analyzing"
      PROVE  Fit'
  <2>1. \A j \in DOMAIN worker : AwaitedThen(worker[j])
    BY <1>0, <1>2 DEF AwaitedThen, AwaitedRequests, Awaits
  <2> QED
    BY <1>0, <1>2, <2>1, UntouchedFit
<1>3. ASSUME NEW f \in File, LiveTimer(f) PROVE Fit'
  <2>1. UNCHANGED step
    BY <1>3 DEF LiveTimer, index
  <2> QED
    BY <1>0, <1>2, <1>3, <2>1, LiveTimerMoves, PostsFit
<1>4. ASSUME NEW f \in File, Save(f) PROVE Fit'
  <2>1. UNCHANGED step
    BY <1>4 DEF Save, index
  <2> QED
    BY <1>0, <1>2, <1>4, <2>1, SaveMoves, PostsFit
<1>5. CASE PostIndex
  <2> DEFINE r == Request("initialize", NoFile, 0, "index")
  <2>1. Sends(Len(worker) + 1, r)
    BY <1>0, <1>5, PostIndexMoves
  <2>2. r.kind = "initialize" /\ r.by = "index"
    BY RequestFields
  <2>3. step = "reading" /\ step' = "analyzing" /\ sync' = sync /\ replay'.pc = "idle"
    BY <1>5, <1>1 DEF PostIndex, NoTask
  <2>4. replay.pc = "idle"
    BY <1>0, <2>3 DEF Stages
  <2>5. \A j \in DOMAIN worker : AwaitedThen(worker[j]) /\ worker[j].by # "index"
    BY <1>0, <2>3, <2>4 DEF AwaitedThen, AwaitedRequests
  <2>6. WellFormed(r) /\ AwaitedThen(r) /\ Joins(r, Len(worker) + 1)
    BY <2>2, <2>3, <2>5 DEF WellFormed, AwaitedThen, Joins
  <2> HIDE DEF r
  <2> QED
    BY <1>0, <2>1, <2>5, <2>6, SendFits
<1>6. CASE CancelAnalysis
  <2>1. worker' = <<>>
    BY <1>6 DEF CancelAnalysis
  <2> QED
    BY <2>1 DEF Fit, WorkerTyped, AwaitedRequests, OneEach, OneUpdate
<1>7. CASE IndexFails \/ IndexAnalysed
  <2>1. /\ step = "analyzing" /\ replay.pc = "idle" /\ Loses(1)
        /\ 1 \in DOMAIN worker /\ worker[1].by = "index"
    BY <1>7, IndexAnswered
  <2>2. \A j \in DOMAIN worker \ {1} : worker[j].by \notin {"index", "replay"}
    BY <1>0, <2>1 DEF Fixed, OneEach, AwaitedRequests, Awaits
  <2>3. sync' = sync \/ sync.pc \in {"wait", "index"}
    BY <1>7 DEF IndexFails, IndexAnalysed
  <2>4. \A j \in DOMAIN worker \ {1} : AwaitedThen(worker[j])
    BY <1>0, <2>2, <2>3 DEF AwaitedThen, AwaitedRequests, Awaits
  <2> QED
    BY <1>0, <2>1, <2>4, LossFits
<1>8. CASE ReplayChange
  <2>0. UNCHANGED step /\ replay.pc = "next"
    BY <1>8 DEF ReplayChange, index
  <2>1. PICK item \in replay.todo :
          \/ UNCHANGED <<worker, sync>>
          \/ /\ replay' = Removing(Replayed(item), item.file)
             /\ Sends(Len(worker) + 1, Request("remove", item.file, 0, "replay"))
             /\ UNCHANGED sync
          \/ \E k : /\ Posts(k, item.file, item.change.text, "replay") /\ SyncPassed(k)
                    /\ replay' = [Replayed(item) EXCEPT !.pc = "posted", !.file = item.file]
    BY <1>0, <1>8, ReplayChangeMoves
  <2>2. /\ Removing(Replayed(item), item.file).pc = "removing"
        /\ [Replayed(item) EXCEPT !.pc = "posted", !.file = item.file].pc = "posted"
    BY <1>0 DEF Types, ReplayTyped, Removing, Replayed
  <2> QED
    BY <1>2, <2>0, <2>1, <2>2, PostsFit, RemoveFits
<1>9. CASE ReplayRead
  <2>0. UNCHANGED step /\ replay.pc = "reading"
    BY <1>9 DEF ReplayRead, index
  <2>1. [replay EXCEPT !.pc = "posted", !.file = replay.file].pc = "posted"
    BY <1>0 DEF Types, ReplayTyped
  <2> QED
    BY <1>0, <1>2, <1>9, <2>0, <2>1, ReplayReadMoves, PostsFit
<1>10. CASE SyncFile
  <2>0. UNCHANGED step /\ sync.pc = "next"
    BY <1>10 DEF SyncFile, index
  <2>1. PICK f \in sync.todo :
          \/ UNCHANGED <<worker, replay>>
          \/ \E k : /\ Posts(k, f, editor[f], "sync") /\ ReplayPassed(k)
                    /\ sync' = [Synced(f) EXCEPT !.pc = "posted", !.file = f]
    BY <1>0, <1>10, SyncFileMoves
  <2>2. [Synced(f) EXCEPT !.pc = "posted", !.file = f].pc = "posted"
    BY <1>0 DEF Types, SyncTyped, Synced
  <2> QED
    BY <1>2, <2>0, <2>1, <2>2, PostsFit
<1>11. CASE SyncLookup
  <2>0. UNCHANGED <<step, replay>> /\ sync.pc = "lookup" /\ sync.file \in File
    BY <1>0, <1>11 DEF SyncLookup, index, Types, SyncTyped, Holding
  <2>1. \/ UNCHANGED worker
        \/ PostRemove(sync.file, "sync") /\ sync' = Removing(sync, sync.file)
    BY <1>11 DEF SyncLookup
  <2>2. Removing(sync, sync.file).pc = "removing"
    BY <1>0 DEF Types, SyncTyped, Removing
  <2> QED
    BY <1>0, <1>2, <2>0, <2>1, <2>2, PostRemoveMoves, RemoveFits
<1>12. CASE SyncRead
  <2>0. UNCHANGED step /\ sync.pc = "reading"
    BY <1>12 DEF SyncRead, index
  <2>1. [sync EXCEPT !.pc = "posted", !.file = sync.file].pc = "posted"
    BY <1>0 DEF Types, SyncTyped
  <2> QED
    BY <1>0, <1>2, <1>12, <2>0, <2>1, SyncReadMoves, PostsFit
<1>13. CASE AnswerUpdate \/ AnswerReanalyze
  <2>1. /\ worker # <<>> /\ worker' = Tail(worker) /\ Resume(Head(worker).by, "next")
        /\ UNCHANGED step /\ Head(worker).kind \in {"update", "reanalyze"}
    BY <1>13 DEF AnswerUpdate, AnswerReanalyze, index
  <2>2. Loses(1) /\ 1 \in DOMAIN worker /\ Head(worker) = worker[1]
    BY <1>0, <2>1, AnswerMoves
  <2>3. \A j \in DOMAIN worker \ {1} : worker[j].by = worker[1].by => worker[j].by = "live"
    BY <2>2 DEF Fixed, OneEach
  <2>4. \A j \in DOMAIN worker \ {1} : AwaitedThen(worker[j])
    BY <1>0, <2>1, <2>2, <2>3 DEF AwaitedThen, AwaitedRequests, Resume
  <2> QED
    BY <1>0, <2>2, <2>4, LossFits
<1>14. CASE AnswerRemove
  <2> DEFINE r == Request("reanalyze", NoFile, 0, worker[1].by)
  <2>1. /\ 1 \in DOMAIN worker /\ worker[1].by \in {"sync", "replay"} /\ Sends(1, r)
        /\ Resume(worker[1].by, "reanalyzing") /\ UNCHANGED step
    BY <1>0, <1>14, AnswerRemoveMoves DEF AnswerRemove, index
  <2>2. r.kind = "reanalyze" /\ r.by = worker[1].by
    BY RequestFields
  <2>3. \A j \in DOMAIN worker \ {1} : worker[j].by # worker[1].by
    BY <2>1 DEF Fixed, OneEach
  <2>4. \A j \in DOMAIN worker \ {1} : AwaitedThen(worker[j])
    BY <1>0, <2>1, <2>3 DEF AwaitedThen, AwaitedRequests, Resume
  <2>5. WellFormed(r) /\ AwaitedThen(r) /\ Joins(r, 1)
    BY <1>1, <2>1, <2>2, <2>3 DEF WellFormed, AwaitedThen, Joins, Awaits, Resume
  <2> HIDE DEF r
  <2> QED
    BY <1>0, <2>1, <2>4, <2>5, SendFits
<1>15. CASE UNCHANGED worker /\ ~(\E f \in File : LiveTimer(f) \/ Save(f))
            /\ ~(PostIndex \/ CancelAnalysis \/ IndexFails \/ IndexAnalysed
                 \/ ReplayChange \/ ReplayRead \/ SyncFile \/ SyncLookup \/ SyncRead
                 \/ AnswerUpdate \/ AnswerRemove \/ AnswerReanalyze)
  <2>1. replay.pc \in Waits => replay' = replay
    BY <1>15, ReplaySteps DEF ReplayTake, IndexReady
  <2>2. sync.pc \in Waits => sync' = sync
    BY <1>0, <1>15, SyncSteps DEF MonitorFlush, SyncBegin, SyncIndexed, SyncDone, Stages
  <2>3. step = "analyzing" => step' = step
    BY <1>0, <1>15, IndexSteps DEF ReadFile, StartIndex, CancelIndex, IndexReady, Reconciled, SyncBegin,
       Indexing, Stages
  <2> QED
    BY <1>2, <1>15, <2>1, <2>2, <2>3
<1> QED
  BY <1>3, <1>4, <1>5, <1>6, <1>7, <1>8, <1>9, <1>10, <1>11, <1>12, <1>13, <1>14, <1>15,
     WorkerSteps

LEMMA FixedNext ==
    ASSUME Fixed, Next
    PROVE  Fixed'
<1>1. Types'
  BY WorldTypedNext, MonitorTypedNext, SessionTypedNext, QueueTypedNext, ReplayTypedNext,
     SyncTypedNext, FitNext DEF Fixed, Types, Fit
<1> QED
  BY <1>1, StagesNext, FitNext DEF Fixed, Fit
-----------------------------------------------------------------------------
(* What is reported stays so until a synchronisation begins.               *)
LEMMA WaitStays ==
    ASSUME Fixed, Next, sync.pc = "wait", ~SyncBegin
    PROVE  GivesBack \/ (UNCHANGED <<sync, taken>> /\ owed \subseteq owed')
<1> USE DEF Fixed
<1>1. Rests \/ Tells \/ GivesBack
  BY MonitorSteps DEF Types
<1>2. GivesBack \/ UNCHANGED sync
  <2>1. ASSUME NEW f \in File, LiveTimer(f) \/ Save(f) PROVE GivesBack \/ UNCHANGED sync
    BY <2>1, LiveTimerMoves, SaveMoves DEF SyncPassed
  <2>2. ReplayChange \/ ReplayRead => GivesBack \/ UNCHANGED sync
    BY ReplayChangeMoves, ReplayReadMoves DEF SyncPassed
  <2>3. CancelAnalysis \/ IndexFails => GivesBack \/ UNCHANGED sync
    BY FailureGivesBack DEF CancelAnalysis, IndexFails, Types
  <2>4. MonitorFlush => UNCHANGED sync
    BY DEF MonitorFlush, Stages
  <2>5. AnswerUpdate \/ AnswerRemove \/ AnswerReanalyze => UNCHANGED sync
    <3>1. worker # <<>> => Head(worker).by # "sync"
      BY HeadOfWorker DEF AwaitedRequests, Awaits, Types
    <3> QED
      BY <3>1 DEF AnswerUpdate, AnswerRemove, AnswerReanalyze, Resume
  <2> QED
    BY <2>1, <2>2, <2>3, <2>4, <2>5, SyncSteps DEF SyncIndexed, SyncFile, SyncLookup, SyncRead, SyncDone
<1> QED
  BY <1>1, <1>2 DEF Rests, Tells

LEMMA ReportedStays ==
    ASSUME Fixed, Next, NEW f \in File, Reported(f), Active, ~SyncBegin
    PROVE  Reported(f)'
<1>1. CASE f \in events
  <2>1. ASSUME NEW g \in File, Watch(g) PROVE f \in events' \/ f \in owed'
    BY <1>1, <2>1, NotifyTells DEF Watch
  <2> QED
    BY <1>1, <2>1, EventSteps DEF Save, External, Reported
<1>2. CASE f \in owed
  <2>1. MonitorTyped /\ Stages
    BY DEF Fixed, Types
  <2>2. TakesBatch => sync'.pc = "wait"
    BY DEF TakesBatch, NoTask
  <2> QED
    BY <1>2, <2>1, <2>2, MonitorSteps DEF Rests, Tells, GivesBack, EndsDrain, TakesBatch, Reported
<1>3. CASE sync.pc = "wait" /\ f \in taken
  BY <1>3, WaitStays DEF GivesBack, Reported
<1> QED
  BY <1>1, <1>2, <1>3 DEF Reported

(* A begin keeps it, or the synchronisation has the file before it.        *)
LEMMA BeginAwaits ==
    ASSUME Fixed, NEW f \in File, SyncBegin, ~batch.rescan, Reported(f)
    PROVE  Reported(f)' \/ Awaited(f)'
<1>1. /\ sync.pc = "wait" /\ sync' = [sync EXCEPT !.pc = "next"]
      /\ UNCHANGED <<events, owed, taken>>
  BY DEF SyncBegin, world, monitor
<1>2. taken \subseteq sync.todo
  BY <1>1 DEF Fixed, Stages
<1>3. sync'.pc = "next" /\ sync'.todo = sync.todo
  BY <1>1 DEF Fixed, Types, SyncTyped
<1> QED
  BY <1>1, <1>2, <1>3 DEF Reported, Awaited, Busy

(* A file that is clean and not reported has not just changed.             *)
LEMMA WorldQuiet ==
    ASSUME Fixed, Next, NEW f \in File, Clean(f)', ~Reported(f)'
    PROVE  Clean(f) /\ disk'[f] = disk[f]
<1>1. WorldTyped /\ f \notin events' /\ editor'[f] = 0
  BY DEF Fixed, Types, Clean, Reported
<1>2. ASSUME NEW g \in File, Edit(g) PROVE Clean(f) /\ disk'[f] = disk[f]
  <2>1. clock' # 0 /\ editor' = [editor EXCEPT ![g] = clock'] /\ disk' = disk
    BY <1>1, <1>2 DEF Edit, WorldTyped
  <2> QED
    BY <1>1, <2>1 DEF WorldTyped, Clean
<1>3. ASSUME NEW g \in File, Save(g) PROVE Clean(f) /\ disk'[f] = disk[f]
  BY <1>1, <1>3 DEF Save, WorldTyped, Clean
<1>4. ASSUME NEW g \in File, External(g) PROVE Clean(f) /\ disk'[f] = disk[f]
  <2>1. f # g /\ editor' = editor
    BY <1>1, <1>4 DEF External
  <2>2. PICK version : disk' = [disk EXCEPT ![g] = version]
    BY <1>4 DEF External
  <2> QED
    BY <1>1, <2>1, <2>2 DEF WorldTyped, Clean
<1> QED
  BY <1>1, <1>2, <1>3, <1>4, WorldSteps DEF Clean

LEMMA Quiet ==
    ASSUME Fixed, Next, NEW f \in File, Clean(f)', ~Reported(f)', Active, ~SyncBegin
    PROVE  Clean(f) /\ disk'[f] = disk[f] /\ ~Reported(f)
BY WorldQuiet, ReportedStays

(* What is under way or ready is active.                                   *)
LEMMA ActiveWhenIndexed ==
    ASSUME Fixed
    PROVE  (phase = "ready" \/ step # "idle") => Active
BY DEF Fixed, Stages, Active, Indexing
-----------------------------------------------------------------------------
(* The index.                                                              *)
LEMMA SnapshotSoundNext ==
    ASSUME IInv, Next
    PROVE  SnapshotSound'
<1> USE DEF IInv
<1> SUFFICES ASSUME step' \in {"reading", "analyzing"},
                    NEW f \in File \ toRead', Clean(f)', snapshot'[f] # disk'[f], ~Reported(f)'
             PROVE  FALSE
  BY DEF SnapshotSound
<1>0. Clean(f) /\ disk'[f] = disk[f] /\ disk[f] \in Value
  BY WorldQuiet DEF Fixed, Types, WorldTyped
<1>1. CASE BeginIndex
  BY <1>0, <1>1 DEF BeginIndex, Nothing
<1>2. CASE ~BeginIndex
  <2>1. step \in {"reading", "analyzing"} /\ ~SyncBegin
    BY <1>2, IndexSteps, IndexAnswered DEF ReadFile, StartIndex, PostIndex, CancelIndex,
       CancelAnalysis, IndexFails, IndexAnalysed, IndexReady, Reconciled, SyncBegin, EndIndex,
       Indexing, index
  <2>2. ~Reported(f)
    BY <2>1, Quiet, ActiveWhenIndexed
  <2>3. f \notin toRead => snapshot[f] = disk[f]
    BY <1>0, <2>1, <2>2 DEF SnapshotSound
  <2>4. ASSUME NEW g \in File, ReadFile(g) PROVE FALSE
    <3>1. snapshot' = [snapshot EXCEPT ![g] = Text(g)] /\ toRead' = toRead \ {g}
      BY <2>4 DEF ReadFile
    <3>2. snapshot \in [File -> Value] /\ Text(f) = disk[f]
      BY <1>0, TextTyped DEF Fixed, Types, SessionTyped, Clean
    <3> QED
      BY <1>0, <2>3, <3>1, <3>2
  <2>5. UNCHANGED <<toRead, snapshot>> => FALSE
    BY <1>0, <2>3
  <2> QED
    BY <1>2, <2>1, <2>4, <2>5, IndexSteps, IndexAnswered DEF StartIndex, PostIndex, CancelIndex,
       CancelAnalysis, IndexFails, IndexAnalysed, IndexReady, Reconciled, EndIndex
<1> QED
  BY <1>1, <1>2

LEMMA QueueSoundNext ==
    ASSUME IInv, Next
    PROVE  QueueSound'
<1> USE DEF IInv
<1> SUFFICES ASSUME Indexing', NEW f \in File, Stale(f, dirtyQueue[f])', ~Reported(f)'
             PROVE  FALSE
  BY DEF QueueSound
<1> DEFINE change == dirtyQueue'[f]
<1>0. /\ Clean(f)' /\ Clean(f) /\ disk'[f] = disk[f] /\ disk[f] # 0
      /\ change.kind = "document" /\ change.text # disk[f]
  BY WorldQuiet DEF Stale
<1>1. CASE BeginIndex
  BY <1>0, <1>1 DEF BeginIndex, NoChanges, NoChange
<1>2. CASE ~BeginIndex
  <2>1. Indexing /\ ~SyncBegin
    BY <1>2, IndexSteps, IndexAnswered DEF ReadFile, StartIndex, PostIndex, CancelIndex,
       CancelAnalysis, IndexFails, IndexAnalysed, IndexReady, Reconciled, SyncBegin, EndIndex,
       Indexing, index, Fixed, Stages
  <2>2. ~Reported(f)
    BY <1>0, <2>1, Quiet, ActiveWhenIndexed DEF Indexing
  <2>3. change # dirtyQueue[f]
    BY <1>0, <2>1, <2>2 DEF QueueSound, Stale
  <2>4. dirtyQueue \in [File -> Change]
    BY DEF Fixed, Types, QueueTyped
  <2>5. ASSUME NEW g, NEW kind, NEW text, Queue(g, kind, text)
        PROVE  f = g /\ kind = "document" /\ text # disk[f]
    BY <1>0, <2>3, <2>4, <2>5 DEF Queue
  <2>6. ASSUME NEW g \in File, Edit(g) PROVE FALSE
    <3>1. Queue(g, "document", clock') /\ editor' = [editor EXCEPT ![g] = clock'] /\ clock' # 0
      BY <2>1, <2>6 DEF Edit, Fixed, Types, WorldTyped
    <3> QED
      BY <1>0, <2>5, <3>1 DEF Clean, Fixed, Types, WorldTyped
  <2>7. ASSUME NEW g \in File, LiveTimer(g) PROVE FALSE
    <3>1. Queue(g, "document", IF Text(g) = 0 THEN live[g] ELSE Text(g))
      BY <2>1, <2>7 DEF LiveTimer
    <3> QED
      BY <1>0, <2>5, <3>1, TextTyped DEF Clean, Fixed, Types
  <2>8. CASE IndexAnalysed
    <3>1. dirtyQueue' = QueueWithOpenDirtyDocuments
      BY <2>8 DEF IndexAnalysed
    <3> QED
      BY <1>0, <2>3, <3>1 DEF QueueWithOpenDirtyDocuments, Clean
  <2>9. CASE SyncFile
    <3>1. PICK g \in sync.todo : \/ editor[g] # 0 /\ Queue(g, "document", editor[g])
                                 \/ dirtyQueue' = dirtyQueue
      BY <2>9 DEF SyncFile
    <3> QED
      BY <1>0, <2>3, <2>5, <3>1 DEF Clean
  <2>10. CASE SyncLookup
    <3>1. \/ Queue(sync.file, "delete", 0) \/ Queue(sync.file, "file", 0)
          \/ dirtyQueue' = dirtyQueue
      BY <2>10 DEF SyncLookup
    <3>2. "delete" # "document" /\ "file" # "document"
      OBVIOUS
    <3> QED
      BY <2>3, <2>5, <3>1, <3>2
  <2>11. CASE dirtyQueue' = NoChanges
    BY <1>0, <2>11 DEF NoChanges, NoChange
  <2> QED
    BY <1>2, <2>1, <2>3, <2>6, <2>7, <2>8, <2>9, <2>10, <2>11, QueueSteps DEF StartIndex, CancelIndex,
       CancelAnalysis, IndexFails, EndIndex, ReplayTake, QueueTaken, Reconciled
<1> QED
  BY <1>1, <1>2

(* The replay takes what is queued, item after item.                       *)
LEMMA ReplayTodo ==
    ASSUME Fixed, Next
    PROVE  ReplayTake \/ replay'.todo \subseteq replay.todo
<1>0. ReplayTyped /\ Types /\ OneUpdate /\ NoTask.todo = {}
  BY NoTaskTyped DEF Fixed, Types
<1>1. \A pc : [replay EXCEPT !.pc = pc].todo = replay.todo
  BY <1>0 DEF ReplayTyped
<1>2. ASSUME NEW k, ReplayPassed(k) PROVE replay'.todo = replay.todo
  BY <1>1, <1>2 DEF ReplayPassed
<1>3. ASSUME NEW f \in File, LiveTimer(f) \/ Save(f) PROVE replay'.todo = replay.todo
  BY <1>0, <1>2, <1>3, LiveTimerMoves, SaveMoves
<1>4. SyncFile \/ SyncRead => replay'.todo = replay.todo
  BY <1>0, <1>2, SyncFileMoves, SyncReadMoves
<1>5. PostIndex \/ CancelAnalysis \/ IndexFails \/ IndexAnalysed \/ IndexReady => replay'.todo = {}
  BY <1>0 DEF PostIndex, CancelAnalysis, IndexFails, IndexAnalysed, IndexReady, NoTask
<1>6. CASE ReplayChange
  <2>1. PICK item \in replay.todo :
             \/ replay' = Replayed(item)
             \/ replay' = Removing(Replayed(item), item.file)
             \/ replay' = [Replayed(item) EXCEPT !.pc = "posted", !.file = item.file]
             \/ replay' = [Replayed(item) EXCEPT !.pc = "reading", !.file = item.file]
    BY <1>0, <1>6, ReplayChangeMoves
  <2>2. replay'.todo = replay.todo \ {item}
    BY <1>0, <2>1 DEF ReplayTyped, Replayed, Removing
  <2> QED
    BY <2>2
<1>7. CASE ReplayRead
  <2>1. \/ replay' = [replay EXCEPT !.pc = "next"]
        \/ replay' = [replay EXCEPT !.pc = "posted", !.file = replay.file]
    BY <1>0, <1>7, ReplayReadMoves
  <2> QED
    BY <1>0, <2>1 DEF ReplayTyped
<1>8. AnswerUpdate \/ AnswerRemove \/ AnswerReanalyze => replay'.todo = replay.todo
  BY <1>1 DEF AnswerUpdate, AnswerRemove, AnswerReanalyze, Resume
<1> QED
  BY <1>3, <1>4, <1>5, <1>6, <1>7, <1>8, ReplaySteps

LEMMA ReplayingBefore ==
    ASSUME Fixed, Next, step' = "replaying", ~IndexAnalysed
    PROVE  step = "replaying" /\ ~SyncBegin
BY IndexSteps DEF ReadFile, StartIndex, PostIndex, CancelIndex, CancelAnalysis, IndexFails,
   IndexReady, Reconciled, SyncBegin, BeginIndex, EndIndex, Indexing, index

LEMMA ReplaySoundNext ==
    ASSUME IInv, Next
    PROVE  ReplaySound'
<1> USE DEF IInv
<1> SUFFICES ASSUME step' = "replaying", NEW item \in replay'.todo,
                    Stale(item.file, item.change)', ~Reported(item.file)'
             PROVE  FALSE
  BY DEF ReplaySound
<1> DEFINE f == item.file
<1>1. ~IndexAnalysed
  BY NoTaskTyped DEF IndexAnalysed, NoTask
<1>2. step = "replaying" /\ ~SyncBegin /\ Active
  BY <1>1, ReplayingBefore, ActiveWhenIndexed
<1>3. f \in File
  BY ReplayTypedNext DEF Fixed, ReplayTyped, Item
<1>4. Clean(f)' /\ ~Reported(f)'
  BY DEF Stale
<1> HIDE DEF f
<1>5. Clean(f) /\ disk'[f] = disk[f] /\ ~Reported(f)
  BY <1>2, <1>3, <1>4, Quiet
<1>6. Stale(f, item.change)
  BY <1>5 DEF Stale, f
<1>7. item \notin replay.todo
  BY <1>2, <1>5, <1>6 DEF ReplaySound, f
<1>8. ReplayTake
  BY <1>7, ReplayTodo
<1>9. PICK g \in Queued : item = [file |-> g, change |-> dirtyQueue[g]]
  <2>1. ReplayTyped
    BY DEF Fixed, Types
  <2> QED
    BY <1>8, <2>1 DEF ReplayTake, ReplayTyped
<1>10. f = g /\ item.change = dirtyQueue[f]
  BY <1>9 DEF f
<1> QED
  BY <1>2, <1>3, <1>5, <1>6, <1>10 DEF QueueSound, Indexing
-----------------------------------------------------------------------------
(* The answers to come.                                                    *)

(* What takes the place of an update on its way to a clean file is the     *)
(* text of the disk.                                                       *)
Truthful(k, f, text, by) ==
    /\ Posts(k, f, text, by)
    /\ Clean(f) /\ ~Reported(f) => text = disk[f] \/ (disk[f] = 0 /\ by # "sync")

LEMMA WorkerMoves ==
    ASSUME IInv, Next, Active
    PROVE  \/ UNCHANGED worker
           \/ step = "analyzing" /\ worker' = <<>>
           \/ /\ Loses(1) /\ 1 \in DOMAIN worker /\ Head(worker) = worker[1]
              /\ worker[1].kind = "update" => AnswerUpdate
           \/ \E k, r : /\ Sends(k, r) /\ r.kind # "update"
                        /\ k \in DOMAIN worker => worker[k].kind # "update" /\ k = 1
           \/ ~Indexing /\ \E k, f, text : Truthful(k, f, text, "live")
           \/ step = "replaying" /\ \E k, f, text : Truthful(k, f, text, "replay")
           \/ \E k, f, text : Truthful(k, f, text, "sync")
<1> USE DEF IInv
<1>0. Types /\ OneUpdate
  BY DEF Fixed
<1>1. ASSUME NEW f \in File, LiveTimer(f)
      PROVE  UNCHANGED worker \/ (~Indexing /\ \E k, text : Truthful(k, f, text, "live"))
  <2>1. CASE UNCHANGED worker
    BY <2>1
  <2>2. ASSUME NEW k, NEW text, Posts(k, f, text, "live"), Text(f) # 0 => text = Text(f)
        PROVE  Truthful(k, f, text, "live")
    BY <1>0, <2>2, TextTyped DEF Truthful, Types, Clean
  <2> QED
    BY <1>0, <1>1, <2>1, <2>2, LiveTimerMoves
<1>2. ASSUME NEW f \in File, Save(f) PROVE UNCHANGED worker
  BY <1>0, <1>2, SaveMoves
<1>3. CASE PostIndex
  <2> DEFINE r == Request("initialize", NoFile, 0, "index")
  <2>1. Sends(Len(worker) + 1, r) /\ r.kind # "update"
    BY <1>0, <1>3, PostIndexMoves, RequestFields
  <2>2. Len(worker) + 1 \notin DOMAIN worker
    BY <1>0, WorkerIsSequence DEF Types
  <2> QED
    BY <2>1, <2>2
<1>4. CancelAnalysis => step = "analyzing" /\ worker' = <<>>
  BY DEF CancelAnalysis
<1>5. CASE IndexFails \/ IndexAnalysed \/ AnswerUpdate \/ AnswerReanalyze
  <2>1. /\ worker # <<>> /\ worker' = Tail(worker)
        /\ Head(worker).kind = "update" => AnswerUpdate
    BY <1>5 DEF IndexFails, IndexAnalysed, AnswerUpdate, AnswerReanalyze
  <2>2. Loses(1) /\ 1 \in DOMAIN worker /\ Head(worker) = worker[1]
    BY <1>0, <2>1, AnswerMoves
  <2> QED
    BY <2>1, <2>2
<1>6. ASSUME NEW f, NEW by, Sends(Len(worker) + 1, Request("remove", f, 0, by))
      PROVE  \E k, r : /\ Sends(k, r) /\ r.kind # "update"
                       /\ k \in DOMAIN worker => worker[k].kind # "update" /\ k = 1
  <2>1. Len(worker) + 1 \notin DOMAIN worker
    BY <1>0, WorkerIsSequence DEF Types
  <2> QED
    BY <1>6, <2>1, RequestFields
<1>7. CASE ReplayChange
  <2>1. PICK item \in replay.todo :
          \/ UNCHANGED worker
          \/ Sends(Len(worker) + 1, Request("remove", item.file, 0, "replay"))
          \/ /\ item.change.kind = "document"
             /\ \E k : Posts(k, item.file, item.change.text, "replay")
    BY <1>0, <1>7, ReplayChangeMoves
  <2>2. step = "replaying"
    BY <1>7 DEF ReplayChange, Fixed, Stages
  <2>3. ASSUME NEW k, Posts(k, item.file, item.change.text, "replay"), item.change.kind = "document"
        PROVE  Truthful(k, item.file, item.change.text, "replay")
    BY <2>2, <2>3 DEF Truthful, ReplaySound, Stale
  <2> QED
    BY <1>6, <2>1, <2>2, <2>3
<1>8. CASE ReplayRead
  <2>1. step = "replaying"
    BY <1>8 DEF ReplayRead, Fixed, Stages
  <2> QED
    BY <1>0, <1>8, <2>1, ReplayReadMoves DEF Truthful
<1>9. CASE SyncFile
  <2>1. PICK f \in sync.todo :
          \/ UNCHANGED worker
          \/ editor[f] # 0 /\ \E k : Posts(k, f, editor[f], "sync")
    BY <1>0, <1>9, SyncFileMoves
  <2> QED
    BY <2>1 DEF Truthful, Clean
<1>10. CASE SyncLookup
  <2>1. UNCHANGED worker \/ PostRemove(sync.file, "sync")
    BY <1>10 DEF SyncLookup
  <2>2. sync.file \in File
    BY <1>0, <1>10 DEF SyncLookup, Types, SyncTyped, Holding
  <2> QED
    BY <1>0, <1>6, <2>1, <2>2, PostRemoveMoves
<1>11. CASE SyncRead
  BY <1>0, <1>11, SyncReadMoves DEF Truthful
<1>12. CASE AnswerRemove
  <2>1. /\ 1 \in DOMAIN worker /\ worker[1].kind = "remove"
        /\ Sends(1, Request("reanalyze", NoFile, 0, worker[1].by))
    BY <1>0, <1>12, AnswerRemoveMoves
  <2> QED
    BY <2>1, RequestFields
<1> QED
  BY <1>1, <1>2, <1>3, <1>4, <1>5, <1>7, <1>8, <1>9, <1>10, <1>11, <1>12, WorkerSteps

(* An update that stays keeps the answer of the index behind it.           *)
LEMMA StillReplaced ==
    ASSUME WorkerTyped, NEW k, Loses(k) \/ (\E r : Sends(k, r)), NEW i \in 1..Left(k),
           NEW m \in DOMAIN worker, m > From(k, i), m # k, worker[m].kind = "initialize"
    PROVE  Replaced(i)'
<1>1. PICK i2 \in 1..Left(k) :
           From(k, i2) = m /\ i2 \in DOMAIN worker' /\ worker'[i2] = worker[m] /\ i < i2
  <2>1. PICK i2 \in 1..Left(k) : From(k, i2) = m
    BY AfterLoss, AfterSend
  <2>2. i2 \in DOMAIN worker' /\ worker'[i2] = worker[m]
    BY <2>1, AfterLoss, AfterSend
  <2>3. From(k, i) < From(k, i2) <=> i < i2
    BY AfterLoss, AfterSend
  <2>4. From(k, i) \in Int /\ m \in Int
    <3>1. k \in Int /\ i \in Int /\ DOMAIN worker \subseteq Int
      BY WorkerIsSequence DEF Loses, Sends, Keeps
    <3> QED
      BY <3>1 DEF From
  <2> QED
    BY <2>1, <2>2, <2>3, <2>4
<1>2. i2 > i
  BY <1>1
<1> QED
  BY <1>1, <1>2 DEF Replaced

(* Where an update to come was before the step, or who has sent it.        *)
LEMMA UpdateBefore ==
    ASSUME IInv, Next, Active, step # "reading",
           NEW i \in DOMAIN worker', worker'[i].kind = "update", ~Replaced(i)'
    PROVE  \/ \E j \in DOMAIN worker : worker'[i] = worker[j] /\ ~Replaced(j)
           \/ \E k, f, text, by :
                /\ Truthful(k, f, text, by) /\ worker'[i] = Request("update", f, text, by)
<1>0. WorkerTyped
  BY DEF IInv, Fixed, Types
<1> DEFINE Old == \E j \in DOMAIN worker : worker'[i] = worker[j] /\ ~Replaced(j)
<1>1. ASSUME NEW k, Loses(k) \/ (\E r : Sends(k, r)), i \in 1..Left(k),
             k \in DOMAIN worker => worker[k].kind # "initialize" \/ k = 1
      PROVE  Old
  <2>1. From(k, i) \in DOMAIN worker /\ worker'[i] = worker[From(k, i)]
    BY <1>0, <1>1, AfterLoss, AfterSend
  <2>2. ASSUME NEW m \in DOMAIN worker, m > From(k, i), worker[m].kind = "initialize" PROVE FALSE
    <3>1. m # k
      <4>1. From(k, i) \in 1..Len(worker) /\ m \in 1..Len(worker) /\ Len(worker) \in Nat
        BY <1>0, <2>1, WorkerIsSequence
      <4> QED
        BY <1>1, <2>2, <4>1
    <3> QED
      BY <1>0, <1>1, <2>2, <3>1, StillReplaced
  <2> QED
    BY <2>1, <2>2 DEF Replaced
<1>2. CASE UNCHANGED worker
  <2>1. step' = "reading" => Replaced(i)'
    BY DEF Replaced
  <2>2. i \in DOMAIN worker /\ worker'[i] = worker[i] /\ ~Replaced(i)
    BY <1>2 DEF Replaced
  <2> QED
    BY <2>2
<1>3. CASE worker' = <<>>
  BY <1>3
<1>4. CASE Loses(1)
  <2>1. i \in 1..Left(1)
    BY <1>0, <1>4, AfterLoss
  <2> QED
    BY <1>1, <1>4, <2>1
<1>5. ASSUME NEW k, NEW r, Sends(k, r) PROVE i \in 1..Left(k) \/ worker'[i] = r
  <2>1. Left(k) \in Nat /\ DOMAIN worker' = 1..(Left(k) + 1) /\ worker'[Left(k) + 1] = r
    BY <1>0, <1>5, AfterSend
  <2>2. i \in 1..Left(k) \/ i = Left(k) + 1
    BY <2>1
  <2> QED
    BY <2>1, <2>2
<1>6. ASSUME NEW k, NEW r, Sends(k, r), r.kind # "update",
             k \in DOMAIN worker => worker[k].kind # "update" /\ k = 1
      PROVE  Old
  BY <1>1, <1>5, <1>6
<1>7. ASSUME NEW k, NEW f, NEW text, NEW by, Truthful(k, f, text, by)
      PROVE  Old \/ worker'[i] = Request("update", f, text, by)
  <2>1. Sends(k, Request("update", f, text, by))
    BY <1>7 DEF Truthful, Posts
  <2>2. k \in DOMAIN worker => worker[k].kind # "initialize"
    BY <1>7 DEF Truthful, Posts, Updates
  <2> QED
    BY <1>1, <1>5, <2>1, <2>2
<1> HIDE DEF Old
<1> QED
  BY <1>2, <1>3, <1>4, <1>6, <1>7, WorkerMoves DEF Old

(* A file that a synchronisation has before it stays so, until its text is *)
(* posted or it is found to be gone.                                       *)
LEMMA AwaitedStays ==
    ASSUME Fixed, Next, NEW f \in File, ~Indexing, Awaited(f), Clean(f), disk'[f] = disk[f],
           ~Reported(f)'
    PROVE  \/ Awaited(f)'
           \/ sync.pc = "lookup" /\ disk[f] = 0 /\ analysed[f] = 0
           \/ SyncRead /\ disk[f] # 0 /\ \E k : Posts(k, f, disk[f], "sync")
           \/ AnswerReanalyze /\ Head(worker).by = "sync" /\ sync.file = f /\ disk[f] = 0
<1> USE DEF Fixed
<1>0. /\ f \in taken /\ sync.pc \in Busy /\ SyncTyped /\ MonitorTyped /\ f \notin owed'
      /\ NoTask.pc = "idle"
  BY NoTaskTyped DEF Awaited, Busy, Types, Reported
<1>1. ~GivesBack
  BY <1>0 DEF GivesBack
<1>2. ASSUME UNCHANGED sync PROVE Awaited(f)'
  <2>0. TakesBatch => sync'.pc = "wait"
    BY DEF TakesBatch, NoTask
  <2>1. UNCHANGED taken
    BY <1>0, <1>1, <1>2, <2>0, MonitorSteps DEF Rests, Tells, EndsDrain, Busy
  <2> QED
    BY <1>2, <2>1 DEF Awaited
<1>3. ASSUME NEW k, SyncPassed(k) PROVE Awaited(f)'
  BY <1>1, <1>2, <1>3 DEF SyncPassed
<1>4. (\E g \in File : LiveTimer(g) \/ Save(g)) \/ ReplayChange \/ ReplayRead => Awaited(f)'
  BY <1>2, <1>3, LiveTimerMoves, SaveMoves, ReplayChangeMoves, ReplayReadMoves
<1>5. ~CancelAnalysis /\ ~IndexFails /\ ~SyncBegin /\ ~SyncIndexed
  BY <1>0, IndexAnswered DEF Indexing, CancelAnalysis, SyncBegin, SyncIndexed, Busy
<1>6. MonitorFlush => Awaited(f)'
  BY <1>0, <1>2 DEF MonitorFlush, Stages, Busy
<1>7. CASE SyncFile
  <2>1. sync.pc = "next" /\ UNCHANGED monitor
    BY <1>7 DEF SyncFile
  <2>2. f \in sync.todo /\ taken' = taken
    BY <2>1 DEF Awaited, monitor
  <2>3. PICK g \in sync.todo :
           \/ editor[g] # 0 /\ sync' = Synced(g)
           \/ editor[g] # 0 /\ sync' = [Synced(g) EXCEPT !.pc = "posted", !.file = g]
           \/ sync' = [Synced(g) EXCEPT !.pc = "lookup", !.file = g]
    BY <1>7, SyncFileMoves
  <2>4. /\ sync'.todo = sync.todo \ {g} /\ sync'.pc \in Busy
        /\ editor[g] # 0 \/ (sync'.pc = "lookup" /\ sync'.file = g)
    BY <1>0, <2>1, <2>3 DEF SyncTyped, Synced, Busy
  <2> QED
    BY <1>0, <2>2, <2>4 DEF Awaited, Clean
<1>8. CASE SyncLookup
  <2>1. sync.pc = "lookup" /\ UNCHANGED <<monitor, world>>
    BY <1>8 DEF SyncLookup
  <2>2. taken' = taken /\ (f \in sync.todo \/ f = sync.file)
    BY <2>1 DEF Awaited, monitor, Busy
  <2>3. \/ sync' = [sync EXCEPT !.pc = "next"] /\ disk[sync.file] = 0 /\ analysed[sync.file] = 0
        \/ sync' = [sync EXCEPT !.pc = "reading"]
        \/ sync' = Removing(sync, sync.file) /\ disk[sync.file] = 0
    BY <1>8 DEF SyncLookup
  <2>4. /\ sync'.todo = sync.todo /\ sync'.pc \in Busy
        /\ \/ disk[sync.file] = 0 /\ analysed[sync.file] = 0
           \/ sync'.pc = "reading" /\ sync'.file = sync.file
           \/ sync'.pc = "removing" /\ sync'.file = sync.file /\ disk[sync.file] = 0
    BY <1>0, <2>3 DEF SyncTyped, Removing, Busy
  <2> QED
    BY <1>0, <2>1, <2>2, <2>4 DEF Awaited
<1>9. CASE SyncRead
  <2>1. sync.pc = "reading" /\ sync.file \in File
    BY <1>9, SyncReadMoves
  <2>2. CASE disk[sync.file] = 0
    BY <1>1, <1>9, <2>2, SyncReadMoves
  <2>3. CASE disk[sync.file] # 0
    <3>1. PICK k : /\ Posts(k, sync.file, disk[sync.file], "sync")
                   /\ sync' = [sync EXCEPT !.pc = "posted", !.file = sync.file]
      BY <1>9, <2>3, SyncReadMoves
    <3>2. UNCHANGED monitor
      BY <1>9, <2>3, SyncReadMoves
    <3>3. CASE f = sync.file
      BY <1>9, <2>3, <3>1, <3>3
    <3>4. CASE f # sync.file
      <4>1. f \in sync.todo /\ taken' = taken
        BY <2>1, <3>2, <3>4 DEF Awaited, monitor
      <4>2. sync'.pc \in Busy /\ sync'.todo = sync.todo
        BY <1>0, <3>1 DEF SyncTyped, Busy
      <4> QED
        BY <1>0, <4>1, <4>2 DEF Awaited
    <3> QED
      BY <3>3, <3>4
  <2> QED
    BY <2>2, <2>3
<1>10. CASE SyncDone
  BY <1>10 DEF SyncDone, Awaited, Busy
<1>11. CASE AnswerUpdate \/ AnswerRemove \/ AnswerReanalyze
  <2>1. CASE Head(worker).by # "sync"
    BY <1>2, <1>11, <2>1 DEF AnswerUpdate, AnswerRemove, AnswerReanalyze, Resume
  <2>2. CASE Head(worker).by = "sync"
    <3>1. /\ worker # <<>> /\ taken' = taken
          /\ \/ AnswerUpdate /\ Head(worker).kind = "update" /\ sync' = [sync EXCEPT !.pc = "next"]
             \/ AnswerRemove /\ Head(worker).kind = "remove" /\ sync' = [sync EXCEPT !.pc = "reanalyzing"]
             \/ AnswerReanalyze /\ Head(worker).kind = "reanalyze" /\ sync' = [sync EXCEPT !.pc = "next"]
      BY <1>11, <2>2 DEF AnswerUpdate, AnswerRemove, AnswerReanalyze, Resume, monitor
    <3>2. Awaits(sync.pc, Head(worker).kind)
      BY <2>2, <3>1, HeadOfWorker DEF AwaitedRequests, Types
    <3>3. /\ sync'.todo = sync.todo /\ sync'.file = sync.file
          /\ sync'.pc = IF AnswerRemove /\ Head(worker).kind = "remove" THEN "reanalyzing" ELSE "next"
      BY <1>0, <3>1 DEF SyncTyped, AnswerUpdate, AnswerReanalyze
    <3>4. CASE f \in sync.todo
      BY <1>0, <3>1, <3>3, <3>4 DEF Awaited, Busy
    <3>5. CASE f \notin sync.todo
      <4>1. sync.pc \in {"removing", "reanalyzing"} /\ f = sync.file /\ disk[f] = 0
        BY <3>1, <3>2, <3>5 DEF Awaited, Awaits
      <4> QED
        BY <1>0, <2>2, <3>1, <3>2, <3>3, <4>1 DEF Awaited, Awaits
    <3> QED
      BY <3>4, <3>5
  <2> QED
    BY <2>1, <2>2
<1> QED
  BY <1>2, <1>4, <1>5, <1>6, <1>7, <1>8, <1>9, <1>10, <1>11, SyncSteps

LEMMA UpdatesSoundNext ==
    ASSUME IInv, Next
    PROVE  UpdatesSound'
<1> USE DEF IInv
<1> SUFFICES ASSUME Sound', NEW i \in DOMAIN worker', ~Replaced(i)', Misleads(i)',
                    NEW f, worker'[i].file = f, ~Reported(f)'
             PROVE  ~Indexing' /\ Awaited(f)'
  BY DEF UpdatesSound
<1>0. /\ worker'[i].kind = "update" /\ Clean(f)' /\ worker'[i].text # disk'[f]
      /\ disk'[f] # 0 \/ worker'[i].by = "sync"
      /\ ~Reported(f)'
  BY DEF Misleads
<1>1. f \in File
  BY <1>0, FitNext DEF Fit, WorkerTyped, WellFormed
<1>2. ~PostIndex
  <2>1. SUFFICES ASSUME PostIndex PROVE FALSE
    OBVIOUS
  <2> DEFINE r == Request("initialize", NoFile, 0, "index")
  <2>2. Sends(Len(worker) + 1, r) /\ r.kind = "initialize"
    BY <2>1, PostIndexMoves, RequestFields DEF Fixed
  <2> HIDE DEF r
  <2> DEFINE last == Left(Len(worker) + 1) + 1
  <2>3. /\ Left(Len(worker) + 1) \in Nat /\ DOMAIN worker' = 1..last
        /\ worker'[last] = r
    BY <2>2, AfterSend DEF Fixed, Types
  <2> HIDE DEF last
  <2>4. i # last /\ last \in DOMAIN worker'
    BY <1>0, <2>2, <2>3 DEF last
  <2>5. last > i
    BY <2>3, <2>4 DEF last
  <2> QED
    BY <2>2, <2>3, <2>4, <2>5 DEF Replaced
<1>3. Sound /\ ~BeginIndex /\ step # "reading"
  BY <1>2, IndexSteps, IndexAnswered DEF Sound, ReadFile, StartIndex, CancelIndex, CancelAnalysis,
     IndexFails, IndexAnalysed, IndexReady, Reconciled, SyncBegin, BeginIndex, EndIndex, index,
     Fixed, Stages
<1>4. Active
  BY <1>3, ActiveWhenIndexed DEF Sound
<1>5. Clean(f) /\ disk'[f] = disk[f]
  BY <1>0, <1>1, WorldQuiet
<1>6. ASSUME ~Reported(f)
      PROVE  ~Indexing /\ Awaited(f) /\ \E j \in DOMAIN worker : worker'[i] = worker[j]
  <2>1. ASSUME NEW k, NEW g, NEW text, NEW by, Truthful(k, g, text, by),
               worker'[i] = Request("update", g, text, by)
        PROVE  FALSE
    <3>1. f = g /\ worker'[i].text = text /\ worker'[i].by = by
      BY <2>1, RequestFields
    <3> QED
      BY <1>0, <1>5, <1>6, <2>1, <3>1 DEF Truthful
  <2>2. PICK j \in DOMAIN worker : worker'[i] = worker[j] /\ ~Replaced(j)
    BY <1>0, <1>3, <1>4, <2>1, UpdateBefore
  <2>3. worker[j].file = f /\ Misleads(j)
    BY <1>0, <1>5, <2>2 DEF Misleads
  <2> QED
    BY <1>3, <1>6, <2>2, <2>3 DEF UpdatesSound
<1>7. CASE SyncBegin
  <2>1. sync.pc = "wait" /\ ~Indexing /\ ~batch.rescan /\ UNCHANGED index
    BY <1>3, <1>7 DEF SyncBegin
  <2>2. Reported(f)
    BY <1>6, <2>1 DEF Awaited, Busy
  <2>3. Awaited(f)' /\ ~Indexing'
    BY <1>0, <1>1, <1>7, <2>1, <2>2, BeginAwaits DEF Indexing, index
  <2> QED
    BY <2>3
<1>8. CASE ~SyncBegin
  <2>1. ~Reported(f)
    BY <1>0, <1>1, <1>4, <1>8, Quiet
  <2>2. ~Indexing /\ Awaited(f)
    BY <1>6, <2>1
  <2>3. PICK j \in DOMAIN worker : worker'[i] = worker[j]
    BY <1>6, <2>1
  <2>4. worker[j].kind = "update" /\ worker[j].file = f /\ (disk[f] # 0 \/ worker[j].by = "sync")
    BY <1>0, <1>5, <2>3
  <2>5. disk[f] = 0 => sync.pc = "posted"
    BY <2>4 DEF Fixed, AwaitedRequests, Awaits
  <2>6. ~Indexing'
    BY <1>3, <1>8, <2>2, IndexSteps, IndexAnswered DEF Indexing, ReadFile, StartIndex, PostIndex,
       CancelIndex, CancelAnalysis, IndexFails, IndexAnalysed, IndexReady, Reconciled, EndIndex,
       Fixed, Stages
  <2>7. ~\E k : Posts(k, f, disk[f], "sync")
    <3>1. ASSUME NEW k, Posts(k, f, disk[f], "sync") PROVE FALSE
      <4> DEFINE r == Request("update", f, disk[f], "sync")
      <4>1. Sends(k, r) /\ r.kind = "update" /\ r.file = f /\ r.text = disk[f]
        BY <3>1, RequestFields DEF Posts
      <4> HIDE DEF r
      <4>2. PICK last \in DOMAIN worker' : worker'[last] = r
        <5>1. Left(k) \in Nat /\ DOMAIN worker' = 1..(Left(k) + 1) /\ worker'[Left(k) + 1] = r
          BY <4>1, AfterSend DEF Fixed, Types
        <5>2. Left(k) + 1 \in 1..(Left(k) + 1)
          BY <5>1
        <5> QED
          BY <5>1, <5>2
      <4>3. OneUpdate' /\ worker'[i].file = f
        BY FitNext DEF Fit
      <4>4. i = last
        BY <1>0, <4>1, <4>2, <4>3 DEF OneUpdate
      <4> QED
        BY <1>0, <1>5, <4>1, <4>2, <4>4
    <3> QED
      BY <3>1
  <2>8. ~(AnswerReanalyze /\ Head(worker).by = "sync" /\ disk[f] = 0)
    BY <2>5, HeadOfWorker DEF AnswerReanalyze, Fixed, Types, AwaitedRequests, Awaits
  <2>9. Awaited(f)'
    BY <1>0, <1>1, <1>5, <2>2, <2>5, <2>7, <2>8, AwaitedStays
  <2> QED
    BY <2>6, <2>9
<1> QED
  BY <1>7, <1>8

(* An answer on its way comes, or makes way for one that is as good.       *)
LEMMA UnderwayStays ==
    ASSUME IInv, Next, NEW f \in File, ~Indexing, Active, Clean(f), ~Reported(f),
           disk'[f] = disk[f], Underway(f), ~(AnswerUpdate /\ Head(worker).file = f)
    PROVE  Underway(f)'
<1>0. WorkerTyped
  BY DEF IInv, Fixed, Types
<1>1. PICK j \in DOMAIN worker : /\ worker[j].kind = "update" /\ worker[j].file = f
                                 /\ worker[j].text = disk[f]
  BY DEF Underway, Updates
<1>2. disk[f] # 0
  BY DEF Underway
<1>3. ASSUME NEW i \in DOMAIN worker', worker'[i].kind = "update", worker'[i].file = f,
             worker'[i].text = disk[f]
      PROVE  Underway(f)'
  BY <1>2, <1>3 DEF Underway, Updates
<1>4. ASSUME NEW k, Loses(k) \/ (\E r : Sends(k, r)), j # k PROVE Underway(f)'
  <2>1. PICK i \in DOMAIN worker' : worker'[i] = worker[j]
    BY <1>0, <1>4, AfterLoss, AfterSend
  <2> QED
    BY <1>1, <1>3, <2>1
<1>5. ASSUME NEW k, NEW g, NEW text, NEW by, Truthful(k, g, text, by) PROVE Underway(f)'
  <2> DEFINE r == Request("update", g, text, by)
  <2>1. Sends(k, r) /\ r.kind = "update" /\ r.file = g /\ r.text = text
    BY <1>5, RequestFields DEF Truthful, Posts
  <2> HIDE DEF r
  <2>2. CASE j = k
    <3>1. g = f
      BY <1>1, <1>5, <2>2 DEF Truthful, Posts, Updates
    <3>2. text = disk[f]
      BY <1>2, <1>5, <3>1 DEF Truthful
    <3>3. Left(k) \in Nat /\ DOMAIN worker' = 1..(Left(k) + 1) /\ worker'[Left(k) + 1] = r
      BY <1>0, <2>1, AfterSend
    <3>4. Left(k) + 1 \in DOMAIN worker'
      BY <3>3
    <3> QED
      BY <1>3, <2>1, <3>1, <3>2, <3>3, <3>4
  <2>3. CASE j # k
    BY <1>4, <2>1, <2>3
  <2> QED
    BY <2>2, <2>3
<1>6. CASE UNCHANGED worker
  BY <1>1, <1>3, <1>6
<1>7. CASE /\ Loses(1) /\ 1 \in DOMAIN worker /\ Head(worker) = worker[1]
           /\ worker[1].kind = "update" => AnswerUpdate
  BY <1>1, <1>4, <1>7
<1>8. ASSUME NEW k, NEW r, Sends(k, r), k \in DOMAIN worker => worker[k].kind # "update"
      PROVE  Underway(f)'
  BY <1>1, <1>4, <1>8
<1> QED
  BY <1>5, <1>6, <1>7, <1>8, WorkerMoves DEF Indexing

LEMMA AnalysesSoundNext ==
    ASSUME IInv, Next
    PROVE  AnalysesSound'
<1> USE DEF IInv
<1> SUFFICES ASSUME phase' = "ready" \/ step' = "replaying", NEW f \in File, Wrong(f)', ~Reported(f)'
             PROVE  ~Indexing' /\ (Awaited(f)' \/ Underway(f)')
  BY DEF AnalysesSound
<1>0. /\ Clean(f)' /\ f \notin overwritten' /\ analysed'[f] # disk'[f]
      /\ f \in orphans' => disk'[f] # 0
  BY DEF Wrong
<1>1. Clean(f) /\ disk'[f] = disk[f]
  BY <1>0, WorldQuiet
<1>2. ~IndexAnalysed
  <2>1. SUFFICES ASSUME IndexAnalysed PROVE FALSE
    OBVIOUS
  <2>2. step = "analyzing" /\ ~SyncBegin
    BY <2>1, IndexAnswered DEF SyncBegin, Indexing
  <2>3. ~Reported(f) /\ toRead = {}
    BY <1>0, <2>2, Quiet, ActiveWhenIndexed DEF Fixed, Stages
  <2>4. snapshot[f] = disk[f]
    BY <1>1, <2>2, <2>3 DEF SnapshotSound
  <2> QED
    BY <1>0, <1>1, <2>1, <2>4 DEF IndexAnalysed
<1>3. /\ phase = "ready" \/ step = "replaying"
      /\ ~BeginIndex /\ ~CancelAnalysis /\ ~IndexFails
  BY <1>2, IndexSteps, IndexAnswered DEF ReadFile, StartIndex, PostIndex, CancelIndex, CancelAnalysis,
     IndexFails, IndexReady, Reconciled, SyncBegin, BeginIndex, EndIndex, index, Fixed, Stages
<1>4. Active /\ Sound
  BY <1>3, ActiveWhenIndexed DEF Sound
<1>5. ~Indexing => ~Indexing'
  BY <1>3, IndexSteps, IndexAnswered DEF Indexing, ReadFile, StartIndex, PostIndex,
     CancelIndex, CancelAnalysis, IndexFails, IndexAnalysed, IndexReady, Reconciled, SyncBegin,
     EndIndex, index, Fixed, Stages
<1>6. ASSUME analysed'[f] = analysed[f], f \in overwritten => f \in overwritten',
             f \in orphans => f \in orphans' \/ disk[f] # 0
      PROVE  Wrong(f) /\ (Reported(f) \/ (~Indexing /\ (Awaited(f) \/ Underway(f))))
  BY <1>0, <1>1, <1>3, <1>6 DEF Wrong, AnalysesSound
<1>7. CASE SyncBegin
  <2>1. sync.pc = "wait" /\ ~Indexing /\ ~batch.rescan
    BY <1>3, <1>7 DEF SyncBegin
  <2>2. UNCHANGED <<worker, analysed, overwritten, orphans>>
    BY <1>7 DEF SyncBegin, session
  <2>3. Reported(f) \/ Underway(f)
    BY <1>6, <2>1, <2>2 DEF Awaited, Busy
  <2>4. Underway(f) => Underway(f)'
    BY <1>1, <2>2 DEF Underway, Updates
  <2> QED
    BY <1>5, <1>7, <2>1, <2>3, <2>4, BeginAwaits
<1>8. CASE ~SyncBegin
  <2>1. ~Reported(f)
    BY <1>0, <1>4, <1>8, Quiet
  <2>2. ASSUME Wrong(f), ~Indexing, Awaited(f) \/ Underway(f), ~(AnswerUpdate /\ Head(worker).file = f),
               ~(AnswerReanalyze /\ Head(worker).by = "sync" /\ sync.file = f /\ disk[f] = 0)
        PROVE  ~Indexing' /\ (Awaited(f)' \/ Underway(f)')
    <3>1. CASE Underway(f)
      BY <1>1, <1>4, <1>5, <2>1, <2>2, <3>1, UnderwayStays
    <3>2. CASE Awaited(f)
      <4>1. ASSUME disk[f] # 0, NEW k, Posts(k, f, disk[f], "sync") PROVE Underway(f)'
        <5> DEFINE r == Request("update", f, disk[f], "sync")
        <5>1. Sends(k, r) /\ r.kind = "update" /\ r.file = f /\ r.text = disk[f]
          BY <4>1, RequestFields DEF Posts
        <5> HIDE DEF r
        <5>2. Left(k) \in Nat /\ DOMAIN worker' = 1..(Left(k) + 1) /\ worker'[Left(k) + 1] = r
          BY <5>1, AfterSend DEF Fixed, Types
        <5>3. Left(k) + 1 \in DOMAIN worker'
          BY <5>2
        <5> QED
          BY <1>1, <4>1, <5>1, <5>2, <5>3 DEF Underway, Updates
      <4>2. ~(disk[f] = 0 /\ analysed[f] = 0)
        BY <2>2 DEF Wrong
      <4> QED
        BY <1>0, <1>1, <1>5, <2>2, <3>2, <4>1, <4>2, AwaitedStays
    <3> QED
      BY <2>2, <3>1, <3>2
  <2>3. CASE ~AnswerUpdate /\ ~AnswerReanalyze
    <3>1. UNCHANGED <<analysed, orphans>> /\ (f \in overwritten => f \in overwritten')
      BY <1>2, <1>3, <2>3, AnalysisSteps DEF ReplayRead, SyncRead, LateRead
    <3> QED
      BY <1>6, <2>1, <2>2, <2>3, <3>1
  <2>4. CASE AnswerUpdate
    <3> DEFINE g == Head(worker).file
    <3>1. /\ 1 \in DOMAIN worker /\ Head(worker) = worker[1]
          /\ worker[1].kind = "update" /\ g \in File
      BY <2>4, HeadOfWorker DEF AnswerUpdate, Fixed, Types, WellFormed
    <3>2. /\ analysed' = [analysed EXCEPT ![g] = Head(worker).text]
          /\ overwritten \ {g} \subseteq overwritten'
          /\ orphans' = IF disk[g] = 0 /\ Head(worker).by # "sync"
                        THEN orphans \union {g} ELSE orphans \ {g}
      BY <2>4 DEF AnswerUpdate
    <3> HIDE DEF g
    <3>3. analysed \in [File -> Value]
      BY DEF Fixed, Types, SessionTyped
    <3>4. CASE f # g
      BY <1>6, <2>1, <2>2, <2>4, <3>2, <3>3, <3>4 DEF AnswerReanalyze, AnswerUpdate, g
    <3>5. CASE f = g
      <4>1. analysed'[f] = worker[1].text /\ worker[1].file = f
        BY <3>1, <3>2, <3>3, <3>5 DEF g
      <4>2. disk[f] # 0 \/ worker[1].by = "sync"
        BY <1>0, <1>1, <3>1, <3>2, <3>5
      <4>3. Misleads(1)
        BY <1>0, <1>1, <3>1, <4>1, <4>2 DEF Misleads
      <4>4. \A j \in DOMAIN worker : worker[j].kind # "initialize"
        BY <1>3 DEF Fixed, Types, WorkerTyped, WellFormed, AwaitedRequests, Stages
      <4>5. ~Replaced(1)
        BY <1>3, <4>4 DEF Replaced, Fixed, Stages
      <4>6. ~Indexing /\ Awaited(f)
        BY <1>4, <2>1, <3>1, <4>1, <4>3, <4>5 DEF UpdatesSound
      <4>7. Awaited(f)'
        <5>1. UNCHANGED taken /\ Resume(Head(worker).by, "next")
          BY <2>4 DEF AnswerUpdate, monitor
        <5>2. CASE Head(worker).by = "sync"
          <6>1. sync.pc = "posted" /\ sync' = [sync EXCEPT !.pc = "next"]
            BY <3>1, <5>1, <5>2 DEF Resume, Fixed, AwaitedRequests, Awaits
          <6>2. sync'.pc = "next" /\ sync'.todo = sync.todo
            BY <6>1 DEF Fixed, Types, SyncTyped
          <6> QED
            BY <4>6, <5>1, <6>1, <6>2 DEF Awaited, Busy
        <5>3. CASE Head(worker).by # "sync"
          BY <1>1, <4>6, <5>1, <5>3 DEF Awaited, Resume
        <5> QED
          BY <5>2, <5>3
      <4> QED
        BY <1>5, <4>6, <4>7
    <3> QED
      BY <3>4, <3>5
  <2>5. CASE AnswerReanalyze
    <3> DEFINE task == IF Head(worker).by = "sync" THEN sync ELSE replay
               Gone == {g \in {task.file} : Text(g) = 0}
               PutBack == {g \in File \ Gone : Without(task)[g] # analysed[g]}
    <3>1. /\ analysed' = Without(task) /\ overwritten' = (overwritten \ Gone) \union PutBack
          /\ orphans' = orphans \ {task.file}
      BY <2>5 DEF AnswerReanalyze
    <3>2. task.kept \in [File -> Value]
      BY DEF Fixed, Types, SyncTyped, ReplayTyped
    <3>3. Text(f) = disk[f]
      BY <1>1 DEF Text, Clean
    <3> HIDE DEF task
    <3>4. f \notin Gone
      <4>1. f = task.file => Without(task)[f] = 0
        BY <3>2 DEF Without
      <4> QED
        BY <1>0, <1>1, <3>1, <3>3, <4>1
    <3>5. f \notin PutBack
      BY <1>0, <3>1
    <3>6. /\ analysed'[f] = analysed[f] /\ (f \in overwritten => f \in overwritten')
          /\ (f \in orphans => f \in orphans' \/ disk[f] # 0)
      BY <3>1, <3>3, <3>4, <3>5
    <3>7. ~(Head(worker).by = "sync" /\ sync.file = f /\ disk[f] = 0)
      BY <3>3, <3>4 DEF task
    <3> QED
      BY <1>6, <2>1, <2>2, <2>5, <3>6, <3>7 DEF AnswerReanalyze, AnswerUpdate
  <2> QED
    BY <2>3, <2>4, <2>5
<1> QED
  BY <1>7, <1>8
-----------------------------------------------------------------------------
LEMMA InvInit ==
    ASSUME Init
    PROVE  IInv
<1> USE DEF Init
<1>1. Nothing \in [File -> Value] /\ \A f \in File : Nothing[f] = 0
  BY ZeroIsValue DEF Nothing
<1>2. WorldTyped
  <2>1. disk \in [File -> Value]
    BY BoundsAreNatural DEF Value
  <2>2. 1 \in 1..MaxClock
    BY BoundsAreNatural
  <2> QED
    BY <1>1, <2>1, <2>2 DEF WorldTyped
<1>3. MonitorTyped
  BY DEF MonitorTyped, Mon!Init, Mon!NoBatch
<1>4. SessionTyped
  <2>1. indexes \in 0..MaxIndexes
    BY BoundsAreNatural
  <2>2. /\ analysed = Nothing /\ snapshot = Nothing /\ toRead = {} /\ orphans = {}
        /\ overwritten = {} /\ built = FALSE /\ phase = "none" /\ step = "idle"
    OBVIOUS
  <2> QED
    BY ONLY <1>1, <2>1, <2>2 DEF SessionTyped
<1>5. QueueTyped
  BY ZeroIsValue DEF QueueTyped, NoChanges, NoChange, Change, Value, TextGiven
<1>6. ReplayTyped /\ SyncTyped
  BY <1>1, ZeroIsValue DEF ReplayTyped, SyncTyped, NoTask, Busy, Holding
<1>7. worker = <<>> /\ DOMAIN worker = {}
  OBVIOUS
<1>8. WorkerTyped
  BY <1>7 DEF WorkerTyped
<1>9. Stages
  BY DEF Stages, NoTask, Mon!Init
<1>10. AwaitedRequests /\ OneEach /\ OneUpdate
  BY <1>7 DEF AwaitedRequests, OneEach, OneUpdate
<1>11. SnapshotSound /\ QueueSound /\ ReplaySound /\ UpdatesSound /\ AnalysesSound
  BY <1>7 DEF SnapshotSound, QueueSound, Indexing, ReplaySound, UpdatesSound, AnalysesSound
<1> QED
  BY <1>2, <1>3, <1>4, <1>5, <1>6, <1>8, <1>9, <1>10, <1>11 DEF IInv, Fixed, Types

LEMMA InvStutters ==
    ASSUME IInv, UNCHANGED vars
    PROVE  IInv'
<1> USE DEF IInv, Fixed, vars, world, monitor, session, index
<1>1. Types'
  BY DEF Types, WorldTyped, MonitorTyped, SessionTyped, QueueTyped, ReplayTyped, SyncTyped,
     WorkerTyped
<1>2. Stages' /\ AwaitedRequests' /\ OneEach' /\ OneUpdate'
  BY DEF Stages, Indexing, AwaitedRequests, OneEach, OneUpdate
<1>3. SnapshotSound' /\ QueueSound' /\ ReplaySound'
  BY DEF SnapshotSound, QueueSound, ReplaySound, Indexing, Stale, Clean, Reported
<1>4. UpdatesSound'
  BY DEF UpdatesSound, Sound, Replaced, Misleads, Clean, Reported, Awaited, Indexing
<1>5. AnalysesSound'
  BY DEF AnalysesSound, Wrong, Clean, Reported, Awaited, Underway, Updates, Indexing
<1> QED
  BY <1>1, <1>2, <1>3, <1>4, <1>5

LEMMA InvStep ==
    ASSUME IInv, [Next]_vars
    PROVE  IInv'
<1>1. CASE Next
  <2>1. Fixed'
    BY <1>1, FixedNext DEF IInv
  <2> QED
    BY <1>1, <2>1, SnapshotSoundNext, QueueSoundNext, ReplaySoundNext, UpdatesSoundNext,
       AnalysesSoundNext DEF IInv
<1>2. CASE UNCHANGED vars
  BY <1>2, InvStutters
<1> QED
  BY <1>1, <1>2

(* The inductive invariant holds in every reachable state.                 *)
THEOREM SessionInvariant == Spec => []IInv
<1>1. Init => IInv
  BY InvInit
<1>2. IInv /\ [Next]_vars => IInv'
  BY InvStep
<1> QED
  BY <1>1, <1>2, PTL DEF Spec

LEMMA InvSaysCurrent ==
    ASSUME IInv
    PROVE  SavedFilesCurrent
<1> SUFFICES ASSUME AtRest, phase = "ready", owed = {}, NEW f \in File \ (orphans \union overwritten)
             PROVE  Current(f)
  BY DEF SavedFilesCurrent
<1>1. ~Reported(f)
  BY DEF AtRest, Reported, IInv, Fixed, Stages
<1>2. ~Awaited(f)
  BY DEF AtRest, Awaited, Busy, IInv, Fixed, Stages
<1>3. ~Underway(f)
  BY DEF AtRest, Underway, Updates
<1> QED
  BY <1>1, <1>2, <1>3 DEF Current, IInv, AnalysesSound, Wrong, Clean

(* At rest after an index, with no failed synchronisation left to repeat,  *)
(* the analysis of every saved file is of what the disk holds, but for     *)
(* texts analysed once the file was gone and analyses a removal put back.  *)
THEOREM AnalysesStayCurrent == Spec => []SavedFilesCurrent
BY SessionInvariant, InvSaysCurrent, PTL
-----------------------------------------------------------------------------
(* The unsaved texts.                                                      *)
LEMMA EditorSteps ==
    ASSUME Fixed, Next, NEW f \in File, editor'[f] # 0
    PROVE  editor'[f] = editor[f] \/ Edit(f)
<1>0. editor \in [File -> Value]
  BY DEF Fixed, Types, WorldTyped
<1> QED
  BY <1>0, WorldSteps DEF Edit, Save, External

LEMMA LatestQueuedNext ==
    ASSUME IInv, LatestQueued, Next
    PROVE  LatestQueued'
<1> USE DEF IInv
<1> SUFFICES ASSUME Indexing', NEW f \in File, editor'[f] # 0, dirtyQueue'[f].kind = "document"
             PROVE  dirtyQueue'[f].text = editor'[f]
  BY DEF LatestQueued
<1>0. dirtyQueue \in [File -> Change] /\ editor \in [File -> Value]
  BY DEF Fixed, Types, QueueTyped, WorldTyped
<1>1. CASE BeginIndex
  BY <1>1 DEF BeginIndex, NoChanges, NoChange
<1>2. CASE dirtyQueue' = NoChanges
  BY <1>2 DEF NoChanges, NoChange
<1>3. CASE ~BeginIndex /\ dirtyQueue' # NoChanges
  <2>1. Indexing
    BY <1>3, IndexSteps, IndexAnswered DEF ReadFile, StartIndex, PostIndex, CancelIndex,
       CancelAnalysis, IndexFails, IndexAnalysed, IndexReady, Reconciled, SyncBegin, EndIndex,
       Indexing, index, Fixed, Stages
  <2>2. ASSUME NEW g, NEW kind, NEW text, Queue(g, kind, text)
        PROVE  /\ f = g => dirtyQueue'[f].kind = kind /\ dirtyQueue'[f].text = text
               /\ f # g => dirtyQueue'[f] = dirtyQueue[f]
    BY <1>0, <2>2 DEF Queue
  <2>3. CASE Edit(f)
    <3>1. Queue(f, "document", clock') /\ editor'[f] = clock'
      BY <1>0, <2>1, <2>3 DEF Edit
    <3> QED
      BY <2>2, <3>1
  <2>4. CASE editor'[f] = editor[f]
    <3>1. dirtyQueue'[f] = dirtyQueue[f] => dirtyQueue'[f].text = editor'[f]
      BY <2>1, <2>4 DEF LatestQueued
    <3>2. ASSUME NEW g \in File, Edit(g) PROVE dirtyQueue'[f].text = editor'[f]
      <4>1. CASE f = g
        BY <2>3, <3>2, <4>1
      <4>2. CASE f # g
        BY <2>1, <2>2, <3>1, <3>2, <4>2 DEF Edit
      <4> QED
        BY <4>1, <4>2
    <3>3. ASSUME NEW g \in File, LiveTimer(g) PROVE dirtyQueue'[f].text = editor'[f]
      <4>1. Queue(g, "document", IF Text(g) = 0 THEN live[g] ELSE Text(g))
        BY <2>1, <3>3 DEF LiveTimer
      <4>2. Text(f) = editor[f] /\ editor[f] # 0
        BY <2>4 DEF Text
      <4> QED
        BY <2>2, <2>4, <3>1, <4>1, <4>2
    <3>4. CASE IndexAnalysed
      BY <2>4, <3>4 DEF IndexAnalysed, QueueWithOpenDirtyDocuments
    <3>5. CASE SyncFile
      <4>1. PICK g : Queue(g, "document", editor[g]) \/ dirtyQueue' = dirtyQueue
        BY <3>5 DEF SyncFile
      <4> QED
        BY <2>2, <2>4, <3>1, <4>1
    <3>6. CASE SyncLookup
      <4>1. \/ Queue(sync.file, "delete", 0) \/ Queue(sync.file, "file", 0)
            \/ dirtyQueue' = dirtyQueue
        BY <3>6 DEF SyncLookup
      <4>2. "delete" # "document" /\ "file" # "document"
        OBVIOUS
      <4> QED
        BY <2>2, <3>1, <4>1, <4>2
    <3> QED
      BY <1>3, <3>1, <3>2, <3>3, <3>4, <3>5, <3>6, QueueSteps DEF StartIndex, CancelIndex,
         CancelAnalysis, IndexFails, EndIndex, ReplayTake, QueueTaken, Reconciled, SyncBegin
  <2> QED
    BY <2>3, <2>4, EditorSteps
<1> QED
  BY <1>1, <1>2, <1>3

(* The queue is kept during the replay, until the replay takes it.         *)
LEMMA QueueStays ==
    ASSUME Fixed, Next, NEW f \in File, step = "replaying", step' = "replaying", InQueue(f)
    PROVE  InQueue(f)' \/ ReplayTake
<1>0. dirtyQueue \in [File -> Change]
  BY DEF Fixed, Types, QueueTyped
<1>1. ASSUME NEW g, NEW kind, NEW text, Queue(g, kind, text), kind # "none" PROVE InQueue(f)'
  BY <1>0, <1>1 DEF Queue, InQueue
<1>2. ASSUME NEW g \in File, Edit(g) \/ LiveTimer(g) PROVE InQueue(f)'
  <2>1. \E text : Queue(g, "document", text)
    BY <1>2 DEF Edit, LiveTimer, Indexing
  <2> QED
    BY <1>1, <2>1
<1>3. SyncFile => InQueue(f)'
  <2>1. SyncFile => dirtyQueue' = dirtyQueue \/ \E g, text : Queue(g, "document", text)
    BY DEF SyncFile
  <2> QED
    BY <1>1, <2>1 DEF InQueue
<1>4. SyncLookup => InQueue(f)'
  <2>1. \/ Queue(sync.file, "delete", 0) \/ Queue(sync.file, "file", 0)
        \/ dirtyQueue' = dirtyQueue \/ ~SyncLookup
    BY DEF SyncLookup
  <2> QED
    BY <1>1, <2>1 DEF InQueue
<1>5. ~IndexFails /\ ~IndexAnalysed
  BY IndexAnswered
<1> QED
  BY <1>2, <1>3, <1>4, <1>5, QueueSteps DEF StartIndex, CancelIndex, CancelAnalysis, EndIndex, Indexing,
     Reconciled, SyncBegin, InQueue

(* An edit during the replay is queued.                                    *)
LEMMA EditQueues ==
    ASSUME Fixed, NEW f \in File, step = "replaying", Edit(f)
    PROVE  InQueue(f)' /\ dirtyQueue'[f].kind = "document"
BY DEF Edit, Queue, Indexing, InQueue, Fixed, Types, QueueTyped

(* When the index answers every unsaved document is queued.                *)
LEMMA AnswerQueues ==
    ASSUME Fixed, NEW f \in File, IndexAnalysed, editor'[f] # 0
    PROVE  /\ InQueue(f)' /\ dirtyQueue'[f].kind = "document"
           /\ replay'.todo = {} /\ replay'.pc = "next"
BY DEF IndexAnalysed, QueueWithOpenDirtyDocuments, InQueue, world, NoTask

LEMMA LatestReplayedNext ==
    ASSUME IInv, LatestQueued, LatestReplayed, Next
    PROVE  LatestReplayed'
<1> USE DEF IInv
<1> SUFFICES ASSUME step' = "replaying", NEW item \in replay'.todo, NEW f, f = item.file,
                    editor'[f] # 0, item.change.kind = "document", item.change.text # editor'[f]
             PROVE  InQueue(f)'
  BY DEF LatestReplayed
<1>1. f \in File
  BY ReplayTypedNext DEF Fixed, ReplayTyped, Item
<1>2. ~IndexAnalysed
  BY <1>1, AnswerQueues
<1>3. step = "replaying"
  BY <1>2, ReplayingBefore
<1>4. CASE Edit(f)
  BY <1>1, <1>3, <1>4, EditQueues
<1>5. CASE editor'[f] = editor[f]
  <2>1. CASE item \in replay.todo
    <3>1. InQueue(f) /\ ~ReplayTake
      BY <1>3, <1>5, <2>1 DEF LatestReplayed, ReplayTake
    <3> QED
      BY <1>1, <1>3, <3>1, QueueStays
  <2>2. CASE item \notin replay.todo
    <3>1. ReplayTake
      BY <2>2, ReplayTodo
    <3>2. PICK g \in Queued : item = [file |-> g, change |-> dirtyQueue[g]]
      BY <3>1 DEF ReplayTake, Fixed, Types, ReplayTyped
    <3>3. f = g /\ item.change = dirtyQueue[f]
      BY <3>2
    <3> QED
      BY <1>1, <1>3, <1>5, <3>3 DEF LatestQueued, Indexing
  <2> QED
    BY <2>1, <2>2
<1> QED
  BY <1>1, <1>4, <1>5, EditorSteps

(* What is sent during the replay: a text that was queued, or one that was *)
(* read, over which unsaved text takes no precedence.                      *)
Answers ==
    /\ Loses(1) /\ 1 \in DOMAIN worker /\ Head(worker) = worker[1]
    /\ worker[1].kind = "update" => AnswerUpdate
Replays(k, item) ==
    /\ item \in replay.todo /\ item.change.kind = "document" /\ ReplayChange
    /\ Posts(k, item.file, item.change.text, "replay")
Reads(k, f, text, by) == Posts(k, f, text, by) /\ (editor[f] # 0 => f \in overwritten')

LEMMA ReplayingMoves ==
    ASSUME Fixed, Next, step = "replaying"
    PROVE  \/ UNCHANGED worker
           \/ Answers
           \/ \E k, r : /\ Sends(k, r) /\ r.kind # "update"
                        /\ k \in DOMAIN worker => worker[k].kind # "update"
           \/ \E k, item : Replays(k, item)
           \/ \E k, f, text, by : Reads(k, f, text, by)
<1>0. Types /\ OneUpdate /\ Indexing /\ Active
  BY ActiveWhenIndexed DEF Fixed, Indexing
<1>1. ASSUME NEW f \in File, LiveTimer(f) \/ Save(f) PROVE UNCHANGED worker
  BY <1>0, <1>1, LiveTimerMoves, SaveMoves
<1>2. ~PostIndex /\ ~CancelAnalysis /\ ~IndexFails /\ ~IndexAnalysed
  BY IndexAnswered DEF PostIndex, CancelAnalysis
<1>3. CASE AnswerUpdate \/ AnswerReanalyze
  <2>1. /\ worker # <<>> /\ worker' = Tail(worker)
        /\ Head(worker).kind = "update" => AnswerUpdate
    BY <1>3 DEF AnswerUpdate, AnswerReanalyze
  <2> QED
    BY <1>0, <2>1, AnswerMoves DEF Answers
<1>4. ASSUME NEW f, NEW by, Sends(Len(worker) + 1, Request("remove", f, 0, by))
      PROVE  \E k, r : /\ Sends(k, r) /\ r.kind # "update"
                       /\ k \in DOMAIN worker => worker[k].kind # "update"
  <2>1. Len(worker) + 1 \notin DOMAIN worker
    BY <1>0, WorkerIsSequence DEF Types
  <2> QED
    BY <1>4, <2>1, RequestFields
<1>5. CASE ReplayChange
  <2>1. PICK item \in replay.todo :
          \/ UNCHANGED worker
          \/ Sends(Len(worker) + 1, Request("remove", item.file, 0, "replay"))
          \/ /\ item.change.kind = "document"
             /\ \E k : Posts(k, item.file, item.change.text, "replay")
    BY <1>0, <1>5, ReplayChangeMoves
  <2> QED
    BY <1>4, <1>5, <2>1 DEF Replays
<1>6. CASE ReplayRead
  BY <1>0, <1>6, ReplayReadMoves DEF Reads, LateRead
<1>7. CASE SyncFile
  BY <1>0, <1>7, SyncFileMoves
<1>8. CASE SyncLookup
  <2>1. UNCHANGED worker
    BY <1>0, <1>8 DEF SyncLookup
  <2> QED
    BY <2>1
<1>9. CASE SyncRead
  BY <1>0, <1>9, SyncReadMoves DEF Reads, LateRead
<1>10. CASE AnswerRemove
  <2>1. /\ 1 \in DOMAIN worker /\ worker[1].kind = "remove"
        /\ Sends(1, Request("reanalyze", NoFile, 0, worker[1].by))
    BY <1>0, <1>10, AnswerRemoveMoves
  <2> QED
    BY <2>1, RequestFields
<1> QED
  BY <1>1, <1>2, <1>3, <1>5, <1>6, <1>7, <1>8, <1>9, <1>10, WorkerSteps

(* Where an update was, or who sent it.                                    *)
LEMMA UpdateSource ==
    ASSUME Fixed, Next, step = "replaying",
           NEW i \in DOMAIN worker', worker'[i].kind = "update"
    PROVE  \/ \E j \in DOMAIN worker : worker'[i] = worker[j] /\ (Answers => j # 1)
           \/ \E k, item : Replays(k, item) /\ worker'[i].file = item.file
                           /\ worker'[i].text = item.change.text
           \/ editor[worker'[i].file] # 0 => worker'[i].file \in overwritten'
<1>0. WorkerTyped
  BY DEF Fixed, Types
<1> DEFINE Old == \E j \in DOMAIN worker : worker'[i] = worker[j] /\ (Answers => j # 1)
<1>1. CASE Answers
  BY <1>0, <1>1, AfterLoss DEF Answers
<1>2. CASE ~Answers /\ UNCHANGED worker
  BY <1>2
<1>3. ASSUME ~Answers, NEW k, NEW r, Sends(k, r) PROVE Old \/ worker'[i] = r
  <2>1. Left(k) \in Nat /\ DOMAIN worker' = 1..(Left(k) + 1) /\ worker'[Left(k) + 1] = r
    BY <1>0, <1>3, AfterSend
  <2>2. i \in 1..Left(k) \/ i = Left(k) + 1
    BY <2>1
  <2>3. i \in 1..Left(k) => From(k, i) \in DOMAIN worker /\ worker'[i] = worker[From(k, i)]
    BY <1>0, <1>3, AfterSend
  <2> QED
    BY <1>3, <2>1, <2>2, <2>3
<1>4. ASSUME ~Answers, NEW k, NEW f, NEW text, NEW by, Posts(k, f, text, by)
      PROVE  Old \/ (worker'[i].file = f /\ worker'[i].text = text)
  BY <1>3, <1>4, RequestFields DEF Posts
<1> HIDE DEF Old
<1>5. ASSUME ~Answers, NEW k, NEW item, Replays(k, item)
      PROVE  Old \/ (worker'[i].file = item.file /\ worker'[i].text = item.change.text)
  BY <1>4, <1>5 DEF Replays
<1>6. ASSUME ~Answers, NEW k, NEW f, NEW text, NEW by, Reads(k, f, text, by)
      PROVE  Old \/ (editor[worker'[i].file] # 0 => worker'[i].file \in overwritten')
  BY <1>4, <1>6 DEF Reads
<1>7. CASE ~Answers
  BY <1>2, <1>3, <1>5, <1>6, <1>7, ReplayingMoves DEF Old
<1> QED
  BY <1>1, <1>7

(* What takes an unsaved text off the list of those overwritten.           *)
LEMMA UnsavedBefore ==
    ASSUME Fixed, Next, NEW f \in File, step = "replaying", step' = "replaying",
           editor'[f] = editor[f], Unsaved(f)'
    PROVE  \/ Unsaved(f)
           \/ /\ AnswerUpdate /\ Head(worker).kind = "update" /\ Head(worker).file = f
              /\ Head(worker).text = editor[f]
<1>0. editor[f] # 0 /\ f \notin overwritten' /\ Text(f) = editor[f]
  BY DEF Unsaved, Text
<1>1. ~CancelAnalysis /\ ~IndexFails /\ ~IndexAnalysed
  BY IndexAnswered DEF CancelAnalysis
<1>2. CASE f \in overwritten
  <2>1. AnswerUpdate \/ AnswerReanalyze
    BY <1>0, <1>1, <1>2, AnalysisSteps DEF ReplayRead, SyncRead, LateRead
  <2>2. CASE AnswerUpdate
    BY <1>0, <1>2, <2>2 DEF AnswerUpdate
  <2>3. CASE AnswerReanalyze
    BY <1>0, <1>2, <2>3 DEF AnswerReanalyze
  <2> QED
    BY <2>1, <2>2, <2>3
<1>3. CASE f \notin overwritten
  BY <1>0, <1>3 DEF Unsaved
<1> QED
  BY <1>2, <1>3

(* A removal that ends leaves an unsaved text its analysis, or marks it.   *)
LEMMA ReanalyzeMarks ==
    ASSUME Fixed, NEW f \in File, AnswerReanalyze, editor[f] # 0, f \notin overwritten'
    PROVE  /\ analysed'[f] = analysed[f]
           /\ Head(worker).by # "sync" /\ replay.file = f => analysed[f] = 0
<1> DEFINE task == IF Head(worker).by = "sync" THEN sync ELSE replay
           Gone == {g \in {task.file} : Text(g) = 0}
           PutBack == {g \in File \ Gone : Without(task)[g] # analysed[g]}
<1>1. analysed' = Without(task) /\ overwritten' = (overwritten \ Gone) \union PutBack
  BY DEF AnswerReanalyze
<1>2. task.kept \in [File -> Value]
  BY DEF Fixed, Types, SyncTyped, ReplayTyped
<1>3. Text(f) # 0
  BY DEF Text
<1> HIDE DEF task
<1>4. f \notin Gone
  BY <1>3
<1>5. Without(task)[f] = analysed[f]
  BY <1>1, <1>4
<1>6. task.file = f => Without(task)[f] = 0
  BY <1>2 DEF Without
<1>7. Head(worker).by # "sync" => task = replay
  BY DEF task
<1> QED
  BY <1>1, <1>5, <1>6, <1>7

LEMMA HandStays ==
    ASSUME Fixed, Next, step = "replaying", step' = "replaying",
           replay.pc \in {"reading", "removing", "reanalyzing"}
    PROVE  \/ UNCHANGED replay
           \/ ReplayRead /\ replay.pc = "reading"
           \/ AnswerRemove /\ replay.pc = "removing" /\ replay' = [replay EXCEPT !.pc = "reanalyzing"]
           \/ /\ AnswerReanalyze /\ Head(worker).by # "sync" /\ replay.pc = "reanalyzing"
              /\ replay' = [replay EXCEPT !.pc = "next"]
<1>0. Types /\ OneUpdate /\ AwaitedRequests
  BY DEF Fixed
<1>1. ASSUME NEW k, NEW f, NEW text, NEW by, Posts(k, f, text, by), ReplayPassed(k)
      PROVE  UNCHANGED replay
  <2>1. ~Meets(k, "replay")
    BY <1>0, <1>1 DEF Meets, Posts, Updates, AwaitedRequests, Awaits
  <2> QED
    BY <1>1, <2>1 DEF ReplayPassed
<1>2. ASSUME NEW f \in File, LiveTimer(f) \/ Save(f) PROVE UNCHANGED replay
  BY <1>0, <1>1, <1>2, LiveTimerMoves, SaveMoves
<1>3. SyncFile \/ SyncRead => UNCHANGED replay
  BY <1>0, <1>1, SyncFileMoves, SyncReadMoves
<1>4. ~PostIndex /\ ~CancelAnalysis /\ ~IndexFails /\ ~IndexAnalysed /\ ~ReplayTake
      /\ ~ReplayChange /\ ~IndexReady
  BY IndexAnswered DEF PostIndex, CancelAnalysis, ReplayTake, ReplayChange, IndexReady
<1>5. ReplayRead => replay.pc = "reading"
  BY DEF ReplayRead
<1>6. CASE AnswerUpdate \/ AnswerRemove \/ AnswerReanalyze
  <2>1. CASE Head(worker).by = "replay"
    <3>1. Awaits(replay.pc, Head(worker).kind)
      BY <1>0, <1>6, <2>1, HeadOfWorker DEF AwaitedRequests, Types, AnswerUpdate, AnswerRemove,
         AnswerReanalyze
    <3> QED
      BY <1>6, <2>1, <3>1 DEF Awaits, Resume, AnswerUpdate, AnswerRemove, AnswerReanalyze
  <2>2. CASE Head(worker).by # "replay"
    BY <1>6, <2>2 DEF AnswerUpdate, AnswerRemove, AnswerReanalyze, Resume
  <2> QED
    BY <2>1, <2>2
<1> QED
  BY <1>2, <1>3, <1>4, <1>5, <1>6, ReplaySteps

(* An unsaved text to come stays so, until it is sent.                     *)
LEMMA ToComeStays ==
    ASSUME IInv, TextInv, Next, NEW f \in File, step = "replaying", step' = "replaying",
           Unsaved(f), editor'[f] = editor[f], f \notin overwritten', ToCome(f)
    PROVE  \/ ToCome(f)'
           \/ \E k, item : Replays(k, item) /\ item.file = f /\ item.change.text = editor[f]
<1> USE DEF IInv, TextInv
<1>0. ReplayTyped /\ Types /\ OneUpdate /\ editor[f] # 0
  BY DEF Fixed, Types, Unsaved
<1>1. ASSUME InQueue(f) PROVE ToCome(f)'
  <2>1. CASE ReplayTake
    <3>1. f \in Queued
      BY <1>1 DEF InQueue, Queued, NoChange
    <3>2. [file |-> f, change |-> dirtyQueue[f]] \in replay'.todo
      BY <1>0, <2>1, <3>1 DEF ReplayTake, ReplayTyped
    <3> QED
      BY <3>2 DEF ToCome, InTodo
  <2>2. CASE ~ReplayTake
    BY <1>1, <2>2, QueueStays DEF ToCome
  <2> QED
    BY <2>1, <2>2
<1>2. CASE InQueue(f)
  BY <1>1, <1>2
<1>3. CASE ~InQueue(f) /\ InTodo(f)
  <2>1. PICK item \in replay.todo : item.file = f
    BY <1>3 DEF InTodo
  <2>2. CASE item \in replay'.todo
    BY <2>1, <2>2 DEF ToCome, InTodo
  <2>3. CASE item \notin replay'.todo
    <3>0. ~IndexAnalysed /\ ~CancelAnalysis /\ ~IndexFails /\ ~PostIndex /\ ~IndexReady /\ ~ReplayTake
      BY <2>1, IndexAnswered DEF CancelAnalysis, PostIndex, IndexReady, ReplayTake
    <3>1. ReplayChange
      <4>1. \A pc : [replay EXCEPT !.pc = pc].todo = replay.todo
        BY <1>0 DEF ReplayTyped
      <4>2. ASSUME NEW k, ReplayPassed(k) PROVE FALSE
        BY <2>1, <2>3, <4>1, <4>2 DEF ReplayPassed
      <4>3. ASSUME NEW g \in File, LiveTimer(g) \/ Save(g) PROVE FALSE
        BY <1>0, <2>1, <2>3, <4>2, <4>3, LiveTimerMoves, SaveMoves
      <4>4. ~SyncFile /\ ~SyncRead
        BY <1>0, <2>1, <2>3, <4>2, SyncFileMoves, SyncReadMoves
      <4>5. ~ReplayRead
        <5>1. ReplayRead => \/ replay' = [replay EXCEPT !.pc = "next"]
                            \/ replay' = [replay EXCEPT !.pc = "posted", !.file = replay.file]
          BY <1>0, ReplayReadMoves
        <5>2. [replay EXCEPT !.pc = "posted", !.file = replay.file].todo = replay.todo
          BY <1>0 DEF ReplayTyped
        <5> QED
          BY <2>1, <2>3, <4>1, <5>1, <5>2
      <4>6. ~AnswerUpdate /\ ~AnswerRemove /\ ~AnswerReanalyze
        BY <2>1, <2>3, <4>1 DEF AnswerUpdate, AnswerRemove, AnswerReanalyze, Resume
      <4> QED
        BY <2>1, <2>3, <3>0, <4>3, <4>4, <4>5, <4>6, ReplaySteps
    <3>2. PICK it \in replay.todo :
             \/ it.change.kind = "delete" /\ analysed[it.file] = 0 /\ replay' = Replayed(it)
             \/ it.change.kind = "delete" /\ replay' = Removing(Replayed(it), it.file)
             \/ /\ it.change.kind = "document"
                /\ \E k : Posts(k, it.file, it.change.text, "replay")
                /\ replay' = [Replayed(it) EXCEPT !.pc = "posted", !.file = it.file]
             \/ replay' = [Replayed(it) EXCEPT !.pc = "reading", !.file = it.file]
      BY <1>0, <3>1, ReplayChangeMoves
    <3>3. it = item
      BY <1>0, <2>1, <2>3, <3>2 DEF ReplayTyped, Replayed, Removing
    <3>4. CASE it.change.kind = "delete" /\ analysed[it.file] = 0
      BY <1>0, <1>3, <2>1, <3>2, <3>3, <3>4 DEF DeletionsBite
    <3>5. CASE replay' = Removing(Replayed(it), it.file)
      <4>1. replay'.pc = "removing" /\ replay'.file = f
        BY <1>0, <2>1, <3>3, <3>5 DEF ReplayTyped, Replayed, Removing
      <4> QED
        BY <4>1 DEF ToCome, InHand
    <3>6. CASE it.change.kind = "document" /\ \E k : Posts(k, it.file, it.change.text, "replay")
      <4>1. it.change.text = editor[f]
        BY <1>0, <1>3, <2>1, <3>3, <3>6 DEF LatestReplayed
      <4> QED
        BY <2>1, <3>1, <3>3, <3>6, <4>1 DEF Replays
    <3>7. CASE replay' = [Replayed(it) EXCEPT !.pc = "reading", !.file = it.file]
      <4>1. replay'.pc = "reading" /\ replay'.file = f
        BY <1>0, <2>1, <3>3, <3>7 DEF ReplayTyped, Replayed
      <4> QED
        BY <4>1 DEF ToCome, InHand
    <3> QED
      BY <3>2, <3>4, <3>5, <3>6, <3>7
  <2> QED
    BY <2>2, <2>3
<1>4. CASE ~InQueue(f) /\ ~InTodo(f) /\ InHand(f)
  <2>1. replay.pc \in {"reading", "removing", "reanalyzing"} /\ replay.file = f
    BY <1>4 DEF InHand
  <2>2. ~ReplayRead
    BY <1>0, <2>1 DEF ReplayRead, LateRead
  <2>3. ~(AnswerReanalyze /\ Head(worker).by # "sync" /\ replay.pc = "reanalyzing")
    <3>1. SUFFICES ASSUME AnswerReanalyze, Head(worker).by # "sync", replay.pc = "reanalyzing"
                   PROVE  FALSE
      OBVIOUS
    <3>2. analysed[f] = 0
      BY <1>0, <2>1, <3>1, ReanalyzeMarks
    <3> QED
      BY <1>4, <2>1, <3>1, <3>2 DEF DeletionsBite
  <2>4. UNCHANGED replay \/ replay' = [replay EXCEPT !.pc = "reanalyzing"]
    BY <2>1, <2>2, <2>3, HandStays
  <2>5. replay'.pc \in {"reading", "removing", "reanalyzing"} /\ replay'.file = f
    BY <1>0, <2>1, <2>4 DEF ReplayTyped
  <2> QED
    BY <2>5 DEF ToCome, InHand
<1> QED
  BY <1>2, <1>3, <1>4 DEF ToCome

LEMMA LatestPostedNext ==
    ASSUME IInv, TextInv, Next
    PROVE  LatestPosted'
<1> USE DEF IInv, TextInv
<1> SUFFICES ASSUME step' = "replaying", NEW i \in DOMAIN worker', NEW f, worker'[i].file = f,
                    worker'[i].kind = "update", Unsaved(f)', worker'[i].text # editor'[f]
             PROVE  ToCome(f)'
  BY DEF LatestPosted
<1>0. f \in File /\ editor'[f] # 0 /\ f \notin overwritten'
  BY FitNext DEF Fit, WorkerTyped, WellFormed, Unsaved
<1>1. CASE IndexAnalysed
  BY <1>0, <1>1, AnswerQueues DEF ToCome
<1>2. CASE ~IndexAnalysed
  <2>1. step = "replaying"
    BY <1>2, ReplayingBefore
  <2>2. CASE Edit(f)
    BY <1>0, <2>1, <2>2, EditQueues DEF ToCome
  <2>3. CASE editor'[f] = editor[f]
    <3>1. ASSUME NEW k, NEW item, Replays(k, item), item.file = f, item.change.text # editor[f]
          PROVE  ToCome(f)'
      <4>1. item \in replay.todo /\ item.change.kind = "document" /\ ~ReplayTake
        BY <3>1 DEF Replays, ReplayTake
      <4>2. InQueue(f)
        BY <1>0, <2>1, <2>3, <3>1, <4>1 DEF LatestReplayed
      <4> QED
        BY <1>0, <2>1, <4>1, <4>2, QueueStays DEF ToCome
    <3>2. ASSUME NEW j \in DOMAIN worker, worker'[i] = worker[j], Answers => j # 1
          PROVE  ToCome(f)'
      <4>1. Unsaved(f)
        <5>1. SUFFICES ASSUME AnswerUpdate, Head(worker).kind = "update", Head(worker).file = f
                       PROVE  FALSE
          BY <1>0, <2>1, <2>3, UnsavedBefore
        <5>2. worker # <<>> /\ worker' = Tail(worker)
          BY <5>1 DEF AnswerUpdate
        <5>3. Answers /\ worker[1].kind = "update" /\ worker[1].file = f
          BY <5>1, <5>2, AnswerMoves DEF Answers, Fixed
        <5>4. 1 \in DOMAIN worker
          BY <5>3 DEF Answers
        <5> QED
          BY <3>2, <5>3, <5>4 DEF Fixed, OneUpdate
      <4>2. ToCome(f)
        BY <2>1, <2>3, <3>2, <4>1 DEF LatestPosted
      <4>3. CASE \E k, item : Replays(k, item) /\ item.file = f /\ item.change.text = editor[f]
        <5>1. PICK k, item : Replays(k, item) /\ item.file = f /\ item.change.text = editor[f]
          BY <4>3
        <5> DEFINE r == Request("update", f, editor[f], "replay")
        <5>2. Sends(k, r) /\ r.kind = "update" /\ r.file = f /\ r.text = editor[f]
          BY <5>1, RequestFields DEF Replays, Posts
        <5> HIDE DEF r
        <5>3. Left(k) \in Nat /\ DOMAIN worker' = 1..(Left(k) + 1) /\ worker'[Left(k) + 1] = r
          BY <5>2, AfterSend DEF Fixed, Types
        <5>4. Left(k) + 1 \in DOMAIN worker'
          BY <5>3
        <5>5. i = Left(k) + 1
          BY <5>2, <5>3, <5>4, FitNext DEF Fit, OneUpdate
        <5> QED
          BY <2>3, <5>2, <5>3, <5>5
      <4> QED
        BY <1>0, <2>1, <2>3, <4>1, <4>2, <4>3, ToComeStays
    <3> QED
      BY <1>0, <2>1, <2>3, <3>1, <3>2, UpdateSource
  <2> QED
    BY <1>0, <2>2, <2>3, EditorSteps
<1> QED
  BY <1>1, <1>2

LEMMA LatestAnalysedNext ==
    ASSUME IInv, TextInv, Next
    PROVE  LatestAnalysed'
<1> USE DEF IInv, TextInv
<1> SUFFICES ASSUME step' = "replaying", NEW f \in File, Unsaved(f)', analysed'[f] # editor'[f]
             PROVE  \/ ToCome(f)'
                    \/ \E i \in DOMAIN worker' :
                          /\ worker'[i].kind = "update" /\ worker'[i].file = f
                          /\ worker'[i].by = "replay" /\ worker'[i].text = editor'[f]
  BY DEF LatestAnalysed, Updates
<1>0. editor'[f] # 0 /\ f \notin overwritten'
  BY DEF Unsaved
<1>1. CASE IndexAnalysed
  BY <1>0, <1>1, AnswerQueues DEF ToCome
<1>2. CASE ~IndexAnalysed
  <2>1. step = "replaying"
    BY <1>2, ReplayingBefore
  <2>2. CASE Edit(f)
    BY <1>0, <2>1, <2>2, EditQueues DEF ToCome
  <2>3. CASE editor'[f] = editor[f]
    <3>0. analysed \in [File -> Value]
      BY DEF Fixed, Types, SessionTyped
    <3>1. Unsaved(f)
      <4>1. SUFFICES ASSUME AnswerUpdate, Head(worker).file = f, Head(worker).text = editor[f]
                     PROVE  FALSE
        BY <1>0, <2>1, <2>3, UnsavedBefore
      <4>2. analysed'[f] = editor[f]
        BY <3>0, <4>1 DEF AnswerUpdate
      <4> QED
        BY <2>3, <4>2
    <3>2. CASE ToCome(f)
      <4>1. ASSUME NEW k, NEW item, Replays(k, item), item.file = f, item.change.text = editor[f]
            PROVE  \E i \in DOMAIN worker' :
                      /\ worker'[i].kind = "update" /\ worker'[i].file = f
                      /\ worker'[i].by = "replay" /\ worker'[i].text = editor[f]
        <5> DEFINE r == Request("update", f, editor[f], "replay")
        <5>1. /\ Sends(k, r) /\ r.kind = "update" /\ r.file = f /\ r.text = editor[f]
              /\ r.by = "replay"
          BY <4>1, RequestFields DEF Replays, Posts
        <5> HIDE DEF r
        <5>2. Left(k) \in Nat /\ DOMAIN worker' = 1..(Left(k) + 1) /\ worker'[Left(k) + 1] = r
          BY <5>1, AfterSend DEF Fixed, Types
        <5>3. Left(k) + 1 \in DOMAIN worker'
          BY <5>2
        <5> QED
          BY <5>1, <5>2, <5>3
      <4> QED
        BY <1>0, <2>1, <2>3, <3>1, <3>2, <4>1, ToComeStays
    <3>3. CASE ~ToCome(f) /\ AnswerUpdate /\ Head(worker).file = f
      <4>1. analysed'[f] = Head(worker).text
        BY <3>0, <3>3 DEF AnswerUpdate
      <4>2. /\ 1 \in DOMAIN worker /\ Head(worker) = worker[1] /\ worker[1].kind = "update"
        BY <3>3, HeadOfWorker DEF AnswerUpdate, Fixed, Types
      <4> QED
        BY <2>1, <2>3, <3>1, <3>3, <4>1, <4>2 DEF LatestPosted
    <3>4. CASE ~ToCome(f) /\ ~(AnswerUpdate /\ Head(worker).file = f)
      <4>1. analysed'[f] = analysed[f]
        <5>1. ~CancelAnalysis /\ ~IndexFails
          BY <2>1, IndexAnswered DEF CancelAnalysis
        <5>2. AnswerUpdate => analysed'[f] = analysed[f]
          BY <3>0, <3>4 DEF AnswerUpdate
        <5>3. AnswerReanalyze => analysed'[f] = analysed[f]
          BY <1>0, <2>3, ReanalyzeMarks
        <5> QED
          BY <1>2, <5>1, <5>2, <5>3, AnalysisSteps DEF ReplayRead, SyncRead
      <4>2. PICK j \in DOMAIN worker :
               /\ worker[j].kind = "update" /\ worker[j].file = f
               /\ worker[j].by = "replay" /\ worker[j].text = editor[f]
        BY <2>1, <2>3, <3>1, <3>4, <4>1 DEF LatestAnalysed, Updates
      <4>3. replay.pc = "posted"
        BY <4>2 DEF Fixed, AwaitedRequests, Awaits
      <4>4. ASSUME NEW k, Loses(k) \/ (\E r : Sends(k, r)), j # k
            PROVE  \E i \in DOMAIN worker' : worker'[i] = worker[j]
        BY <4>4, AfterLoss, AfterSend DEF Fixed, Types
      <4>5. CASE Answers
        <5>1. j # 1
          BY <3>4, <4>2, <4>5 DEF Answers
        <5> QED
          BY <2>3, <4>2, <4>4, <4>5, <5>1 DEF Answers
      <4>6. ASSUME NEW k, NEW r, Sends(k, r), k \in DOMAIN worker => worker[k].kind # "update"
            PROVE  \E i \in DOMAIN worker' : worker'[i] = worker[j]
        BY <4>2, <4>4, <4>6
      <4>7. ~\E k, item : Replays(k, item)
        BY <4>3 DEF Replays, ReplayChange
      <4>8. ASSUME NEW k, NEW g, NEW text, NEW by, Reads(k, g, text, by)
            PROVE  \E i \in DOMAIN worker' : worker'[i] = worker[j]
        <5>1. g # f
          BY <1>0, <2>3, <4>8 DEF Reads
        <5>2. Sends(k, Request("update", g, text, by)) /\ k # j
          BY <4>2, <4>8, <5>1 DEF Reads, Posts, Updates
        <5> QED
          BY <4>4, <5>2
      <4> QED
        BY <2>1, <2>3, <4>2, <4>5, <4>6, <4>7, <4>8, ReplayingMoves
    <3> QED
      BY <3>2, <3>3, <3>4
  <2> QED
    BY <1>0, <2>2, <2>3, EditorSteps
<1> QED
  BY <1>1, <1>2

LEMMA DeletionsBiteNext ==
    ASSUME IInv, TextInv, Next
    PROVE  DeletionsBite'
<1> USE DEF IInv, TextInv
<1> SUFFICES ASSUME step' = "replaying", NEW f \in File, Unsaved(f)', analysed'[f] = 0
             PROVE  /\ dirtyQueue'[f].kind # "delete"
                    /\ \A item \in replay'.todo :
                          item.file = f /\ item.change.kind = "delete" => InQueue(f)'
                    /\ replay'.pc \in {"removing", "reanalyzing"} /\ replay'.file = f =>
                          InQueue(f)' \/ InTodo(f)'
  BY DEF DeletionsBite
<1>0. editor'[f] # 0 /\ f \notin overwritten'
  BY DEF Unsaved
<1>1. CASE IndexAnalysed
  BY <1>0, <1>1, AnswerQueues
<1>2. CASE ~IndexAnalysed
  <2>1. step = "replaying"
    BY <1>2, ReplayingBefore
  <2>2. CASE Edit(f)
    BY <1>0, <2>1, <2>2, EditQueues
  <2>3. CASE editor'[f] = editor[f]
    <3>0. analysed \in [File -> Value] /\ dirtyQueue \in [File -> Change] /\ ReplayTyped
          /\ Types /\ OneUpdate
      BY DEF Fixed, Types, SessionTyped, QueueTyped
    <3>1. Unsaved(f)
      <4>1. SUFFICES ASSUME AnswerUpdate, Head(worker).file = f, Head(worker).text = editor[f]
                     PROVE  FALSE
        BY <1>0, <2>1, <2>3, UnsavedBefore
      <4>2. analysed'[f] = editor[f]
        BY <3>0, <4>1 DEF AnswerUpdate
      <4> QED
        BY <1>0, <2>3, <4>2
    <3>2. analysed[f] = 0
      <4>1. ~CancelAnalysis /\ ~IndexFails
        BY <2>1, IndexAnswered DEF CancelAnalysis
      <4>2. AnswerUpdate => analysed'[f] = analysed[f]
        <5>1. AnswerUpdate => Head(worker).text # 0
          BY <3>0, HeadOfWorker DEF AnswerUpdate, Types, WellFormed
        <5> QED
          BY <3>0, <5>1 DEF AnswerUpdate
      <4>3. AnswerReanalyze => analysed'[f] = analysed[f]
        BY <1>0, <2>3, ReanalyzeMarks
      <4> QED
        BY <1>2, <4>1, <4>2, <4>3, AnalysisSteps DEF ReplayRead, SyncRead
    <3>3. /\ dirtyQueue[f].kind # "delete"
          /\ \A item \in replay.todo : item.file = f /\ item.change.kind = "delete" => InQueue(f)
          /\ replay.pc \in {"removing", "reanalyzing"} /\ replay.file = f => InQueue(f) \/ InTodo(f)
      BY <2>1, <3>1, <3>2 DEF DeletionsBite
    <3>4. dirtyQueue'[f].kind # "delete"
      <4>1. ASSUME NEW g, NEW kind \in {"document", "file"}, NEW text, Queue(g, kind, text)
            PROVE  dirtyQueue'[f].kind # "delete"
        BY <3>0, <3>3, <4>1 DEF Queue
      <4>2. dirtyQueue' = NoChanges => dirtyQueue'[f].kind # "delete"
        BY DEF NoChanges, NoChange
      <4>3. ASSUME NEW g \in File, Edit(g) \/ LiveTimer(g) PROVE dirtyQueue'[f].kind # "delete"
        <5>1. \E text : Queue(g, "document", text)
          BY <2>1, <4>3 DEF Edit, LiveTimer, Indexing
        <5> QED
          BY <4>1, <5>1
      <4>4. SyncFile => dirtyQueue'[f].kind # "delete"
        <5>1. SyncFile => dirtyQueue' = dirtyQueue \/ \E g, text : Queue(g, "document", text)
          BY DEF SyncFile
        <5> QED
          BY <3>3, <4>1, <5>1
      <4>5. SyncLookup => dirtyQueue'[f].kind # "delete"
        <5>1. \/ analysed[sync.file] # 0 /\ Queue(sync.file, "delete", 0)
              \/ Queue(sync.file, "file", 0) \/ dirtyQueue' = dirtyQueue \/ ~SyncLookup
          BY DEF SyncLookup
        <5>2. ASSUME analysed[sync.file] # 0, Queue(sync.file, "delete", 0)
              PROVE  dirtyQueue'[f] = dirtyQueue[f]
          BY <3>0, <3>2, <5>2 DEF Queue
        <5> QED
          BY <3>3, <4>1, <5>1, <5>2
      <4>6. ~IndexFails
        BY <2>1, IndexAnswered
      <4> QED
        BY <1>2, <2>1, <3>3, <4>2, <4>3, <4>4, <4>5, <4>6, QueueSteps DEF StartIndex, CancelIndex,
           CancelAnalysis, EndIndex, Indexing, ReplayTake, QueueTaken, Reconciled, SyncBegin
    <3>5. ASSUME NEW item \in replay'.todo, item.file = f, item.change.kind = "delete"
          PROVE  InQueue(f)'
      <4>1. CASE ReplayTake
        <5>1. PICK g \in Queued : item = [file |-> g, change |-> dirtyQueue[g]]
          BY <3>0, <4>1 DEF ReplayTake, ReplayTyped
        <5> QED
          BY <3>3, <3>5, <5>1
      <4>2. CASE ~ReplayTake
        <5>1. InQueue(f)
          BY <3>3, <3>5, <4>2, ReplayTodo
        <5> QED
          BY <2>1, <4>2, <5>1, QueueStays
      <4> QED
        BY <4>1, <4>2
    <3>6. ASSUME replay'.pc \in {"removing", "reanalyzing"}, replay'.file = f
          PROVE  InQueue(f)' \/ InTodo(f)'
      <4>1. ~ReplayChange /\ ~ReplayTake
        <5>1. ~ReplayTake
          BY <3>0, <3>6 DEF ReplayTake, ReplayTyped
        <5>2. SUFFICES ASSUME ReplayChange PROVE FALSE
          BY <5>1
        <5>3. PICK item \in replay.todo :
                 \/ replay' = Replayed(item)
                 \/ analysed[item.file] # 0 /\ replay' = Removing(Replayed(item), item.file)
                 \/ replay' = [Replayed(item) EXCEPT !.pc = "posted", !.file = item.file]
                 \/ replay' = [Replayed(item) EXCEPT !.pc = "reading", !.file = item.file]
          BY <3>0, <5>2, ReplayChangeMoves
        <5>4. replay.pc = "next"
          BY <5>2 DEF ReplayChange
        <5> QED
          BY <3>0, <3>2, <3>6, <5>3, <5>4 DEF ReplayTyped, Replayed, Removing
      <4>2. replay.pc \in {"removing", "reanalyzing"} /\ replay.file = f /\ replay'.todo = replay.todo
        <5>0. /\ \A pc : /\ [replay EXCEPT !.pc = pc].pc = pc
                         /\ [replay EXCEPT !.pc = pc].file = replay.file
                         /\ [replay EXCEPT !.pc = pc].todo = replay.todo
              /\ NoTask.pc = "idle"
          BY <3>0, NoTaskTyped DEF ReplayTyped
        <5>1. CASE UNCHANGED replay
          BY <3>6, <5>1
        <5>2. ASSUME NEW k, ReplayPassed(k) PROVE UNCHANGED replay
          BY <3>6, <5>0, <5>2 DEF ReplayPassed
        <5>3. (\E g \in File : LiveTimer(g) \/ Save(g)) \/ SyncFile \/ SyncRead => UNCHANGED replay
          BY <3>0, <5>2, LiveTimerMoves, SaveMoves, SyncFileMoves, SyncReadMoves
        <5>4. ~PostIndex /\ ~CancelAnalysis /\ ~IndexFails /\ ~IndexReady
          BY <2>1, <3>6, <5>0, IndexAnswered DEF PostIndex, CancelAnalysis, IndexReady
        <5>5. ~ReplayRead
          <6>1. ReplayRead => replay'.pc \in {"next", "posted"}
            BY <3>0, <5>0, ReplayReadMoves DEF ReplayTyped
          <6> QED
            BY <3>6, <6>1
        <5>6. AnswerUpdate \/ AnswerReanalyze => UNCHANGED replay
          BY <3>6, <5>0 DEF AnswerUpdate, AnswerReanalyze, Resume
        <5>7. CASE AnswerRemove
          <6>1. \/ UNCHANGED replay
                \/ replay.pc = "removing" /\ replay' = [replay EXCEPT !.pc = "reanalyzing"]
            BY <3>0, <5>7, AnswerRemoveMoves DEF Fixed, AwaitedRequests, Awaits, Resume
          <6> QED
            BY <3>6, <5>0, <6>1
        <5> QED
          BY <1>2, <4>1, <5>1, <5>3, <5>4, <5>5, <5>6, <5>7, ReplaySteps
      <4>3. InQueue(f) \/ InTodo(f)
        BY <3>3, <4>2
      <4>4. InTodo(f) => InTodo(f)'
        BY <4>2 DEF InTodo
      <4> QED
        BY <2>1, <4>1, <4>3, <4>4, QueueStays
    <3> QED
      BY <3>4, <3>5, <3>6
  <2> QED
    BY <1>0, <2>2, <2>3, EditorSteps
<1> QED
  BY <1>1, <1>2

LEMMA TextInvInit ==
    ASSUME Init
    PROVE  TextInv
BY DEF Init, TextInv, LatestQueued, Indexing, LatestReplayed, LatestPosted, LatestAnalysed, DeletionsBite

LEMMA TextInvStep ==
    ASSUME IInv, TextInv, [Next]_vars
    PROVE  TextInv'
<1>1. CASE Next
  <2>1. LatestQueued'
    BY <1>1, LatestQueuedNext DEF TextInv
  <2>2. LatestReplayed'
    BY <1>1, LatestReplayedNext DEF TextInv
  <2> QED
    BY <1>1, <2>1, <2>2, LatestPostedNext, LatestAnalysedNext, DeletionsBiteNext DEF TextInv
<1>2. CASE UNCHANGED vars
  BY <1>2 DEF vars, world, session, index, TextInv, LatestQueued, Indexing, LatestReplayed,
     LatestPosted, LatestAnalysed, DeletionsBite, Unsaved, ToCome, InQueue, InTodo, InHand, Updates
<1> QED
  BY <1>1, <1>2

LEMMA ReadyHasTexts ==
    ASSUME IInv, TextInv, Next, phase # "ready", phase' = "ready",
           NEW f \in File, f \notin overwritten, editor[f] # 0
    PROVE  analysed[f] = editor[f]
<1> USE DEF IInv, TextInv
<1>1. IndexReady
  BY IndexSteps DEF ReadFile, StartIndex, PostIndex, CancelIndex, CancelAnalysis, IndexFails,
     IndexAnalysed, Reconciled, SyncBegin, BeginIndex, index
<1>2. replay.pc = "next" /\ replay.todo = {} /\ Queued = {} /\ step = "replaying"
  BY <1>1 DEF IndexReady, Fixed, Stages
<1>3. ~InQueue(f)
  BY <1>2 DEF Queued, InQueue, NoChange
<1>4. ~InTodo(f) /\ ~InHand(f)
  BY <1>2 DEF InTodo, InHand
<1>5. \A i \in DOMAIN worker : worker[i].by # "replay"
  BY <1>2 DEF Fixed, AwaitedRequests, Awaits
<1> QED
  BY <1>2, <1>3, <1>4, <1>5 DEF LatestAnalysed, Unsaved, ToCome, Updates

(* When an index turns ready, what it analysed of an unsaved document is   *)
(* its text of that moment, edits made during the index included, but for  *)
(* the documents whose analysis a removal or a late read took away.        *)
THEOREM UnsavedTextsIndexed == Spec => UnsavedTextIndexed
<1>1. Init => TextInv
  BY TextInvInit
<1>2. IInv /\ TextInv /\ [Next]_vars => TextInv'
  BY TextInvStep
<1>3. IInv /\ TextInv /\ [Next]_vars =>
        [phase # "ready" /\ phase' = "ready" =>
            \A f \in File \ overwritten : editor[f] # 0 => analysed[f] = editor[f]]_vars
  BY ReadyHasTexts
<1> QED
  BY <1>1, <1>2, <1>3, SessionInvariant, PTL DEF Spec, UnsavedTextIndexed
-----------------------------------------------------------------------------
(* The queue of the monitor stays bounded.                                 *)
QueueBounded ==
    Cardinality(changes) <= MaxPending /\ Cardinality(batch.changes) <= MaxPending

\* The instance of the monitor has its own copy of Cardinality.
LEMMA SameCardinality ==
    ASSUME NEW S
    PROVE  Mon!Cardinality(S) = Cardinality(S)
  BY DEF Mon!Cardinality, Cardinality

LEMMA QueueBoundedStep ==
    ASSUME IInv, QueueBounded, [Next]_vars
    PROVE  QueueBounded'
<1>0. MonitorTyped /\ Cardinality({}) <= MaxPending
  BY FS_EmptySet, MaxPendingIsPositive DEF IInv, Fixed, Types
<1>1. ASSUME NEW f \in File, Notify(f) PROVE QueueBounded'
  <2> DEFINE paths == IF rescan THEN changes ELSE changes \union {f}
  <2>1. CASE UNCHANGED monitor
    BY <2>1 DEF QueueBounded, monitor
  <2>2. CASE changes' = {} /\ UNCHANGED batch
    BY <1>0, <2>2 DEF QueueBounded
  <2>3. CASE changes' = paths /\ ~Mon!Overfull(paths) /\ UNCHANGED batch
    <3>1. paths \in SUBSET File
      BY <1>0 DEF MonitorTyped
    <3> HIDE DEF paths
    <3>2. IsFiniteSet(paths)
      BY <3>1, FileIsFinite, FS_Subset
    <3>3. Cardinality(paths) \in Nat
      BY <3>2, FS_CardinalityType
    <3>4. Cardinality(paths) <= MaxPending
      BY <2>3, <3>3, MaxPendingIsPositive, SameCardinality DEF Mon!Overfull
    <3> QED
      BY <2>3, <3>4 DEF QueueBounded
  <2> QED
    BY <1>1, <2>1, <2>2, <2>3 DEF Notify, Mon!Enqueue
<1>2. ASSUME Mon!TakeBatch PROVE QueueBounded'
  BY <1>0, <1>2 DEF QueueBounded, Mon!TakeBatch
<1>3. CASE changes' = changes /\ batch' \in {batch, Mon!NoBatch}
  BY <1>0, <1>3 DEF QueueBounded, Mon!NoBatch
<1>4. SyncFails => changes' = changes /\ batch' = Mon!NoBatch
  BY DEF SyncFails, Mon!BatchFails
<1>5. Mon!BatchSucceeds => Mon!TakeBatch \/ (changes' = changes /\ batch' = Mon!NoBatch)
  BY DEF Mon!BatchSucceeds
<1>6. MonitorFlush => Mon!TakeBatch \/ (changes' = changes /\ batch' = batch)
  BY DEF MonitorFlush, Mon!Flush, Mon!queue
<1>7. UNCHANGED monitor \/ IndexReady => changes' = changes /\ batch' = batch
  BY DEF monitor, IndexReady
<1>8. \/ \E f \in File : Notify(f)
      \/ SyncFails \/ Mon!BatchSucceeds \/ MonitorFlush \/ IndexReady \/ UNCHANGED monitor
  BY DEF Next, Edit, LiveTimer, PostLive, Save, External, Watch, ReadFile, StartIndex,
         PostIndex, CancelIndex, CancelAnalysis, IndexFails, IndexAnalysed, ReplayTake,
         ReplayChange, PostReplay, ReplayRead, Reconciled, SyncBegin, SyncIndexed, SyncFile,
         SyncLookup, SyncRead, SyncDone, AnswerUpdate, AnswerRemove, AnswerReanalyze, vars
<1> QED
  BY <1>1, <1>2, <1>3, <1>4, <1>5, <1>6, <1>7, <1>8

LEMMA TypesSayOK ==
    ASSUME IInv, QueueBounded
    PROVE  TypeOK
<1> USE DEF IInv, Fixed, Types
<1>1. Mon!TypeOK
  <2>1. /\ changes \in SUBSET File /\ owed \in SUBSET File /\ taken \in SUBSET File
        /\ batch \in [rescan : BOOLEAN, changes : SUBSET File] /\ disposed \in BOOLEAN
    BY DEF MonitorTyped
  <2>2. /\ rescan \in BOOLEAN /\ timer \in BOOLEAN /\ running \in BOOLEAN
        /\ pending \in BOOLEAN /\ failed \in BOOLEAN
    BY DEF MonitorTyped
  <2> QED
    BY <2>1, <2>2, SameCardinality DEF QueueBounded, Mon!TypeOK
<1>2. replay \in Task({"idle", "next", "reading", "posted", "removing", "reanalyzing"})
  BY DEF ReplayTyped, Task, Busy, Item, MaybeFile, Value
<1>3. /\ sync.pc \in {"idle", "wait", "index", "next", "lookup", "reading", "posted",
                      "removing", "reanalyzing"}
      /\ sync.todo \in SUBSET File /\ running = (sync.pc # "idle")
  <2>1. running \in BOOLEAN /\ (running <=> sync.pc # "idle")
    BY DEF MonitorTyped, Stages
  <2>2. running = (sync.pc # "idle")
    BY <2>1, Zenon
  <2> QED
    BY <2>2 DEF SyncTyped, Busy
<1>4. ASSUME NEW f \in File PROVE Cardinality(Updates(f)) <= 1
  <2>1. CASE Updates(f) = {}
    BY <2>1, FS_EmptySet
  <2>2. CASE Updates(f) # {}
    <3>1. PICK i \in Updates(f) : TRUE
      BY <2>2
    <3>2. Updates(f) = {i}
      BY <3>1 DEF Updates, OneUpdate
    <3>3. Cardinality({i}) = 1
      BY FS_Singleton
    <3> QED
      BY <3>2, <3>3
  <2> QED
    BY <2>1, <2>2
<1> QED
  BY <1>1, <1>2, <1>3, <1>4 DEF TypeOK, WorldTyped, SessionTyped, QueueTyped, Value

(* Every variable of the session keeps its type, the queue of the monitor  *)
(* its bound, and the worker never holds two updates of one file.          *)
THEOREM SessionTypes == Spec => []TypeOK
<1>1. Init => QueueBounded
  BY FS_EmptySet, MaxPendingIsPositive DEF Init, Mon!Init, Mon!NoBatch, QueueBounded
<1>2. IInv /\ QueueBounded /\ [Next]_vars => QueueBounded'
  BY QueueBoundedStep
<1>3. IInv /\ QueueBounded => TypeOK
  BY TypesSayOK
<1> QED
  BY <1>1, <1>2, <1>3, SessionInvariant, PTL DEF Spec
=============================================================================
