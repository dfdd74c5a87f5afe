---------------------------- MODULE EvidenceNotes ----------------------------
(* The audit notes of a reviewer: pieces of code with a place, kept in the  *)
(* state of the workspace (audit-session.js), found again in files that     *)
(* were edited (review/evidence-anchor.js), moved along with files that are *)
(* renamed, exported and imported. Every change of the notes is a write of  *)
(* the chain evidenceWrite: it starts when the one before has ended, and    *)
(* reads and stores all notes. The commands (audit-controller.js) read      *)
(* before they ask for a write, and wait for the reviewer in between.       *)
EXTENDS Integers, Sequences, FiniteSets, SequencesExt

CONSTANTS
    Docs,           \* the documents noted
    Paths,          \* where documents may be
    FirstPath,      \* where each is at first
    Texts,          \* Texts[d]: the texts document d may have, sequences of lines
    Content(_),     \* what is written on a line; lines that read the same are still different lines
    Noted,          \* bound: the lines the reviewer may note
    Ids,            \* bound: the notes there may ever be
    Earlier,        \* the notes of earlier sessions
    Colleague,      \* the notes of the review session file at first
    MaxCommands,    \* bound on what the reviewer asks for
    MaxEdits,       \* bound on edits
    MaxRenames      \* bound on renames

VARIABLES
    path,       \* where each document is
    text,       \* and what is in it
    notes,      \* the notes stored
    exported,   \* the notes of the review session file
    writes,     \* the chain of writes, the first one under way
    phase,      \* of the first: "waiting" to start, "merging" or "saving"
    read,       \* the notes a merging import has read
    asks,       \* commands that wait for a document or for the reviewer
    renames,    \* renames the extension was not told of yet
    done        \* [commands, edits, renames, ids]: what was used up
vars == <<path, text, notes, exported, writes, phase, read, asks, renames, done>>

NoAnchor == [version |-> 0]

(* A note: a piece of code with its place, the lines around it, and what    *)
(* was last found out of its place. The fields of and late only serve the   *)
(* properties: the line the code was taken from, and whether the path was   *)
(* outdated for good when the note was written.                             *)
Line == UNION {Range(t) : t \in UNION Range(Texts)}
Written == {Content(l) : l \in Line} \union {"clues"}
Anchor == [before : Seq(Written), after : Seq(Written)] \union {NoAnchor}
Status == {"new", "current", "relocated", "stale"}
Note == [id : Ids, doc : Docs, path : Paths, line : Nat \ {0}, code : Written, of : Line,
         anchor : Anchor, status : Status, late : BOOLEAN]
CodeAsTaken(n) == n.anchor = NoAnchor \/ n.code = Content(n.of)

ASSUME FirstPathsDiffer ==
    FirstPath \in [Docs -> Paths] /\ \A d, e \in Docs : FirstPath[d] = FirstPath[e] => d = e
ASSUME TextsAreLines == DOMAIN Texts = Docs /\ \A d \in Docs : \A t \in Texts[d] : t \in Seq(Range(t))
ASSUME NotesBefore ==
    /\ Earlier \in SUBSET Note /\ Colleague \in SUBSET Note
    /\ \A n \in Earlier \union Colleague : CodeAsTaken(n)
    /\ \A n \in Earlier : n.path = FirstPath[n.doc] \/ n.late
ASSUME BoundsAreNumbers == MaxCommands \in Nat /\ MaxEdits \in Nat /\ MaxRenames \in Nat

Contents(lines) == [i \in DOMAIN lines |-> Content(lines[i])]
Smaller(a, b) == IF a < b THEN a ELSE b
Larger(a, b) == IF a < b THEN b ELSE a

(* contextAnchor: up to two lines before and two lines after.               *)
ContextAnchor(lines, line) ==
    [before |-> Contents(SubSeq(lines, Larger(1, line - 2), Smaller(line - 1, Len(lines)))),
     after |-> Contents(SubSeq(lines, line + 1, Smaller(Len(lines), line + 2)))]

(* A slip of resolveEvidenceLocation: the first of several matches is taken. *)
ResolveFirst(note, lines) ==
    LET matches == {i \in DOMAIN lines : Content(lines[i]) = note.code}
    IN  IF matches = {} THEN [status |-> "stale", line |-> note.line]
        ELSE [status |-> "current", line |-> CHOOSE i \in matches : \A j \in matches : i <= j]

(* resolveEvidenceLocation: where the code stands, if it stands in one place *)
(* or has its context in one. Code is one whole line here.                  *)
ResolveEvidenceLocation(note, lines) ==
    LET matches == {i \in DOMAIN lines : Content(lines[i]) = note.code}
        candidates == IF Cardinality(matches) > 1 /\ note.anchor # NoAnchor
                      THEN {i \in matches : ContextAnchor(lines, i) = note.anchor} ELSE matches
    IN  IF Cardinality(candidates) # 1 THEN [status |-> "stale", line |-> note.line]
        ELSE LET line == CHOOSE i \in candidates : TRUE
             IN  [status |-> IF line = note.line THEN "current" ELSE "relocated", line |-> line]

Init ==
    /\ path = FirstPath
    /\ text \in {t \in [Docs -> UNION Range(Texts)] : \A d \in Docs : t[d] \in Texts[d]}
    /\ notes = Earlier /\ exported = Colleague
    /\ writes = <<>> /\ phase = "waiting" /\ read = {}
    /\ asks = {} /\ renames = <<>>
    /\ done = [commands |-> 0, edits |-> 0, renames |-> 0, ids |-> {n.id : n \in Colleague \union Earlier}]
-----------------------------------------------------------------------------
(* The workspace.                                                           *)
Edit(d) ==
    /\ done.edits < MaxEdits
    /\ \E t \in Texts[d] \ {text[d]} : text' = [text EXCEPT ![d] = t]
    /\ done' = [done EXCEPT !.edits = @ + 1]
    /\ UNCHANGED <<path, notes, exported, writes, phase, read, asks, renames>>

(* A rename shows on disk before onDidRenameFiles tells of it. It is kept   *)
(* as the write that it will lead to.                                       *)
Rename(d) ==
    /\ done.renames < MaxRenames
    /\ \E p \in Paths \ {path[e] : e \in Docs} :
          /\ path' = [path EXCEPT ![d] = p]
          /\ renames' = Append(renames, [op |-> "migrate", from |-> path[d], to |-> p])
    /\ done' = [done EXCEPT !.renames = @ + 1]
    /\ UNCHANGED <<text, notes, exported, writes, phase, read, asks>>
-----------------------------------------------------------------------------
(* The commands. A write joins the chain behind the ones asked for before.  *)
Command == done.commands < MaxCommands /\ done' = [done EXCEPT !.commands = @ + 1]
Write(w) == writes' = Append(writes, w)

(* randomUUID: one that was not used, as long as there is one.              *)
NewIds == {id \in Ids \ done.ids : id = CHOOSE x \in Ids \ done.ids : TRUE}

(* remapRenamedPath.                                                        *)
Moved(p, w) == IF w.op = "migrate" /\ p = w.from THEN w.to ELSE p

(* For the history variable late: whether the k-th write of a chain and     *)
(* those behind it take a note from path p to path q.                       *)
Leads(p, chain, k, q) ==
    \E way \in [k..Len(chain) + 1 -> Paths] :
        /\ way[k] = p /\ way[Len(chain) + 1] = q
        /\ \A i \in k..Len(chain) : way[i + 1] = Moved(way[i], chain[i])

(* What a write makes of the notes stored.                                  *)
After(w, stored) ==
    CASE w.op = "add" -> stored \union {w.note}
      [] w.op = "remove" -> {n \in stored : n.id # w.id}
      [] w.op = "migrate" -> {[n EXCEPT !.path = Moved(@, w)] : n \in stored}
      [] w.op = "locate" -> {IF n.id # w.id THEN n
                             ELSE IF w.location.status = "stale" THEN [n EXCEPT !.status = "stale"]
                             ELSE [n EXCEPT !.status = w.location.status, !.line = w.location.line] : n \in stored}
      [] w.op = "import" -> {n \in stored : \A m \in w.notes : m.id # n.id} \union w.notes

(* addSelectionEvidence reads the code and its line, then asks the reviewer *)
(* for a type and a note.                                                   *)
SelectCode(d) ==
    /\ Command
    /\ \E i \in {j \in DOMAIN text[d] : text[d][j] \in Noted} :
          asks' = asks \union {[op |-> "select", doc |-> d, path |-> path[d], line |-> i,
                                code |-> Content(text[d][i]), of |-> text[d][i]]}
    /\ UNCHANGED <<path, text, notes, exported, writes, phase, read, renames>>

(* addEvidenceForItem takes a list of clues for code, each with its line in *)
(* front, so that no line reads like it, from the targets there are when it *)
(* starts, which may be those of an earlier analysis.                       *)
SelectItem(d) ==
    /\ Command
    /\ \E i \in {j \in DOMAIN text[d] : text[d][j] \in Noted} :
          asks' = asks \union {[op |-> "item", doc |-> d, path |-> path[d], line |-> i,
                                code |-> "clues", of |-> text[d][i]]}
    /\ UNCHANGED <<path, text, notes, exported, writes, phase, read, renames>>

Add(a, anchor) ==
    \E id \in NewIds :
        /\ asks' = asks \ {a}
        /\ Write([op |-> "add", note |->
              [id |-> id, doc |-> a.doc, path |-> a.path, line |-> a.line, code |-> a.code, of |-> a.of,
               anchor |-> anchor, status |-> "new", late |-> ~Leads(a.path, renames, 1, path[a.doc])]])
        /\ done' = [done EXCEPT !.ids = @ \union {id}]

(* The anchor is read from the text there is when the reviewer has answered. *)
AddSelectionEvidence(a) ==
    /\ a \in asks /\ a.op = "select"
    /\ Add(a, ContextAnchor(text[a.doc], a.line))
    /\ UNCHANGED <<path, text, notes, exported, phase, read, renames>>

AddEvidenceForItem(a) ==
    /\ a \in asks /\ a.op = "item"
    /\ Add(a, NoAnchor)
    /\ UNCHANGED <<path, text, notes, exported, phase, read, renames>>

GiveUp(a) ==
    /\ a \in asks /\ a.op \in {"select", "item"}
    /\ asks' = asks \ {a}
    /\ UNCHANGED <<path, text, notes, exported, writes, phase, read, renames, done>>

RemoveEvidence ==
    /\ Command
    /\ \E n \in notes : Write([op |-> "remove", id |-> n.id])
    /\ UNCHANGED <<path, text, notes, exported, phase, read, asks, renames>>

(* openEvidence reads the note, then opens its file.                        *)
OpenEvidence ==
    /\ Command
    /\ \E n \in notes : asks' = asks \union {[op |-> "open", note |-> n]}
    /\ UNCHANGED <<path, text, notes, exported, writes, phase, read, renames>>

Located(note, lines) == [op |-> "locate", id |-> note.id, location |-> ResolveEvidenceLocation(note, lines)]

EvidenceOpened(a, d) ==
    /\ a \in asks /\ a.op = "open" /\ path[d] = a.note.path
    /\ asks' = asks \ {a}
    /\ Write(Located(a.note, text[d]))
    /\ UNCHANGED <<path, text, notes, exported, phase, read, renames, done>>

(* The file is not there.                                                   *)
EvidenceUnavailable(a) ==
    /\ a \in asks /\ a.op = "open" /\ \A d \in Docs : path[d] # a.note.path
    /\ asks' = asks \ {a}
    /\ Write([op |-> "locate", id |-> a.note.id, location |-> [status |-> "stale", line |-> a.note.line]])
    /\ UNCHANGED <<path, text, notes, exported, phase, read, renames, done>>

ExportReviewSession ==
    /\ Command
    /\ exported' = {[n EXCEPT !.status = "new"] : n \in notes}
    /\ UNCHANGED <<path, text, notes, writes, phase, read, asks, renames>>

ImportReviewSession ==
    /\ Command
    /\ Write([op |-> "import", notes |-> exported])
    /\ UNCHANGED <<path, text, notes, exported, phase, read, asks, renames>>

(* A slip of migrateEvidencePaths: it does not wait for its turn.           *)
MigrateAtOnce ==
    /\ renames # <<>>
    /\ notes' = After(Head(renames), notes)
    /\ renames' = Tail(renames)
    /\ UNCHANGED <<path, text, exported, writes, phase, read, asks, done>>

(* _onFilesRenamed: a write as any other.                                   *)
MigrateEvidencePaths ==
    /\ renames # <<>>
    /\ Write(Head(renames))
    /\ renames' = Tail(renames)
    /\ UNCHANGED <<path, text, notes, exported, phase, read, asks, done>>
-----------------------------------------------------------------------------
(* The chain.                                                               *)
(* _withEvidenceWrite. Only an import waits between its reading and its     *)
(* storing: it merges the decisions first.                                  *)
StartWrite ==
    /\ writes # <<>> /\ phase = "waiting"
    /\ IF Head(writes).op = "import"
       THEN phase' = "merging" /\ read' = notes /\ UNCHANGED notes
       ELSE phase' = "saving" /\ notes' = After(Head(writes), notes) /\ UNCHANGED read
    /\ UNCHANGED <<path, text, exported, writes, asks, renames, done>>

MergeImport ==
    /\ phase = "merging"
    /\ LET imported == {[m EXCEPT !.late = ~Leads(m.path, writes \o renames, 2, path[m.doc])] : m \in Head(writes).notes}
       IN  notes' = After([op |-> "import", notes |-> imported], read)
    /\ phase' = "saving" /\ read' = {}
    /\ UNCHANGED <<path, text, exported, writes, asks, renames, done>>

EndWrite ==
    /\ phase = "saving"
    /\ writes' = Tail(writes) /\ phase' = "waiting"
    /\ UNCHANGED <<path, text, notes, exported, read, asks, renames, done>>

Next ==
    \/ \E d \in Docs : Edit(d) \/ Rename(d) \/ SelectCode(d) \/ SelectItem(d)
    \/ \E a \in asks : AddSelectionEvidence(a) \/ AddEvidenceForItem(a) \/ GiveUp(a)
    \/ RemoveEvidence \/ OpenEvidence
    \/ \E a \in asks : EvidenceUnavailable(a) \/ \E d \in Docs : EvidenceOpened(a, d)
    \/ ExportReviewSession \/ ImportReviewSession \/ MigrateEvidencePaths
    \/ StartWrite \/ MergeImport \/ EndWrite
Spec == Init /\ [][Next]_vars
-----------------------------------------------------------------------------
Location == [status : Status, line : Nat \ {0}]
Migration == [op : {"migrate"}, from : Paths, to : Paths]
WriteOfNotes ==
    [op : {"add"}, note : Note] \union [op : {"remove"}, id : Ids] \union Migration
    \union [op : {"locate"}, id : Ids, location : Location] \union [op : {"import"}, notes : SUBSET Note]
Asked ==
    [op : {"select", "item"}, doc : Docs, path : Paths, line : Nat \ {0}, code : Written, of : Line]
    \union [op : {"open"}, note : Note]

TypeOK ==
    /\ path \in [Docs -> Paths]
    /\ text \in [Docs -> UNION Range(Texts)] /\ \A d \in Docs : text[d] \in Texts[d]
    /\ notes \in SUBSET Note /\ exported \in SUBSET Note /\ read \in SUBSET Note
    /\ writes \in Seq(WriteOfNotes) /\ phase \in {"waiting", "merging", "saving"}
    /\ asks \in SUBSET Asked /\ renames \in Seq(Migration)
    /\ done \in [commands : Nat, edits : Nat, renames : Nat, ids : SUBSET Ids]

(* No overlap of commands, imports and renames loses a note: one goes when  *)
(* its own removal is written, and only then. What an import stores is read *)
(* before it waits for the decisions, and nothing is added in between.      *)
NotesAreKept ==
    [][\A n \in notes : (\A m \in notes' : m.id # n.id) =>
           writes # <<>> /\ Head(writes) = [op |-> "remove", id |-> n.id]]_vars

(* When nothing is left to be written every note names the file its code is *)
(* in, whatever was renamed while notes were written, located and imported. *)
NotesFollowRenames ==
    writes = <<>> /\ renames = <<>> =>
        \A n \in notes : n.path = path[n.doc] \/ n.late

(* Where the code of a note was taken from, as long as that stands and has  *)
(* the context it was noted with, and no copy of it has.                    *)
Stands(n, lines) ==
    {i \in DOMAIN lines : lines[i] = n.of /\ ContextAnchor(lines, i) = n.anchor
        /\ \A j \in DOMAIN lines \ {i} : Content(lines[j]) # Content(lines[i]) \/ ContextAnchor(lines, j) # n.anchor}

(* A note that is opened is found at the very line it was taken from while  *)
(* that stands in its context: edits elsewhere and copies of it do not lead *)
(* to another place, nor to a note called stale.                            *)
FoundWhereItStands ==
    [][\A a \in asks \ asks', d \in Docs :
           /\ a.op = "open" /\ path[d] = a.note.path /\ d = a.note.doc
           => \A i \in Stands(a.note, text[d]) :
                  Last(writes').location = [status |-> IF i = a.note.line THEN "current" ELSE "relocated", line |-> i]]_vars
=============================================================================
