----------------------------- MODULE SourceTrees -----------------------------
(* The files an engine admits (analysis/source-admission.js) and the syntax *)
(* trees it keeps of them to parse the next version incrementally           *)
(* (frontends/tree-sitter-runtime.js): the edit between two texts, the      *)
(* reuse of the tree before it, and the few trees that are kept.            *)
EXTENDS Integers, Sequences, FiniteSets

CONSTANTS
    Files,
    Texts,              \* what a file may hold: sequences of characters
    Newline,            \* the one of them that ends a line
    TooComplex(_),      \* a text whose analysis exceeds the budget of a file
    MaxSource, MaxLine, \* the budgets of a text and of its lines
    MaxTrees            \* trees kept

ASSUME TextsAreSequences == \A t \in Texts : t \in Seq({t[i] : i \in DOMAIN t})
ASSUME TreesAreBounded == MaxTrees \in Nat \ {0}

VARIABLES
    records,    \* engine.files: the files known, with the text analysed
    trees       \* runtime.trees, oldest first: [file, text, nodes]
treeVars == <<records, trees>>

(* source-admission.js *)
Largest(ns) == CHOOSE n \in ns : \A k \in ns : k <= n
Prefix(text, n) == SubSeq(text, 1, n)
LineStart(text, i) ==   \* firstLineOverLimit: where the line of i begins
    LET ends == {j \in 1..i - 1 : text[j] = Newline}
    IN  IF ends = {} THEN 1 ELSE 1 + Largest(ends)
LineOverLimit(text) ==
    \E i \in DOMAIN text : text[i] # Newline /\ i - LineStart(text, i) + 1 > MaxLine
Admitted(text) == Len(text) <= MaxSource /\ ~LineOverLimit(text)

(* positionAt: the row and the column of what comes after n characters.     *)
PositionAt(text, n) ==
    [row |-> Cardinality({j \in 1..n : text[j] = Newline}),
     column |-> n + 1 - LineStart(Append(Prefix(text, n), Newline), n + 1)]

(* What differs between two texts: one range, between what they begin with  *)
(* and what they end with in common.                                        *)
Common(before, after) == {n \in 0..Len(before) : n <= Len(after) /\ Prefix(before, n) = Prefix(after, n)}
CommonEnd(before, after) ==
    {n \in 0..Len(before) : n <= Len(after) /\
        SubSeq(before, Len(before) - n + 1, Len(before)) = SubSeq(after, Len(after) - n + 1, Len(after))}

EditBetween(before, after, start, end) ==
    [start |-> start, oldEnd |-> Len(before) - end, newEnd |-> Len(after) - end,
     oldPosition |-> PositionAt(before, Len(before) - end), newPosition |-> PositionAt(after, Len(after) - end)]

SingleEdit(before, after) ==
    LET start == Largest(Common(before, after))
    IN  EditBetween(before, after, start,
             Largest({n \in CommonEnd(before, after) : Len(before) - n >= start /\ Len(after) - n >= start}))

(* The parser: a tree says what stands where. Nodes outside the edit are    *)
(* kept, those after it moved; what is inside is read from the text.        *)
Node(text, i) == [character |-> text[i], at |-> PositionAt(text, i - 1)]
Nodes(text) == [i \in DOMAIN text |-> Node(text, i)]
Moved(at, edit) ==
    IF at.row = edit.oldPosition.row
    THEN [row |-> edit.newPosition.row, column |-> at.column - edit.oldPosition.column + edit.newPosition.column]
    ELSE [at EXCEPT !.row = @ - edit.oldPosition.row + edit.newPosition.row]
Reparsed(nodes, edit, text) ==
    [i \in DOMAIN text |->
        LET old == i - edit.newEnd + edit.oldEnd
        IN  IF i <= edit.start /\ i \in DOMAIN nodes THEN nodes[i]
            ELSE IF i > edit.newEnd /\ old \in DOMAIN nodes
                 THEN [nodes[old] EXCEPT !.at = Moved(@, edit)]
            ELSE Node(text, i)]

(* TreeSitterRuntime: a map of files to trees, in the order they were set.  *)
Retained(ts, file) == {ts[i] : i \in {k \in DOMAIN ts : ts[k].file = file}}
Without(ts, files) ==   \* the trees of other files, in their order
    LET others == {i \in DOMAIN ts : ts[i].file \notin files}
    IN  [n \in 1..Cardinality(others) |-> ts[CHOOSE i \in others : Cardinality({j \in others : j <= i}) = n]]
RemoveTree(ts, file) == Without(ts, {file})
EvictTrees(ts) == IF Len(ts) <= MaxTrees THEN ts ELSE SubSeq(ts, Len(ts) - MaxTrees + 1, Len(ts))

ParsedNodes(ts, file, text) ==
    IF Retained(ts, file) = {} THEN Nodes(text)
    ELSE LET previous == CHOOSE t \in Retained(ts, file) : TRUE
         IN  IF previous.text = text THEN previous.nodes
             ELSE Reparsed(previous.nodes, SingleEdit(previous.text, text), text)
Parse(ts, file, text) ==
    EvictTrees(Append(RemoveTree(ts, file), [file |-> file, text |-> text, nodes |-> ParsedNodes(ts, file, text)]))

(* WorkspaceAnalysisEngine *)
Known == {f \in Files : records[f] # <<>>}
(* A slip: the tree of a text that is too complex is kept.                  *)
AnalysedAndKept(ts, file, text) == Parse(ts, file, text)

Analysed(ts, file, text) ==     \* a text too complex leaves no tree behind
    IF TooComplex(text) THEN RemoveTree(Parse(ts, file, text), file) ELSE Parse(ts, file, text)

TreesInit == records = [f \in Files |-> <<>>] /\ trees = <<>>

UpdateFile(file) ==
    \E text \in Texts :
        IF Admitted(text) /\ ~TooComplex(text)
        THEN /\ records' = [records EXCEPT ![file] = <<text>>]
             /\ trees' = Analysed(trees, file, text)
        ELSE /\ records' = [records EXCEPT ![file] = <<>>]
             /\ trees' = IF ~Admitted(text) THEN IF file \in Known THEN RemoveTree(trees, file) ELSE trees
                         ELSE Analysed(trees, file, text)

RemoveFile(file) ==
    /\ file \in Known
    /\ records' = [records EXCEPT ![file] = <<>>]
    /\ trees' = RemoveTree(trees, file)

(* A dependent of a changed file is parsed again as it stands.              *)
ReparseDependent(file) ==
    /\ file \in Known
    /\ trees' = Parse(trees, file, records[file][1])
    /\ UNCHANGED records

(* A workspace of one file of several: the others are forgotten.            *)
InitializeWorkspace(file) ==
    \E text \in {t \in Texts : Admitted(t)} :
        /\ records' = [f \in Files |-> IF f = file /\ ~TooComplex(text) THEN <<text>> ELSE <<>>]
        /\ trees' = Analysed(Without(trees, Known), file, text)

TreesNext == \E file \in Files : UpdateFile(file) \/ RemoveFile(file) \/ ReparseDependent(file) \/ InitializeWorkspace(file)
TreesSpec == TreesInit /\ [][TreesNext]_treeVars

(* A tree parsed incrementally is the one a parse from nothing would give:  *)
(* the same nodes at the same rows and columns, after any sequence of       *)
(* edits; and only files the engine knows have one (runtime.remove is       *)
(* called on every way out of engine.files).                                *)
TreesAreExact ==
    \A i \in DOMAIN trees :
        /\ trees[i].nodes = Nodes(trees[i].text)
        /\ trees[i].file \in Known /\ records[trees[i].file] = <<trees[i].text>>
===============================================================================
