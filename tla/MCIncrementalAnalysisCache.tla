-------------------- MODULE MCIncrementalAnalysisCache ----------------------
(* A small workspace for TLC: three files whose calls may form a chain and *)
(* a cycle through the first file, which declares two functions. And, side *)
(* by side with it, the summaries the cache tells changes by, of a function *)
(* that is edited; only the part chosen at first moves.                    *)
EXTENDS IncrementalAnalysisCache, TLC

CONSTANTS a, b, c, a1, a2, b1, c1, Texts, Parameters, FirstLine, MaxOperations, MaxEntries
VARIABLES part, text, values, summary
Summary == INSTANCE FunctionSummaries

(* Which file declares which functions, and whose functions it may call.   *)
(* Only the first file adds, drops and changes its functions.              *)
Declares == [f \in File |-> CASE f = a -> {a1, a2} [] f = b -> {b1} [] f = c -> {c1}]
MayCall == [f \in File |-> CASE f = a -> {b1} [] f = b -> {a1} [] f = c -> {a2, b1}]

SummariesIn(f) == IF f = a THEN UNION {[ids -> Fingerprint] : ids \in SUBSET Declares[f]}
                           ELSE {[id \in Declares[f] |-> CHOOSE d \in Fingerprint : TRUE]}

(* The same next-state relation, its inputs taken from that workspace.     *)
MCNext ==
    \/ \E file \in File, version \in Version, force \in BOOLEAN :
          \E summaries \in SummariesIn(file), deps \in SUBSET MayCall[file] :
            UpdateFile(file, version, summaries, deps, force)
    \/ \E file \in File : RemoveFile(file)
    \/ \E file \in File : \E deps \in SUBSET MayCall[file] : ReplaceDependencies(file, deps)
    \/ Clear

(* Texts of a function: with a source, and what follows it in one of two   *)
(* orders and places.                                                      *)
MCParameters == <<"p">>
Op(kind, inputs, output) == [kind |-> kind, inputs |-> inputs, output |-> output, name |-> "n"]
Lined(ops, gap) == [i \in DOMAIN ops |-> [line |-> 1 + gap * i] @@ ops[i]]
Assign(i, o) == Op("assignment", {i}, o)
Middle == {Assign("p", "q"), Assign("q", "r"), Assign("s", "q"), Assign("s", "r")}
MCTexts ==
    {Lined(<<m, Op("source", {}, "s"), n, Op("return", {"r"}, "")>>, 1) : m \in Middle, n \in Middle}
    \union {Lined(<<m, Op("source", {}, "s"), Op("call", {"q"}, ""), Op("sink", {"q"}, "")>>, g) : m \in Middle, g \in {1, 2}}

summaryVars == <<text, values, summary>>
PartsInit == part \in {"cache", "summaries"} /\ Init /\ Summary!Init /\ (part = "cache" => text = CHOOSE t \in Texts : TRUE)
PartsNext ==
    \/ part = "cache" /\ MCNext /\ UNCHANGED <<part, summaryVars>>
    \/ part = "summaries" /\ Summary!Next /\ UNCHANGED <<part, vars>>
MCSpec == PartsInit /\ [][PartsNext]_<<part, vars, summaryVars>>

(* What FunctionSummaries says of the summaries that are kept.             *)
SummariesAreCurrent == Summary!SummariesAreCurrent
=============================================================================
