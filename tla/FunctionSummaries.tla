--------------------------- MODULE FunctionSummaries ---------------------------
(* The summaries of a function that is edited again and again, and the      *)
(* cache of them (dataflow/function-summary.js). A summary tells which      *)
(* parameters and sources get to returns, sinks, properties and calls. The  *)
(* incremental cache takes a function for changed when its summary is.      *)
(* Budgets of steps, which depend on the text alone, are left out.          *)
EXTENDS Integers, Sequences, FiniteSets, SequencesExt

CONSTANTS
    Texts,          \* texts of the function: sequences of operations [kind, inputs, output, name, line]
    Parameters,     \* its parameters, a sequence
    FirstLine,      \* the line it starts on
    MaxOperations,  \* bound of the code on the operations that are read
    MaxEntries      \* bound of the code on the summaries that are kept

VARIABLES
    text,       \* the function
    values,     \* the cache: pairs of a key and a summary, the one used last at the end
    summary     \* the summary of the text, <<>> before it is asked for
vars == <<text, values, summary>>

Scoped(ops) == SubSeq(ops, 1, MaxOperations)
OfKind(ops, kind) == SelectSeq(ops, LAMBDA o : o.kind = kind)
Names(ops, Field(_)) == [i \in DOMAIN ops |-> Field(ops[i])]

(* propagate: assignments from a line on, in source order; what is tainted  *)
(* stays so.                                                                *)
Propagate(ops, seeds, startLine) ==
    FoldLeft(LAMBDA tainted, o :
                 IF o.line >= startLine /\ o.output # "" /\ o.inputs \intersect tainted # {}
                 THEN tainted \union {o.output} ELSE tainted,
             seeds, OfKind(ops, "assignment"))

Consuming(ops, kind, tainted) == SelectSeq(OfKind(ops, kind), LAMBDA o : o.inputs \intersect tainted # {})
Flows(ops, tainted) ==
    [toReturn |-> Consuming(ops, "return", tainted) # <<>>,
     toSinks |-> Names(Consuming(ops, "sink", tainted), LAMBDA o : o.name)]

(* summarizeParameterFlow.                                                  *)
ParameterFlow(ops, parameter) ==
    LET tainted == Propagate(ops, {parameter}, FirstLine)
    IN  [flows |-> Flows(ops, tainted),
         throughCalls |-> Names(Consuming(ops, "call", tainted), LAMBDA o : o.name)]

(* summarizeSources.                                                        *)
SourceFlow(ops, source) == Flows(ops, Propagate(ops, IF source.output # "" THEN {source.output} ELSE source.inputs, source.line))

(* buildFunctionSummary.                                                    *)
BuildFunctionSummary(of) ==
    LET ops == Scoped(of)
        sources == OfKind(ops, "source")
    IN  [sources |-> Names(sources, LAMBDA o : o.name),
         sinks |-> Names(OfKind(ops, "sink"), LAMBDA o : o.name),
         returns |-> Names(OfKind(ops, "return"), LAMBDA o : o.inputs),
         callees |-> Names(OfKind(ops, "call"), LAMBDA o : <<o.name, o.inputs>>),
         parameterFlows |-> [i \in DOMAIN Parameters |-> ParameterFlow(ops, Parameters[i])],
         sourceFlows |-> [i \in DOMAIN sources |-> SourceFlow(ops, sources[i])],
         truncated |-> Len(of) > MaxOperations]

(* A slip of summaryCacheKey: what an operation writes is left out.         *)
KeyOfInputs(of) == [i \in DOMAIN of |-> <<of[i].kind, of[i].inputs, of[i].name>>]

(* summaryCacheKey: everything of the operations but their lines.           *)
SummaryCacheKey(of) == [i \in DOMAIN of |-> <<of[i].kind, of[i].inputs, of[i].output, of[i].name>>]

Cached(key) == SelectSeq(values, LAMBDA v : v[1] = key)
Others(key) == SelectSeq(values, LAMBDA v : v[1] # key)
-----------------------------------------------------------------------------
Init == text \in Texts /\ values = <<>> /\ summary = <<>>

Edit ==
    /\ text' \in Texts \ {text}
    /\ summary' = <<>>
    /\ UNCHANGED values

(* A summary that is used moves to the end of the cache.                    *)
Hit ==
    /\ summary = <<>> /\ Cached(SummaryCacheKey(text)) # <<>>
    /\ LET cached == Cached(SummaryCacheKey(text))[1]
       IN  values' = Append(Others(SummaryCacheKey(text)), cached) /\ summary' = cached[2]
    /\ UNCHANGED text

(* One that is new is kept; the one not used for longest goes.              *)
Miss ==
    /\ summary = <<>> /\ Cached(SummaryCacheKey(text)) = <<>>
    /\ summary' = BuildFunctionSummary(text)
    /\ LET kept == Append(values, <<SummaryCacheKey(text), summary'>>)
       IN  values' = IF Len(kept) > MaxEntries THEN Tail(kept) ELSE kept
    /\ UNCHANGED text

(* When the time is up, flows are missing: the summary is not kept.         *)
TimedOut ==
    /\ summary = <<>> /\ Cached(SummaryCacheKey(text)) = <<>>
    /\ summary' = [BuildFunctionSummary(text) EXCEPT !.sourceFlows = <<>>, !.truncated = TRUE]
    /\ UNCHANGED <<text, values>>

Next == Edit \/ Hit \/ Miss \/ TimedOut
Spec == Init /\ [][Next]_vars
-----------------------------------------------------------------------------
OneOnALine(of) == \A i, j \in DOMAIN of : i # j => of[i].line # of[j].line

(* What is cached under the text of a function is its summary, and not that *)
(* of a text it had before, as long as no two operations share a line: the  *)
(* cache does not see an assignment move to the line of a source.           *)
SummariesAreCurrent ==
    (\A t \in Texts : OneOnALine(t)) =>
        \A v \in Range(Cached(SummaryCacheKey(text))) : v[2] = BuildFunctionSummary(text)
=============================================================================
