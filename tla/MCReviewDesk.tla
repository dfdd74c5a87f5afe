----------------------------- MODULE MCReviewDesk -----------------------------
(* Three parts of the desk of a reviewer that share no state, checked side  *)
(* by side: the audit notes, the trace view, or the review queue. Only the  *)
(* one chosen at first moves.                                               *)
EXTENDS EvidenceNotes, QueryDesk, ReviewQueue

VARIABLE part

MCContent(line) == IF line = "copy" THEN "code" ELSE line
MCFirstPath == [d1 |-> "p", d2 |-> "q"]
MCTexts == [d1 |-> {<<"a", "code">>, <<"copy", "a", "code">>, <<"copy", "b">>, <<"code", "b", "copy">>,
                    <<"a", "copy", "b", "code">>},
            d2 |-> {<<"b">>}]
MCNote(id, line, before, after) ==
    [id |-> id, doc |-> "d1", path |-> "p", line |-> line, code |-> "code", of |-> "code",
     anchor |-> [before |-> before, after |-> after], status |-> "new", late |-> FALSE]
MCEarlier == {MCNote("e", 1, <<>>, <<"b", "code">>)}
MCColleague == {MCNote("c", 1, <<"a">>, <<>>)}

(* Programs for the review queue: an entry that calls a helper that calls a *)
(* sink, with sources, checks and calls of every certainty, and another     *)
(* entry with a source that calls the sink; and a function that is no entry *)
(* beside the code of a module.                                             *)
Signal(kind, category, quality) == [kind |-> kind, category |-> category, quality |-> quality]
Function(id, file, lines, signals, calls) ==
    [id |-> id, file |-> file, line |-> lines[1], endLine |-> lines[2], at |-> lines[1], entry |-> FALSE, global |-> FALSE,
     sensitive |-> FALSE, signals |-> signals, calls |-> calls]
Call(to, quality) == [to |-> to, quality |-> quality]
Entry(f) == [f EXCEPT !.entry = TRUE]
Sources == {<<>>, <<Signal("source", "http", "high")>>, <<Signal("source", "http", "inferred")>>, <<Signal("source", "process", "convention")>>}
Checks == {<<>>, <<Signal("external", "library", "opaque")>>, <<Signal("sanitizer", "escape", "enforced")>>, <<Signal("sanitizer", "pattern", "hint")>>}
Sinks == {<<Signal("sink", "command", q)>> : q \in {"verified", "medium", "syntax", "candidate"}} \union {<<Signal("sink", "file", "verified")>>}
Sink == <<Signal("sink", "command", "verified")>>
Bodies == Sinks \union {c \o Sink : c \in Checks}
Certain == <<"high", "high">>
Guessed == {<<"medium", "high">>, <<"high", "review">>}
(* Of sinks and calls, one is out of the ordinary at a time.                *)
Ends == (Bodies \X {Certain}) \union ({Sink} \X Guessed)
MCPrograms ==
    {{Entry(Function("e", "a", <<1, 3>>, s, {Call("h", end[2][1])})),
      Function("h", "a", <<5, 9>>, t, {Call("k", end[2][2])}),
      Function("k", "b", <<1, 9>>, end[1], {}),
      Entry(Function("o", "b", <<11, 12>>, <<Signal("source", "http", "high")>>, {Call("k", "high")}))}
     : s \in Sources, t \in {<<>>, <<Signal("source", "process", "high")>>}, end \in Ends}
    \union {{Function("g", "a", <<1, 9>>, <<Signal("source", "http", "high")>>, {Call("k", "high")}),
      [Function("top", "b", <<1, 9>>, <<Signal("source", "process", "high")>> \o k, {}) EXCEPT !.global = TRUE]} : k \in Sinks}
MCRules == {[id |-> "R", sources |-> {"http", "process"}, sinks |-> {"command", "file"}, accepts |-> {"escape"}, recommended |-> {"escape", "pattern"}]}
MCSinksOf == [escape |-> {"command"}, pattern |-> {"command", "file"}]

(* The programs are told apart in the part that has them alone.             *)
MCInit ==
    /\ part \in {"notes", "trace view", "queue"} /\ Init /\ DeskInit /\ QueueInit
    /\ part # "queue" => program = CHOOSE p \in Programs : TRUE
MCNext ==
    \/ part = "notes" /\ Next /\ UNCHANGED <<part, deskVars, queueVars>>
    \/ part = "trace view" /\ DeskNext /\ UNCHANGED <<part, vars, queueVars>>
    \/ part = "queue" /\ QueueNext /\ UNCHANGED <<part, vars, deskVars>>
MCSpec == MCInit /\ [][MCNext]_<<part, vars, deskVars, queueVars>>
===============================================================================
