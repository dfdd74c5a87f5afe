------------------------------ MODULE QueryDesk ------------------------------
(* What the trace view shows (audit-providers.js AuditQueryProvider) while  *)
(* the commands of a reviewer overlap (audit-controller.js). A command      *)
(* waits for the document to be indexed, for the worker, which answers in   *)
(* the order it was asked, for the reviewer, and, after each setContext,    *)
(* for the window, which takes messages in order too.                       *)
EXTENDS Integers, Sequences, FiniteSets, SequencesExt

CONSTANTS
    Commands,       \* the commands given: <<>> is the empty view before any of them
    Steps           \* the number of steps of a path that is traced

VARIABLES
    view,           \* queryProvider: [kind, of, cursor], of the command whose result or trace it shows
    lastRequest,    \* lastAuditRequest: the command that asked it
    contexts,       \* hasAuditQuery and hasTracePath, which the menus of the view depend on
    command,        \* command[c]: [op, at, rerun, disturbed] of every command
    asked,          \* requests at the worker, oldest first
    messages        \* setContext calls the window has not answered
deskVars == <<view, lastRequest, contexts, command, asked, messages>>

Nothing == [kind |-> "none", of |-> 0, cursor |-> 0]
Result(c) == [kind |-> "result", of |-> c, cursor |-> 0]
Trace(c) == [kind |-> "trace", of |-> c, cursor |-> 1]
Queries == {"query", "model"}

Given == [op |-> "none", at |-> "none", rerun |-> 0, disturbed |-> FALSE]
At(c, op, at) == command[c].op = op /\ command[c].at = at
To(c, at) == [command EXCEPT ![c].at = at]

(* The field disturbed only serves the properties: commands of op that are  *)
(* at a point where what another one just did is undone by what they go on  *)
(* to do.                                                                   *)
Disturb(state, op, at) ==
    [c \in Commands |-> IF state[c].op = op /\ state[c].at = at THEN [state[c] EXCEPT !.disturbed = TRUE] ELSE state[c]]

DeskInit ==
    /\ view = Nothing /\ lastRequest = 0
    /\ contexts = [query |-> FALSE, trace |-> FALSE]
    /\ command = [c \in Commands |-> Given]
    /\ asked = <<>> /\ messages = <<>>

(* Commands are given in the order of their numbers.                        *)
Turn(c) == command[c] = Given /\ \A d \in 1..c - 1 : command[d] # Given
Start(c, op, at) ==
    /\ Turn(c)
    /\ command' = [command EXCEPT ![c] = [Given EXCEPT !.op = op, !.at = at]]
-----------------------------------------------------------------------------
(* executeAuditQuery and traceCrossFileFlow index the document first.       *)
GiveQuery(c) == Start(c, "query", "indexing") /\ UNCHANGED <<view, lastRequest, contexts, asked, messages>>
GiveTrace(c) == Start(c, "trace", "indexing") /\ UNCHANGED <<view, lastRequest, contexts, asked, messages>>

(* traceFinding shows a path the findings hold.                             *)
GiveTraceFinding(c) == Start(c, "trace", "picking") /\ UNCHANGED <<view, lastRequest, contexts, asked, messages>>

(* A slip of executeAuditQuery: a request is noted only when none is under  *)
(* way.                                                                     *)
AskUnnoted(c) ==
    /\ command[c].at = "indexing"
    /\ asked' = Append(asked, c)
    /\ command' = [(IF command[c].op = "query" THEN Disturb(command, "model", "asked") ELSE command) EXCEPT ![c].at = "asked"]
    /\ lastRequest' = IF command[c].op = "query" /\ asked = <<>> THEN c ELSE lastRequest
    /\ UNCHANGED <<view, contexts, messages>>

(* executeAuditQuery notes what it asks and asks it in one go.              *)
Ask(c) ==
    /\ command[c].at = "indexing"
    /\ asked' = Append(asked, c)
    /\ command' = [(IF command[c].op = "query" THEN Disturb(command, "model", "asked") ELSE command) EXCEPT ![c].at = "asked"]
    /\ lastRequest' = IF command[c].op = "query" THEN c ELSE lastRequest
    /\ UNCHANGED <<view, contexts, messages>>

(* Setting a context returns when the window has answered.                  *)
SetContext(c, name, value) ==
    /\ contexts' = [contexts EXCEPT ![name] = value]
    /\ messages' = Append(messages, c)

(* The result of a query replaces what is shown.                            *)
ShowResult(c) ==
    /\ asked # <<>> /\ Head(asked) = c /\ command[c].op = "query"
    /\ asked' = Tail(asked)
    /\ view' = Result(c)
    /\ SetContext(c, "query", TRUE)
    /\ command' = To(c, "shown")
    /\ UNCHANGED lastRequest

ResultShown(c) ==
    /\ messages # <<>> /\ Head(messages) = c /\ command[c].at = "shown" /\ command[c].op \in Queries
    /\ contexts' = [contexts EXCEPT !.trace = FALSE]
    /\ messages' = Tail(messages)
    /\ command' = To(c, "done")
    /\ UNCHANGED <<view, lastRequest, asked>>

(* A request the worker fails ends its command; a query was noted by then.  *)
Fail(c) ==
    /\ asked # <<>> /\ Head(asked) = c
    /\ asked' = Tail(asked)
    /\ command' = [command EXCEPT ![c].at = "done", ![c].disturbed = TRUE]
    /\ UNCHANGED <<view, lastRequest, contexts, messages>>

(* The paths found; the reviewer picks one, or none.                        *)
PathsFound(c) ==
    /\ asked # <<>> /\ Head(asked) = c /\ command[c].op = "trace"
    /\ asked' = Tail(asked)
    /\ command' = To(c, "picking")
    /\ UNCHANGED <<view, lastRequest, contexts, messages>>

PickNone(c) ==
    /\ command[c].at = "picking"
    /\ command' = To(c, "done")
    /\ UNCHANGED <<view, lastRequest, contexts, asked, messages>>

StartInteractiveTrace(c) ==
    /\ At(c, "trace", "picking")
    /\ view' = Trace(c)
    /\ SetContext(c, "query", FALSE)
    /\ command' = To(c, "shown")
    /\ UNCHANGED <<lastRequest, asked>>

TraceShown(c) ==
    /\ messages # <<>> /\ Head(messages) = c /\ At(c, "trace", "shown")
    /\ contexts' = [contexts EXCEPT !.trace = TRUE]
    /\ messages' = Tail(messages)
    /\ command' = To(c, "done")
    /\ UNCHANGED <<view, lastRequest, asked>>

(* selectTraceStep and moveTraceStep keep the cursor on the path.           *)
SelectTraceStep(index) ==
    /\ view.kind = "trace" /\ index \in 1..Steps \ {view.cursor}
    /\ view' = [view EXCEPT !.cursor = index]
    /\ UNCHANGED <<lastRequest, contexts, command, asked, messages>>

(* clearAuditQuery does not wait.                                           *)
ClearAuditQuery(c) ==
    /\ Turn(c)
    /\ command' = [Disturb(command, "trace", "shown") EXCEPT ![c] = [Given EXCEPT !.op = "clear", !.at = "done"]]
    /\ view' = Nothing
    /\ contexts' = [query |-> FALSE, trace |-> FALSE]
    /\ UNCHANGED <<lastRequest, asked, messages>>

(* modelInterruptedCall reads what the view shows and asks that again when  *)
(* the model was saved; the path of a trace is asked for from its start.    *)
GiveModel(c) ==
    /\ view.kind # "none"
    /\ Turn(c)
    /\ command' = [command EXCEPT ![c] = [Given EXCEPT !.op = "model", !.at = "picking",
                                            !.rerun = IF view.kind = "result" THEN lastRequest ELSE c]]
    /\ UNCHANGED <<view, lastRequest, contexts, asked, messages>>

InspectCallees(c) ==
    /\ At(c, "model", "picking")
    /\ command' = [command EXCEPT ![c] = [Given EXCEPT !.op = "query", !.at = "indexing"]]
    /\ UNCHANGED <<view, lastRequest, contexts, asked, messages>>

AskAgain(c) ==
    /\ At(c, "model", "picking")
    /\ asked' = Append(asked, c)
    /\ command' = To(c, "asked")
    /\ UNCHANGED <<view, lastRequest, contexts, messages>>

ShowAgain(c) ==
    /\ asked # <<>> /\ Head(asked) = c /\ command[c].op = "model"
    /\ asked' = Tail(asked)
    /\ lastRequest' = command[c].rerun
    /\ view' = Result(command[c].rerun)
    /\ SetContext(c, "query", TRUE)
    /\ command' = To(c, "shown")

(* _onSessionChanged.                                                       *)
SessionChanged ==
    /\ contexts' = [contexts EXCEPT !.query = view.kind = "result"]
    /\ UNCHANGED <<view, lastRequest, command, asked, messages>>

DeskNext ==
    \/ \E c \in Commands : GiveQuery(c) \/ GiveTrace(c) \/ GiveTraceFinding(c) \/ GiveModel(c) \/ ClearAuditQuery(c)
    \/ \E c \in Commands : Ask(c) \/ InspectCallees(c) \/ AskAgain(c) \/ Fail(c) \/ PathsFound(c) \/ PickNone(c)
    \/ \E c \in Commands : ShowResult(c) \/ ResultShown(c) \/ StartInteractiveTrace(c) \/ TraceShown(c) \/ ShowAgain(c)
    \/ \E index \in 1..Steps : SelectTraceStep(index)
    \/ SessionChanged
DeskSpec == DeskInit /\ [][DeskNext]_deskVars
-----------------------------------------------------------------------------
DeskTypeOK ==
    /\ view \in [kind : {"none", "result", "trace"}, of : Commands \union {0}, cursor : Nat]
    /\ lastRequest \in Commands \union {0}
    /\ contexts \in [query : BOOLEAN, trace : BOOLEAN]
    /\ command \in [Commands -> [op : {"none", "query", "trace", "model", "clear"},
                                 at : {"none", "indexing", "picking", "asked", "shown", "done"},
                                 rerun : Commands \union {0}, disturbed : BOOLEAN]]
    /\ asked \in Seq(Commands) /\ messages \in Seq(Commands)

(* When the worker owes no answer, the query that is asked again after a    *)
(* model was saved is the one whose result is shown, however queries,       *)
(* traces and reruns overlapped. It is not after a query that failed, nor   *)
(* after one that was asked while a rerun was under way: a rerun notes what *)
(* it asked only with the answer.                                           *)
RerunAsksWhatIsShown ==
    asked = <<>> /\ view.kind = "result" /\ (\A c \in Commands : command[c].op \in Queries => ~command[c].disturbed)
        => lastRequest = view.of
=============================================================================
