------------------------------ MODULE ListSlots ------------------------------
(* How the Java frontend tells the elements of a list apart: each element   *)
(* that is added gets a slot, an access path of its own, and calls with a   *)
(* literal index read and replace slots (security/collection-semantics.js). *)
(* The tracker sees the calls of a function once, in source order; which of *)
(* them run is decided by the conditions they stand under. Out of scope:    *)
(* loops, and a second name of the list.                                    *)
EXTENDS Integers, Sequences, SequencesExt

CONSTANTS
    Indexes,    \* literal indexes
    Scopes,     \* what a call may stand under: "" is always run
    MaxCalls

VARIABLES
    calls,      \* the calls on the list so far: [operation, index, scope]
    state,      \* what the tracker knows of the list
    effects     \* of each call: the slots it reads, and the one it writes
vars == <<calls, state, effects>>

Anything == {-1}   \* the elements, whichever they are: list[*]
Nothing == [reads |-> {}, writes |-> {}]
Reads(slots) == [Nothing EXCEPT !.reads = slots]
Writes(slot) == [Nothing EXCEPT !.writes = {slot}]
SlotAt(s, index) == IF index < Len(s.slots) THEN {s.slots[index + 1]} ELSE {}

(* The first call fixes the scope in which the order of the calls is known. *)
KeepScope(s, call) == [s EXCEPT !.scope = IF s.scope = "unset" THEN call.scope ELSE @]
NoteScope(s, call) ==
    [KeepScope(s, call) EXCEPT !.imprecise = @ \/ (s.scope # "unset" /\ s.scope # call.scope)]

Added(s, call) ==
    LET at == IF call.operation = "insert" /\ call.index < Len(s.slots) THEN call.index + 1 ELSE Len(s.slots) + 1
    IN  [s EXCEPT !.slots = InsertAt(@, at, s.next), !.next = @ + 1]

(* Of a removal, a read and a replacement: what it leaves, and its effect.  *)
Removed(s, call) ==
    IF s.imprecise THEN s
    ELSE IF call.index < Len(s.slots) THEN [s EXCEPT !.slots = RemoveAt(@, call.index + 1)]
    ELSE [s EXCEPT !.tracked = FALSE]

SlotsRead(s, call) ==
    IF s.imprecise THEN IF s.slots = <<>> THEN Anything ELSE ToSet(s.slots)
    ELSE IF SlotAt(s, call.index) # {} THEN SlotAt(s, call.index) ELSE Anything

Replaced(s, call) == IF s.imprecise THEN [s EXCEPT !.slots = Append(@, s.next), !.next = @ + 1] ELSE s
SlotReplaced(s, call) == IF s.imprecise THEN Writes(s.next) ELSE [Nothing EXCEPT !.writes = SlotAt(s, call.index)]

(* applyStatefulOperation, after the scope of the call is noted             *)
After(s, call) ==
    CASE call.operation \in {"add", "insert"} -> Added(s, call)
      [] call.operation = "remove" -> Removed(s, call)
      [] call.operation = "set" -> Replaced(s, call)
      [] OTHER -> s
Effect(s, call) ==
    CASE call.operation \in {"add", "insert"} -> Writes(s.next)
      [] call.operation = "get" -> Reads(SlotsRead(s, call))
      [] call.operation = "set" -> SlotReplaced(s, call)
      [] OTHER -> Nothing

(* What becomes of a list on an execution: the calls that run change it;    *)
(* the engine follows the same calls, each write replacing its slot.        *)
Runs(call, taken) == call.scope = "" \/ call.scope \in taken
InRange(list, call) ==
    CASE call.operation = "add" -> TRUE
      [] call.operation = "insert" -> call.index <= Len(list)
      [] OTHER -> call.index < Len(list)
Performed(list, call, value) ==
    CASE call.operation = "add" -> Append(list, value)
      [] call.operation = "insert" -> InsertAt(list, call.index + 1, value)
      [] call.operation = "remove" -> RemoveAt(list, call.index + 1)
      [] call.operation = "set" -> [list EXCEPT ![call.index + 1] = value]
      [] OTHER -> list

(* Each call adds a value of its own, named by its place. A list is <<>>    *)
(* with FALSE once a call has thrown.                                       *)
ListAfter(n, taken) ==
    LET At[i \in 0..n] ==
            IF i = 0 THEN [ok |-> TRUE, list |-> <<>>]
            ELSE LET before == At[i - 1]
                 IN  IF ~before.ok \/ ~Runs(calls[i], taken) THEN before
                     ELSE IF ~InRange(before.list, calls[i]) THEN [ok |-> FALSE, list |-> <<>>]
                     ELSE [before EXCEPT !.list = Performed(before.list, calls[i], i)]
    IN  At[n]

(* The values the slots read by a call may hold: of each slot, the last     *)
(* that was written before.                                                 *)
ValuesFound(n, taken) ==
    {i \in 1..n - 1 :
        /\ Runs(calls[i], taken) /\ effects[i].writes # {}
        /\ effects[n].reads = Anything \/ effects[i].writes \subseteq effects[n].reads
        /\ \A j \in i + 1..n - 1 : Runs(calls[j], taken) => effects[j].writes \intersect effects[i].writes = {}}

Calls ==
    [operation : {"add"}, index : {0}, scope : Scopes]
    \union [operation : {"insert", "remove", "get", "set"}, index : Indexes, scope : Scopes]

Init ==
    /\ calls = <<>> /\ effects = <<>>
    /\ state = [slots |-> <<>>, next |-> 0, scope |-> "unset", imprecise |-> FALSE, tracked |-> TRUE]

(* What stands under a condition stands together.                           *)
InterpretCollectionCall ==
    /\ Len(calls) < MaxCalls /\ state.tracked
    /\ \E call \in Calls :
        /\ call.scope # "" /\ calls # <<>> /\ Last(calls).scope # call.scope =>
              \A i \in DOMAIN calls : calls[i].scope # call.scope
        /\ calls' = Append(calls, call)
        /\ state' = After(NoteScope(state, call), call)
        /\ effects' = Append(effects, Effect(NoteScope(state, call), call))

Next == InterpretCollectionCall
Spec == Init /\ [][Next]_vars

(* What a list returns when the program runs is among what the slots of the *)
(* call hold, on every execution: elements moved by insertions and removals *)
(* are not taken for others, and calls that may not have run leave no       *)
(* element out.                                                             *)
ReadsFindTheirElement ==
    \A n \in DOMAIN calls : calls[n].operation = "get" =>
        \A taken \in SUBSET (Scopes \ {""}) :
            LET before == ListAfter(n - 1, taken)
            IN  Runs(calls[n], taken) /\ before.ok /\ InRange(before.list, calls[n]) =>
                    before.list[calls[n].index + 1] \in ValuesFound(n, taken)
===============================================================================
