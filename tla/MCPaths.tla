------------------------------- MODULE MCPaths -------------------------------
(* The programs of MCPrograms, searched. Short programs are searched under   *)
(* each budget that is tight enough to cut them, and for the roots of some   *)
(* functions only.                                                           *)
EXTENDS PathSearch, MCPrograms

CONSTANT MainLength     \* how many things main does between source and end

Tight == {
    [Unlimited EXCEPT !.clock = 9], [Unlimited EXCEPT !.events = 5], [Unlimited EXCEPT !.rootEvents = 4],
    [Unlimited EXCEPT !.states = 2], [Unlimited EXCEPT !.rootStates = 2], [Unlimited EXCEPT !.steps = 3],
    [Unlimited EXCEPT !.paths = 1], [Unlimited EXCEPT !.cfgPaths = 1], [Unlimited EXCEPT !.depth = 1],
    [Unlimited EXCEPT !.candidates = 1], [Unlimited EXCEPT !.crossings = 0]}

MCSearches ==
    [program : ShortPrograms(MainLength), budget : {Unlimited}, selection : {FALSE}]
    \union [program : ShortPrograms(1), budget : Tight, selection : {FALSE}]
    \union [program : ShortPrograms(1), budget : {Unlimited}, selection : {TRUE}]
=============================================================================
