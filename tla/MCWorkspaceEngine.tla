-------------------------- MODULE MCWorkspaceEngine -------------------------
(* A small workspace for TLC: a route whose handler calls through a second *)
(* file to a sink in a third, with a type, a name and an import that lead  *)
(* to another file as files come and go, and a cycle of calls.             *)
EXTENDS WorkspaceEngine

CONSTANTS app, lib, db, main, mid, exec, libImport

Fn(calls, source, sink, at) ==
    [calls |-> calls, source |-> source, custom |-> FALSE, sink |-> sink, at |-> at]

TextOf(n, functions, routes, imports, alias) ==
    [text |-> n, functions |-> functions, routes |-> routes, imports |-> imports, alias |-> alias,
     admitted |-> TRUE, simple |-> TRUE]

Main == Fn({mid}, FALSE, FALSE, 1)
Mid == Fn({exec}, FALSE, FALSE, 1)
Run == Fn({}, FALSE, TRUE, 1)

(* The route with its handler; the handler as a direct caller of a custom  *)
(* source; the route alone, its handler elsewhere or nowhere.              *)
AppTexts == {
    TextOf(1, main :> Main, {main}, {libImport}, 0),
    TextOf(2, main :> [Fn({mid, exec}, FALSE, FALSE, 1) EXCEPT !.custom = TRUE], {}, {libImport}, 0),
    TextOf(3, Nothing, {main}, {}, 0)}

(* The middle, with another type, closing a cycle, or refused.             *)
LibTexts == {
    TextOf(4, mid :> Mid, {}, {}, 1),
    TextOf(5, mid :> Mid, {}, {}, 2),
    TextOf(6, mid :> Fn({exec, main}, TRUE, FALSE, 1), {}, {}, 1),
    [TextOf(7, Nothing, {}, {}, 1) EXCEPT !.simple = FALSE]}

(* The sink, the same moved by an edit above it, the same with a comment,  *)
(* a handler of the route's name.                                          *)
DbTexts == {
    TextOf(8, exec :> Run, {}, {}, 0),
    TextOf(9, exec :> Fn({}, FALSE, TRUE, 2), {}, {}, 0),
    TextOf(10, exec :> Run, {}, {}, 0),
    TextOf(11, exec :> Run @@ main :> Fn({exec}, FALSE, FALSE, 3), {}, {}, 0)}

MCText == AppTexts \union LibTexts \union DbTexts
MCMayHold == [f \in File |-> CASE f = app -> AppTexts [] f = lib -> LibTexts [] f = db -> DbTexts]
MCCandidates == libImport :> <<lib, db>>

Plain == [differential |-> FALSE, models |-> {}, rules |-> {}, limits |-> 0]
MCOptions == {Plain, [Plain EXCEPT !.models = {app}, !.rules = {lib}],
              [Plain EXCEPT !.rules = {db}], [Plain EXCEPT !.limits = 1]}

ByText(n) == CHOOSE t \in MCText : t.text = n
MCWorkspaces == {app :> ByText(1) @@ lib :> ByText(4) @@ db :> ByText(8),
                 app :> ByText(2) @@ lib :> ByText(7)}
=============================================================================
