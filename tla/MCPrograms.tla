----------------------------- MODULE MCPrograms ------------------------------
(* Programs of two functions for PathSearch. "main" reads a source, does     *)
(* some things from a menu, the last of them on one of its two paths only,   *)
(* and ends in a sink or a call; "helper" has one parameter and may call     *)
(* itself. Left out of the menus: a guard over one part of a value whose     *)
(* whole reaches the sink, and a function that names one part of a parameter *)
(* and passes on the whole.                                                  *)
EXTENDS PathEngine

Nothing == [type |-> "none", at |-> 0, target |-> <<>>, vars |-> {}, output |-> {}, scope |-> {}, mode |-> "expression",
            args |-> <<>>, callees |-> <<>>, crosses |-> {}, guarded |-> FALSE]
Source(vs) == [Nothing EXCEPT !.type = "source", !.vars = vs]
Sink(v) == [Nothing EXCEPT !.type = "sink", !.vars = {v}]
Return(v) == [Nothing EXCEPT !.type = "return", !.vars = {v}]
Alias(t, v) == [Nothing EXCEPT !.type = "assignment", !.target = t, !.vars = {v}, !.mode = "alias"]
Clean(t) == [Nothing EXCEPT !.type = "assignment", !.target = t]
Aggregate(t, vs) == [Nothing EXCEPT !.type = "assignment", !.target = t, !.vars = vs, !.mode = "aggregate"]
Validate(v) == [Nothing EXCEPT !.type = "control", !.vars = {v}, !.scope = 1..9]
Sanitizes(v, t) == [Nothing EXCEPT !.type = "control", !.vars = {v}, !.output = {t}, !.scope = 1..9]
Argument1(v) == [vars |-> {v}, path |-> v]
Outside(t, v, guarded) ==
    [Nothing EXCEPT !.type = "call", !.target = t, !.vars = {v}, !.args = <<Argument1(v)>>, !.guarded = guarded]
Call(t, callee, v) == [Outside(t, v, FALSE) EXCEPT !.callees = <<callee>>]

A == <<"a">>
B == <<"b">>
P == <<"p">>
Q == <<"q">>
Ax == <<"a", "x">>
Bx == <<"b", "x">>
Px == <<"p", "x">>
Req == <<"req">>

Middle ==
    {<<Alias(B, A)>>, <<Alias(A, B)>>, <<Alias(B, Ax)>>, <<Alias(Bx, A)>>, <<Clean(Ax)>>, <<Clean(A)>>, <<Aggregate(B, {A})>>,
     <<Call(B, "helper", A)>>, <<Call(A, "helper", Bx)>>, <<Outside(B, Ax, FALSE)>>, <<Validate(A)>>,
     <<Sanitizes(A, B), Outside(B, A, TRUE)>>}
Ends == {<<Sink(A)>>, <<Sink(B)>>, <<Sink(Ax)>>, <<Call(<<>>, "helper", B)>>}
HelperMiddle ==
    {<<>>, <<Alias(Q, P)>>, <<Clean(Px)>>, <<Call(Q, "helper", Px)>>, <<Validate(P)>>}
HelperEnds ==
    {<<Return(P)>>, <<Return(Q)>>, <<Return(Px)>>, <<Sink(P)>>, <<Sink(Q)>>, <<Sink(Px)>>, <<Sink(P), Return(P)>>}

Numbered(events) == [i \in DOMAIN events |-> [events[i] EXCEPT !.at = i]]
Linear(events, param) ==
    [params |-> <<param>>, inputs |-> {}, events |-> Numbered(events), sequences |-> <<Numbered(events)>>]
Optional(events, first, param) ==
    [Linear(events, param) EXCEPT !.sequences = @ \o <<SelectSeq(@[1], LAMBDA e : e.at < first \/ e.at = Len(events))>>]

Short == {<<Call(B, "helper", Req)>>, <<[Call(B, "helper", A) EXCEPT !.callees = <<"helper", "main">>]>>,
          <<[Call(B, "helper", A) EXCEPT !.crosses = {"async"}]>>}
Mains(length) ==
    {LET before == << <<Source({A, Bx})>> >> \o Front(m)
     IN  Optional(FlattenSeq(before \o <<Last(m), e>>), Len(FlattenSeq(before)) + 1, <<"m">>) :
        m \in [1..length -> Middle \union (IF length = 1 THEN Short ELSE {})], e \in Ends}
Helpers == {Linear(m \o e, P) : m \in HelperMiddle, e \in HelperEnds}
CallsHelper(f) == \E i \in DOMAIN f.events : f.events[i].callees # <<>>
Unused == Linear(<<Return(P)>>, P)
ShortPrograms(length) ==
    {p \in [main : Mains(length), helper : Helpers \union {Unused}] : CallsHelper(p.main) \/ p.helper = Unused}
=============================================================================
