------------------------------ MODULE MCQueries ------------------------------
(* The programs of MCPrograms with names and with sources that are assigned, *)
(* and a third function "twin", which is another implementation of the same  *)
(* name or of its own. Every question is asked of each of them. And side by  *)
(* side with them, the resolution of calls the questions rest on.            *)
EXTENDS QuerySession, MCPrograms, CallResolution

CONSTANTS
    MainLength,     \* how many things main does between source and end
    Reassigned      \* whether helper gives its parameter a new value computed from it
VARIABLE part

(* Calls of nothing that was indexed follow a model of the function called,  *)
(* unless they are guards.                                                   *)
Modelled(e) == e.type = "call" /\ e.callees = <<>> /\ ~e.guarded
WithModels(events) ==
    [i \in DOMAIN events |-> [x \in DOMAIN events[i] \union {"propagates"} |->
        IF x = "propagates" THEN Modelled(events[i]) ELSE events[i][x]]]
Placed(f, name, inputs, file, begins, ends) ==
    [name |-> name, file |-> file, begins |-> begins, ends |-> ends, params |-> f.params, inputs |-> inputs, events |-> WithModels(f.events),
     sequences |-> [i \in DOMAIN f.sequences |-> WithModels(f.sequences[i])]]

SourceInto(v) == [Source({v}) EXCEPT !.target = v]
Either == [Call(B, "helper", A) EXCEPT !.callees = <<"helper", "twin">>]
MoreMiddle == { <<SourceInto(B)>>, <<Either>> }
QueryMains ==
    {LET before == << <<SourceInto(A)>> >> \o Front(m)
     IN  Optional(FlattenSeq(before \o <<Last(m), e>>), Len(FlattenSeq(before)) + 1, <<"m">>) :
        m \in [1..MainLength -> Middle \union MoreMiddle], e \in Ends}
QueryHelpers ==
    Helpers \union {Linear(<<Call(Q, "twin", P), Return(Q)>>, P), Linear(<<Sink(P), Sink(Px)>>, P), Unused}
    \union (IF Reassigned THEN {Linear(<<Aggregate(P, {P}), Sink(P)>>, P)} ELSE {})
Twin == Linear(<<Sink(P)>>, P)
CallsTwin(f) == \E i \in DOMAIN f.events : "twin" \in {f.events[i].callees[j] : j \in DOMAIN f.events[i].callees}

MCAnalyses ==
    {[main |-> Placed(p.main, "main", {<<"m">>}, "M", 1, 9), helper |-> Placed(p.helper, "helper", {}, "H", 1, 9),
      twin |-> Placed(Twin, p.twin, {}, "H", 6, 7)] :
        p \in {x \in [main : QueryMains, helper : QueryHelpers, twin : {"twin", "helper"}] :
                /\ CallsHelper(x.main) \/ x.helper = Unused
                /\ CallsTwin(x.main) \/ CallsTwin(x.helper) \/ x.twin = "twin"}}

(* A question is asked at a line of a file; the value there is found by it.  *)
Question(kind, f, at, depth) ==
    [kind |-> kind, file |-> f.file, line |-> f.begins + at, value |-> <<>>, maxDepth |-> depth, maxNodes |-> 20]
Lines(f, type) == {e.at : e \in {x \in Range(f.events) : x.type = type}}
MCRequests(p) ==
    {Question(kind, p[fn], 0, depth) : depth \in {1, 8}, fn \in DOMAIN p, kind \in {"trace-to-entry", "reachable-sinks"}}
    \union {Question(kind, p[fn], 0, 8) : fn \in DOMAIN p, kind \in {"find-callers", "find-callees"}}
    \union {Question("trace-forward", p["main"], 1, depth) : depth \in {1, 8}}
    \union UNION {{Question("trace-backward", p[fn], at, 8) : at \in Lines(p[fn], "sink")} : fn \in DOMAIN p}
    \union UNION {{Question("explain", p[fn], at, 8) : at \in Lines(p[fn], "sink") \union Lines(p[fn], "call")} : fn \in DOMAIN p}
    \union {[Question("find-callers", p["main"], 0, 8) EXCEPT !.file = "elsewhere"]}

(* Functions of one name "m" in several classes, packages, files and        *)
(* languages, and calls of that name with what the imports and declared     *)
(* types of their caller say of the receiver.                               *)
Fn(id, language, file, package, class) ==
    [id |-> id, root |-> "w", language |-> language, file |-> file, package |-> package,
     scope |-> class, qualified |-> IF class = <<>> THEN <<>> ELSE package \o class,
     implements |-> {}, extends |-> {}, parameters |-> <<"?">>, executable |-> TRUE]

JavaExtends == {<< <<"a", "Sub">>, <<"a", "Foo">> >>}
Java(id, package, class) ==
    [Fn(id, "java", Append(package, class), package, <<class>>) EXCEPT !.extends = JavaExtends]
Php(id, package, class, folder) == Fn(id, "php", folder \o <<class>>, package, <<class>>)

MCDeclared(language) ==
    CASE language = "java" -> {Java("a.Foo", <<"a">>, "Foo"), Java("b.Foo", <<"b">>, "Foo"), Java("Foo", <<>>, "Foo"),
              [Java("a.Sub", <<"a">>, "Sub") EXCEPT !.implements = {<<"Foo">>}], Java("c.Main", <<"c">>, "Main"),
              [Java("a.Foo abstract", <<"a">>, "Foo") EXCEPT !.executable = FALSE, !.parameters = <<"A">>],
              [Java("other a.Foo", <<"a">>, "Foo") EXCEPT !.root = "v"]}
      [] language = "php" -> {Php("App.Foo", <<"App">>, "Foo", <<"src">>), Php("Lib.Foo", <<"Lib">>, "Foo", <<"lib">>),
              Php("legacy Foo", <<>>, "Foo", <<"old">>), Php("App.Main", <<"App">>, "Main", <<"src">>),
              Fn("helper", "php", <<"src", "Main">>, <<>>, <<>>)}
      [] language = "python" -> {Fn("pkg.foo", "python", <<"pkg", "foo">>, <<>>, <<"Foo">>),
              [Fn("other", "python", <<"lib", "foo">>, <<>>, <<"Foo">>) EXCEPT !.parameters = <<"self", "?">>],
              Fn("main", "python", <<"pkg", "main">>, <<>>, <<>>), Fn("index", "python", <<"foo", "index">>, <<>>, <<>>)}
      [] language = "go" -> {Fn("Foo", "go", <<"x", "foo">>, <<"x">>, <<"Foo">>), Fn("Bar", "go", <<"x", "bar">>, <<"x">>, <<"Bar">>),
              Fn("main", "go", <<"x", "main">>, <<"x">>, <<>>)}
      [] OTHER -> {Fn("lib", "typescript", <<"lib", "index">>, <<>>, <<>>), Fn("near", "javascript", <<"src", "near">>, <<>>, <<>>),
              Fn("main", "javascript", <<"src", "main">>, <<>>, <<>>), Fn("two", "javascript", <<"src", "main">>, <<>>, <<"Foo">>)}

Import(name, target) == [local |-> name, kind |-> "import", target |-> target, declared |-> <<>>]
Typed(name, type) == [local |-> name, kind |-> "type", target |-> type, declared |-> <<>>]
Star(target) == Import("*", target)

Caller(language, references) ==
    [root |-> "w", language |-> language, references |-> references, mappings |-> <<>>,
     package |-> CASE language = "java" -> <<"c">> [] language = "php" -> <<"App">> [] OTHER -> <<>>,
     file |-> CASE language = "java" -> <<"c", "Main">> [] language = "python" -> <<"pkg", "main">>
                [] language = "go" -> <<"x", "main">> [] language = "php" -> <<"src", "Main">>
                [] OTHER -> <<"src", "main">>]

References ==
    [java |-> {<<>>, <<Typed("foo", <<"Foo">>)>>, <<Typed("foo", <<"Foo">>), Import("Foo", <<"a", "Foo">>)>>,
               <<Typed("foo", <<"Foo">>), Star(<<"a">>), Star(<<"b">>)>>, <<Typed("foo", <<"b", "Foo">>)>>},
     php |-> {<<>>, <<Import("Foo", <<"Lib", "Foo">>)>>, <<Typed("foo", <<"Foo">>)>>,
              <<Typed("foo", <<"Foo">>), Import("Foo", <<"App", "Foo">>)>>},
     python |-> {<<>>, <<Import("foo", <<"pkg", "foo">>)>>, <<Import("m", <<"lib", "foo">>)>>, <<Typed("foo", <<"pkg", "foo", "Foo">>)>>},
     go |-> {<<>>},
     javascript |-> {<<>>, <<Import("m", <<"lib">>)>>, <<Import("foo", <<"lib">>)>>}]

Events ==
    {[callee |-> "m", target |-> "", receiver |-> r, receiverType |-> t, arguments |-> a] :
        r \in {"", "foo", "this"}, t \in {<<>>, <<"Foo">>, <<"a", "Foo">>}, a \in {<<"?">>, <<"A">>, <<>>}}

Mapping(prefix, directory) == [prefix |-> prefix, directories |-> {directory}]
MCCalls ==
    {[caller |-> c, event |-> e] :
        c \in UNION {{Caller(language, r) : r \in References[language]} : language \in DOMAIN References}
              \union {[Caller("php", <<Typed("foo", <<"Foo">>)>>) EXCEPT !.mappings = <<Mapping(<<"App">>, <<"src">>), Mapping(<<>>, <<"old">>)>>]},
        e \in Events}

MCInit ==
    /\ \/ part = "questions" /\ call = CHOOSE c \in Calls : TRUE
       \/ part = "calls" /\ program = CHOOSE p \in Programs : TRUE
    /\ Init /\ CallInit
MCNext ==
    \/ part = "questions" /\ Next /\ UNCHANGED <<part, callVars>>
    \/ part = "calls" /\ CallNext /\ UNCHANGED <<part, vars>>
MCSpec == MCInit /\ [][MCNext]_<<part, vars, callVars>>
==============================================================================
