-------------------------- MODULE MCLanguageAssets --------------------------
(* What surrounds an analysis in the worker: two workers of windows with    *)
(* the same version of the extension that share grammar packs, the trees    *)
(* their parsers keep, the settings of two roots, the first without a       *)
(* configuration yet, the second a Composer project with one, what such a   *)
(* configuration does, and the scopes of the files of folders that may      *)
(* stand in one another. Side by side, only the part chosen at first moves. *)
EXTENDS ProjectSettings, SourceTrees, ProjectScopes

CONSTANTS
    Workers, AssetFiles, Grammar, Marker, Packs, ManifestOf, Damaged, Missing, MaxFetchFailures, MaxCrashes, OwnPack, OtherPack     \* of LanguageAssets

VARIABLES
    part,
    made, on, at, todo, ready, failure, parser, fetchFailures, crashes,
    document, compiled, accepted
assetVars == <<made, on, at, todo, ready, failure, parser, fetchFailures, crashes>>
configurationVars == <<document, compiled, accepted>>

TwoPacks == {OwnPack, OtherPack}
OneManifest == [w \in Workers |-> OwnPack]

(* Texts up to the limits of admission, and one beyond each.                *)
MCTexts == UNION {[1..n -> {"a", "b", "nl"}] : n \in 0..3} \union {<<"a", "a", "a", "a">>, <<"a", "a", "a", "nl">>}
MCTooComplex(text) == text = <<"b", "b">>

FirstRoot == [kind |-> "configuration", root |-> 1]
TwoRoots == {FirstRoot, [kind |-> "configuration", root |-> 2], [kind |-> "identity", root |-> 2]}
SecondConfigured == [d \in Documents |-> IF d = FirstRoot THEN Empty ELSE CHOOSE c \in Configs : TRUE]

App == <<"app">>
Web == <<"app", "web">>
ScopeFolders == {App, Web, <<"app", "web", "api">>, <<"lib">>}
ScopeSources == <<App \o <<"main">>, Web \o <<"api", "get">>, <<"lib", "text">>, Web \o <<"page">>, <<"script">>,
                  Web \o <<"api", "put">>>>

(* Documents and calls for ProjectConfiguration: a module and a type that   *)
(* are declared to hold a function exec, modules and types that are not,    *)
(* calls of exec through each of them, and a catalogue that knows the name  *)
(* too.                                                                     *)
Script == {"typescript"}
BuiltIn(id, role, languages, name) ==
    [id |-> id, role |-> role, languages |-> languages, names |-> {name}, custom |-> FALSE, unqualified |-> FALSE,
     certainty |-> "unset", modules |-> {}, types |-> {}, qualified |-> {}, inputs |-> {0}, rest |-> -1,
     flags |-> {}, verifiedNames |-> {}, syntaxNames |-> {}, rejects |-> {}]
MCCatalog ==
    <<[BuiltIn(101, "sink", Script, "exec") EXCEPT !.modules = {<<"child_process">>}, !.qualified = {<<"child_process", "exec">>}],
      [BuiltIn(102, "sink", Script, "fetch") EXCEPT !.flags = {"global"}, !.qualified = {<<"fetch">>}, !.rejects = {"constant"}],
      [BuiltIn(103, "sink", Script, "query") EXCEPT !.types = {<<"Client">>}, !.flags = {"requiresModule", "agnostic"},
           !.syntaxNames = {<<"sequelize">>}, !.verifiedNames = {<<"models", "sequelize">>}],
      [BuiltIn(104, "guard", Script, "test") EXCEPT !.types = {<<"RegExp">>}, !.flags = {"literal", "anchored"}],
      [BuiltIn(105, "sink", {"java"}, "exec") EXCEPT !.types = {<<"java", "lang", "Runtime">>}]>>

Call(language, function, receiver, root, type, imports, arguments) ==
    [language |-> language, function |-> function, receiver |-> receiver, root |-> root, type |-> type,
     imports |-> imports, arguments |-> arguments, arity |-> 3]
Is(what) == [is |-> what]
From(what, module, export) == [is |-> what, module |-> <<module>>, export |-> export]
Ts(function, receiver, root, type) == Call("typescript", function, receiver, root, type, {}, "variable")
Java(receiver, root, type, imports) == Call("java", "exec", receiver, root, type, imports, "variable")

ScriptCalls ==
    {Ts("exec", <<>>, r, <<>>) : r \in {Is("declared"), Is("unknown")} \union {From("required", m, "exec") : m \in {"internal", "other"}}}
    \union {Ts("run", <<>>, From("named", m, "exec"), <<>>) : m \in {"internal", "other", "child_process"}}
    \union {Ts("exec", <<x>>, From("namespace", m, "exec"), t) :
                x \in {"ns", "child_process"}, m \in {"internal", "other"}, t \in {<<"any">>, <<"typeof">>}}
    \union {Ts("exec", <<"svc">>, Is(k), t) : k \in {"declared", "member"}, t \in {<<"Service">>, <<"Logger">>}}
    \union {Ts(f, r, Is("unknown"), <<"any">>) : f \in {"exec", "query"},
                r \in {<<"svc">>, <<"Service">>, <<"child_process">>, <<"sequelize">>, <<"models", "sequelize">>}}
    \union {Ts("query", <<"db">>, Is("declared"), <<"any">>), Ts("query", <<"db">>, Is("member"), <<"Client">>)}
    \union {Ts("test", <<x>>, Is("unknown"), <<"any">>) : x \in {"/./", "/^[a-z]$/"}}
    \union {Call("typescript", "fetch", <<>>, Is(k), <<>>, {}, a) : k \in {"declared", "unknown"}, a \in {"variable", "constant"}}
JavaCalls ==
    {Java(<<"svc">>, Is(k), <<t>>, i) : k \in {"declared", "unknown"}, t \in {"Service", "Logger", "Runtime", "object"},
        i \in {{}, {<<"acme", "Service">>}, {<<"util", "Service">>}, {<<"acme", "*">>}, {<<"acme", "*">>, <<"util", "*">>}}}
    \union {Java(<<>>, Is(k), <<>>, {}) : k \in {"declared", "unknown"}}
    \union {Java(<<"Service">>, Is("unknown"), <<>>, i) : i \in {{}, {<<"acme", "Service">>}}}
    \union {Java(<<"acme", "Service">>, Is("unknown"), <<>>, {})}
MCCalls == ScriptCalls \union JavaCalls

Absent == "unset"
Entry ==
    [list |-> "sinks", role |-> Absent, languages |-> {"typescript", "java"}, function |-> <<"exec">>, module |-> <<>>,
     type |-> <<>>, symbol |-> <<>>, malformed |-> {}, certainty |-> Absent,
     arguments |-> [given |-> FALSE, at |-> <<>>], rest |-> -1, kind |-> "COMMAND_EXEC", capabilities |-> <<>>]
At(indexes) == [given |-> TRUE, at |-> indexes]
Declared ==
    {Entry, [Entry EXCEPT !.module = <<"internal">>], [Entry EXCEPT !.type = <<"Service">>],
     [Entry EXCEPT !.type = <<"acme", "Service">>], [Entry EXCEPT !.symbol = <<"Service", "exec">>],
     [Entry EXCEPT !.symbol = <<"exec">>], [Entry EXCEPT !.function = <<"Service", "exec">>],
     [Entry EXCEPT !.module = <<"internal">>, !.type = <<"Service">>, !.certainty = "review"]}
Guard == [Entry EXCEPT !.list = "sanitizers", !.kind = Absent, !.capabilities = <<"SHELL_ESCAPE">>]
Variants(entry) ==
    {entry, [entry EXCEPT !.kind = Absent], [entry EXCEPT !.kind = "NOT_A_SINK"], [entry EXCEPT !.languages = {"ruby"}],
     [entry EXCEPT !.languages = {"typescript", "ruby"}], [entry EXCEPT !.function = <<>>],
     [entry EXCEPT !.arguments = At(<<0, 1>>)], [entry EXCEPT !.arguments = At(<<>>), !.rest = 1],
     [entry EXCEPT !.arguments = At(<<4>>)], [entry EXCEPT !.rest = 4], [entry EXCEPT !.malformed = {"module"}],
     [entry EXCEPT !.certainty = "verified"], [entry EXCEPT !.certainty = "maybe"]}
    \union {[entry EXCEPT !.list = l, !.kind = Absent] : l \in {"sources", "propagators"}}
    \union {[entry EXCEPT !.list = "wrappers", !.role = r] : r \in {Absent, "sink", "guard", "wrapper", "neither"}}
GuardVariants(entry) ==
    {entry, [entry EXCEPT !.capabilities = <<>>], [entry EXCEPT !.capabilities = <<"SHELL_ESCAPE", "NONE">>],
     [entry EXCEPT !.certainty = "verified"], [entry EXCEPT !.certainty = "review"]}
Entries ==
    Declared \union UNION {Variants(e) : e \in {Entry, [Entry EXCEPT !.module = <<"internal">>]}}
    \union UNION {GuardVariants(g) : g \in {Guard, [Guard EXCEPT !.module = <<"internal">>], [Guard EXCEPT !.type = <<"Service">>]}}

Nothing == [readable |-> TRUE, models |-> <<>>, rules |-> <<>>, overrides |-> <<>>, excludes |-> <<>>]
Rule(id, enabled, severity) == [id |-> id, enabled |-> enabled, severity |-> severity]
Controls == {<<>>} \union {<<Rule("r", e, s)>> : e \in {Absent, "on", "off"}, s \in {Absent, "low", "none"}}
Overrides == {<<>>, <<Rule("r", Absent, "high")>>, <<Rule("q", Absent, "high"), Rule("r", Absent, "high")>>,
                    <<Rule("r", Absent, "none")>>}
Patterns ==
    {<<"a">>, <<"*">>, <<"?">>, <<"a", "*">>, <<"*", "b">>, <<"*", "*">>, <<"a", "/", "*", "*">>, <<"*", "*", "/", "b">>,
     <<"a", "/", "*", "*", "/", "b">>, <<"*", "/", "a">>, <<"a", "/", "?", "*">>, <<"*", "*", "/", "*", "b", "*">>, <<"r", "/", "*", "*">>}

(* One document more than a list may hold, and one past what is read of the *)
(* others.                                                                  *)
MCDocuments ==
    {[Nothing EXCEPT !.models = <<e>>] : e \in Entries}
    \union {[Nothing EXCEPT !.models = <<e, f>>] : e, f \in Declared \union {Guard, [Entry EXCEPT !.kind = Absent]}}
    \union {[Nothing EXCEPT !.models = <<Entry, Entry, Entry>>], [Nothing EXCEPT !.models = <<Entry, Guard, Entry>>]}
    \union {[Nothing EXCEPT !.rules = c, !.overrides = o] : c \in Controls, o \in Overrides}
    \union {[Nothing EXCEPT !.excludes = <<p>>] : p \in Patterns \union {<<>>}}
    \union {[Nothing EXCEPT !.excludes = <<<<"a">>, p>>] : p \in {<<"b">>, <<>>}}
    \union {[Nothing EXCEPT !.excludes = <<<<"a">>, <<"b">>, <<"c">>>>], [Nothing EXCEPT !.readable = FALSE]}
MCFirstDocuments == {Nothing, [Nothing EXCEPT !.models = <<[Entry EXCEPT !.type = <<"Service">>]>>, !.excludes = <<<<"b">>>>]}

Names == {<<"a">>, <<"b">>, <<"a", "b">>}
MCPaths ==
    {<<n>> : n \in Names} \union {<<m, n>> : m \in Names, n \in Names} \union {<<m, <<"b">>, n>> : m \in Names, n \in Names}
    \union {<<<<"d">>, <<"a">>>>, <<<<"a">>, <<"d">>>>}

Assets == INSTANCE LanguageAssets WITH Files <- AssetFiles, failures <- fetchFailures, MaxFailures <- MaxFetchFailures
Configuration == INSTANCE ProjectConfiguration WITH
    kept <- compiled, Documents <- MCDocuments, FirstDocuments <- MCFirstDocuments, Calls <- MCCalls, Paths <- MCPaths,
    Catalog <- MCCatalog, Builtins <- {"fetch"}, JavaLang <- {"Runtime"}, Languages <- {"typescript", "java"},
    MaxModels <- 2, MaxRules <- 1, MaxExcludes <- 2, MaxArgument <- 3,
    SourceKinds <- {"HTTP_INPUT"}, SinkKinds <- {"COMMAND_EXEC"}, Capabilities <- {"SHELL_ESCAPE"},
    Severities <- {"low", "high"}, Rules <- {"r", "q"}, ExcludedDirectories <- {<<"d">>}, Roots <- <<<<"r">>, <<"s">>>>

MCInit ==
    /\ part \in {"assets", "trees", "settings", "scopes", "configuration"}
    /\ file = SecondConfigured /\ Init /\ TreesInit /\ ScopesInit /\ Configuration!Init
    /\ part # "configuration" => document = CHOOSE d \in MCFirstDocuments : TRUE
    /\ Assets!Init /\ (part # "assets" => ~made)
MCNext ==
    \/ part = "assets" /\ Assets!Next /\ UNCHANGED <<part, vars, treeVars, scopeVars, configurationVars>>
    \/ part = "trees" /\ TreesNext /\ UNCHANGED <<part, vars, assetVars, scopeVars, configurationVars>>
    \/ part = "settings" /\ Next /\ UNCHANGED <<part, assetVars, treeVars, scopeVars, configurationVars>>
    \/ part = "scopes" /\ ScopesNext /\ UNCHANGED <<part, vars, assetVars, treeVars, configurationVars>>
    \/ part = "configuration" /\ Configuration!Next /\ UNCHANGED <<part, vars, assetVars, treeVars, scopeVars>>
MCSpec ==
    /\ MCInit /\ [][MCNext]_<<part, vars, assetVars, treeVars, scopeVars, configurationVars>>
    /\ \A w \in Workers : WF_assetVars(Assets!Step(w))    \* asked of the assets; the other parts have safety alone

EveryWorkerParses == Assets!EveryWorkerParses
ConfigurationAppliesAsWritten == Configuration!ConfigurationAppliesAsWritten
=============================================================================

