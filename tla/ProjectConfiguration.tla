------------------------- MODULE ProjectConfiguration -------------------------
(* What .traceguard.json of a root says (config/project-config.js): models  *)
(* for the catalogue, controls of rules and excluded paths, compiled as a   *)
(* whole or not at all, and what they do to calls, to findings              *)
(* (rules/rule-engine.js) and to files (audit-session.js).                  *)
EXTENDS SemanticCatalog

CONSTANTS
    Documents,      \* what the file may hold
    FirstDocuments, \* what it holds at first
    MaxModels, MaxRules, MaxExcludes,   \* those of a list that are read: 200, 200, 100
    MaxArgument,    \* the last argument a model may name: 63
    Languages, SourceKinds, SinkKinds, Capabilities, Severities,
    ExcludedDirectories,    \* EXCLUDED_DIRECTORIES
    Calls,          \* what the files of the root may hold
    Paths,          \* and the files
    Rules,          \* those of the extension
    Roots           \* names of the folders of the workspace, that of this root first

VARIABLES
    document,   \* the file
    kept,       \* the configuration of the root
    accepted    \* history: the last document loaded that is sound
vars == <<document, kept, accepted>>

Absent == "unset"
Lists == [sources |-> "source", sinks |-> "sink", sanitizers |-> "guard", propagators |-> "propagator"]
WrapperRoles == [source |-> "source", sink |-> "sink", sanitizer |-> "guard", guard |-> "guard",
                 propagator |-> "propagator", wrapper |-> "propagator", unset |-> "propagator"]

(* wrapperRole; "" is no role.                                              *)
Role(entry) == IF entry.list \in DOMAIN Lists THEN Lists[entry.list]
               ELSE IF entry.role \in DOMAIN WrapperRoles THEN WrapperRoles[entry.role] ELSE ""

Known(capabilities) == SelectSeq(capabilities, LAMBDA c : c \in Capabilities)
Identified(entry) == entry.languages \cap Languages # {} /\ entry.function # <<>>

(* The issues of one model, named by the field they are found in.           *)
ModelIssues(entry) ==
    LET role == Role(entry)
    IN  IF role = "" THEN {"role"}
        ELSE {f \in {"language"} : entry.languages = {} \/ ~(entry.languages \subseteq Languages)}
             \union {f \in {"function"} : entry.function = <<>>}
             \union {f \in {"arguments"} : ~(ToSet(entry.arguments.at) \subseteq 0..MaxArgument)}
             \union {f \in {"restFrom"} : entry.rest \notin -1..MaxArgument}
             \union {f \in {"certainty"} : entry.certainty \notin {Absent, "verified", "review"}}
             \union entry.malformed
             \union {f \in {"kind"} : Identified(entry) /\ entry.kind # Absent /\
                        \/ role = "source" /\ entry.kind \notin SourceKinds
                        \/ role = "sink" /\ entry.kind \notin SinkKinds}
             \union {f \in {"capability"} : Identified(entry) /\ role = "guard" /\
                        (entry.capabilities = <<>> \/ Known(entry.capabilities) # entry.capabilities)}

(* A model is left out without its role, language, function, kind or        *)
(* capability.                                                              *)
Compiles(entry) ==
    /\ Role(entry) # "" /\ Identified(entry)
    /\ Role(entry) = "sink" => entry.kind \in SinkKinds
    /\ Role(entry) = "guard" => Known(entry.capabilities) # <<>>

(* A slip takes the function for the qualified name.                        *)
QualifiedByName(entry) == IF entry.symbol # <<>> THEN entry.symbol ELSE entry.function
Qualified(entry) ==
    IF entry.symbol # <<>> THEN entry.symbol ELSE entry.module \o (IF entry.module = <<>> THEN entry.type ELSE <<>>) \o entry.function

CompileModel(entry, at) ==
    [id |-> at, custom |-> TRUE, role |-> Role(entry),
     languages |-> entry.languages \cap Languages,
     modules |-> {entry.module} \ {<<>>},
     types |-> {entry.type} \ {<<>>},
     qualified |-> {Qualified(entry)},
     names |-> {Last(entry.function)},
     inputs |-> IF entry.arguments.given THEN ToSet(entry.arguments.at)
                ELSE IF Role(entry) = "source" THEN {} ELSE {0},
     rest |-> entry.rest,
     unqualified |-> entry.module \o entry.type \o entry.symbol = <<>> /\ Len(entry.function) = 1,
     certainty |-> entry.certainty,
     flags |-> {}, verifiedNames |-> {}, syntaxNames |-> {}, rejects |-> {}]

(* compileModelList, of each list in its turn                               *)
ListOrder == <<"sources", "sinks", "sanitizers", "propagators", "wrappers">>
Listed(doc, list) == SelectSeq([i \in DOMAIN doc.models |-> i], LAMBDA i : doc.models[i].list = list)
Read(doc) ==
    FlattenSeq([l \in DOMAIN ListOrder |-> LET all == Listed(doc, ListOrder[l])
                                           IN  SubSeq(all, 1, IF Len(all) < MaxModels THEN Len(all) ELSE MaxModels)])
CompileModels(doc) ==
    LET compiled == SelectSeq(Read(doc), LAMBDA i : Compiles(doc.models[i]))
    IN  [k \in DOMAIN compiled |-> CompileModel(doc.models[compiled[k]], compiled[k])]

(* compileRules: controls of rules, then severities over them. What is past *)
(* the limit is not read, and no issue says so.                             *)
FirstOf(s) == SubSeq(s, 1, IF Len(s) < MaxRules THEN Len(s) ELSE MaxRules)
NoControl == [enabled |-> Absent, severity |-> Absent]
Control(doc, rule) ==
    LET of(s) == SelectSeq(FirstOf(s), LAMBDA r : r.id = rule)
        control == IF of(doc.rules) = <<>> THEN NoControl
                   ELSE [enabled |-> Last(of(doc.rules)).enabled, severity |-> Last(of(doc.rules)).severity]
    IN  IF of(doc.overrides) = <<>> THEN control
        ELSE [control EXCEPT !.severity = Last(of(doc.overrides)).severity]
RuleIds(doc) == {r.id : r \in ToSet(doc.rules) \union ToSet(doc.overrides)}
CompileRules(doc) == [r \in RuleIds(doc) |-> Control(doc, r)]
RuleIssues(doc) ==
    {"rule" : r \in {x \in ToSet(FirstOf(doc.rules)) : x.severity \notin Severities \union {Absent}}}
    \union {"override" : r \in {x \in ToSet(FirstOf(doc.overrides)) : x.severity \notin Severities}}

(* configuredRules, of one rule                                             *)
Disabled == "disabled"
Configured(rules, rule, severity) ==
    IF rule \notin DOMAIN rules THEN severity
    ELSE IF rules[rule].enabled = "off" THEN Disabled
    ELSE IF rules[rule].severity # Absent THEN rules[rule].severity ELSE severity

(* compileExcludePaths: a pattern is the sequence of its characters, one    *)
(* that is empty, absolute or leaves the root is <<>>.                      *)
CompileExcludePaths(doc) == SelectSeq(doc.excludes, LAMBDA p : p # <<>>)
ExcludeIssues(doc) == {"exclude" : p \in ToSet(doc.excludes) \cap {<<>>}}
                        \union {f \in {"excludes"} : Len(doc.excludes) > MaxExcludes}

(* parseProjectConfigurationText                                            *)
Issues(doc) ==
    UNION {ModelIssues(doc.models[i]) : i \in ToSet(Read(doc))}
    \union {l \in ToSet(ListOrder) : Len(Listed(doc, l)) > MaxModels}
    \union RuleIssues(doc) \union ExcludeIssues(doc)
Valid(doc) == doc.readable /\ Issues(doc) = {}
Parse(doc) == [models |-> CompileModels(doc), rules |-> CompileRules(doc), excludes |-> CompileExcludePaths(doc)]
------------------------------------------------------------------------------
(* matchesExcludedPath: globRegex reads a pattern from the left, "**" with  *)
(* a slash as any folders or none, "**" as anything, "*" and "?" within a   *)
(* name.                                                                    *)
After(s, n) == SubSeq(s, n + 1, Len(s))
RECURSIVE GlobRegex(_, _)
GlobRegex(pattern, path) ==
    IF pattern = <<>> THEN path = <<>>
    ELSE IF IsPrefix(<<"*", "*", "/">>, pattern)
         THEN \E n \in 0..Len(path) : (n = 0 \/ path[n] = "/") /\ GlobRegex(After(pattern, 3), After(path, n))
    ELSE IF IsPrefix(<<"*", "*">>, pattern) THEN \E n \in 0..Len(path) : GlobRegex(After(pattern, 2), After(path, n))
    ELSE IF Head(pattern) = "*"
         THEN \E n \in 0..Len(path) : /\ \A i \in 1..n : path[i] # "/"
                                      /\ GlobRegex(Tail(pattern), After(path, n))
    ELSE /\ path # <<>> /\ (Head(path) = Head(pattern) \/ (Head(pattern) = "?" /\ Head(path) # "/"))
         /\ GlobRegex(Tail(pattern), Tail(path))

(* _isExcludedUri: a path is the sequence of its names, and patterns see it *)
(* joined; with several folders, also behind the name of its own.           *)
Joined(path) == FlattenSeq([i \in DOMAIN path |-> IF i = 1 THEN path[1] ELSE <<"/">> \o path[i]])
InRoot(path) == <<path>> \o (IF Len(Roots) > 1 THEN <<<<Head(Roots)>> \o path>> ELSE <<>>)
Excluded(path) ==
    \/ ToSet(Front(path)) \cap ExcludedDirectories # {}
    \/ \E p \in ToSet(kept.excludes), spelled \in ToSet(InRoot(path)) : GlobRegex(p, Joined(spelled))

------------------------------------------------------------------------------
EmptyConfiguration == [models |-> <<>>, rules |-> <<>>, excludes |-> <<>>]
NoDocument == [readable |-> TRUE, models |-> <<>>, rules |-> <<>>, overrides |-> <<>>, excludes |-> <<>>]

Init == document \in FirstDocuments /\ kept = EmptyConfiguration /\ accepted = NoDocument

(* What the manual and the schema ask of a document.                        *)
SoundModel(entry) ==
    /\ entry.languages # {} /\ entry.languages \subseteq Languages
    /\ entry.function # <<>> /\ entry.malformed = {}
    /\ \A i \in ToSet(entry.arguments.at) : i \in 0..MaxArgument
    /\ entry.rest = -1 \/ entry.rest \in 0..MaxArgument
    /\ entry.certainty \in {Absent, "verified", "review"}
    /\ entry.list = "wrappers" => entry.role \in DOMAIN WrapperRoles
    /\ Role(entry) = "source" => entry.kind \in SourceKinds \union {Absent}
    /\ Role(entry) = "sink" => entry.kind \in SinkKinds \union {Absent}
    /\ Role(entry) = "guard" => entry.capabilities # <<>> /\ ToSet(entry.capabilities) \subseteq Capabilities
Sound(doc) ==
    /\ doc.readable
    /\ \A i \in DOMAIN doc.models : SoundModel(doc.models[i])
    /\ \A l \in ToSet(ListOrder) : Cardinality({i \in DOMAIN doc.models : doc.models[i].list = l}) <= MaxModels
    /\ \A i \in DOMAIN doc.rules : i <= MaxRules => doc.rules[i].severity \in Severities \union {Absent}
    /\ \A i \in DOMAIN doc.overrides : i <= MaxRules => doc.overrides[i].severity \in Severities
    /\ Len(doc.excludes) <= MaxExcludes /\ <<>> \notin ToSet(doc.excludes)

Edit ==
    /\ document \in FirstDocuments
    /\ document' \in Documents /\ UNCHANGED <<kept, accepted>>

(* reloadProjectConfiguration, of this root: what is not valid leaves the   *)
(* configuration it had.                                                    *)
Reload ==
    /\ kept' = IF Valid(document) THEN Parse(document) ELSE kept
    /\ accepted' = IF Sound(document) THEN document ELSE accepted
    /\ UNCHANGED document

Next == Edit \/ Reload
Spec == Init /\ [][Next]_vars

------------------------------------------------------------------------------
(* What the source says of who owns the function that a call names.         *)
Owners(call) ==
    {call.type, call.receiver}
    \union (IF call.root.is \in {"named", "namespace", "required"} THEN {call.root.module} ELSE {})
    \union {IF Last(i) = "*" THEN Front(i) \o call.type ELSE i : i \in call.imports}
Called(call) == IF call.root.is = "named" THEN call.root.export ELSE call.function
Declares(entry, owner, name) ==
    /\ Last(entry.function) = name
    /\ \/ entry.module # <<>> /\ IsSuffix(entry.module, owner)
       \/ entry.type # <<>> /\ IsSuffix(entry.type, owner)
       \/ Len(entry.function) > 1 /\ IsSuffix(entry.function, Append(owner, name))
       \/ entry.symbol # <<>> /\ IsSuffix(entry.symbol, Append(owner, name))

(* A project model is proven for no call by its name alone, and no model is *)
(* taken for a function the workspace declares, but where the project       *)
(* models that name wherever it is called.                                  *)
Everywhere(entry) == entry.module \o entry.type \o entry.symbol = <<>> /\ Len(entry.function) = 1
NamesAloneProveNothing ==
    \A call \in Calls, role \in {"any", "source", "sink", "guard"} :
        LET r == ResolveSemanticCall(kept.models, call, role)
        IN  /\ r.status = "verified" /\ r.model.custom =>
                  \E owner \in Owners(call) : Declares(accepted.models[r.model.id], owner, Called(call))
            /\ call.root.is = "declared" /\ r.status \in {"verified", "syntax"} =>
                  \E entry \in ToSet(accepted.models) : Everywhere(entry) /\ Last(entry.function) = call.function

(* A call that no declaration of the workspace answers, of a function the   *)
(* file imports from the module a model names, or of a receiver of its type.*)
Proven(entry, call) ==
    /\ call.language \in entry.languages /\ Last(entry.function) = Called(call)
    /\ call.root.is # "declared"
    /\ \/ call.root.is \in {"named", "namespace", "required"} /\ call.root.module = entry.module
       \/ entry.type # <<>> /\ IsSuffix(entry.type, call.type)
       \/ /\ entry.type # <<>> /\ call.type # <<>>
          /\ \E i \in call.imports : Last(i) = Last(call.type) /\ IsSuffix(entry.type, i)

Left(entry) == Role(entry) = "sink" /\ entry.kind = Absent    \* a sink without a kind
(* What is proven for a model is taken for it, if not for an earlier one,   *)
(* and reads the arguments it lists.                                        *)
ProvenCallsAreFound ==
    \A at \in DOMAIN accepted.models, call \in Calls :
        LET entry == accepted.models[at]
            models == Catalog \o kept.models
            mine == SelectInSeq(models, LAMBDA m : m.custom /\ m.id = at)
            asked == {i \in 0..call.arity - 1 : i \in ToSet(entry.arguments.at) \/ (entry.rest >= 0 /\ i >= entry.rest)}
        IN  ~Left(entry) /\ Proven(entry, call) =>
                \A role \in {"any", Role(entry)} :
                    LET found == ResolveSemanticCall(kept.models, call, role)
                    IN  \/ \E k \in 1..mine - 1 : found.model = models[k]
                        \/ /\ mine # 0 /\ found.model = models[mine]
                           /\ found.status = IF entry.certainty = "review" THEN "candidate" ELSE "verified"
                           /\ entry.arguments.given /\ role = "any" /\ found.status = "verified" =>
                                  ModeledCall(found, call).inputs = asked

(* What a glob means, folder by folder.                                     *)
Cuts(s) == SetToSortSeq({0, Len(s) + 1} \union {i \in DOMAIN s : s[i] = "/"}, <)
Parts(s) == [k \in 1..Len(Cuts(s)) - 1 |-> SubSeq(s, Cuts(s)[k] + 1, Cuts(s)[k + 1] - 1)]
RECURSIVE NameFits(_, _)
NameFits(pattern, name) ==
    IF pattern = <<>> THEN name = <<>>
    ELSE IF Head(pattern) = "*" THEN \E n \in 0..Len(name) : NameFits(Tail(pattern), After(name, n))
    ELSE name # <<>> /\ Head(pattern) \in {"?", Head(name)} /\ NameFits(Tail(pattern), Tail(name))
RECURSIVE PathFits(_, _)
PathFits(patterns, path) ==
    IF patterns = <<>> THEN path = <<>>
    ELSE IF patterns = <<<<"*", "*">>>> THEN path # <<>>
    ELSE IF Head(patterns) = <<"*", "*">> THEN \E n \in 0..Len(path) : PathFits(Tail(patterns), After(path, n))
    ELSE path # <<>> /\ NameFits(Head(patterns), Head(path)) /\ PathFits(Tail(patterns), Tail(path))


(* A file is left out as its folders and the patterns ask.                  *)
ExclusionsFollowGlobs ==
    \A path \in Paths :
        Excluded(path) <=>
            \/ \E i \in 1..Len(path) - 1 : path[i] \in ExcludedDirectories
            \/ \E p \in ToSet(accepted.excludes), spelled \in ToSet(InRoot(path)) : PathFits(Parts(p), spelled)

(* An override gives a severity and does not turn a rule on.                *)
RulesAreControlled ==
    \A rule \in Rules :
        LET told(s) == {r \in ToSet(FirstOf(s)) : r.id = rule}
            severities == IF told(accepted.overrides) # {} THEN {r.severity : r \in told(accepted.overrides)}
                          ELSE {r.severity : r \in told(accepted.rules)} \ {Absent}
        IN  Configured(kept.rules, rule, "default") \in
                IF \E r \in told(accepted.rules) : r.enabled = "off" THEN {Disabled}
                ELSE IF severities = {} THEN {"default"} ELSE severities

(* The configuration of a root does to calls, rules and files what the last *)
(* sound document says, and a document that is not sound changes nothing:   *)
(* no model is lost but a sink without a kind, a call is proven for a model *)
(* only by the module, type or symbol the model declares, and then found    *)
(* unless an earlier model takes it.                                        *)
ConfigurationAppliesAsWritten ==
    kept # EmptyConfiguration \/ accepted # NoDocument =>
        NamesAloneProveNothing /\ ProvenCallsAreFound /\ ExclusionsFollowGlobs /\ RulesAreControlled
==============================================================================
