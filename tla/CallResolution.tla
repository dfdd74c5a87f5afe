---------------------------- MODULE CallResolution ----------------------------
(* Which functions of the workspace a call is taken to reach (dataflow/     *)
(* call-resolver.js, analysis/semantic-symbol-index.js), while files are    *)
(* indexed. Paths, types and names are sequences of segments, already in    *)
(* the spelling the code compares; a name that is absent is <<>>.           *)
EXTENDS Integers, Sequences, FiniteSets, SequencesExt, FiniteSetsExt

CONSTANTS
    Declared(_),    \* the functions of a language that may be indexed, all of one name
    Calls,          \* the calls that may be resolved: [caller, event]
    MaxFunctions    \* bound on the functions indexed

VARIABLES
    functions,      \* the functions indexed
    call            \* a call among them
callVars == <<functions, call>>

NoReference == [local |-> "", kind |-> "none", target |-> <<>>, declared |-> <<>>]
Wildcard == "*"

FileNames(file) ==
    {Last(file)} \union (IF Last(file) = "index" /\ Len(file) > 1 THEN {file[Len(file) - 1]} ELSE {})
SameFile(f, g) == f.root = g.root /\ f.file = g.file

(* languagesCanCall.                                                        *)
CanCall(a, b) == a = b \/ {a, b} \subseteq {"javascript", "typescript"}

(* receiverMatchesType compares the last segment of a scope with the whole  *)
(* type: a qualified type matches none.                                     *)
ReceiverMatches(type, scope) == type # <<>> /\ scope # <<>> /\ type = <<Last(scope)>>

(* referenceCandidateMatch.                                                 *)
ReferenceMatch(target, file) ==
    IF target # <<>> /\ (IsSuffix(target, file) \/ IsSuffix(Append(target, "index"), file)) THEN "exact"
    ELSE IF target # <<>> /\ Last(target) \in FileNames(file) THEN "name" ELSE "none"

FirstReference(references, Test(_)) ==
    LET at == SelectInSeq(references, Test) IN IF at = 0 THEN NoReference ELSE references[at]

(* findEventReference. A field or variable that is declared of a type leads *)
(* to the import of that type.                                              *)
EventReference(caller, event) ==
    LET direct == IF event.receiver # ""
                  THEN FirstReference(caller.references, LAMBDA r : r.local = event.receiver)
                  ELSE FirstReference(caller.references, LAMBDA r : r.local = event.callee /\ r.kind # "type")
        imported == FirstReference(caller.references, LAMBDA r : r.kind = "import" /\ r.local = Last(direct.target))
    IN  IF direct.kind # "type" THEN direct
        ELSE IF imported = NoReference THEN [direct EXCEPT !.declared = direct.target]
        ELSE [imported EXCEPT !.local = direct.local, !.declared = direct.target]

DeclaredType(event, reference) == IF reference.declared # <<>> THEN reference.declared ELSE event.receiverType
Imported(caller, type) ==
    FirstReference(caller.references, LAMBDA r : /\ r.kind = "import" /\ r.local # Wildcard
                                                 /\ type # <<>> /\ r.local = Last(type))
Wildcards(caller) == {r \in Range(caller.references) : r.kind = "import" /\ r.local = Wildcard}

Unknown == [compatible |-> TRUE, match |-> FALSE]
Matched == [compatible |-> TRUE, match |-> TRUE]
Refuted == [compatible |-> FALSE, match |-> FALSE]
-----------------------------------------------------------------------------
(* Java.                                                                    *)

(* A slip of javaExpectedTypeTargets: a simple name means a class of the    *)
(* package of the caller.                                                   *)
JavaTargetsInPackage(caller, event, reference) ==
    LET declared == DeclaredType(event, reference)
    IN  IF declared = <<>> THEN {} ELSE IF Len(declared) > 1 THEN {declared} ELSE {caller.package \o declared}

(* javaExpectedTypeTargets.                                                 *)
JavaTargets(caller, event, reference) ==
    LET declared == DeclaredType(event, reference)
        explicit == Imported(caller, declared)
    IN  CASE reference.kind = "import" /\ reference.local # Wildcard /\ reference.target # <<>> -> {reference.target}
          [] declared = <<>> -> {}
          [] Len(declared) > 1 -> {declared}
          [] explicit # NoReference -> {explicit.target}
          [] OTHER -> {r.target \o declared : r \in Wildcards(caller)} \union {caller.package \o declared}

(* javaTypeAssignable: the types that are reached from one along the types  *)
(* it extends and implements.                                               *)
JavaSupertypes(f) ==
    LET Grow(types) == types \union UNION {{r[2] : r \in {s \in f.extends : s[1] = t}} : t \in types}
    IN  FoldSet(LAMBDA r, types : Grow(types), {f.qualified}, f.extends)

(* javaTypeResolution.                                                      *)
JavaType(f, caller, event, reference) ==
    LET targets == JavaTargets(caller, event, reference)
        declared == DeclaredType(event, reference)
    IN  CASE targets = {} -> Unknown
          [] JavaSupertypes(f) \intersect targets # {} -> Matched
          [] Len(declared) = 1 /\ Imported(caller, declared) = NoReference /\ Wildcards(caller) = {} -> Unknown
          [] f.package = <<>> -> Unknown
          [] OTHER -> Refuted
-----------------------------------------------------------------------------
(* PHP.                                                                     *)
(* composerPathsForType: the first of the mappings, longest prefix first,   *)
(* and one for sources before one for tests.                                *)
ComposerPaths(mappings, type) ==
    LET at == SelectInSeq(mappings, LAMBDA m : IsPrefix(m.prefix, type))
    IN  IF at = 0 THEN {}
        ELSE {d \o SubSeq(type, Len(mappings[at].prefix) + 1, Len(type)) : d \in mappings[at].directories}

PhpTarget(caller, event, reference) ==
    LET declared == DeclaredType(event, reference)
        imported == Imported(caller, declared)
    IN  IF imported # NoReference THEN imported.target
        ELSE IF Len(declared) > 1 THEN declared ELSE caller.package \o declared

PhpType(f, caller, event, reference) ==
    LET target == PhpTarget(caller, event, reference)
        files == ComposerPaths(caller.mappings, target)
    IN  CASE DeclaredType(event, reference) = <<>> -> Unknown
          [] files # {} -> IF f.root = caller.root /\ f.file \in files THEN Matched ELSE Refuted
          [] Len(target) = 1 -> Unknown
          [] f.qualified = target -> Matched
          [] f.package = <<>> -> Unknown
          [] OTHER -> Refuted
-----------------------------------------------------------------------------
(* Python: a type with its module must be declared in a file of that name.  *)
PythonType(f, caller, event, reference) ==
    LET declared == DeclaredType(event, reference)
        inScope == ReceiverMatches(<<Last(declared)>>, f.scope)
    IN  CASE declared = <<>> -> Unknown
          [] Len(declared) = 1 -> IF inScope THEN Matched ELSE Unknown
          [] OTHER -> IF inScope /\ ReferenceMatch(Front(declared), f.file) = "exact" THEN Matched ELSE Refuted

(* languageTypeResolution.                                                  *)
TypeResolution(f, caller, event, reference) ==
    CASE f.language # caller.language -> Unknown
      [] f.language = "java" -> JavaType(f, caller, event, reference)
      [] f.language = "php" -> PhpType(f, caller, event, reference)
      [] f.language = "python" -> PythonType(f, caller, event, reference)
      [] OTHER -> Unknown
-----------------------------------------------------------------------------
(* semantic-symbol-index.js: the methods of a receiver type by its whole or *)
(* its simple name, of the same root and number of parameters.              *)
TypeKeys(type) == IF type = <<>> THEN {} ELSE {type, <<Last(type)>>}
ReceiverTypes(f) == UNION {TypeKeys(t) : t \in {f.qualified, f.scope} \union f.implements}

SemanticCandidates(known, caller, event) ==
    {f \in known :
        /\ caller.language \in {"java", "csharp", "go"} /\ f.language = caller.language /\ f.root = caller.root
        /\ Len(f.parameters) = Len(event.arguments)
        /\ TypeKeys(event.receiverType) \intersect ReceiverTypes(f) # {}}

(* implicitParameterOffset: a method of Python called on a receiver.        *)
CallableParameters(f, event) ==
    IF f.language = "python" /\ event.receiver # "" /\ f.parameters # <<>> /\ f.parameters[1] = "self"
    THEN Tail(f.parameters) ELSE f.parameters

(* matchingArgumentTypeScore.                                               *)
ArgumentScore(arguments, parameters) ==
    FoldSet(LAMBDA i, score : score + (IF "?" \in {arguments[i], parameters[i]} THEN 0
                                       ELSE IF arguments[i] = parameters[i] THEN 3 ELSE -2),
            0, DOMAIN arguments \intersect DOMAIN parameters)

If(condition, score) == IF condition THEN score ELSE 0

(* scoreCandidate.                                                          *)
ScoreCandidate(f, caller, event, reference, indexed) ==
    LET types == TypeResolution(f, caller, event, reference)
        exactTarget == event.target = f.id
        inFile == IF reference = NoReference THEN "none" ELSE ReferenceMatch(reference.target, f.file)
        receiverType == \E t \in {f.scope} \union f.implements : ReceiverMatches(event.receiverType, t)
        receiverFile == event.receiver # "" /\ event.receiver \in FileNames(f.file)
        parameters == CallableParameters(f, event)
        precise == indexed \/ exactTarget \/ types.match \/ receiverType \/ inFile = "exact" \/ receiverFile
    IN  [fn |-> f, compatible |-> types.compatible, precise |-> precise, strong |-> precise \/ SameFile(f, caller),
         score |-> If(indexed, 48) + If(exactTarget, 40) + If(types.match, 36) + If(receiverType, 24)
             + If(inFile = "exact", 20) + If(inFile = "name", 6) + If(SameFile(f, caller), 16) + If(receiverFile, 12)
             + (IF Len(event.arguments) = Len(parameters) THEN 8 ELSE -8)
             + ArgumentScore(event.arguments, parameters)
             + If(Front(f.file) = Front(caller.file), 3) + If(f.language = caller.language, 2)]

(* uniqueLexicalCandidate: a call without a receiver of its own of the only *)
(* function of that name in the file is not compared with all others.       *)
UniqueLexicalCandidate(candidates, caller, event) ==
    LET local == {f \in candidates : SameFile(f, caller)}
    IN  IF event.target = "" /\ EventReference(caller, event).kind # "import"
           /\ event.receiver \in {"", "this", "self", "cls"} /\ Cardinality(local) = 1
        THEN local ELSE candidates

Highest(scored) == {s \in scored : \A t \in scored : t.score <= s.score}

(* A slip of the selection: strong candidates are no better than others.    *)
SelectHighest(scored) == Highest(scored)

(* Which of the scored candidates are meant. A declaration without a body   *)
(* is one only where no precise candidate has one.                          *)
Select(scored) ==
    LET executable == {s \in scored : s.fn.executable}
        pool == IF \E s \in executable : s.precise THEN executable ELSE scored
        precise == {s \in pool : s.precise}
        strong == {s \in pool : s.strong}
    IN  IF precise # {} THEN Highest(precise) ELSE IF strong # {} THEN strong ELSE Highest(pool)

ResolveAmong(candidates, indexed, caller, event) ==
    LET reference == EventReference(caller, event)
        scored == {s \in {ScoreCandidate(f, caller, event, reference, f \in indexed) :
                          f \in {g \in candidates : /\ event.target \in {"", g.id}
                                                    /\ CanCall(caller.language, g.language)
                                                    /\ caller.root \in {"", g.root}}} : s.compatible}
        selected == Select(scored)
    IN  {[id |-> s.fn.id, quality |-> IF Cardinality(selected) > 1 \/ ~s.strong THEN "review" ELSE "high"] : s \in selected}

Named(known, caller, event) ==
    LET indexed == SemanticCandidates(known, caller, event)
    IN  IF indexed # {} /\ caller.language \in {"csharp", "go"} THEN indexed ELSE known

(* resolveCandidates.                                                       *)
ResolveCandidates(known, caller, event) ==
    ResolveAmong(UniqueLexicalCandidate(Named(known, caller, event), caller, event),
            SemanticCandidates(known, caller, event), caller, event)

CallInit == functions = {} /\ call \in Calls

IndexFunction ==
    /\ Cardinality(functions) < MaxFunctions
    /\ \E f \in Declared(call.caller.language) \ functions : functions' = functions \union {f}
    /\ UNCHANGED call

CallNext == IndexFunction
CallSpec == CallInit /\ [][CallNext]_callVars
-----------------------------------------------------------------------------
(* What the declared type of a receiver is, if its imports tell.            *)
TypeOf(caller, event) ==
    LET declared == DeclaredType(event, EventReference(caller, event))
        imported == Imported(caller, declared)
    IN  IF imported # NoReference THEN imported.target ELSE declared

(* A call on a receiver whose class is imported by name, and declares the   *)
(* method in the workspace, is never taken for sure to reach a method of a  *)
(* class of the same name, or a function that is near.                      *)
TypedCallsReachTheirClass ==
    LET caller == call.caller
        event == call.event
        type == TypeOf(caller, event)
        own == {f \in functions : f.root = caller.root /\ f.language = caller.language /\ f.qualified = type /\ f.executable}
    IN  /\ caller.language \in {"java", "php"} /\ event.target = "" /\ event.receiver \notin {"", "this"}
        /\ Len(type) > 1 /\ own # {} /\ caller.mappings = <<>>
        => \A r \in ResolveCandidates(functions, caller, event) :
               r.quality = "high" => \E f \in functions : f.id = r.id /\ (f \in own \/ type \in JavaSupertypes(f))

(* A function elsewhere that nothing ties to the call changes nothing of    *)
(* how it is resolved for sure.                                             *)
Stranger(f) ==
    LET caller == call.caller
        event == call.event
        own == EventReference(caller, event)
    IN  /\ ~SameFile(f, caller) /\ f.id # event.target
        /\ ~ScoreCandidate(f, caller, event, own, f \in SemanticCandidates({f}, caller, event)).strong

StrangersChangeNothing ==
    [][\A f \in functions' \ functions :
           LET before == ResolveCandidates(functions, call.caller, call.event)
           IN  Stranger(f) /\ (\E r \in before : r.quality = "high")
               => ResolveCandidates(functions', call.caller, call.event) = before]_callVars
=============================================================================
