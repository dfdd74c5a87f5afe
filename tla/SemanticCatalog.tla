---------------------------- MODULE SemanticCatalog ----------------------------
(* What a call is taken for (security/catalog.js, resolveSemanticCall): the *)
(* models of the catalogue, and behind them those of the project, are tried *)
(* on the identity a frontend proves of the call (typescript-frontend.js,   *)
(* tree-sitter-frontend.js). A qualified name, a module, a type or a        *)
(* receiver is the sequence of its segments, in the spelling the code       *)
(* compares; one that is absent is <<>>.                                    *)
EXTENDS Integers, Sequences, FiniteSets, SequencesExt

CONSTANTS
    Catalog,    \* the models of the extension, in their order
    Builtins,   \* the functions TypeScript knows without a declaration
    JavaLang    \* the types of java.lang

Dynamic == {<<"any">>, <<"unknown">>, <<"object">>, <<"?">>}
Operand == [literal |-> <<"/./">>, anchored |-> <<"/^[a-z]$/">>]    \* regular expressions as receivers

------------------------------------------------------------------------------
(* callSymbolIdentity. The root of the call is bound to a module (named,    *)
(* required, or as a whole), declared in the workspace, a member of a type  *)
(* of a library, or unknown; type is what the checker says of the receiver. *)
TypeScriptIdentity(call) ==
    LET root == call.root
        bound == root.is \in {"named", "namespace", "required"}
        export == IF root.is = "named" THEN root.export ELSE call.function
        declared == root.is = "declared"
        builtin == call.receiver = <<>> /\ call.function \in Builtins /\ ~declared
        known == declared \/ root.is = "member"
    IN  [kind |-> IF bound THEN IF root.is = "required" THEN "require" ELSE "import"
                  ELSE IF declared THEN "local"
                  ELSE IF builtin THEN "global"
                  ELSE IF known THEN "symbol" ELSE "unresolved",
         module |-> IF bound THEN root.module ELSE <<>>,
         export |-> export,
         type |-> call.type,
         qualified |-> IF bound THEN Append(root.module, export)
                       ELSE IF known \/ call.type # <<>> THEN Append(call.type, call.function)
                       ELSE IF builtin THEN <<"global", call.function>> ELSE <<>>,
         unresolved |-> FALSE,
         shadowed |-> declared /\ ~bound,
         verified |-> bound \/ builtin \/ call.type \notin Dynamic \union {<<>>}]

(* genericCallIdentity, for Java: the root names a method of the file, or a *)
(* receiver with its declared type; imports are those of the file by name,  *)
(* and with "*" those of packages. One package is taken to hold the type.   *)
JavaIdentity(call) ==
    LET type == call.type
        named == {i \in call.imports : type # <<>> /\ Last(i) = Last(type)}
        packages == {i \in call.imports : Last(i) = "*"}
        callee == IF call.receiver = <<>> THEN call.function ELSE Head(call.receiver)
        direct == {i \in call.imports : type = <<>> /\ Last(i) = callee}
        imported == IF named # {} THEN CHOOSE i \in named : TRUE
                    ELSE IF type # <<>> /\ Cardinality(packages) = 1
                         THEN Append(Front(CHOOSE i \in packages : TRUE), Last(type)) ELSE <<>>
        module == IF imported # <<>> THEN imported
                  ELSE IF direct # {} THEN CHOOSE i \in direct : TRUE ELSE <<>>
        spelled == IF type # <<>> THEN type ELSE call.receiver
        lang == spelled # <<>> /\ Last(spelled) \in JavaLang
        whole == module = <<>> /\ Len(call.receiver) > 1    \* a receiver spelled with its package
        own == call.root.is = "declared"
        unproven == Len(type) = 1 /\ module = <<>> /\ ~lang /\ ~own
        receiver == IF imported # <<>> THEN imported
                    ELSE IF lang THEN <<"java", "lang", Last(spelled)>> ELSE spelled
        base == IF imported = <<>> /\ module # <<>> THEN module ELSE receiver
    IN  [kind |-> IF module # <<>> THEN "import" ELSE IF whole THEN "fully-qualified" ELSE IF lang THEN "implicit-import"
                  ELSE IF own THEN "local" ELSE IF unproven THEN "syntax"
                  ELSE IF type # <<>> THEN "local" ELSE "syntax",
         module |-> IF module # <<>> THEN module ELSE IF whole THEN call.receiver ELSE IF lang THEN <<"java", "lang">> ELSE <<>>,
         export |-> call.function,
         type |-> receiver,
         qualified |-> Append(base, call.function),
         unresolved |-> unproven,
         shadowed |-> own,
         verified |-> module # <<>> \/ whole \/ lang \/ own \/ (type # <<>> /\ ~unproven)]

Identity(call) == IF call.language = "java" THEN JavaIdentity(call) ELSE TypeScriptIdentity(call)

------------------------------------------------------------------------------
(* receiverExpressionMatches, inferredSyntaxReceiverMatches                 *)
Resembles(receiver, expected) ==
    expected # <<>> /\ (IsSuffix(expected, receiver) \/ IsPrefix(expected, receiver))
ReceiverNames(model) == model.modules \union model.types \union {Front(q) : q \in model.qualified}

EndsIn(names, value) == value # <<>> /\ \E n \in names : IsSuffix(n, value)

Syntactic(id) == id.type \in Dynamic \union {<<>>}

(* What each of the tests of the loop says of a model, in their order.      *)
Tests(model, call, id) ==
    LET anyModule == "requiresModule" \notin model.flags
        proof == IF id.verified THEN "verified" ELSE "syntax"
        global == "global" \in model.flags
        literal == "literal" \in model.flags /\ call.receiver \in {Operand.literal, Operand.anchored}
    IN  <<<<global /\ call.receiver # <<>>, "none">>,
          <<model.unqualified, "syntax">>,
          <<model.custom /\ EndsIn(model.types, id.type), "verified">>,
          <<global /\ id.kind = "global", "verified">>,
          <<global /\ ~id.shadowed /\ id.qualified = <<>> /\ id.module = <<>> /\ id.kind = "unresolved", "syntax">>,
          <<id.module \in model.modules, "verified">>,
          <<literal, IF "anchored" \in model.flags /\ call.receiver # Operand.anchored THEN "none" ELSE "syntax">>,
          <<anyModule /\ ~id.unresolved /\ EndsIn(model.qualified, id.qualified), proof>>,
          <<anyModule /\ EndsIn(model.types, id.type), proof>>,
          <<call.receiver # <<>> /\ Syntactic(id) /\ \E r \in model.verifiedNames : Resembles(call.receiver, r), "verified">>,
          <<call.receiver # <<>> /\ Syntactic(id) /\ \E r \in model.syntaxNames : Resembles(call.receiver, r), "syntax">>,
          <<anyModule /\ call.receiver # <<>> /\ Syntactic(id)
              /\ \E r \in ReceiverNames(model) : Resembles(call.receiver, r), "syntax">>,
          <<TRUE, "none">>>>
Evidence(model, call, id) == LET tests == Tests(model, call, id) IN tests[SelectInSeq(tests, LAMBDA t : t[1])][2]

(* resolution                                                               *)
Unmodelled == [id |-> 0, role |-> "none", custom |-> FALSE, certainty |-> "unset"]
Resolution(model, status, call) ==
    LET proven == status = "verified"
    IN  [model |-> model,
         status |-> IF call.arguments \in model.rejects THEN "rejected"
                    ELSE IF \/ model.certainty = "review"
                            \/ model.certainty = "verified" /\ model.role = "guard" /\ ~proven
                         THEN "candidate" ELSE status]
Without(status) == [model |-> Unmodelled, status |-> status]

Candidates(custom, call, id, expectedRole) ==
    SelectSeq(Catalog \o custom,
              LAMBDA m : /\ call.language \in m.languages /\ id.export \in m.names
                         /\ expectedRole \in {"any", m.role})
Agnostic(models) == SelectSeq(models, LAMBDA m : "agnostic" \in m.flags)

(* The call name is that of a declaration of the workspace.                 *)
Shadowed(models, call, id) ==
    IF id.type \in Dynamic /\ Agnostic(models) # <<>>
    THEN Resolution(Head(Agnostic(models)), "candidate", call) ELSE Without("rejected")

(* No model has evidence: by name alone a call is rejected or a candidate.  *)
ByNameAlone(models, call, id, expectedRole) ==
    LET script == call.language # "java"
        typed == id.type \notin Dynamic \union {<<>>}
        agnostic == Agnostic(models)
    IN  IF expectedRole = "guard" /\ typed THEN Without("rejected")
        ELSE IF ~script /\ id.type \in Dynamic THEN Without("candidate")
        ELSE IF id.kind \in {"local", "import", "require"} \/ (id.verified /\ id.type # <<>>) THEN Without("rejected")
        ELSE IF script /\ call.receiver # <<>> /\ agnostic # <<>>
             THEN IF Len(agnostic) = 1 THEN Resolution(agnostic[1], "candidate", call) ELSE Without("candidate")
        ELSE IF script /\ call.receiver # <<>> THEN Without("rejected")
        ELSE Without("candidate")

ResolveSemanticCall(custom, call, expectedRole) ==
    LET id == Identity(call)
        models == Candidates(custom, call, id, expectedRole)
        evidence == [k \in DOMAIN models |-> Evidence(models[k], call, id)]
        first == SelectInSeq(evidence, LAMBDA e : e # "none")
    IN  IF models = <<>> THEN Without("none")
        ELSE IF id.shadowed /\ ~\E m \in ToSet(models) : m.unqualified THEN Shadowed(models, call, id)
        ELSE IF first # 0 THEN Resolution(models[first], evidence[first], call)
        ELSE ByNameAlone(models, call, id, expectedRole)

(* modeledCallOperation, genericModeledCall: the operation the call becomes *)
(* and the arguments it reads. A candidate becomes one to be reviewed if it *)
(* is a sink, or a source or propagator of the project.                     *)
Reviewed(resolved) ==
    /\ resolved.status = "candidate"
    /\ resolved.model.role = "sink" \/ (resolved.model.custom /\ resolved.model.role \in {"source", "propagator"})
TaintArguments(model, call) == {i \in 0..call.arity - 1 : i \in model.inputs \/ (model.rest >= 0 /\ i >= model.rest)}
NoOperation == [kind |-> "none", inputs |-> {}]
ModeledCall(resolved, call) ==
    LET model == resolved.model
    IN  IF resolved.status \in {"verified", "syntax"} \/ Reviewed(resolved)
        THEN [kind |-> IF model.role = "propagator" THEN "call" ELSE model.role, inputs |-> TaintArguments(model, call)]
        ELSE NoOperation
===============================================================================
