----------------------- MODULE DependencyFingerprints -----------------------
(***************************************************************************)
(* The fingerprints review decisions are recorded under                    *)
(* (src/src/review/fingerprint.js): a file's fingerprint stands for the    *)
(* file and everything it depends on, through cycles of any length.  A     *)
(* graph is [digest, dependencies], functions on the same files; a hash is *)
(* the value hashed, so that different values have different hashes.       *)
(***************************************************************************)
EXTENDS Integers, FiniteSets, Sequences, SequencesExt

Edges(graph, key) == graph.dependencies[key] \intersect DOMAIN graph.digest

(* The first search: the order in which it leaves the files.  A stack of   *)
(* files whose edges are followed one at a time; at most one step per      *)
(* file and per edge, and one more to find each file finished.             *)
FinishOrder(graph) ==
    LET keys == DOMAIN graph.digest
        Step(s) ==
            IF s.stack = <<>>
            THEN IF s.seen = keys THEN s
                 ELSE LET key == CHOOSE k \in keys \ s.seen : TRUE
                      IN  [s EXCEPT !.seen = @ \union {key}, !.stack = <<key>>]
            ELSE LET key == Last(s.stack)
                     unseen == Edges(graph, key) \ s.seen
                 IN  IF unseen = {}
                     THEN [s EXCEPT !.stack = Front(@), !.order = Append(@, key)]
                     ELSE LET next == CHOOSE k \in unseen : TRUE
                          IN  [s EXCEPT !.seen = @ \union {next}, !.stack = Append(@, next)]
        run[n \in 0..2 * Cardinality(keys)] ==
            IF n = 0 THEN [stack |-> <<>>, seen |-> {}, order |-> <<>>] ELSE Step(run[n - 1])
    IN  run[2 * Cardinality(keys)].order

(* What key reaches against the edges, through files not yet in a          *)
(* component.                                                              *)
ReachedBackwards(graph, key, free) ==
    LET round[n \in 0..Cardinality(free)] ==
            IF n = 0 THEN {key}
            ELSE round[n - 1] \union {f \in free : Edges(graph, f) \intersect round[n - 1] /= {}}
    IN  round[Cardinality(free)]

(* The second search, in the reverse of that order: the components,        *)
(* callers before the components they depend on.                           *)
ComponentsIn(graph, order) ==
    LET run[n \in 0..Len(order)] ==
            IF n = 0 THEN <<>>
            ELSE LET found == run[n - 1]
                     taken == UNION Range(found)
                 IN  IF order[n] \in taken THEN found
                     ELSE Append(found,
                            ReachedBackwards(graph, order[n], DOMAIN graph.digest \ taken))
    IN  run[Len(order)]

Components(graph) == ComponentsIn(graph, Reverse(FinishOrder(graph)))

(* The slip the comment at the loop warns of: hashing in the order found,  *)
(* a component before those it depends on.                                 *)
HashCallersFirst(graph) ==
    [key \in DOMAIN graph.digest |-> <<graph.digest[key], graph.dependencies[key]>>]

(* Hashed from the last component to the first: a component's hash holds   *)
(* its members, with their own digests and dependencies, and the hashes of *)
(* the components it depends on.                                           *)
HashComponents(graph, components) ==
    LET count == Len(components)
        ComponentOf(key) == CHOOSE i \in 1..count : key \in components[i]
        hashes[n \in 0..count] ==     \* of the last n components
            IF n = 0 THEN [i \in {} |-> {}]
            ELSE LET id == count + 1 - n
                     known == hashes[n - 1]
                     next == {ComponentOf(d) : d \in UNION {Edges(graph, k) : k \in components[id]}} \ {id}
                     hash == [members |-> [k \in components[id] |-> <<graph.digest[k], graph.dependencies[k]>>],
                              dependencies |-> {known[i] : i \in next \intersect DOMAIN known}]
                 IN  [i \in DOMAIN known \union {id} |-> IF i = id THEN hash ELSE known[i]]
    IN  [key \in DOMAIN graph.digest |-> hashes[count][ComponentOf(key)]]

DependencyHashes(graph) == HashComponents(graph, Components(graph))

(* What a fingerprint stands for, without components: the files reached    *)
(* by dependencies, with their digests and dependencies.                   *)
ReachedFrom(graph, key) ==
    LET keys == DOMAIN graph.digest
        round[n \in 0..Cardinality(keys)] ==
            IF n = 0 THEN {key} ELSE round[n - 1] \union UNION {Edges(graph, k) : k \in round[n - 1]}
    IN  [k \in round[Cardinality(keys)] |-> <<graph.digest[k], graph.dependencies[k]>>]
=============================================================================
