------------------------- MODULE MCReviewStatusStore -------------------------
(* The decisions for TLC: a target and a finding, and one old id.          *)
EXTENDS ReviewStatusStore

CONSTANT o

MCLegacyIds == [i \in Item |-> IF i \in Finding THEN <<>> ELSE <<o>>]

On(code, reopened, orphaned) ==
    [fingerprint |-> code, needsReview |-> reopened, orphanedAt |-> orphaned]
Only(id, record) == [k \in {id} |-> record]

(* Nothing; a decision of an older version; one on each item.              *)
MCInitial == {Only(o, On(NoPrint, FALSE, NotOrphaned)),
              [k \in Id |-> On(IF k = o THEN NoPrint ELSE 1, FALSE, NotOrphaned)]}

(* All there; a target gone; a target without a fingerprint, the finding   *)
(* gone.                                                                   *)
MCFound == {<<1, 1, 1>>, <<Absent, 1, 1>>, <<1, NoPrint, Absent>>}

MCImports == {[id |-> 3, record |-> On(1, FALSE, 1)], [id |-> o, record |-> On(2, TRUE, NotOrphaned)]}
=============================================================================
