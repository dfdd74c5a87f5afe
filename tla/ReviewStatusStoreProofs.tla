----------------------- MODULE ReviewStatusStoreProofs -----------------------
(***************************************************************************)
(* The reviewer's decisions, for any items, old ids, days and events.      *)
(***************************************************************************)
EXTENDS ReviewStatusStore, SequenceTheorems, WellFoundedInduction, TLAPS

(* Of places in a sequence there is a first.                               *)
LEMMA LeastNumber ==
    ASSUME NEW S \in SUBSET Nat, S # {}
    PROVE  \E n \in S : \A k \in S : n <= k
<1> DEFINE R == {p \in Nat \X Nat : p[1] < p[2]}
<1>1. IsWellFoundedOn(R, Nat)
  BY NatLessThanWellFounded, Zenon DEF OpToRel
<1>2. PICK n \in S : \A k \in S : <<k, n>> \notin R
  BY <1>1, WFMin, Zenon
<1>3. \A k \in S : ~(k < n)
  BY <1>2
<1> QED
  BY <1>3

-----------------------------------------------------------------------------
(* Stores.                                                                 *)

LEMMA StatusesAre ==
    ASSUME NEW s \in Statuses
    PROVE  DOMAIN s \subseteq Id /\ \A id \in DOMAIN s : s[id] \in Record
  BY DEF Statuses

LEMMA OldIdsAreOld ==
    ASSUME NEW i \in Item
    PROVE  /\ OldIdsOf(i) \subseteq Old
           /\ i \in Finding => OldIdsOf(i) = {}
           /\ DOMAIN LegacyIds[i] \subseteq Nat
<1>1. LegacyIds[i] \in Seq(Old)
  BY LegacyIdsAreOld
<1>2. /\ DOMAIN LegacyIds[i] = 1..Len(LegacyIds[i]) /\ Len(LegacyIds[i]) \in Nat
      /\ \A n \in DOMAIN LegacyIds[i] : LegacyIds[i][n] \in Old
  BY <1>1, ElementOfSeq, LenProperties
<1>3. i \in Finding => Len(LegacyIds[i]) = 0
  BY FindingsHaveNoLegacyIds
<1> QED
  BY <1>2, <1>3 DEF OldIdsOf

LEMMA RefreshedIs ==
    ASSUME NEW r \in Record, NEW c \in 0..MaxCode
    PROVE  /\ Refreshed(r, c) \in Record
           /\ Refreshed(r, c).orphanedAt = NotOrphaned
           /\ Refreshed(r, c).fingerprint = r.fingerprint
           /\ r.needsReview => Refreshed(r, c).needsReview
           /\ Refreshed(r, c).needsReview \/ c = NoPrint \/ r.fingerprint = c
<1> DEFINE review == r.needsReview \/ (c /= NoPrint /\ r.fingerprint /= c)
<1>1. NotOrphaned \in 0..MaxDay
  BY BoundsAreNumbers DEF NotOrphaned
<1>2. DOMAIN r = {"fingerprint", "needsReview", "orphanedAt"}
      /\ r.fingerprint \in 0..MaxCode /\ r.needsReview \in BOOLEAN
  BY DEF Record
<1>3. Refreshed(r, c) = [r EXCEPT !.orphanedAt = NotOrphaned, !.needsReview = review]
  BY DEF Refreshed
<1>4. review \in BOOLEAN
  OBVIOUS
<1> HIDE DEF review
<1>5. /\ Refreshed(r, c).orphanedAt = NotOrphaned
      /\ Refreshed(r, c).fingerprint = r.fingerprint
      /\ Refreshed(r, c).needsReview = review
      /\ Refreshed(r, c) \in Record
  BY <1>1, <1>2, <1>3, <1>4 DEF Record
<1> QED
  BY <1>5 DEF review

LEMMA OrphanedIs ==
    ASSUME NEW r \in Record, day \in 1..MaxDay
    PROVE  /\ Orphaned(r) \in Record
           /\ Orphaned(r).orphanedAt = IF r.orphanedAt = NotOrphaned THEN day ELSE r.orphanedAt
           /\ Orphaned(r).fingerprint = r.fingerprint
           /\ Orphaned(r).needsReview = r.needsReview
  BY BoundsAreNumbers DEF Orphaned, Record, NotOrphaned

(* A decision comes from its own id, if there is one, or else from an old  *)
(* one.                                                                    *)
LEMMA SourceIs ==
    ASSUME NEW s \in Statuses, NEW m, NEW i \in Item,
           i \in DOMAIN s \/ Claims(s, m, i) # {}
    PROVE  /\ Source(s, m, i) \in DOMAIN s \intersect (OldIdsOf(i) \union {i})
           /\ i \in DOMAIN s => Source(s, m, i) = i
<1>1. CASE i \in DOMAIN s
  BY <1>1 DEF Source
<1>2. CASE i \notin DOMAIN s
  <2> DEFINE n == CHOOSE n \in Claims(s, m, i) : \A k \in Claims(s, m, i) : n <= k
  <2>1. Claims(s, m, i) \in SUBSET Nat /\ Claims(s, m, i) # {}
    BY <1>2, OldIdsAreOld DEF Claims
  <2>2. n \in Claims(s, m, i)
    BY <2>1, LeastNumber, Zenon
  <2>3. Source(s, m, i) = LegacyIds[i][n]
    BY <1>2 DEF Source
  <2> QED
    BY <1>2, <2>2, <2>3 DEF Claims, OldIdsOf
<1> QED
  BY <1>1, <1>2

-----------------------------------------------------------------------------
(* Reconciliation: whose decision each is, and which are left out.         *)
LEMMA ReconciledIs ==
    ASSUME NEW s \in Statuses, NEW m \in [Item -> Code], NEW all \in BOOLEAN
    PROVE  LET R == Reconciled(s, m, all)
           IN  /\ \A id \in DOMAIN R :
                     \/ /\ id \in Present(m)
                        /\ id \in DOMAIN s \/ Claims(s, m, id) /= {}
                        /\ R[id] = Refreshed(s[Source(s, m, id)], m[id])
                     \/ /\ id \in DOMAIN s \ Present(m)
                        /\ R[id] = IF all THEN Orphaned(s[id]) ELSE s[id]
               /\ \A id \in Present(m) :
                     id \in DOMAIN s \/ Claims(s, m, id) /= {} => id \in DOMAIN R
               /\ \A id \in DOMAIN s \ Present(m) :
                     \/ id \in DOMAIN R
                     \/ Expired(s[id])
                     \/ \E i \in Present(m) : id \in OldIdsOf(i)
               /\ R = [id \in DOMAIN R |-> R[id]]
<1> DEFINE here == Present(m)
           found == {i \in here : i \in DOMAIN s \/ Claims(s, m, i) /= {}}
           gone == DOMAIN s \ (here \union UNION {OldIdsOf(i) : i \in here})
           kept == {id \in gone : ~(all /\ Expired(s[id]))}
           value(id) == IF id \in here THEN Refreshed(s[Source(s, m, id)], m[id])
                        ELSE IF all THEN Orphaned(s[id])
                        ELSE s[id]
<1>1. Reconciled(s, m, all) = [id \in found \union kept |-> value(id)]
  BY DEF Reconciled
<1>2. found \subseteq here /\ kept \subseteq DOMAIN s \ here
  OBVIOUS
<1>3. \A id \in DOMAIN s \ here : id \in kept \/ Expired(s[id]) \/ \E i \in here : id \in OldIdsOf(i)
  OBVIOUS
<1>4. /\ DOMAIN Reconciled(s, m, all) = found \union kept
      /\ \A id \in found \union kept : Reconciled(s, m, all)[id] = value(id)
  BY <1>1
<1> HIDE DEF kept
<1> QED
  BY <1>1, <1>2, <1>3, <1>4

(* What a reconciliation says of an item that is there is on its code.     *)
LEMMA ReconciledOfItem ==
    ASSUME NEW s \in Statuses, NEW m \in [Item -> Code], NEW all \in BOOLEAN,
           NEW id \in DOMAIN Reconciled(s, m, all), id \in Present(m)
    PROVE  LET r == Reconciled(s, m, all)[id]
               k == Source(s, m, id)
           IN  /\ k \in DOMAIN s \intersect (OldIdsOf(id) \union {id})
               /\ id \in DOMAIN s => k = id
               /\ r \in Record /\ r.orphanedAt = NotOrphaned
               /\ r.fingerprint = s[k].fingerprint
               /\ s[k].needsReview => r.needsReview
               /\ r.needsReview \/ m[id] = NoPrint \/ r.fingerprint = m[id]
<1>1. id \in Item /\ m[id] \in 0..MaxCode
  BY BoundsAreNumbers DEF Present, Code, Absent
<1>2. /\ id \in DOMAIN s \/ Claims(s, m, id) /= {}
      /\ Reconciled(s, m, all)[id] = Refreshed(s[Source(s, m, id)], m[id])
  BY ReconciledIs
<1>3. /\ Source(s, m, id) \in DOMAIN s \intersect (OldIdsOf(id) \union {id})
      /\ id \in DOMAIN s => Source(s, m, id) = id
  BY <1>1, <1>2, SourceIs
<1>4. s[Source(s, m, id)] \in Record
  BY <1>3, StatusesAre
<1> QED
  BY <1>1, <1>2, <1>3, <1>4, RefreshedIs

(* What it says of any other id is what was said.                          *)
LEMMA ReconciledOfOther ==
    ASSUME NEW s \in Statuses, NEW m \in [Item -> Code], NEW all \in BOOLEAN,
           NEW id \in DOMAIN Reconciled(s, m, all), id \notin Present(m), day \in 1..MaxDay
    PROVE  LET r == Reconciled(s, m, all)[id]
           IN  /\ id \in DOMAIN s
               /\ r \in Record
               /\ r.orphanedAt \in {s[id].orphanedAt, day}
               /\ s[id].orphanedAt /= NotOrphaned => r.orphanedAt = s[id].orphanedAt
               /\ r.fingerprint = s[id].fingerprint
               /\ r.needsReview = s[id].needsReview
<1>1. /\ id \in DOMAIN s
      /\ Reconciled(s, m, all)[id] = IF all THEN Orphaned(s[id]) ELSE s[id]
  BY ReconciledIs
<1>2. s[id] \in Record
  BY <1>1, StatusesAre
<1> QED
  BY <1>1, <1>2, OrphanedIs

LEMMA ReconciledTyped ==
    ASSUME NEW s \in Statuses, NEW m \in [Item -> Code], NEW all \in BOOLEAN, day \in 1..MaxDay
    PROVE  Reconciled(s, m, all) \in Statuses
<1> DEFINE R == Reconciled(s, m, all)
<1>1. \A id \in DOMAIN R : R[id] \in Record
  BY ReconciledOfItem, ReconciledOfOther
<1>2. DOMAIN R \subseteq Id
  BY ReconciledIs, StatusesAre DEF Present, Id
<1>3. R = [id \in DOMAIN R |-> R[id]]
  BY ReconciledIs
<1> HIDE DEF R
<1>4. R \in [DOMAIN R -> Record]
  BY <1>1, <1>3
<1>5. R \in Statuses
  BY <1>2, <1>4 DEF Statuses
<1> QED
  BY <1>5 DEF R

(* A decision is kept, moved to an item that goes by its id, or expired.   *)
LEMMA ReconciledKeeps ==
    ASSUME NEW s \in Statuses, NEW m \in [Item -> Code], NEW all \in BOOLEAN,
           NEW id \in DOMAIN s, day \in 1..MaxDay
    PROVE  LET R == Reconciled(s, m, all)
           IN  \/ /\ id \in DOMAIN R
                  /\ R[id].fingerprint = s[id].fingerprint
                  /\ s[id].needsReview => R[id].needsReview
               \/ id \notin DOMAIN R /\ Expired(s[id])
               \/ /\ id \in Old
                  /\ \E i \in (Item \ Finding) \intersect DOMAIN R :
                        /\ id \in OldIdsOf(i)
                        /\ \E k \in (OldIdsOf(i) \union {i}) \intersect DOMAIN s :
                              /\ i \in DOMAIN s => k = i
                              /\ R[i].fingerprint = s[k].fingerprint
<1> DEFINE R == Reconciled(s, m, all)
<1>1. CASE id \in Present(m)
  <2>1. id \in DOMAIN R
    BY <1>1, ReconciledIs
  <2> QED
    BY <1>1, <2>1, ReconciledOfItem
<1>2. CASE id \notin Present(m) /\ id \in DOMAIN R
  BY <1>2, ReconciledOfOther
<1>3. CASE id \notin Present(m) /\ id \notin DOMAIN R /\ ~Expired(s[id])
  <2> DEFINE bearers == {i \in Present(m) : id \in OldIdsOf(i)}
  <2>1. bearers \in SUBSET Nat /\ bearers /= {} /\ bearers \subseteq Item
    BY <1>3, ReconciledIs, ItemsAreNumbered DEF Present
  <2>2. PICK i \in bearers : \A j \in bearers : i <= j
    BY <2>1, LeastNumber, Zenon
  <2>3. i \in Item /\ i \in Present(m) /\ id \in OldIdsOf(i) /\ i \in Nat
    BY <2>1, <2>2
  <2>4. Claims(s, m, i) /= {}
    <3>1. PICK n \in DOMAIN LegacyIds[i] : LegacyIds[i][n] = id
      BY <2>3 DEF OldIdsOf
    <3>2. \A j \in Present(m) : j < i => id \notin OldIdsOf(j)
      BY <2>2, <2>3, ItemsAreNumbered DEF Present
    <3> QED
      BY <3>1, <3>2 DEF Claims
  <2>5. i \in DOMAIN R
    BY <2>3, <2>4, ReconciledIs
  <2>6. i \notin Finding /\ id \in Old
    BY <2>3, OldIdsAreOld
  <2>7. /\ Source(s, m, i) \in DOMAIN s \intersect (OldIdsOf(i) \union {i})
        /\ i \in DOMAIN s => Source(s, m, i) = i
        /\ R[i].fingerprint = s[Source(s, m, i)].fingerprint
    BY <2>3, <2>5, ReconciledOfItem
  <2> QED
    BY <2>3, <2>5, <2>6, <2>7
<1> QED
  BY <1>1, <1>2, <1>3

-----------------------------------------------------------------------------
(* Writes that wait.                                                       *)

(* A write put at the end is the only new one.                             *)
LEMMA Enqueued ==
    ASSUME TypeOK, NEW write \in Waiting, Enqueue(write)
    PROVE  /\ writes' \in Seq(Waiting)
           /\ DOMAIN writes' = DOMAIN writes \union {Len(writes) + 1}
           /\ Len(writes) + 1 \notin DOMAIN writes
           /\ writes'[Len(writes) + 1] = write
           /\ \A n \in DOMAIN writes : writes'[n] = writes[n]
<1>1. writes \in Seq(Waiting) /\ writes' = Append(writes, write)
  BY DEF TypeOK, Enqueue
<1> QED
  BY <1>1, AppendProperties, LenProperties

(* The write whose turn it is is taken out; those behind it move up.       *)
LEMMA TurnTakes ==
    ASSUME TypeOK, NEW op, Turn(op)
    PROVE  /\ ~job.running
           /\ writes' \in Seq(Waiting)
           /\ 1 \in DOMAIN writes /\ Head(writes) = writes[1]
           /\ Head(writes) \in Waiting /\ Head(writes).op = op
           /\ \A n \in DOMAIN writes' : n + 1 \in DOMAIN writes /\ writes'[n] = writes[n + 1]
           /\ \A n \in DOMAIN writes : n = 1 \/ (n - 1 \in DOMAIN writes' /\ writes'[n - 1] = writes[n])
<1>1. writes \in Seq(Waiting) /\ writes /= <<>> /\ writes' = Tail(writes) /\ Head(writes).op = op
      /\ ~job.running
  BY DEF TypeOK, Turn, MyTurn
<1>2. /\ Len(writes) \in Nat \ {0} /\ DOMAIN writes = 1..Len(writes)
      /\ Head(writes) = writes[1] /\ Head(writes) \in Waiting
      /\ writes' \in Seq(Waiting) /\ DOMAIN writes' = 1..(Len(writes) - 1)
      /\ \A n \in 1..(Len(writes) - 1) : writes'[n] = writes[n + 1]
  BY <1>1, HeadTailProperties, LenProperties, EmptySeq, ElementOfSeq
<1> QED
  BY <1>1, <1>2

LEMMA WaitingIs ==
    ASSUME NEW w \in Waiting
    PROVE  /\ w.op = "reconcile" => w.complete \in BOOLEAN /\ w.by \in {"update", "index"}
           /\ w.op \in {"decide", "withdraw"} => w.id \in Item
           /\ w.op = "import" => /\ w.id \in Id /\ w.record \in Record
                                /\ w.record.orphanedAt \in {NotOrphaned, 1}
  BY DEF Waiting

LEMMA ReconcileWaits ==
    ASSUME NEW all \in BOOLEAN, NEW by \in {"update", "index"}
    PROVE  Reconcile(all, by) \in Waiting
  BY DEF Reconcile, Waiting

LEMMA DecisionIs ==
    ASSUME NEW m \in [Item -> Code], NEW i \in Item
    PROVE  /\ Decision(m, i) \in Record
           /\ Decision(m, i).orphanedAt = NotOrphaned
           /\ i \in Present(m) => Decision(m, i).fingerprint = m[i]
  BY BoundsAreNumbers DEF Decision, Record, Code, Absent, NoPrint, NotOrphaned, Present

-----------------------------------------------------------------------------
(* Types.                                                                  *)

LEMMA NothingTyped == NoJob.result \in Statuses
<1>1. NoJob.result \in [{} -> Record]
  BY DEF NoJob
<1> QED
  BY <1>1 DEF Statuses

LEMMA SeenTyped ==
    ASSUME NEW ids, lastSeen \in [Id -> 1..MaxDay], day \in 1..MaxDay, Seen(ids)
    PROVE  /\ lastSeen' \in [Id -> 1..MaxDay]
           /\ \A id \in Id : lastSeen'[id] = IF id \in ids THEN day ELSE lastSeen[id]
  BY DEF Seen

(* A store spliced from two is made of their records.                      *)
LEMMA SpliceTyped ==
    ASSUME NEW ids, NEW new \in Statuses, NEW old \in Statuses
    PROVE  Splice(ids, new, old) \in Statuses
<1> DEFINE D == (DOMAIN new \intersect ids) \union (DOMAIN old \ ids)
<1>1. Splice(ids, new, old) = [id \in D |-> IF id \in ids THEN new[id] ELSE old[id]]
  BY DEF Splice
<1>2. D \subseteq Id /\ \A id \in D : (IF id \in ids THEN new[id] ELSE old[id]) \in Record
  BY StatusesAre
<1> HIDE DEF D
<1>3. Splice(ids, new, old) \in [D -> Record]
  BY <1>1, <1>2
<1> QED
  BY <1>2, <1>3 DEF Statuses

(* What the user's writes leave in the store.                              *)
LEMMA WriteDecisionIs ==
    ASSUME TypeOK, WriteDecision
    PROVE  LET i == Head(writes).id
           IN  /\ i \in Item
               /\ statuses' \in Statuses
               /\ \A id \in DOMAIN statuses' :
                     \/ id = i /\ statuses'[id] = Decision(model, i)
                     \/ /\ id \in DOMAIN statuses /\ statuses'[id] = statuses[id]
                        /\ id /= i \/ lastSeen' = lastSeen
               /\ \A id \in DOMAIN statuses \ (OldIdsOf(i) \union {i}) :
                     id \in DOMAIN statuses' /\ statuses'[id] = statuses[id]
               /\ lastSeen' = lastSeen \/ Seen({i})
<1> DEFINE i == Head(writes).id
           dropped == IF i \in Present(model) THEN OldIdsOf(i) ELSE {}
           D == (DOMAIN statuses \ dropped) \union {i}
           written == [id \in D |-> IF id = i THEN Decision(model, i) ELSE statuses[id]]
<1>1. i \in Item
  BY TurnTakes, WaitingIs DEF WriteDecision
<1>2. model \in [Item -> Code] /\ statuses \in Statuses
  BY DEF TypeOK
<1>3. \/ statuses' = statuses /\ lastSeen' = lastSeen /\ i \notin Present(model)
      \/ statuses' = written /\ Seen({i})
  BY DEF WriteDecision
<1>4. D \subseteq Id /\ \A id \in D : (IF id = i THEN Decision(model, i) ELSE statuses[id]) \in Record
  BY <1>1, <1>2, StatusesAre, DecisionIs DEF Id
<1>5. written \in [D -> Record]
  BY <1>4
<1>6. written \in Statuses
  <2> HIDE DEF D, written
  <2> QED
    BY <1>4, <1>5 DEF Statuses
<1>7. CASE statuses' = statuses /\ lastSeen' = lastSeen
  BY <1>1, <1>2, <1>7
<1>8. CASE statuses' = written /\ Seen({i})
  <2>1. DOMAIN statuses' = D /\ \A id \in D : statuses'[id] = IF id = i THEN Decision(model, i) ELSE statuses[id]
    BY <1>8
  <2>2. dropped \subseteq OldIdsOf(i)
    OBVIOUS
  <2> HIDE DEF dropped, written
  <2> QED
    BY <1>1, <1>6, <1>8, <2>1, <2>2
<1> QED
  BY <1>3, <1>7, <1>8

LEMMA WriteWithdrawalIs ==
    ASSUME TypeOK, WriteWithdrawal
    PROVE  LET i == Head(writes).id
           IN  /\ i \in Item
               /\ statuses' \in Statuses
               /\ \A id \in DOMAIN statuses' : id \in DOMAIN statuses /\ statuses'[id] = statuses[id]
               /\ \A id \in DOMAIN statuses \ (OldIdsOf(i) \union {i}) : id \in DOMAIN statuses'
<1> DEFINE i == Head(writes).id
           dropped == IF i \in Present(model) THEN OldIdsOf(i) ELSE {}
           D == DOMAIN statuses \ (dropped \union {i})
<1>1. i \in Item
  BY TurnTakes, WaitingIs DEF WriteWithdrawal
<1>2. statuses \in Statuses
  BY DEF TypeOK
<1>3. statuses' = statuses \/ statuses' = [id \in D |-> statuses[id]]
  BY DEF WriteWithdrawal
<1>4. CASE statuses' = statuses
  BY <1>1, <1>2, <1>4
<1>5. CASE statuses' = [id \in D |-> statuses[id]]
  <2>1. D \subseteq Id /\ \A id \in D : statuses[id] \in Record
    BY <1>2, StatusesAre
  <2>2. dropped \subseteq OldIdsOf(i) /\ DOMAIN statuses \ (OldIdsOf(i) \union {i}) \subseteq D
    OBVIOUS
  <2>3. D \subseteq DOMAIN statuses
    OBVIOUS
  <2> HIDE DEF D
  <2>4. statuses' \in [D -> Record]
    BY <1>5, <2>1
  <2>5. statuses' \in Statuses
    BY <2>1, <2>4 DEF Statuses
  <2> QED
    BY <1>1, <1>5, <2>2, <2>3, <2>5
<1> QED
  BY <1>3, <1>4, <1>5

LEMMA WriteImportIs ==
    ASSUME TypeOK, WriteImport
    PROVE  LET w == Head(writes)
           IN  /\ w \in Waiting /\ w.id \in Id /\ w.record \in Record
               /\ w.record.orphanedAt \in {NotOrphaned, 1}
               /\ statuses' \in Statuses
               /\ DOMAIN statuses' = DOMAIN statuses \union {w.id}
               /\ \A id \in DOMAIN statuses' :
                     statuses'[id] = IF id = w.id THEN w.record ELSE statuses[id]
<1> DEFINE w == Head(writes)
           D == DOMAIN statuses \union {w.id}
<1>1. w \in Waiting /\ w.id \in Id /\ w.record \in Record /\ w.record.orphanedAt \in {NotOrphaned, 1}
  BY TurnTakes, WaitingIs DEF WriteImport
<1>2. statuses' = [id \in D |-> IF id = w.id THEN w.record ELSE statuses[id]]
  BY DEF WriteImport
<1>3. D \subseteq Id /\ \A id \in D : (IF id = w.id THEN w.record ELSE statuses[id]) \in Record
  BY <1>1, StatusesAre DEF TypeOK
<1> HIDE DEF w
<1>4. statuses' \in [D -> Record]
  BY <1>2, <1>3
<1>5. statuses' \in Statuses
  <2> HIDE DEF D
  <2> QED
    BY <1>3, <1>4 DEF Statuses
<1> QED
  BY <1>1, <1>2, <1>5 DEF w

LEMMA TypeInit == Init => TypeOK
<1> SUFFICES ASSUME Init PROVE TypeOK
  OBVIOUS
<1>1. /\ complete \in BOOLEAN
      /\ index \in [phase : {"idle", "analysed", "ready"}, complete : BOOLEAN]
      /\ imported \in BOOLEAN
      /\ leftOut \subseteq Item
  BY DEF Init, NoIndex
<1>5. statuses \in Statuses
  BY InitialIsTyped DEF Init
<1>6. day \in 1..MaxDay /\ events \in 0..MaxEvents
  BY BoundsAreNumbers DEF Init
<1>4. model \in [Item -> Code] /\ lastSeen \in [Id -> 1..MaxDay]
  BY BoundsAreNumbers DEF Init, Code, Absent
<1>2. writes \in Seq(Waiting)
  BY EmptySeq DEF Init
<1>3. job \in [running : BOOLEAN, by : {"none", "update", "index"}, result : Statuses, seen : SUBSET Item]
  BY NothingTyped DEF Init, NoJob
<1> QED
  BY <1>1, <1>2, <1>3, <1>4, <1>5, <1>6 DEF TypeOK

LEMMA TypeNext ==
    ASSUME TypeOK, [Next]_vars
    PROVE  TypeOK'
<1> USE BoundsAreNumbers
<1>e. Event => events' \in 0..MaxEvents
  BY DEF TypeOK, Event
<1>s. NoJob \in [running : BOOLEAN, by : {"none", "update", "index"}, result : Statuses, seen : SUBSET Item]
  BY NothingTyped DEF NoJob
<1>1. CASE Update
  <2>1. writes' \in Seq(Waiting)
    BY <1>1, Enqueued, ReconcileWaits DEF Update, TypeOK
  <2>2. model' \in [Item -> Code] /\ leftOut' \subseteq Item
    BY <1>1 DEF Update, TypeOK
  <2> QED
    BY <1>1, <1>e, <2>1, <2>2 DEF Update, TypeOK
<1>2. CASE LoseCoverage
  BY <1>2, <1>e DEF LoseCoverage, TypeOK
<1>3. CASE IndexAnalysed
  <2>1. model' \in [Item -> Code] /\ leftOut' \subseteq Item
    BY <1>3, FoundIsTyped DEF IndexAnalysed, Present
  <2>2. complete' \in BOOLEAN /\ index' \in [phase : {"idle", "analysed", "ready"}, complete : BOOLEAN]
    BY <1>3 DEF IndexAnalysed
  <2> QED
    BY <1>3, <1>e, <2>1, <2>2 DEF IndexAnalysed, TypeOK
<1>4. CASE IndexReady
  <2>1. index.complete \in BOOLEAN
    BY DEF TypeOK
  <2>2. writes' \in Seq(Waiting)
    BY <1>4, <2>1, Enqueued, ReconcileWaits DEF IndexReady
  <2>3. index' \in [phase : {"idle", "analysed", "ready"}, complete : BOOLEAN]
    BY <1>4 DEF IndexReady, TypeOK
  <2> QED
    BY <1>4, <2>2, <2>3 DEF IndexReady, TypeOK
<1>5. CASE Decide
  <2>1. PICK i \in Present(model), op \in {"decide", "withdraw"} : Enqueue([op |-> op, id |-> i])
    BY <1>5 DEF Decide
  <2>2. [op |-> op, id |-> i] \in Waiting
    BY DEF Waiting, Present
  <2>3. writes' \in Seq(Waiting)
    BY <2>1, <2>2, Enqueued
  <2> QED
    BY <1>5, <1>e, <2>3 DEF Decide, TypeOK
<1>6. CASE Import
  <2>1. PICK import \in Imports :
          Enqueue([op |-> "import", id |-> import.id, record |-> import.record])
    BY <1>6 DEF Import
  <2>2. [op |-> "import", id |-> import.id, record |-> import.record] \in Waiting
    BY ImportsAreTyped DEF Waiting
  <2>3. writes' \in Seq(Waiting)
    BY <2>1, <2>2, Enqueued
  <2> QED
    BY <1>6, <1>e, <2>3 DEF Import, TypeOK
<1>7. CASE ImportReconciles
  <2>1. writes' \in Seq(Waiting)
    BY <1>7, Enqueued, ReconcileWaits DEF ImportReconciles, TypeOK
  <2> QED
    BY <1>7, <2>1 DEF ImportReconciles, TypeOK
<1>8. CASE Restart
  <2>1. model' \in [Item -> Code] /\ index' \in [phase : {"idle", "analysed", "ready"}, complete : BOOLEAN]
    BY <1>8 DEF Restart, NoIndex, Code, Absent
  <2> QED
    BY <1>8, <1>e, <1>s, <2>1, EmptySeq DEF Restart, TypeOK
<1>9. CASE NextDay
  BY <1>9 DEF NextDay, TypeOK
<1>10. CASE WriteDecision
  <2>1. writes' \in Seq(Waiting)
    BY <1>10, TurnTakes DEF WriteDecision
  <2>2. lastSeen' \in [Id -> 1..MaxDay]
    BY <1>10, WriteDecisionIs, SeenTyped DEF TypeOK
  <2> QED
    BY <1>10, <2>1, <2>2, WriteDecisionIs DEF WriteDecision, TypeOK
<1>11. CASE WriteWithdrawal
  <2>1. writes' \in Seq(Waiting)
    BY <1>11, TurnTakes DEF WriteWithdrawal
  <2> QED
    BY <1>11, <2>1, WriteWithdrawalIs DEF WriteWithdrawal, TypeOK
<1>12. CASE WriteImport
  <2>1. writes' \in Seq(Waiting)
    BY <1>12, TurnTakes DEF WriteImport
  <2>2. lastSeen' \in [Id -> 1..MaxDay]
    BY <1>12, WriteImportIs DEF WriteImport, TypeOK, NotOrphaned
  <2> QED
    BY <1>12, <2>1, <2>2, WriteImportIs DEF WriteImport, TypeOK
<1>13. CASE WriteTargets
  <2> DEFINE result == Reconciled(statuses, model, Head(writes).complete)
  <2>1. writes' \in Seq(Waiting) /\ Head(writes).complete \in BOOLEAN /\ Head(writes).by \in {"update", "index"}
    BY <1>13, TurnTakes, WaitingIs DEF WriteTargets
  <2>2. result \in Statuses
    BY <2>1, ReconciledTyped DEF TypeOK
  <2>3. statuses' \in Statuses
    <3> HIDE DEF result
    <3>1. statuses' = Splice(Id \ Finding, result, statuses)
      BY <1>13 DEF WriteTargets, result
    <3>2. statuses \in Statuses
      BY DEF TypeOK
    <3> QED
      BY <2>2, <3>1, <3>2, SpliceTyped
  <2>5. lastSeen' \in [Id -> 1..MaxDay]
    BY <1>13, SeenTyped DEF WriteTargets, TypeOK
  <2>4. job' \in [running : BOOLEAN, by : {"none", "update", "index"}, result : Statuses, seen : SUBSET Item]
    BY <1>13, <2>1, <2>2 DEF WriteTargets, Present
  <2> QED
    BY <1>13, <2>1, <2>3, <2>4, <2>5 DEF WriteTargets, TypeOK
<1>14. CASE WriteFindings
  <2>1. job.result \in Statuses
    BY DEF TypeOK
  <2>2. statuses' \in Statuses
    <3>1. statuses' = Splice(Finding, job.result, statuses)
      BY <1>14 DEF WriteFindings
    <3>2. statuses \in Statuses
      BY DEF TypeOK
    <3> QED
      BY <2>1, <3>1, <3>2, SpliceTyped
  <2>4. lastSeen' \in [Id -> 1..MaxDay]
    BY <1>14, SeenTyped DEF WriteFindings, TypeOK
  <2>3. index' \in [phase : {"idle", "analysed", "ready"}, complete : BOOLEAN]
    BY <1>14 DEF WriteFindings, NoIndex, TypeOK
  <2> QED
    BY <1>14, <1>s, <2>2, <2>3, <2>4 DEF WriteFindings, TypeOK
<1>15. CASE UNCHANGED vars
  BY <1>15 DEF vars, TypeOK
<1> QED
  BY <1>1, <1>2, <1>3, <1>4, <1>5, <1>6, <1>7, <1>8, <1>9, <1>10, <1>11, <1>12, <1>13, <1>14, <1>15
     DEF Next, Write

(* The stores, the waiting writes and the rest keep within their types.    *)
THEOREM TypeCorrect == Spec => []TypeOK
<1>1. TypeOK /\ [Next]_vars => TypeOK'
  BY TypeNext
<1> QED
  BY TypeInit, <1>1, PTL DEF Spec

-----------------------------------------------------------------------------
(* No decision stands for other code than it was recorded on.              *)

IndexRunning == job.running /\ job.by = "index"
FromIndex(w) == w.op = "reconcile" /\ w.by = "index"

(* An index waits for its reconciliation, of which there is only one.      *)
IndexWaits ==
    /\ \A n \in DOMAIN writes : FromIndex(writes[n]) => index.phase = "ready" /\ ~IndexRunning
    /\ \A n, k \in DOMAIN writes : FromIndex(writes[n]) /\ FromIndex(writes[k]) => n = k
    /\ IndexRunning => index.phase = "ready"

AnotherDue ==
    \/ index.phase = "analysed" \/ imported
    \/ \E n \in DOMAIN writes : writes[n].op = "reconcile"

(* What a reconciliation has written, and what it will write, is on the    *)
(* code as it is, unless another is still to come.                         *)
JobOnCode ==
    job.running /\ ~AnotherDue =>
        \A i \in Present(model) :
            /\ i \in Finding \intersect DOMAIN job.result =>
                  \/ job.result[i].needsReview \/ model[i] = NoPrint
                  \/ job.result[i].fingerprint = model[i]
            /\ i \in DOMAIN statuses \ Finding => OnCodeAsItIs(i)

CodeInv == IndexWaits /\ JobOnCode /\ NoStaleDecision

LEMMA IndexWaitsNext ==
    ASSUME TypeOK, IndexWaits, [Next]_vars
    PROVE  IndexWaits'
<1> USE DEF FromIndex, IndexRunning
<1>1. CASE Update
  <2>1. Reconcile(complete, "update") \in Waiting /\ Reconcile(complete, "update").by = "update"
    BY ReconcileWaits DEF TypeOK, Reconcile
  <2>2. UNCHANGED <<index, job>> /\ Enqueue(Reconcile(complete, "update"))
    BY <1>1 DEF Update
  <2> QED
    BY <2>1, <2>2, Enqueued DEF IndexWaits
<1>2. CASE LoseCoverage
  BY <1>2 DEF LoseCoverage, IndexWaits
<1>3. CASE IndexAnalysed
  BY <1>3 DEF IndexAnalysed, IndexWaits
<1>4. CASE IndexReady
  <2>1. Reconcile(index.complete, "index") \in Waiting
    BY ReconcileWaits DEF TypeOK
  <2>2. /\ Enqueue(Reconcile(index.complete, "index")) /\ UNCHANGED job
        /\ index.phase = "analysed" /\ index' = [index EXCEPT !.phase = "ready"]
    BY <1>4 DEF IndexReady
  <2>3. index'.phase = "ready"
    BY <2>2 DEF TypeOK
  <2>4. ~IndexRunning /\ \A n \in DOMAIN writes : ~FromIndex(writes[n])
    BY <2>2 DEF IndexWaits
  <2> QED
    BY <2>1, <2>2, <2>3, <2>4, Enqueued DEF IndexWaits
<1>5. CASE Decide
  <2>1. PICK i \in Present(model), op \in {"decide", "withdraw"} : Enqueue([op |-> op, id |-> i])
    BY <1>5 DEF Decide
  <2>2. [op |-> op, id |-> i] \in Waiting /\ op /= "reconcile"
    BY DEF Waiting, Present
  <2>3. UNCHANGED <<index, job>>
    BY <1>5 DEF Decide
  <2> QED
    BY <2>1, <2>2, <2>3, Enqueued DEF IndexWaits
<1>6. CASE Import
  <2>1. PICK import \in Imports :
          Enqueue([op |-> "import", id |-> import.id, record |-> import.record])
    BY <1>6 DEF Import
  <2>2. [op |-> "import", id |-> import.id, record |-> import.record] \in Waiting
    BY ImportsAreTyped DEF Waiting
  <2>3. UNCHANGED <<index, job>>
    BY <1>6 DEF Import
  <2> QED
    BY <2>1, <2>2, <2>3, Enqueued DEF IndexWaits
<1>7. CASE ImportReconciles
  <2>1. Reconcile(complete, "update") \in Waiting /\ Reconcile(complete, "update").by = "update"
    BY ReconcileWaits DEF TypeOK, Reconcile
  <2>2. UNCHANGED <<index, job>> /\ Enqueue(Reconcile(complete, "update"))
    BY <1>7 DEF ImportReconciles
  <2> QED
    BY <2>1, <2>2, Enqueued DEF IndexWaits
<1>8. CASE Restart
  BY <1>8 DEF Restart, NoJob, IndexWaits
<1>9. CASE NextDay
  BY <1>9 DEF NextDay, IndexWaits
<1>10. CASE WriteDecision
  BY <1>10, TurnTakes DEF WriteDecision, IndexWaits
<1>11. CASE WriteWithdrawal
  BY <1>11, TurnTakes DEF WriteWithdrawal, IndexWaits
<1>12. CASE WriteImport
  BY <1>12, TurnTakes DEF WriteImport, IndexWaits
<1>13. CASE WriteTargets
  <2>1. UNCHANGED index /\ job'.by = Head(writes).by /\ Turn("reconcile")
    BY <1>13 DEF WriteTargets
  <2>2. IndexRunning' => FromIndex(writes[1])
    BY <2>1, TurnTakes
  <2>3. \A n \in DOMAIN writes' : FromIndex(writes'[n]) =>
          n + 1 \in DOMAIN writes /\ FromIndex(writes[n + 1]) /\ n + 1 /= 1
    <3>1. DOMAIN writes' \subseteq Nat \ {0}
      BY <2>1, TurnTakes, LenProperties
    <3> QED
      BY <2>1, <3>1, TurnTakes
  <2>4. 1 \in DOMAIN writes
    BY <2>1, TurnTakes
  <2>5. \A n, k \in DOMAIN writes' : FromIndex(writes'[n]) /\ FromIndex(writes'[k]) => n = k
    <3>1. DOMAIN writes' \subseteq Nat
      BY <2>1, TurnTakes, LenProperties
    <3> QED
      BY <2>3, <3>1 DEF IndexWaits
  <2> QED
    BY <2>1, <2>2, <2>3, <2>4, <2>5 DEF IndexWaits
<1>14. CASE WriteFindings
  BY <1>14 DEF WriteFindings, NoJob, IndexWaits
<1>15. CASE UNCHANGED vars
  BY <1>15 DEF vars, IndexWaits
<1> QED
  BY <1>1, <1>2, <1>3, <1>4, <1>5, <1>6, <1>7, <1>8, <1>9, <1>10, <1>11, <1>12, <1>13, <1>14, <1>15
     DEF Next, Write

(* A write that waits, other than a reconciliation, makes none due, and    *)
(* one whose turn comes leaves those due that were.                        *)
LEMMA EnqueuedDue ==
    ASSUME TypeOK, NEW write \in Waiting, Enqueue(write), UNCHANGED <<index, imported>>
    PROVE  AnotherDue => AnotherDue'
<1>1. \A n \in DOMAIN writes : n \in DOMAIN writes' /\ writes'[n] = writes[n]
  BY Enqueued
<1> QED
  BY <1>1 DEF AnotherDue

LEMMA ReconcileDue ==
    ASSUME TypeOK, NEW all \in BOOLEAN, NEW by \in {"update", "index"}, Enqueue(Reconcile(all, by))
    PROVE  AnotherDue' /\ ReconciliationDue'
<1>1. Reconcile(all, by) \in Waiting /\ Reconcile(all, by).op = "reconcile"
  BY ReconcileWaits DEF Reconcile
<1>2. Len(writes) + 1 \in DOMAIN writes' /\ writes'[Len(writes) + 1] = Reconcile(all, by)
  BY <1>1, Enqueued
<1> QED
  BY <1>1, <1>2 DEF AnotherDue, ReconciliationDue

LEMMA TurnDue ==
    ASSUME TypeOK, NEW op, op /= "reconcile", Turn(op), UNCHANGED <<index, imported>>
    PROVE  AnotherDue => AnotherDue'
<1>1. \A n \in DOMAIN writes : writes[n].op = "reconcile" =>
        n - 1 \in DOMAIN writes' /\ writes'[n - 1] = writes[n]
  BY TurnTakes
<1> QED
  BY <1>1 DEF AnotherDue

LEMMA DueIs == ReconciliationDue <=> AnotherDue \/ job.running
  BY DEF ReconciliationDue, AnotherDue

LEMMA CodeNext ==
    ASSUME TypeOK, TypeOK', CodeInv, [Next]_vars
    PROVE  CodeInv'
<1>w. IndexWaits'
  BY IndexWaitsNext DEF CodeInv
<1>d. ReconciliationDue' <=> AnotherDue' \/ job'.running
  BY DEF ReconciliationDue, AnotherDue
<1>a. ASSUME AnotherDue' PROVE JobOnCode' /\ NoStaleDecision'
  BY <1>a, <1>d DEF JobOnCode, NoStaleDecision
(* Steps that leave the decisions, the code and the job alone.             *)
<1>b. ASSUME UNCHANGED <<model, statuses, job>>, AnotherDue => AnotherDue'
      PROVE  JobOnCode' /\ NoStaleDecision'
  BY <1>b, <1>d, DueIs DEF CodeInv, JobOnCode, NoStaleDecision, OnCodeAsItIs, Present
<1> SUFFICES JobOnCode' /\ NoStaleDecision'
  BY <1>w DEF CodeInv
<1>1. CASE Update
  BY <1>1, <1>a, ReconcileDue DEF Update, TypeOK
<1>2. CASE LoseCoverage
  BY <1>2, <1>b DEF LoseCoverage, AnotherDue
<1>3. CASE IndexAnalysed
  <2>1. index'.phase = "analysed"
    BY <1>3 DEF IndexAnalysed
  <2> QED
    BY <2>1, <1>a DEF AnotherDue
<1>4. CASE IndexReady
  BY <1>4, <1>a, ReconcileDue DEF IndexReady, TypeOK
<1>5. CASE Decide
  <2>1. PICK i \in Present(model), op \in {"decide", "withdraw"} : Enqueue([op |-> op, id |-> i])
    BY <1>5 DEF Decide
  <2>2. [op |-> op, id |-> i] \in Waiting
    BY DEF Waiting, Present
  <2>3. UNCHANGED <<index, imported, model, statuses, job>>
    BY <1>5 DEF Decide
  <2>4. AnotherDue => AnotherDue'
    BY <2>1, <2>2, <2>3, EnqueuedDue
  <2> QED
    BY <2>3, <2>4, <1>b
<1>6. CASE Import
  <2>1. PICK import \in Imports :
          Enqueue([op |-> "import", id |-> import.id, record |-> import.record])
    BY <1>6 DEF Import
  <2>2. [op |-> "import", id |-> import.id, record |-> import.record] \in Waiting
    BY ImportsAreTyped DEF Waiting
  <2>3. UNCHANGED <<index, imported, model, statuses, job>>
    BY <1>6 DEF Import
  <2>4. AnotherDue => AnotherDue'
    BY <2>1, <2>2, <2>3, EnqueuedDue
  <2> QED
    BY <2>3, <2>4, <1>b
<1>7. CASE ImportReconciles
  BY <1>7, <1>a, ReconcileDue DEF ImportReconciles, TypeOK
<1>8. CASE Restart
  <2>1. Present(model') = {} /\ ~job'.running
    BY <1>8 DEF Restart, Present, NoJob
  <2> QED
    BY <2>1 DEF JobOnCode, NoStaleDecision
<1>9. CASE NextDay
  BY <1>9, <1>b DEF NextDay, AnotherDue
<1>10. CASE WriteDecision
  <2> DEFINE i == Head(writes).id
  <2>1. Turn("decide") /\ UNCHANGED <<model, index, job, imported>>
    BY <1>10 DEF WriteDecision
  <2>2. ~job.running /\ (AnotherDue => AnotherDue')
    BY <2>1, TurnTakes, TurnDue
  <2>3. /\ i \in Item
        /\ \A id \in DOMAIN statuses' :
              \/ id = i /\ statuses'[id] = Decision(model, i)
              \/ id \in DOMAIN statuses /\ statuses'[id] = statuses[id]
    BY <1>10, WriteDecisionIs
  <2>4. i \in Present(model) => Decision(model, i).fingerprint = model[i]
    BY <2>3, DecisionIs DEF TypeOK
  <2> HIDE DEF i
  <2>5. ASSUME ~ReconciliationDue', NEW k \in Present(model) \intersect DOMAIN statuses'
        PROVE  OnCodeAsItIs(k)'
    <3>1. ~ReconciliationDue
      BY <2>1, <2>2, <2>5, <1>d, DueIs
    <3>2. k \in DOMAIN statuses => OnCodeAsItIs(k)
      BY <3>1, <2>5 DEF CodeInv, NoStaleDecision
    <3> QED
      BY <2>1, <2>3, <2>4, <2>5, <3>2 DEF OnCodeAsItIs
  <2> QED
    BY <2>1, <2>2, <2>5 DEF JobOnCode, NoStaleDecision
<1>11. CASE WriteWithdrawal
  <2>1. Turn("withdraw") /\ UNCHANGED <<model, index, job, imported>>
    BY <1>11 DEF WriteWithdrawal
  <2>2. ~job.running /\ (AnotherDue => AnotherDue')
    BY <2>1, TurnTakes, TurnDue
  <2>3. \A id \in DOMAIN statuses' : id \in DOMAIN statuses /\ statuses'[id] = statuses[id]
    BY <1>11, WriteWithdrawalIs
  <2>4. ~ReconciliationDue' => ~ReconciliationDue
    BY <2>1, <2>2, <1>d, DueIs
  <2> QED
    BY <2>1, <2>2, <2>3, <2>4 DEF CodeInv, JobOnCode, NoStaleDecision, OnCodeAsItIs
<1>12. CASE WriteImport
  BY <1>12, <1>a DEF WriteImport, AnotherDue
<1>13. CASE WriteTargets
  <2> DEFINE result == Reconciled(statuses, model, Head(writes).complete)
  <2>1. /\ Turn("reconcile") /\ UNCHANGED model
        /\ statuses' = Splice(Id \ Finding, result, statuses)
        /\ job'.running /\ job'.result = result
    BY <1>13 DEF WriteTargets
  <2>2. Head(writes).complete \in BOOLEAN /\ model \in [Item -> Code] /\ statuses \in Statuses
    BY <2>1, TurnTakes, WaitingIs DEF TypeOK
  <2>3. result \in Statuses
    BY <2>2, ReconciledTyped DEF TypeOK
  <2>4. \A i \in Present(model) \intersect DOMAIN result :
          result[i].needsReview \/ model[i] = NoPrint \/ result[i].fingerprint = model[i]
    BY <2>2, ReconciledOfItem
  <2> HIDE DEF result
  <2>5. \A i \in (Id \ Finding) \intersect DOMAIN statuses' : i \in DOMAIN result /\ statuses'[i] = result[i]
    <3>1. \A i \in Id \ Finding : i \in DOMAIN statuses' =>
            i \in DOMAIN result /\ statuses'[i] = result[i]
      BY <2>1 DEF Splice
    <3> QED
      BY <3>1
  <2>6. Present(model) \subseteq Id
    BY DEF Present, Id
  <2>7. JobOnCode'
    BY <2>1, <2>4, <2>5, <2>6 DEF JobOnCode, OnCodeAsItIs
  <2> QED
    BY <2>1, <2>7, <1>d DEF NoStaleDecision
<1>14. CASE WriteFindings
  <2>1. /\ job.running /\ ~job'.running /\ UNCHANGED <<model, writes, imported>>
        /\ statuses' = Splice(Finding, job.result, statuses)
    BY <1>14 DEF WriteFindings, NoJob
  <2>2. AnotherDue => AnotherDue'
    <3>1. index.phase = "analysed" => index' = index
      BY <1>14 DEF WriteFindings, CodeInv, IndexWaits, IndexRunning
    <3> QED
      BY <2>1, <3>1 DEF AnotherDue
  <2>3. /\ \A id \in Finding : id \in DOMAIN statuses' => id \in DOMAIN job.result
        /\ \A id : id \notin Finding => (id \in DOMAIN statuses' => id \in DOMAIN statuses)
        /\ \A id \in DOMAIN statuses' :
              statuses'[id] = IF id \in Finding THEN job.result[id] ELSE statuses[id]
    BY <2>1 DEF Splice
  <2> QED
    BY <2>1, <2>2, <2>3, <1>d DEF CodeInv, JobOnCode, NoStaleDecision, OnCodeAsItIs
<1>15. CASE UNCHANGED vars
  BY <1>15, <1>b DEF vars, AnotherDue
<1> QED
  BY <1>1, <1>2, <1>3, <1>4, <1>5, <1>6, <1>7, <1>8, <1>9, <1>10, <1>11, <1>12, <1>13, <1>14, <1>15
     DEF Next, Write

(* Unless a reconciliation is to come, no decision stands for code other   *)
(* than that it was recorded on.                                           *)
THEOREM StaleDecisionsAreMarked == Spec => []NoStaleDecision
<1>1. Init => CodeInv
  BY DEF Init, NoJob, NoIndex, Present, CodeInv, IndexWaits, FromIndex, IndexRunning, JobOnCode,
         NoStaleDecision
<1>2. TypeOK /\ TypeOK' /\ CodeInv /\ [Next]_vars => CodeInv'
  BY CodeNext
<1>3. CodeInv => NoStaleDecision
  BY DEF CodeInv
<1> QED
  BY TypeCorrect, <1>1, <1>2, <1>3, PTL DEF Spec

-----------------------------------------------------------------------------
(* No decision is lost.                                                    *)

(* A decision is orphaned no earlier than its item was last there, in the  *)
(* stores and in what a reconciliation has yet to write.                   *)
Clock ==
    /\ \A id \in Id : lastSeen[id] <= day
    /\ \A id \in DOMAIN statuses :
          statuses[id].orphanedAt /= NotOrphaned => lastSeen[id] <= statuses[id].orphanedAt
    /\ job.running =>
          \A f \in Finding \intersect DOMAIN job.result :
             /\ f \in job.seen => job.result[f].orphanedAt = NotOrphaned
             /\ f \notin job.seen /\ job.result[f].orphanedAt /= NotOrphaned =>
                   lastSeen[f] <= job.result[f].orphanedAt

(* What a reconciliation has yet to write keeps the decisions on findings  *)
(* that are in the store: nothing writes them in between.                  *)
JobKeeps ==
    job.running =>
        \A f \in Finding \intersect DOMAIN statuses :
           \/ /\ f \in DOMAIN job.result
              /\ job.result[f].fingerprint = statuses[f].fingerprint
              /\ statuses[f].needsReview => job.result[f].needsReview
           \/ f \notin DOMAIN job.result /\ day - lastSeen[f] >= Retention

KeptInv == Clock /\ JobKeeps

LEMMA IdTypes ==
    ASSUME TypeOK
    PROVE  /\ \A id \in DOMAIN statuses : id \in Id /\ statuses[id] \in Record
                                          /\ statuses[id].orphanedAt \in Nat
           /\ \A id \in DOMAIN job.result : id \in Id /\ job.result[id].orphanedAt \in Nat
           /\ \A id \in Id : lastSeen[id] \in Nat
           /\ day \in Nat /\ day >= 1 /\ MaxDay \in Nat /\ Retention \in Nat
           /\ Finding \subseteq Item /\ Item \subseteq Id
<1>1. statuses \in Statuses /\ job.result \in Statuses
  BY DEF TypeOK
<1>2. \A r \in Record : r.orphanedAt \in Nat
  BY BoundsAreNumbers DEF Record
<1>3. /\ \A id \in Id : lastSeen[id] \in Nat
      /\ day \in Nat /\ day >= 1 /\ MaxDay \in Nat /\ Retention \in Nat
  BY BoundsAreNumbers DEF TypeOK
<1>4. Finding \subseteq Item /\ Item \subseteq Id
  BY ItemsAreNumbered DEF Id
<1> QED
  BY <1>1, <1>2, <1>3, <1>4, StatusesAre

(* A step keeps a decision, unless the user writes it, an item takes it    *)
(* over, or it expires.                                                    *)
LEMMA StepKeeps ==
    ASSUME TypeOK, KeptInv, [Next]_vars, NEW id \in DOMAIN statuses
    PROVE  \/ /\ id \in DOMAIN statuses'
              /\ statuses'[id].fingerprint = statuses[id].fingerprint
              /\ statuses[id].needsReview => statuses'[id].needsReview
           \/ WrittenByUser(id) \/ Migrated(id) \/ ExpiredSince(id)
<1>1. CASE statuses' = statuses
  BY <1>1
<1>2. CASE WriteDecision
  <2>1. /\ writes /= <<>> /\ writes' = Tail(writes) /\ Head(writes).op = "decide"
        /\ Head(writes).id \in Item
    BY <1>2, WriteDecisionIs DEF WriteDecision, Turn
  <2>2. id \in OldIdsOf(Head(writes).id) \union {Head(writes).id} => WrittenByUser(id)
    BY <2>1 DEF WrittenByUser
  <2>3. id \notin OldIdsOf(Head(writes).id) \union {Head(writes).id} =>
          id \in DOMAIN statuses' /\ statuses'[id] = statuses[id]
    BY <1>2, WriteDecisionIs
  <2> QED
    BY <2>2, <2>3
<1>3. CASE WriteWithdrawal
  <2>1. /\ writes /= <<>> /\ writes' = Tail(writes) /\ Head(writes).op = "withdraw"
        /\ Head(writes).id \in Item
    BY <1>3, WriteWithdrawalIs DEF WriteWithdrawal, Turn
  <2>2. id \in OldIdsOf(Head(writes).id) \union {Head(writes).id} => WrittenByUser(id)
    BY <2>1 DEF WrittenByUser
  <2>3. id \notin OldIdsOf(Head(writes).id) \union {Head(writes).id} =>
          id \in DOMAIN statuses' /\ statuses'[id] = statuses[id]
    BY <1>3, WriteWithdrawalIs
  <2> QED
    BY <2>2, <2>3
<1>4. CASE WriteImport
  <2>1. writes /= <<>> /\ writes' = Tail(writes) /\ Head(writes).op = "import"
    BY <1>4 DEF WriteImport, Turn
  <2>2. id = Head(writes).id => WrittenByUser(id)
    BY <2>1 DEF WrittenByUser
  <2>3. id /= Head(writes).id => id \in DOMAIN statuses' /\ statuses'[id] = statuses[id]
    BY <1>4, WriteImportIs
  <2> QED
    BY <2>2, <2>3
<1>5. CASE WriteTargets
  <2> DEFINE R == Reconciled(statuses, model, Head(writes).complete)
  <2>1. Turn("reconcile") /\ statuses' = Splice(Id \ Finding, R, statuses)
    BY <1>5 DEF WriteTargets
  <2>2. Head(writes).complete \in BOOLEAN /\ model \in [Item -> Code] /\ statuses \in Statuses
        /\ day \in 1..MaxDay
    BY <2>1, TurnTakes, WaitingIs DEF TypeOK
  <2>3. \/ /\ id \in DOMAIN R
           /\ R[id].fingerprint = statuses[id].fingerprint
           /\ statuses[id].needsReview => R[id].needsReview
        \/ id \notin DOMAIN R /\ Expired(statuses[id])
        \/ /\ id \in Old
           /\ \E i \in (Item \ Finding) \intersect DOMAIN R :
                 /\ id \in OldIdsOf(i)
                 /\ \E k \in (OldIdsOf(i) \union {i}) \intersect DOMAIN statuses :
                       /\ i \in DOMAIN statuses => k = i
                       /\ R[i].fingerprint = statuses[k].fingerprint
    BY <2>2, ReconciledKeeps
  <2> HIDE DEF R
  <2>4. /\ \A i \in Id \ Finding : i \in DOMAIN R => i \in DOMAIN statuses' /\ statuses'[i] = R[i]
        /\ \A i \in Id \ Finding : i \notin DOMAIN R => i \notin DOMAIN statuses'
        /\ id \in Finding => id \in DOMAIN statuses' /\ statuses'[id] = statuses[id]
    BY <2>1 DEF Splice
  <2>5. CASE id \in Finding
    BY <2>4, <2>5
  <2>6. id \in Id /\ Item \subseteq Id
    BY IdTypes
  <2>7. CASE id \notin Finding /\ id \notin DOMAIN R /\ Expired(statuses[id])
    <3>1. day - lastSeen[id] >= Retention
      BY <2>6, <2>7, IdTypes DEF Expired, KeptInv, Clock
    <3> QED
      BY <2>4, <2>6, <2>7, <3>1 DEF ExpiredSince
  <2>8. ASSUME NEW i \in (Item \ Finding) \intersect DOMAIN R, id \in OldIdsOf(i),
               NEW k \in (OldIdsOf(i) \union {i}) \intersect DOMAIN statuses,
               i \in DOMAIN statuses => k = i, R[i].fingerprint = statuses[k].fingerprint
        PROVE  Migrated(id)
    <3>1. i \in DOMAIN statuses' /\ statuses'[i].fingerprint = statuses[k].fingerprint
      BY <2>4, <2>6, <2>8
    <3> QED
      BY <2>8, <3>1 DEF Migrated
  <2> QED
    BY <2>3, <2>4, <2>5, <2>6, <2>7, <2>8
<1>6. CASE WriteFindings
  <2>1. job.running /\ statuses' = Splice(Finding, job.result, statuses)
    BY <1>6 DEF WriteFindings
  <2>2. /\ id \in Finding => (id \in DOMAIN statuses' <=> id \in DOMAIN job.result)
        /\ id \in Finding /\ id \in DOMAIN job.result => statuses'[id] = job.result[id]
        /\ id \notin Finding => id \in DOMAIN statuses' /\ statuses'[id] = statuses[id]
    BY <2>1 DEF Splice
  <2> QED
    BY <2>1, <2>2 DEF KeptInv, JobKeeps, ExpiredSince
<1> QED
  BY <1>1, <1>2, <1>3, <1>4, <1>5, <1>6
     DEF Next, Write, Update, LoseCoverage, IndexAnalysed, IndexReady, Decide, Import, ImportReconciles,
         Restart, NextDay, vars

LEMMA ClockNext ==
    ASSUME TypeOK, TypeOK', Clock, [Next]_vars
    PROVE  Clock'
<1>1. CASE UNCHANGED <<statuses, lastSeen>> /\ day' \in {day, day + 1} /\ (job' = job \/ ~job'.running)
  BY <1>1, IdTypes DEF Clock
<1>2. CASE WriteDecision
  <2> DEFINE i == Head(writes).id
  <2>1. UNCHANGED <<day, job>> /\ Turn("decide")
    BY <1>2 DEF WriteDecision
  <2>2. ~job'.running
    BY <2>1, TurnTakes
  <2>3. /\ i \in Item
        /\ \A id \in DOMAIN statuses' :
              \/ id = i /\ statuses'[id] = Decision(model, i)
              \/ /\ id \in DOMAIN statuses /\ statuses'[id] = statuses[id]
                 /\ id /= i \/ lastSeen' = lastSeen
        /\ lastSeen' = lastSeen \/ Seen({i})
    BY <1>2, WriteDecisionIs
  <2>4. Decision(model, i).orphanedAt = NotOrphaned
    BY <2>3, DecisionIs DEF TypeOK
  <2>5. lastSeen' = lastSeen \/ \A id \in Id : lastSeen'[id] = IF id = i THEN day ELSE lastSeen[id]
    <3>1. CASE Seen({i})
      BY <3>1, SeenTyped DEF TypeOK
    <3> QED
      BY <2>3, <3>1
  <2> HIDE DEF i
  <2> QED
    BY <2>1, <2>2, <2>3, <2>4, <2>5, IdTypes DEF Clock
<1>3. CASE WriteWithdrawal
  <2>1. UNCHANGED <<day, job, lastSeen>> /\ Turn("withdraw")
    BY <1>3 DEF WriteWithdrawal
  <2>2. \A id \in DOMAIN statuses' : id \in DOMAIN statuses /\ statuses'[id] = statuses[id]
    BY <1>3, WriteWithdrawalIs
  <2> QED
    BY <2>1, <2>2 DEF Clock
<1>4. CASE WriteImport
  <2> DEFINE w == Head(writes)
  <2>1. UNCHANGED <<day, job>> /\ Turn("import")
    BY <1>4 DEF WriteImport
  <2>2. ~job'.running
    BY <2>1, TurnTakes
  <2>3. /\ w.id \in Id /\ w.record.orphanedAt \in {NotOrphaned, 1}
        /\ \A id \in DOMAIN statuses' :
              IF id = w.id THEN statuses'[id] = w.record
              ELSE id \in DOMAIN statuses /\ statuses'[id] = statuses[id]
    BY <1>4, WriteImportIs
  <2>4. \A id \in Id : lastSeen'[id] =
          IF id /= w.id THEN lastSeen[id]
          ELSE IF w.record.orphanedAt = NotOrphaned THEN day ELSE w.record.orphanedAt
    BY <1>4, <2>3 DEF WriteImport, TypeOK
  <2> HIDE DEF w
  <2>5. \A id \in DOMAIN statuses' : id \in Id
    BY StatusesAre DEF TypeOK
  <2>6. \A id \in Id : lastSeen'[id] <= day
    BY <2>3, <2>4, IdTypes DEF Clock, NotOrphaned
  <2>7. \A id \in DOMAIN statuses' :
          statuses'[id].orphanedAt /= NotOrphaned => lastSeen'[id] <= statuses'[id].orphanedAt
    BY <2>3, <2>4, <2>5, IdTypes DEF Clock, NotOrphaned
  <2> QED
    BY <2>1, <2>2, <2>6, <2>7 DEF Clock
<1>5. CASE WriteTargets
  <2> DEFINE R == Reconciled(statuses, model, Head(writes).complete)
  <2>1. /\ Turn("reconcile") /\ UNCHANGED day /\ Seen(Present(model) \ Finding)
        /\ statuses' = Splice(Id \ Finding, R, statuses)
        /\ job'.result = R /\ job'.seen = Present(model)
    BY <1>5 DEF WriteTargets
  <2>2. Head(writes).complete \in BOOLEAN /\ model \in [Item -> Code] /\ statuses \in Statuses
        /\ day \in 1..MaxDay
    BY <2>1, TurnTakes, WaitingIs DEF TypeOK
  <2>3. \A id \in Id : lastSeen'[id] = IF id \in Present(model) \ Finding THEN day ELSE lastSeen[id]
    BY <2>1, SeenTyped DEF TypeOK
  <2>4. \A id \in DOMAIN R :
          /\ id \in Present(model) => R[id].orphanedAt = NotOrphaned
          /\ id \notin Present(model) =>
                id \in DOMAIN statuses /\ R[id].orphanedAt \in {statuses[id].orphanedAt, day}
    BY <2>2, ReconciledOfItem, ReconciledOfOther
  <2> HIDE DEF R
  <2>5. /\ \A id \in DOMAIN statuses' \ Finding : id \in Id => id \in DOMAIN R /\ statuses'[id] = R[id]
        /\ \A id \in DOMAIN statuses' \intersect Finding : id \in DOMAIN statuses /\ statuses'[id] = statuses[id]
    BY <2>1 DEF Splice
  <2>6. \A id \in DOMAIN statuses' : id \in Id
    BY StatusesAre DEF TypeOK
  <2>7. \A id \in Id : lastSeen'[id] <= day
    BY <2>3, IdTypes DEF Clock
  <2>8. \A id \in DOMAIN R \ Present(model) :
          R[id].orphanedAt /= NotOrphaned => lastSeen[id] <= R[id].orphanedAt
    BY <2>4, IdTypes DEF Clock
  <2>9. \A id \in DOMAIN statuses' :
          statuses'[id].orphanedAt /= NotOrphaned => lastSeen'[id] <= statuses'[id].orphanedAt
    <3> SUFFICES ASSUME NEW id \in DOMAIN statuses', statuses'[id].orphanedAt /= NotOrphaned
                 PROVE  lastSeen'[id] <= statuses'[id].orphanedAt
      OBVIOUS
    <3>1. CASE id \in Finding
      BY <2>3, <2>5, <2>6, <3>1 DEF Clock
    <3>2. CASE id \notin Finding
      BY <2>3, <2>4, <2>5, <2>6, <2>8, <3>2
    <3> QED
      BY <3>1, <3>2
  <2>10. \A f \in Finding \intersect DOMAIN R :
           /\ f \in Present(model) => R[f].orphanedAt = NotOrphaned
           /\ f \notin Present(model) /\ R[f].orphanedAt /= NotOrphaned => lastSeen'[f] <= R[f].orphanedAt
    BY <2>3, <2>4, <2>8, IdTypes
  <2> QED
    BY <2>1, <2>7, <2>9, <2>10 DEF Clock
<1>6. CASE WriteFindings
  <2>1. /\ job.running /\ ~job'.running /\ UNCHANGED day /\ Seen(job.seen \intersect Finding)
        /\ statuses' = Splice(Finding, job.result, statuses)
    BY <1>6 DEF WriteFindings, NoJob
  <2>2. \A id \in Id : lastSeen'[id] = IF id \in job.seen \intersect Finding THEN day ELSE lastSeen[id]
    BY <2>1, SeenTyped DEF TypeOK
  <2>3. \A id \in DOMAIN statuses' :
          IF id \in Finding THEN id \in DOMAIN job.result /\ statuses'[id] = job.result[id]
          ELSE id \in DOMAIN statuses /\ statuses'[id] = statuses[id]
    BY <2>1 DEF Splice
  <2>4. \A id \in DOMAIN statuses' : id \in Id
    BY StatusesAre DEF TypeOK
  <2> QED
    BY <2>1, <2>2, <2>3, <2>4, IdTypes DEF Clock
<1> QED
  BY <1>1, <1>2, <1>3, <1>4, <1>5, <1>6
     DEF Next, Write, Update, LoseCoverage, IndexAnalysed, IndexReady, Decide, Import, ImportReconciles,
         Restart, NoJob, NextDay, vars

LEMMA JobKeepsNext ==
    ASSUME TypeOK, TypeOK', Clock, JobKeeps, [Next]_vars
    PROVE  JobKeeps'
<1>1. CASE ~job'.running
  BY <1>1 DEF JobKeeps
<1>2. CASE UNCHANGED <<statuses, lastSeen, job>> /\ day' \in {day, day + 1}
  BY <1>2, IdTypes DEF JobKeeps
<1>3. CASE WriteDecision \/ WriteWithdrawal \/ WriteImport \/ WriteFindings
  BY <1>1, <1>3, TurnTakes
     DEF WriteDecision, WriteWithdrawal, WriteImport, WriteFindings, NoJob
<1>4. CASE WriteTargets
  <2> DEFINE R == Reconciled(statuses, model, Head(writes).complete)
  <2>1. /\ Turn("reconcile") /\ UNCHANGED day /\ Seen(Present(model) \ Finding)
        /\ statuses' = Splice(Id \ Finding, R, statuses) /\ job'.result = R
    BY <1>4 DEF WriteTargets
  <2>2. Head(writes).complete \in BOOLEAN /\ model \in [Item -> Code] /\ statuses \in Statuses
        /\ day \in 1..MaxDay
    BY <2>1, TurnTakes, WaitingIs DEF TypeOK
  <2>3. \A f \in Finding \intersect DOMAIN statuses :
          \/ /\ f \in DOMAIN R
             /\ R[f].fingerprint = statuses[f].fingerprint
             /\ statuses[f].needsReview => R[f].needsReview
          \/ f \notin DOMAIN R /\ Expired(statuses[f])
    <3>1. Finding \intersect Old = {}
      BY ItemsAreNumbered, OldIdsAreOthers
    <3> QED
      BY <2>2, <3>1, ReconciledKeeps
  <2> HIDE DEF R
  <2>4. \A f \in Finding \intersect DOMAIN statuses' : f \in DOMAIN statuses /\ statuses'[f] = statuses[f]
    BY <2>1 DEF Splice
  <2>5. \A f \in Finding : lastSeen'[f] = lastSeen[f]
    BY <2>1, SeenTyped, IdTypes DEF TypeOK
  <2>6. \A f \in Finding \intersect DOMAIN statuses :
          Expired(statuses[f]) => day - lastSeen[f] >= Retention
    BY IdTypes DEF Clock, Expired
  <2> QED
    BY <2>1, <2>3, <2>4, <2>5, <2>6 DEF JobKeeps
<1> QED
  BY <1>1, <1>2, <1>3, <1>4
     DEF Next, Write, Update, LoseCoverage, IndexAnalysed, IndexReady, Decide, Import, ImportReconciles,
         Restart, NoJob, NextDay, vars

(* The invariant behind both: orphans date from when their item was last   *)
(* there, and what is yet to be written drops only what has expired.       *)
THEOREM NothingIsDroppedEarly == Spec => []KeptInv
<1>1. Init => KeptInv
  <2> SUFFICES ASSUME Init PROVE KeptInv
    OBVIOUS
  <2>1. TypeOK /\ ~job.running
    BY TypeInit DEF Init, NoJob
  <2>2. /\ day = 1 /\ \A id \in Id : lastSeen[id] = 1
        /\ \A id \in DOMAIN statuses : statuses[id].orphanedAt \in {NotOrphaned, 1}
    BY InitialIsTyped DEF Init
  <2> QED
    BY <2>1, <2>2, IdTypes DEF KeptInv, Clock, JobKeeps
<1>2. TypeOK /\ TypeOK' /\ KeptInv /\ [Next]_vars => KeptInv'
  BY ClockNext, JobKeepsNext DEF KeptInv
<1> QED
  BY TypeCorrect, <1>1, <1>2, PTL DEF Spec

(* A decision marked for review stays marked until the user decides again, *)
(* an item takes it over, or it expires.                                   *)
THEOREM ReopenedDecisionsStayReopened == Spec => ReopenedStaysReopened
<1>1. TypeOK /\ KeptInv /\ [Next]_vars =>
        [\A id \in DOMAIN statuses : statuses[id].needsReview =>
            \/ id \in DOMAIN statuses' /\ statuses'[id].needsReview
            \/ WrittenByUser(id) \/ Migrated(id) \/ ExpiredSince(id)]_vars
  BY StepKeeps
<1> QED
  BY TypeCorrect, NothingIsDroppedEarly, <1>1, PTL DEF Spec, ReopenedStaysReopened

(* No decision is lost or changed but by the user, by migration, or by     *)
(* expiry after the whole retention period.                                *)
THEOREM EveryDecisionIsKept == Spec => DecisionsAreKept
<1>1. TypeOK /\ KeptInv /\ [Next]_vars =>
        [\A id \in DOMAIN statuses :
            \/ id \in DOMAIN statuses' /\ statuses'[id].fingerprint = statuses[id].fingerprint
            \/ WrittenByUser(id) \/ Migrated(id) \/ ExpiredSince(id)]_vars
  BY StepKeeps
<1> QED
  BY TypeCorrect, NothingIsDroppedEarly, <1>1, PTL DEF Spec, DecisionsAreKept
=============================================================================
