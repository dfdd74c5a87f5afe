---------------------------- MODULE ReviewDeskProofs ----------------------------
(* The desk of a reviewer, its parts side by side as in MCReviewDesk; the   *)
(* proofs of one use nothing of another.                                    *)
(*                                                                          *)
(* The notes: every note that was not written with an outdated path names   *)
(* the file its code is in once all writes are done, none goes but by its   *)
(* own removal, and one that is opened is found where its code stands. The  *)
(* notes, and those still to be added, are led by the writes and the        *)
(* renames behind them to the file of their document (NotesLead, AddsLead): *)
(* that is what the invariant says.                                         *)
(*                                                                          *)
(* The trace view: the query that is asked again after a model was saved is *)
(* the one whose result is shown. The worker answers in the order it was    *)
(* asked, so while it owes answers the request noted is the last query it   *)
(* was asked (LastIsNoted), and a rerun, which notes its own request only   *)
(* with the answer, has no query behind it (RerunsComeLast).                *)
(*                                                                          *)
(* The review queue: what it holds is derived again from the paths of every *)
(* answer, so that the work is in what the derivations make of them.        *)
EXTENDS EvidenceNotes, QueryDesk, ReviewQueue, TLAPS, FiniteSetTheorems, WellFoundedInduction

(* All that is still to be written: the writes asked for, and those that    *)
(* the renames not told of yet will lead to. The head of the writes has     *)
(* changed the notes already while it saves.                                *)
Chain == writes \o renames
FirstToCome == IF phase = "saving" THEN 2 ELSE 1

PathsDiffer == \A d, e \in Docs : path[d] = path[e] => d = e
PhaseFits ==
    /\ phase # "waiting" => writes # <<>>
    /\ phase = "merging" => Head(writes).op = "import" /\ read = notes
NotesLead == \A n \in notes : n.late \/ Leads(n.path, Chain, FirstToCome, path[n.doc])
AddsLead ==
    \A k \in FirstToCome..Len(writes) : writes[k].op = "add" =>
        writes[k].note.late \/ Leads(writes[k].note.path, Chain, k + 1, path[writes[k].note.doc])
NotesAsTaken == \A n \in notes \union exported : CodeAsTaken(n)
AsksAsTaken ==
    \A a \in asks : /\ a.op = "open" => CodeAsTaken(a.note)
                    /\ a.op = "select" => a.code = Content(a.of)
WritesAsTaken ==
    \A k \in 1..Len(writes) :
        /\ writes[k].op = "add" => CodeAsTaken(writes[k].note)
        /\ writes[k].op = "import" => \A n \in writes[k].notes : CodeAsTaken(n)
Inv ==
    /\ TypeOK /\ PathsDiffer /\ PhaseFits /\ NotesLead /\ AddsLead
    /\ NotesAsTaken /\ AsksAsTaken /\ WritesAsTaken
-----------------------------------------------------------------------------
(* Facts about sequences and records.                                       *)
LEMMA JoinedSequences ==
    ASSUME NEW S, NEW r \in Seq(S), NEW s \in Seq(S)
    PROVE  /\ r \o s \in Seq(S) /\ Len(r \o s) = Len(r) + Len(s)
           /\ \A i \in 1..Len(r) : (r \o s)[i] = r[i]
           /\ \A i \in 1..Len(s) : (r \o s)[Len(r) + i] = s[i]
  OBVIOUS

LEMMA AppendedSequences ==
    ASSUME NEW S, NEW r \in Seq(S), NEW w \in S
    PROVE  /\ Append(r, w) \in Seq(S) /\ Len(Append(r, w)) = Len(r) + 1 /\ Len(r) \in Nat
           /\ \A i \in 1..Len(r) : Append(r, w)[i] = r[i]
           /\ Append(r, w)[Len(r) + 1] = w
  OBVIOUS

LEMMA TailsOfSequences ==
    ASSUME NEW S, NEW r \in Seq(S), r # <<>>
    PROVE  /\ Tail(r) \in Seq(S) /\ Len(Tail(r)) = Len(r) - 1 /\ Len(r) \in Nat \ {0}
           /\ \A i \in 1..Len(Tail(r)) : Tail(r)[i] = r[i + 1]
           /\ Head(r) = r[1] /\ Head(r) \in S
  OBVIOUS

LEMMA MigrationsAreWrites == Migration \subseteq WriteOfNotes
  BY DEF WriteOfNotes

LEMMA MigrationSequences == ASSUME NEW s \in Seq(Migration) PROVE s \in Seq(WriteOfNotes)
  BY MigrationsAreWrites

LEMMA MovedStays == ASSUME NEW w \in WriteOfNotes, NEW p \in Paths PROVE Moved(p, w) \in Paths
  <1>1. CASE w.op = "migrate"
    <2>1. w \in Migration
      BY <1>1 DEF WriteOfNotes, Migration
    <2>2. w.to \in Paths
      BY <2>1 DEF Migration
    <2> QED BY <2>2 DEF Moved
  <1>2. CASE w.op # "migrate"
    BY <1>2 DEF Moved
  <1> QED BY <1>1, <1>2
-----------------------------------------------------------------------------
(* Where a chain of writes leads.                                           *)

(* The write first in line takes its step.                                  *)
LEMMA LeadsOn ==
    ASSUME NEW s \in Seq(WriteOfNotes), NEW k \in 1..Len(s), NEW p, NEW q, Leads(p, s, k, q)
    PROVE  Leads(Moved(p, s[k]), s, k + 1, q)
  <1>1. PICK way \in [k..Len(s) + 1 -> Paths] :
            /\ way[k] = p /\ way[Len(s) + 1] = q
            /\ \A i \in k..Len(s) : way[i + 1] = Moved(way[i], s[i])
    BY DEF Leads
  <1> DEFINE rest == [i \in (k + 1)..Len(s) + 1 |-> way[i]]
  <1>2. rest \in [(k + 1)..Len(s) + 1 -> Paths]
    OBVIOUS
  <1>3. rest[k + 1] = Moved(p, s[k]) /\ rest[Len(s) + 1] = q
    BY <1>1
  <1>4. \A i \in (k + 1)..Len(s) : rest[i + 1] = Moved(rest[i], s[i])
    BY <1>1
  <1> QED BY <1>2, <1>3, <1>4 DEF Leads

LEMMA ShiftedEnds ==
    ASSUME NEW k \in Nat, NEW j \in Nat, NEW a \in Nat, NEW b \in Nat, b - j = a - k, k <= a + 1
    PROVE  /\ j \in j..b + 1 /\ b + 1 \in j..b + 1 /\ (j - j) + k = k /\ ((b + 1) - j) + k = a + 1
           /\ \A i \in j..b + 1 : (i - j) + k \in k..a + 1
           /\ \A i \in j..b : (i - j) + k \in k..a /\ ((i - j) + k) - k = i - j /\ ((i + 1) - j) + k = ((i - j) + k) + 1
  OBVIOUS

(* Chains whose ends are alike lead alike.                                  *)
LEMMA LeadsAlike ==
    ASSUME NEW s \in Seq(WriteOfNotes), NEW t \in Seq(WriteOfNotes), NEW k \in Nat \ {0}, NEW j \in Nat \ {0},
           k <= Len(s) + 1, Len(t) - j = Len(s) - k, \A i \in k..Len(s) : t[(i - k) + j] = s[i],
           NEW p, NEW q, Leads(p, s, k, q)
    PROVE  Leads(p, t, j, q)
  <1>1. PICK way \in [k..Len(s) + 1 -> Paths] :
            /\ way[k] = p /\ way[Len(s) + 1] = q
            /\ \A i \in k..Len(s) : way[i + 1] = Moved(way[i], s[i])
    BY DEF Leads
  <1> DEFINE same == [i \in j..Len(t) + 1 |-> way[(i - j) + k]]
  <1>2. Len(s) \in Nat /\ Len(t) \in Nat
    OBVIOUS
  <1> DEFINE a == Len(s)
             b == Len(t)
  <1>3. /\ j \in j..b + 1 /\ b + 1 \in j..b + 1 /\ (j - j) + k = k /\ ((b + 1) - j) + k = a + 1
        /\ \A i \in j..b + 1 : (i - j) + k \in k..a + 1
        /\ \A i \in j..b : (i - j) + k \in k..a /\ ((i - j) + k) - k = i - j /\ ((i + 1) - j) + k = ((i - j) + k) + 1
    <2>1. a \in Nat /\ b \in Nat /\ b - j = a - k /\ k <= a + 1 /\ k \in Nat /\ j \in Nat
      BY <1>2
    <2> HIDE DEF a, b
    <2> QED BY <2>1, ShiftedEnds
  <1>4. same \in [j..Len(t) + 1 -> Paths]
    BY <1>3
  <1>5. same[j] = p
    BY <1>1, <1>3
  <1>6. same[Len(t) + 1] = q
    BY <1>1, <1>3
  <1>7. ASSUME NEW i \in j..Len(t) PROVE same[i + 1] = Moved(same[i], t[i])
    <2> DEFINE h == (i - j) + k
    <2>1. h \in k..Len(s) /\ h - k = i - j /\ ((i + 1) - j) + k = h + 1
      BY <1>3
    <2>2. (i - j) + j = i /\ i \in j..Len(t) + 1 /\ i + 1 \in j..Len(t) + 1
      BY <1>2
    <2>3. same[i] = way[h] /\ same[i + 1] = way[h + 1]
      BY <2>1, <2>2
    <2> HIDE DEF h
    <2>4. t[i] = s[h]
      BY <2>1, <2>2
    <2>5. way[h + 1] = Moved(way[h], s[h])
      BY <1>1, <2>1
    <2> QED BY <2>3, <2>4, <2>5
  <1> HIDE DEF same
  <1> QED BY <1>4, <1>5, <1>6, <1>7 DEF Leads

(* A write joins the end of a chain.                                        *)
LEMMA LeadsThrough ==
    ASSUME NEW s \in Seq(WriteOfNotes), NEW w \in WriteOfNotes, NEW k \in 1..Len(s) + 1, NEW p, NEW q,
           Leads(p, s, k, q)
    PROVE  Leads(p, Append(s, w), k, Moved(q, w))
  <1>1. PICK way \in [k..Len(s) + 1 -> Paths] :
            /\ way[k] = p /\ way[Len(s) + 1] = q
            /\ \A i \in k..Len(s) : way[i + 1] = Moved(way[i], s[i])
    BY DEF Leads
  <1> DEFINE t == Append(s, w)
             far == [i \in k..Len(t) + 1 |-> IF i = Len(s) + 2 THEN Moved(q, w) ELSE way[i]]
  <1>2. Len(t) = Len(s) + 1 /\ \A i \in k..Len(s) : t[i] = s[i]
    OBVIOUS
  <1>3. t[Len(s) + 1] = w
    OBVIOUS
  <1>4. q \in Paths
    BY <1>1
  <1>5. Moved(q, w) \in Paths
    BY <1>4, MovedStays
  <1> HIDE DEF t
  <1>6. far \in [k..Len(t) + 1 -> Paths]
    BY <1>2, <1>5
  <1>7. far[k] = p /\ far[Len(t) + 1] = Moved(q, w)
    BY <1>1, <1>2
  <1>8. ASSUME NEW i \in k..Len(t) PROVE far[i + 1] = Moved(far[i], t[i])
    <2>1. CASE i = Len(s) + 1
      BY <2>1, <1>1, <1>2, <1>3
    <2>2. CASE i \in k..Len(s)
      BY <2>2, <1>1, <1>2
    <2> QED BY <2>1, <2>2, <1>2
  <1> HIDE DEF far
  <1>9. Leads(p, t, k, Moved(q, w))
    BY <1>6, <1>7, <1>8 DEF Leads
  <1> QED BY <1>9 DEF t

(* A write that moves no note is put between.                               *)
LEMMA LeadsPast ==
    ASSUME NEW r \in Seq(WriteOfNotes), NEW s \in Seq(WriteOfNotes), NEW w \in WriteOfNotes, w.op # "migrate",
           NEW k \in 1..Len(r) + 1, NEW p, NEW q, Leads(p, r \o s, k, q)
    PROVE  Leads(p, Append(r, w) \o s, k, q)
  <1> DEFINE c == r \o s
             t == Append(r, w) \o s
  <1>1. c \in Seq(WriteOfNotes) /\ Len(c) = Len(r) + Len(s)
    OBVIOUS
  <1>2. t \in Seq(WriteOfNotes) /\ Len(t) = Len(r) + 1 + Len(s)
    OBVIOUS
  <1>3. \A i \in 1..Len(r) : t[i] = c[i]
    OBVIOUS
  <1>4. t[Len(r) + 1] = w
    OBVIOUS
  <1>5. \A i \in (Len(r) + 2)..Len(t) : t[i] = c[i - 1]
    OBVIOUS
  <1>6. Leads(p, c, k, q)
    OBVIOUS
  <1> HIDE DEF c, t
  <1>7. PICK way \in [k..Len(c) + 1 -> Paths] :
            /\ way[k] = p /\ way[Len(c) + 1] = q
            /\ \A i \in k..Len(c) : way[i + 1] = Moved(way[i], c[i])
    BY <1>6 DEF Leads
  <1> DEFINE past == [i \in k..Len(t) + 1 |-> IF i <= Len(r) + 1 THEN way[i] ELSE way[i - 1]]
  <1>8. past \in [k..Len(t) + 1 -> Paths]
    BY <1>1, <1>2
  <1>9. past[k] = p /\ past[Len(t) + 1] = q
    BY <1>1, <1>2, <1>7
  <1>10. ASSUME NEW i \in k..Len(t) PROVE past[i + 1] = Moved(past[i], t[i])
    <2>1. CASE i <= Len(r)
      <3>1. t[i] = c[i] /\ i \in k..Len(c) /\ past[i] = way[i] /\ past[i + 1] = way[i + 1]
        BY <2>1, <1>1, <1>2, <1>3
      <3> QED BY <3>1, <1>7
    <2>2. CASE i = Len(r) + 1
      <3>1. past[i] = way[i] /\ past[i + 1] = way[i]
        BY <2>2, <1>1, <1>2
      <3>2. Moved(past[i], w) = past[i]
        BY DEF Moved
      <3> QED BY <3>1, <3>2, <2>2, <1>4
    <2>3. CASE i > Len(r) + 1
      <3> DEFINE h == i - 1
      <3>1. t[i] = c[h] /\ h \in k..Len(c) /\ past[i] = way[h] /\ past[i + 1] = way[h + 1]
        BY <2>3, <1>1, <1>2, <1>5
      <3>2. way[h + 1] = Moved(way[h], c[h])
        BY <3>1, <1>7
      <3> QED BY <3>1, <3>2
    <2>4. i <= Len(r) \/ i = Len(r) + 1 \/ i > Len(r) + 1
      <3>1. i \in Int /\ Len(r) \in Int
        OBVIOUS
      <3> QED BY <3>1
    <2> QED BY <2>1, <2>2, <2>3, <2>4
  <1> HIDE DEF past
  <1>11. Leads(p, t, k, q)
    BY <1>8, <1>9, <1>10 DEF Leads
  <1> QED BY <1>11 DEF t

(* When nothing is left to be written, a note is where it is led.           *)
LEMMA LeadsNowhere ==
    ASSUME NEW p, NEW q, Leads(p, <<>>, 1, q)
    PROVE  p = q
  BY DEF Leads
-----------------------------------------------------------------------------
(* Types of notes and writes.                                               *)
LEMMA NoteFields ==
    ASSUME NEW n \in Note
    PROVE  /\ n.id \in Ids /\ n.doc \in Docs /\ n.path \in Paths /\ n.line \in Nat \ {0} /\ n.code \in Written
           /\ n.of \in Line /\ n.anchor \in Anchor /\ n.status \in Status /\ n.late \in BOOLEAN
  BY DEF Note

LEMMA NotePathsChange ==
    ASSUME NEW n \in Note, NEW p \in Paths, NEW m, m = [n EXCEPT !.path = p]
    PROVE  /\ m \in Note /\ m.path = p /\ m.id = n.id /\ m.doc = n.doc
           /\ m.code = n.code /\ m.of = n.of /\ m.anchor = n.anchor
           /\ m.late = n.late
  BY DEF Note

LEMMA NoteStatusesChange ==
    ASSUME NEW n \in Note, NEW st \in Status, NEW m, m = [n EXCEPT !.status = st]
    PROVE  /\ m \in Note /\ m.path = n.path /\ m.id = n.id /\ m.doc = n.doc
           /\ m.code = n.code /\ m.of = n.of /\ m.anchor = n.anchor
           /\ m.late = n.late
  BY DEF Note

LEMMA NoteLatesChange ==
    ASSUME NEW n \in Note, NEW b \in BOOLEAN, NEW m, m = [n EXCEPT !.late = b]
    PROVE  /\ m \in Note /\ m.path = n.path /\ m.id = n.id /\ m.doc = n.doc
           /\ m.code = n.code /\ m.of = n.of /\ m.anchor = n.anchor
           /\ m.late = b
  BY DEF Note

LEMMA WriteFields ==
    ASSUME NEW w \in WriteOfNotes
    PROVE  /\ w.op \in {"add", "remove", "migrate", "locate", "import"}
           /\ w.op = "add" => w.note \in Note
           /\ w.op = "migrate" => w \in Migration
           /\ w.op = "locate" => w.location \in Location
           /\ w.op = "import" => w.notes \in SUBSET Note
  BY DEF WriteOfNotes, Migration

LEMMA WritesAreTyped ==
    /\ \A n \in Note : [op |-> "add", note |-> n] \in WriteOfNotes
    /\ \A id \in Ids : [op |-> "remove", id |-> id] \in WriteOfNotes
    /\ \A id \in Ids, l \in Location : [op |-> "locate", id |-> id, location |-> l] \in WriteOfNotes
    /\ \A ns \in SUBSET Note : [op |-> "import", notes |-> ns] \in WriteOfNotes
    /\ \A p, q \in Paths : [op |-> "migrate", from |-> p, to |-> q] \in Migration
  BY DEF WriteOfNotes, Migration

(* What a note is after a write: the one written, or the one there was,     *)
(* moved along by a rename.                                                 *)
SameButForItsPlace(m, n) ==
    m.id = n.id /\ m.doc = n.doc /\ m.code = n.code /\ m.of = n.of /\ m.anchor = n.anchor /\ m.late = n.late

LEMMA AfterWrite ==
    ASSUME NEW w \in WriteOfNotes, NEW stored \in SUBSET Note, NEW m \in After(w, stored)
    PROVE  /\ m \in Note
           /\ \/ w.op = "add" /\ m = w.note
              \/ w.op = "import" /\ m \in w.notes
              \/ \E n \in stored : SameButForItsPlace(m, n) /\ m.path = Moved(n.path, w)
  <1>1. CASE w.op = "add"
    <2>1. m \in stored \union {w.note}
      BY <1>1 DEF After
    <2>2. Moved(m.path, w) = m.path
      BY <1>1 DEF Moved
    <2>3. w.note \in Note
      BY <1>1, WriteFields
    <2>4. SameButForItsPlace(m, m)
      BY DEF SameButForItsPlace
    <2> QED BY <1>1, <2>1, <2>2, <2>3, <2>4
  <1>2. CASE w.op = "remove"
    <2>1. m \in stored
      BY <1>2 DEF After
    <2>2. Moved(m.path, w) = m.path
      BY <1>2 DEF Moved
    <2>3. SameButForItsPlace(m, m)
      BY DEF SameButForItsPlace
    <2> QED BY <2>1, <2>2, <2>3
  <1>3. CASE w.op = "migrate"
    <2>1. m \in {[n EXCEPT !.path = Moved(@, w)] : n \in stored}
      BY <1>3 DEF After
    <2>2. PICK n \in stored : m = [n EXCEPT !.path = Moved(n.path, w)]
      BY <2>1
    <2>3. n \in Note
      OBVIOUS
    <2>4. Moved(n.path, w) \in Paths
      BY <2>3, NoteFields, MovedStays
    <2>5. m \in Note /\ SameButForItsPlace(m, n) /\ m.path = Moved(n.path, w)
      BY <2>2, <2>3, <2>4, NotePathsChange DEF SameButForItsPlace
    <2> QED BY <2>5
  <1>4. CASE w.op = "locate"
    <2> DEFINE Seen(n) == IF n.id # w.id THEN n
                          ELSE IF w.location.status = "stale" THEN [n EXCEPT !.status = "stale"]
                          ELSE [n EXCEPT !.status = w.location.status, !.line = w.location.line]
    <2>1. m \in {Seen(n) : n \in stored}
      BY <1>4 DEF After
    <2>2. PICK n \in stored : m = Seen(n)
      BY <2>1
    <2>3. n \in Note
      OBVIOUS
    <2>4. w.location.status \in Status /\ w.location.line \in Nat \ {0}
      BY <1>4, WriteFields DEF Location
    <2>5. "stale" \in Status /\ 1 \in Nat \ {0}
      BY DEF Status
    <2>6. m \in Note /\ SameButForItsPlace(m, n) /\ m.path = n.path
      <3> HIDE DEF Seen
      <3>1. CASE m = n
        <4>1. SameButForItsPlace(n, n)
          BY DEF SameButForItsPlace
        <4> QED BY <3>1, <2>3, <4>1
      <3>2. CASE m = [n EXCEPT !.status = "stale"]
        BY <3>2, <2>3, <2>5, NoteStatusesChange DEF SameButForItsPlace
      <3>3. CASE m = [n EXCEPT !.status = w.location.status, !.line = w.location.line]
        <4> DEFINE st == w.location.status
                   i == w.location.line
        <4>1. st \in Status /\ i \in Nat \ {0}
          BY <2>4
        <4>2. m = [n EXCEPT !.status = st, !.line = i]
          BY <3>3
        <4> HIDE DEF st, i
        <4>3. m \in Note
          BY <4>1, <4>2, <2>3 DEF Note
        <4>4. m.path = n.path /\ SameButForItsPlace(m, n)
          BY <4>2, <2>3 DEF Note, SameButForItsPlace
        <4> QED BY <4>3, <4>4
      <3> QED BY <3>1, <3>2, <3>3, <2>2 DEF Seen
    <2>7. Moved(n.path, w) = n.path
      BY <1>4 DEF Moved
    <2> QED BY <2>6, <2>7
  <1>5. CASE w.op = "import"
    <2>1. m \in {n \in stored : \A o \in w.notes : o.id # n.id} \union w.notes
      BY <1>5 DEF After
    <2>2. Moved(m.path, w) = m.path
      BY <1>5 DEF Moved
    <2>3. w.notes \in SUBSET Note
      BY <1>5, WriteFields
    <2>4. SameButForItsPlace(m, m)
      BY DEF SameButForItsPlace
    <2> QED BY <1>5, <2>1, <2>2, <2>3, <2>4
  <1> QED BY <1>1, <1>2, <1>3, <1>4, <1>5, WriteFields

(* No write takes a note away but the removal of that note.                 *)
LEMMA AfterKeeps ==
    ASSUME NEW w \in WriteOfNotes, NEW stored \in SUBSET Note, NEW n \in stored, ~(w.op = "remove" /\ w.id = n.id)
    PROVE  \E m \in After(w, stored) : m.id = n.id
  <1>1. CASE w.op = "add"
    BY <1>1 DEF After
  <1>2. CASE w.op = "remove"
    BY <1>2 DEF After
  <1>3. CASE w.op = "migrate"
    <2> DEFINE m == [n EXCEPT !.path = Moved(n.path, w)]
    <2>1. m \in After(w, stored)
      BY <1>3 DEF After
    <2>2. m.id = n.id
      BY DEF Note
    <2> QED BY <2>1, <2>2
  <1>4. CASE w.op = "locate"
    <2> DEFINE m == IF n.id # w.id THEN n
                    ELSE IF w.location.status = "stale" THEN [n EXCEPT !.status = "stale"]
                    ELSE [n EXCEPT !.status = w.location.status, !.line = w.location.line]
    <2>1. m \in After(w, stored)
      BY <1>4 DEF After
    <2>2. m.id = n.id
      BY DEF Note
    <2> QED BY <2>1, <2>2
  <1>5. CASE w.op = "import"
    BY <1>5 DEF After
  <1> QED BY <1>1, <1>2, <1>3, <1>4, <1>5, WriteFields
-----------------------------------------------------------------------------
(* Types of places.                                                         *)
LEMMA TextsOfDocuments ==
    ASSUME TypeOK, NEW d \in Docs
    PROVE  text[d] \in Seq(Line)
  <1>1. text[d] \in Texts[d]
    BY DEF TypeOK
  <1>2. text[d] \in Seq(Range(text[d]))
    BY <1>1, TextsAreLines
  <1>3. Texts[d] \in Range(Texts)
    BY TextsAreLines DEF Range
  <1>4. Range(text[d]) \subseteq Line
    BY <1>1, <1>3 DEF Line
  <1> QED BY <1>2, <1>4

LEMMA ContentsAreWritten ==
    ASSUME NEW s \in Seq(Line)
    PROVE  Contents(s) \in Seq(Written)
  <1>1. \A i \in 1..Len(s) : Content(s[i]) \in Written
    BY DEF Written
  <1>2. Contents(s) = [i \in 1..Len(s) |-> Content(s[i])]
    BY DEF Contents
  <1> QED BY <1>1, <1>2

LEMMA PartsOfSequences ==
    ASSUME NEW S, NEW s \in Seq(S), NEW i \in Nat \ {0}, NEW j \in Int, j <= Len(s)
    PROVE  SubSeq(s, i, j) \in Seq(S)
  OBVIOUS

LEMMA AnchorsAreTyped ==
    ASSUME NEW lines \in Seq(Line), NEW i \in Nat \ {0}
    PROVE  ContextAnchor(lines, i) \in Anchor /\ ContextAnchor(lines, i) # NoAnchor
  <1> DEFINE b == SubSeq(lines, Larger(1, i - 2), Smaller(i - 1, Len(lines)))
             a == SubSeq(lines, i + 1, Smaller(Len(lines), i + 2))
  <1>1. Len(lines) \in Nat
    OBVIOUS
  <1>2. Larger(1, i - 2) \in Nat \ {0} /\ Smaller(i - 1, Len(lines)) \in Int /\ Smaller(i - 1, Len(lines)) <= Len(lines)
    BY <1>1 DEF Larger, Smaller
  <1>3. i + 1 \in Nat \ {0} /\ Smaller(Len(lines), i + 2) \in Int /\ Smaller(Len(lines), i + 2) <= Len(lines)
    BY <1>1 DEF Smaller
  <1>4. b \in Seq(Line) /\ a \in Seq(Line)
    BY <1>2, <1>3, PartsOfSequences
  <1>5. Contents(b) \in Seq(Written) /\ Contents(a) \in Seq(Written)
    BY <1>4, ContentsAreWritten
  <1>6. ContextAnchor(lines, i) = [before |-> Contents(b), after |-> Contents(a)]
    BY DEF ContextAnchor
  <1> HIDE DEF a, b
  <1>7. ContextAnchor(lines, i) \in [before : Seq(Written), after : Seq(Written)]
    BY <1>5, <1>6
  <1>8. DOMAIN ContextAnchor(lines, i) = {"before", "after"} /\ DOMAIN NoAnchor = {"version"}
    BY <1>6 DEF NoAnchor
  <1>9. "version" \notin {"before", "after"}
    OBVIOUS
  <1> QED BY <1>7, <1>8, <1>9 DEF Anchor

(* The places a note is compared with.                                      *)
LinesAlike(n, lines) == {i \in DOMAIN lines : Content(lines[i]) = n.code}
Candidates(n, lines) ==
    IF Cardinality(LinesAlike(n, lines)) > 1 /\ n.anchor # NoAnchor
    THEN {i \in LinesAlike(n, lines) : ContextAnchor(lines, i) = n.anchor} ELSE LinesAlike(n, lines)

LEMMA CandidatesAreFinite ==
    ASSUME NEW n, NEW lines \in Seq(Line)
    PROVE  /\ LinesAlike(n, lines) \subseteq 1..Len(lines) /\ IsFiniteSet(LinesAlike(n, lines))
           /\ Candidates(n, lines) \subseteq LinesAlike(n, lines) /\ IsFiniteSet(Candidates(n, lines))
  <1>1. LinesAlike(n, lines) \subseteq 1..Len(lines)
    BY DEF LinesAlike
  <1>2. IsFiniteSet(1..Len(lines))
    BY FS_Interval
  <1>3. Candidates(n, lines) \subseteq LinesAlike(n, lines)
    BY DEF Candidates
  <1> QED BY <1>1, <1>2, <1>3, FS_Subset

LEMMA ResolvedLocation ==
    ASSUME NEW n, NEW lines
    PROVE  ResolveEvidenceLocation(n, lines) =
               IF Cardinality(Candidates(n, lines)) # 1 THEN [status |-> "stale", line |-> n.line]
               ELSE [status |-> IF (CHOOSE i \in Candidates(n, lines) : TRUE) = n.line THEN "current" ELSE "relocated",
                     line |-> CHOOSE i \in Candidates(n, lines) : TRUE]
  BY DEF ResolveEvidenceLocation, Candidates, LinesAlike

LEMMA LocationsAreTyped ==
    ASSUME NEW n \in Note, NEW lines \in Seq(Line)
    PROVE  ResolveEvidenceLocation(n, lines) \in Location
  <1> DEFINE c == Candidates(n, lines)
             line == CHOOSE i \in c : TRUE
  <1>1. CASE Cardinality(c) # 1
    <2>1. n.line \in Nat \ {0}
      BY NoteFields
    <2>2. ResolveEvidenceLocation(n, lines) = [status |-> "stale", line |-> n.line]
      BY <1>1, ResolvedLocation
    <2>3. "stale" \in Status
      BY DEF Status
    <2>4. [status |-> "stale", line |-> n.line] \in [status : Status, line : Nat \ {0}]
      BY <2>1, <2>3
    <2> QED BY <2>2, <2>4 DEF Location
  <1>2. CASE Cardinality(c) = 1
    <2>1. c # {}
      <3>1. IsFiniteSet(c)
        BY CandidatesAreFinite
      <3> HIDE DEF c
      <3> QED BY <3>1, <1>2, FS_EmptySet
    <2>2. line \in c
      BY <2>1
    <2>3. line \in Nat \ {0}
      BY <2>2, CandidatesAreFinite
    <2>4. ResolveEvidenceLocation(n, lines) = [status |-> IF line = n.line THEN "current" ELSE "relocated", line |-> line]
      BY <1>2, ResolvedLocation
    <2> HIDE DEF line
    <2> QED BY <2>3, <2>4 DEF Location, Status
  <1> QED BY <1>1, <1>2
-----------------------------------------------------------------------------
(* Types.                                                                   *)
LEMMA AsksAreTyped ==
    ASSUME NEW a \in Asked
    PROVE  /\ a.op \in {"select", "item", "open"}
           /\ a.op = "open" => a.note \in Note
           /\ a.op # "open" => /\ a.doc \in Docs /\ a.path \in Paths /\ a.line \in Nat \ {0}
                               /\ a.code \in Written /\ a.of \in Line
  BY DEF Asked

LEMMA NotesOfAsks ==
    ASSUME NEW a \in Asked, a.op # "open", NEW id \in Ids, NEW anchor \in Anchor, NEW b \in BOOLEAN
    PROVE  [id |-> id, doc |-> a.doc, path |-> a.path, line |-> a.line, code |-> a.code, of |-> a.of,
            anchor |-> anchor, status |-> "new", late |-> b] \in Note
  <1>1. /\ a.doc \in Docs /\ a.path \in Paths /\ a.line \in Nat \ {0}
        /\ a.code \in Written /\ a.of \in Line
    BY AsksAreTyped
  <1>2. "new" \in Status
    BY DEF Status
  <1> QED BY <1>1, <1>2 DEF Note

LEMMA LeadsIsBoolean == \A p, s, k, q : Leads(p, s, k, q) \in BOOLEAN
  BY DEF Leads

LEMMA DoneFields ==
    ASSUME NEW D \in [commands : Nat, edits : Nat, renames : Nat, ids : SUBSET Ids]
    PROVE  /\ [D EXCEPT !.commands = @ + 1] \in [commands : Nat, edits : Nat, renames : Nat, ids : SUBSET Ids]
           /\ [D EXCEPT !.edits = @ + 1] \in [commands : Nat, edits : Nat, renames : Nat, ids : SUBSET Ids]
           /\ [D EXCEPT !.renames = @ + 1] \in [commands : Nat, edits : Nat, renames : Nat, ids : SUBSET Ids]
           /\ \A id \in Ids : [D EXCEPT !.ids = @ \union {id}] \in [commands : Nat, edits : Nat, renames : Nat, ids : SUBSET Ids]
  OBVIOUS

(* The types in parts.                                                      *)
DocumentsOK ==
    /\ path \in [Docs -> Paths]
    /\ text \in [Docs -> UNION Range(Texts)] /\ \A d \in Docs : text[d] \in Texts[d]
StoresOK == notes \in SUBSET Note /\ exported \in SUBSET Note /\ read \in SUBSET Note
ChainOK == writes \in Seq(WriteOfNotes) /\ phase \in {"waiting", "merging", "saving"} /\ renames \in Seq(Migration)
AsksOK == asks \in SUBSET Asked
DoneOK == done \in [commands : Nat, edits : Nat, renames : Nat, ids : SUBSET Ids]

LEMMA TypeParts == TypeOK <=> DocumentsOK /\ StoresOK /\ ChainOK /\ AsksOK /\ DoneOK
  BY DEF TypeOK, DocumentsOK, StoresOK, ChainOK, AsksOK, DoneOK

LEMMA TypePartsNext == TypeOK' <=> DocumentsOK' /\ StoresOK' /\ ChainOK' /\ AsksOK' /\ DoneOK'
  BY DEF TypeOK, DocumentsOK, StoresOK, ChainOK, AsksOK, DoneOK

LEMMA NextWriteIsTyped ==
    ASSUME TypeOK, writes # <<>>
    PROVE  Head(writes) \in WriteOfNotes /\ Head(writes) = writes[1] /\ Len(writes) \in Nat \ {0}
  <1>1. writes \in Seq(WriteOfNotes)
    BY DEF TypeOK
  <1> QED BY <1>1, TailsOfSequences

(* A write that is asked for.                                               *)
LEMMA WriteJoins ==
    ASSUME ChainOK, NEW w \in WriteOfNotes, Write(w), UNCHANGED <<phase, renames>>
    PROVE  ChainOK'
  <1>1. writes \in Seq(WriteOfNotes)
    BY DEF ChainOK
  <1>2. writes' = Append(writes, w)
    BY DEF Write
  <1>3. writes' \in Seq(WriteOfNotes)
    BY <1>1, <1>2, AppendedSequences
  <1> QED BY <1>3 DEF ChainOK

(* The note that is written when the reviewer has answered.                 *)
NewNote(a, id, anchor) ==
    [id |-> id, doc |-> a.doc, path |-> a.path, line |-> a.line, code |-> a.code, of |-> a.of,
     anchor |-> anchor, status |-> "new", late |-> ~Leads(a.path, renames, 1, path[a.doc])]

LEMMA AddIsTyped ==
    ASSUME TypeOK, NEW a \in asks, a.op # "open", NEW anchor \in Anchor, Add(a, anchor),
           UNCHANGED <<path, text, notes, exported, phase, read, renames>>
    PROVE  TypeOK'
  <1>1. PICK id \in NewIds :
            /\ asks' = asks \ {a}
            /\ Write([op |-> "add", note |-> NewNote(a, id, anchor)])
            /\ done' = [done EXCEPT !.ids = @ \union {id}]
    BY DEF Add, NewNote
  <1>2. id \in Ids
    BY DEF NewIds
  <1>3. a \in Asked
    BY DEF TypeOK
  <1>4. NewNote(a, id, anchor) \in Note
    BY <1>2, <1>3, NotesOfAsks, LeadsIsBoolean DEF NewNote
  <1>5. [op |-> "add", note |-> NewNote(a, id, anchor)] \in WriteOfNotes
    BY <1>4, WritesAreTyped
  <1>6. ChainOK'
    BY <1>1, <1>5, TypeParts, WriteJoins
  <1>7. DoneOK'
    BY <1>1, <1>2, TypeParts, DoneFields DEF DoneOK
  <1>8. AsksOK' /\ DocumentsOK' /\ StoresOK'
    BY <1>1, TypeParts DEF AsksOK, DocumentsOK, StoresOK
  <1> QED BY <1>6, <1>7, <1>8, TypePartsNext

LEMMA AnswersAreTyped ==
    ASSUME TypeOK, NEW a \in asks, AddSelectionEvidence(a) \/ AddEvidenceForItem(a)
    PROVE  TypeOK'
  <1>1. CASE AddSelectionEvidence(a)
    <2>1. a \in Asked
      BY DEF TypeOK
    <2>2. a.op = "select"
      BY <1>1 DEF AddSelectionEvidence
    <2>3. a.doc \in Docs /\ a.line \in Nat \ {0}
      BY <2>1, <2>2, AsksAreTyped
    <2>4. ContextAnchor(text[a.doc], a.line) \in Anchor
      BY <2>3, TextsOfDocuments, AnchorsAreTyped
    <2> QED BY <1>1, <2>2, <2>4, AddIsTyped DEF AddSelectionEvidence
  <1>2. CASE AddEvidenceForItem(a)
    <2>1. a.op = "item"
      BY <1>2 DEF AddEvidenceForItem
    <2>2. NoAnchor \in Anchor
      BY DEF Anchor
    <2> QED BY <1>2, <2>1, <2>2, AddIsTyped DEF AddEvidenceForItem
  <1> QED BY <1>1, <1>2

LEMMA SelectionsAreTyped ==
    ASSUME TypeOK, NEW d \in Docs, SelectCode(d) \/ SelectItem(d)
    PROVE  TypeOK'
  <1>1. \E i \in DOMAIN text[d] : \E op \in {"select", "item"} : \E code \in {Content(text[d][i]), "clues"} :
            asks' = asks \union {[op |-> op, doc |-> d, path |-> path[d], line |-> i, code |-> code, of |-> text[d][i]]}
    <2>1. CASE SelectCode(d)
      BY <2>1 DEF SelectCode
    <2>2. CASE SelectItem(d)
      BY <2>2 DEF SelectItem
    <2> QED BY <2>1, <2>2
  <1>2. PICK i \in DOMAIN text[d] : \E op \in {"select", "item"} : \E code \in {Content(text[d][i]), "clues"} :
            asks' = asks \union {[op |-> op, doc |-> d, path |-> path[d], line |-> i, code |-> code, of |-> text[d][i]]}
    BY <1>1
  <1>3. PICK op \in {"select", "item"}, code \in {Content(text[d][i]), "clues"} :
            asks' = asks \union {[op |-> op, doc |-> d, path |-> path[d], line |-> i, code |-> code, of |-> text[d][i]]}
    BY <1>2
  <1>4. i \in Nat \ {0} /\ text[d][i] \in Line
    <2>1. text[d] \in Seq(Line)
      BY TextsOfDocuments
    <2> QED BY <2>1
  <1>5. code \in Written
    BY <1>4 DEF Written
  <1>6. path[d] \in Paths
    BY DEF TypeOK
  <1>7. [op |-> op, doc |-> d, path |-> path[d], line |-> i, code |-> code, of |-> text[d][i]] \in Asked
    BY <1>4, <1>5, <1>6 DEF Asked
  <1>8. AsksOK'
    BY <1>3, <1>7, TypeParts DEF AsksOK
  <1>9. UNCHANGED <<path, text, notes, exported, writes, phase, read, renames>> /\ Command
    BY DEF SelectCode, SelectItem
  <1>10. DocumentsOK' /\ StoresOK' /\ ChainOK'
    BY <1>9, TypeParts DEF DocumentsOK, StoresOK, ChainOK
  <1>11. DoneOK'
    BY <1>9, TypeParts, DoneFields DEF DoneOK, Command
  <1> QED BY <1>8, <1>10, <1>11, TypePartsNext

LEMMA WorkspaceIsTyped ==
    ASSUME TypeOK, NEW d \in Docs, Edit(d) \/ Rename(d)
    PROVE  TypeOK'
  <1>1. CASE Edit(d)
    <2>1. PICK t \in Texts[d] \ {text[d]} : text' = [text EXCEPT ![d] = t]
      BY <1>1 DEF Edit
    <2>2. Texts[d] \in Range(Texts)
      BY TextsAreLines DEF Range
    <2>3. DocumentsOK'
      BY <1>1, <2>1, <2>2, TypeParts DEF DocumentsOK, Edit
    <2>4. StoresOK' /\ ChainOK' /\ AsksOK'
      BY <1>1, TypeParts DEF StoresOK, ChainOK, AsksOK, Edit
    <2>5. DoneOK'
      BY <1>1, TypeParts, DoneFields DEF DoneOK, Edit
    <2> QED BY <2>3, <2>4, <2>5, TypePartsNext
  <1>2. CASE Rename(d)
    <2>1. PICK p \in Paths \ {path[e] : e \in Docs} :
            /\ path' = [path EXCEPT ![d] = p]
            /\ renames' = Append(renames, [op |-> "migrate", from |-> path[d], to |-> p])
      BY <1>2 DEF Rename
    <2>2. path[d] \in Paths
      BY DEF TypeOK
    <2>3. [op |-> "migrate", from |-> path[d], to |-> p] \in Migration
      BY <2>2, WritesAreTyped
    <2>4. renames' \in Seq(Migration)
      BY <2>1, <2>3, AppendedSequences, TypeParts DEF ChainOK
    <2>5. ChainOK'
      BY <1>2, <2>4, TypeParts DEF ChainOK, Rename
    <2>6. DocumentsOK'
      BY <1>2, <2>1, TypeParts DEF DocumentsOK, Rename
    <2>7. StoresOK' /\ AsksOK'
      BY <1>2, TypeParts DEF StoresOK, AsksOK, Rename
    <2>8. DoneOK'
      BY <1>2, TypeParts, DoneFields DEF DoneOK, Rename
    <2> QED BY <2>5, <2>6, <2>7, <2>8, TypePartsNext
  <1> QED BY <1>1, <1>2

LEMMA CommandsAreTyped ==
    ASSUME TypeOK, RemoveEvidence \/ OpenEvidence \/ ExportReviewSession \/ ImportReviewSession
    PROVE  TypeOK'
  <1>1. UNCHANGED <<path, text>> /\ DocumentsOK'
    BY TypeParts DEF RemoveEvidence, OpenEvidence, ExportReviewSession, ImportReviewSession, DocumentsOK
  <1>2. DoneOK'
    <2>1. Command
      BY DEF RemoveEvidence, OpenEvidence, ExportReviewSession, ImportReviewSession
    <2> QED BY <2>1, TypeParts, DoneFields DEF DoneOK, Command
  <1>3. CASE RemoveEvidence
    <2>1. PICK n \in notes : Write([op |-> "remove", id |-> n.id])
      BY <1>3 DEF RemoveEvidence
    <2>2. n.id \in Ids
      BY NoteFields DEF TypeOK
    <2>3. [op |-> "remove", id |-> n.id] \in WriteOfNotes
      BY <2>2, WritesAreTyped
    <2>4. ChainOK'
      BY <1>3, <2>1, <2>3, TypeParts, WriteJoins DEF RemoveEvidence
    <2>5. StoresOK' /\ AsksOK'
      BY <1>3, TypeParts DEF StoresOK, AsksOK, RemoveEvidence
    <2> QED BY <1>1, <1>2, <2>4, <2>5, TypePartsNext
  <1>4. CASE OpenEvidence
    <2>1. PICK n \in notes : asks' = asks \union {[op |-> "open", note |-> n]}
      BY <1>4 DEF OpenEvidence
    <2>2. [op |-> "open", note |-> n] \in Asked
      BY DEF TypeOK, Asked
    <2>3. AsksOK'
      BY <2>1, <2>2, TypeParts DEF AsksOK
    <2>4. StoresOK' /\ ChainOK'
      BY <1>4, TypeParts DEF StoresOK, ChainOK, OpenEvidence
    <2> QED BY <1>1, <1>2, <2>3, <2>4, TypePartsNext
  <1>5. CASE ExportReviewSession
    <2>1. exported' = {[n EXCEPT !.status = "new"] : n \in notes}
      BY <1>5 DEF ExportReviewSession
    <2>2. \A n \in notes : [n EXCEPT !.status = "new"] \in Note
      <3>1. "new" \in Status
        BY DEF Status
      <3>2. notes \in SUBSET Note
        BY DEF TypeOK
      <3> QED BY <3>1, <3>2, NoteStatusesChange
    <2>3. StoresOK'
      BY <1>5, <2>1, <2>2, TypeParts DEF StoresOK, ExportReviewSession
    <2>4. ChainOK' /\ AsksOK'
      BY <1>5, TypeParts DEF ChainOK, AsksOK, ExportReviewSession
    <2> QED BY <1>1, <1>2, <2>3, <2>4, TypePartsNext
  <1>6. CASE ImportReviewSession
    <2>1. [op |-> "import", notes |-> exported] \in WriteOfNotes
      BY WritesAreTyped DEF TypeOK
    <2>2. ChainOK'
      BY <1>6, <2>1, TypeParts, WriteJoins DEF ImportReviewSession
    <2>3. StoresOK' /\ AsksOK'
      BY <1>6, TypeParts DEF StoresOK, AsksOK, ImportReviewSession
    <2> QED BY <1>1, <1>2, <2>2, <2>3, TypePartsNext
  <1> QED BY <1>3, <1>4, <1>5, <1>6

(* A note that was opened is located, by a write that is asked for.         *)
LEMMA LocatingWrites ==
    ASSUME TypeOK, NEW a \in asks,
           GiveUp(a) \/ EvidenceUnavailable(a) \/ \E d \in Docs : EvidenceOpened(a, d)
    PROVE  UNCHANGED writes \/ \E id \in Ids, l \in Location : Write([op |-> "locate", id |-> id, location |-> l])
  <1>1. a \in Asked
    BY DEF TypeOK
  <1>2. CASE GiveUp(a)
    BY <1>2 DEF GiveUp
  <1>3. CASE EvidenceUnavailable(a)
    <2>1. a.note.id \in Ids /\ a.note.line \in Nat \ {0}
      BY <1>1, <1>3, AsksAreTyped, NoteFields DEF EvidenceUnavailable
    <2>2. [status |-> "stale", line |-> a.note.line] \in Location
      BY <2>1 DEF Location, Status
    <2> QED BY <1>3, <2>1, <2>2 DEF EvidenceUnavailable
  <1>4. ASSUME NEW d \in Docs, EvidenceOpened(a, d)
        PROVE  \E id \in Ids, l \in Location : Write([op |-> "locate", id |-> id, location |-> l])
    <2>1. a.note \in Note /\ a.note.id \in Ids
      BY <1>1, <1>4, AsksAreTyped, NoteFields DEF EvidenceOpened
    <2>2. ResolveEvidenceLocation(a.note, text[d]) \in Location
      BY <2>1, TextsOfDocuments, LocationsAreTyped
    <2> QED BY <1>4, <2>1, <2>2 DEF EvidenceOpened, Located
  <1> QED BY <1>2, <1>3, <1>4

LEMMA OpeningIsTyped ==
    ASSUME TypeOK, NEW a \in asks,
           GiveUp(a) \/ EvidenceUnavailable(a) \/ \E d \in Docs : EvidenceOpened(a, d)
    PROVE  TypeOK'
  <1>1. asks' = asks \ {a} /\ UNCHANGED <<path, text, notes, exported, phase, read, renames, done>>
    BY DEF GiveUp, EvidenceUnavailable, EvidenceOpened
  <1>2. DocumentsOK' /\ StoresOK' /\ AsksOK' /\ DoneOK'
    BY <1>1, TypeParts DEF DocumentsOK, StoresOK, AsksOK, DoneOK
  <1>3. ChainOK'
    <2>1. CASE UNCHANGED writes
      BY <2>1, <1>1, TypeParts DEF ChainOK
    <2>2. ASSUME NEW id \in Ids, NEW l \in Location, Write([op |-> "locate", id |-> id, location |-> l])
          PROVE  ChainOK'
      BY <2>2, <1>1, TypeParts, WritesAreTyped, WriteJoins
    <2> QED BY <2>1, <2>2, LocatingWrites
  <1> QED BY <1>2, <1>3, TypePartsNext

(* An import takes the notes of the file with late worked out anew.         *)
Imported(w) == {[m EXCEPT !.late = ~Leads(m.path, Chain, 2, path[m.doc])] : m \in w.notes}

LEMMA ImportedNotes ==
    ASSUME NEW w \in WriteOfNotes, w.op = "import"
    PROVE  /\ Imported(w) \in SUBSET Note
           /\ \A m \in Imported(w) : m.late \/ Leads(m.path, Chain, 2, path[m.doc])
           /\ \A m \in Imported(w) : \E n \in w.notes : m.code = n.code /\ m.of = n.of /\ m.anchor = n.anchor
  <1> SUFFICES ASSUME NEW m \in Imported(w)
               PROVE  /\ m \in Note /\ (m.late \/ Leads(m.path, Chain, 2, path[m.doc]))
                      /\ \E n \in w.notes : m.code = n.code /\ m.of = n.of /\ m.anchor = n.anchor
    OBVIOUS
  <1>1. PICK n \in w.notes : m = [n EXCEPT !.late = ~Leads(n.path, Chain, 2, path[n.doc])]
    BY DEF Imported
  <1>2. n \in Note
    BY WriteFields
  <1> DEFINE b == ~Leads(n.path, Chain, 2, path[n.doc])
  <1>3. b \in BOOLEAN
    BY LeadsIsBoolean
  <1>4. m = [n EXCEPT !.late = b]
    BY <1>1
  <1> HIDE DEF b
  <1>5. /\ m \in Note /\ m.path = n.path /\ m.doc = n.doc /\ m.late = b
        /\ m.code = n.code /\ m.of = n.of /\ m.anchor = n.anchor
    BY <1>2, <1>3, <1>4, NoteLatesChange
  <1>6. m.late \/ Leads(m.path, Chain, 2, path[m.doc])
    <2>1. CASE Leads(n.path, Chain, 2, path[n.doc])
      BY <2>1, <1>5
    <2>2. CASE ~Leads(n.path, Chain, 2, path[n.doc])
      <3>1. b
        BY <2>2 DEF b
      <3> QED BY <3>1, <1>5
    <2> QED BY <2>1, <2>2
  <1> QED BY <1>5, <1>6

LEMMA MergeStores ==
    ASSUME MergeImport
    PROVE  notes' = After([op |-> "import", notes |-> Imported(Head(writes))], read)
  BY DEF MergeImport, Imported, Chain

LEMMA ChainIsTyped ==
    ASSUME TypeOK, PhaseFits, MigrateEvidencePaths \/ StartWrite \/ MergeImport \/ EndWrite
    PROVE  TypeOK'
  <1>1. UNCHANGED <<path, text, exported, asks, done>>
    BY DEF MigrateEvidencePaths, StartWrite, MergeImport, EndWrite
  <1>2. DocumentsOK' /\ AsksOK' /\ DoneOK'
    BY <1>1, TypeParts DEF DocumentsOK, AsksOK, DoneOK
  <1>3. CASE MigrateEvidencePaths
    <2>1. renames # <<>> /\ Write(Head(renames)) /\ renames' = Tail(renames) /\ UNCHANGED <<notes, read, phase>>
      BY <1>3 DEF MigrateEvidencePaths
    <2>2. renames \in Seq(Migration)
      BY TypeParts DEF ChainOK
    <2>3. Head(renames) \in Migration /\ Tail(renames) \in Seq(Migration)
      BY <2>1, <2>2, TailsOfSequences
    <2>4. Head(renames) \in WriteOfNotes
      BY <2>3, MigrationsAreWrites
    <2>5. writes' \in Seq(WriteOfNotes)
      BY <2>1, <2>4, AppendedSequences, TypeParts DEF ChainOK, Write
    <2>6. ChainOK'
      BY <2>1, <2>3, <2>5, TypeParts DEF ChainOK
    <2>7. StoresOK'
      BY <1>1, <2>1, TypeParts DEF StoresOK
    <2> QED BY <1>2, <2>6, <2>7, TypePartsNext
  <1>4. CASE StartWrite
    <2>1. Head(writes) \in WriteOfNotes
      BY <1>4, NextWriteIsTyped DEF StartWrite
    <2>2. ChainOK'
      BY <1>4, TypeParts DEF ChainOK, StartWrite
    <2>3. After(Head(writes), notes) \in SUBSET Note
      BY <2>1, AfterWrite DEF TypeOK
    <2>4. StoresOK'
      BY <1>1, <1>4, <2>3, TypeParts DEF StoresOK, StartWrite
    <2> QED BY <1>2, <2>2, <2>4, TypePartsNext
  <1>5. CASE MergeImport
    <2>1. phase = "merging" /\ phase' = "saving" /\ read' = {} /\ UNCHANGED <<writes, renames>>
      BY <1>5 DEF MergeImport
    <2>2. Head(writes) \in WriteOfNotes /\ Head(writes).op = "import"
      BY <2>1, NextWriteIsTyped DEF PhaseFits
    <2>3. Imported(Head(writes)) \in SUBSET Note
      BY <2>2, ImportedNotes
    <2>4. [op |-> "import", notes |-> Imported(Head(writes))] \in WriteOfNotes
      BY <2>3, WritesAreTyped
    <2>5. notes' \in SUBSET Note
      BY <1>5, <2>4, MergeStores, AfterWrite DEF TypeOK
    <2>6. StoresOK'
      BY <1>1, <2>1, <2>5, TypeParts DEF StoresOK
    <2>7. ChainOK'
      BY <2>1, TypeParts DEF ChainOK
    <2> QED BY <1>2, <2>6, <2>7, TypePartsNext
  <1>6. CASE EndWrite
    <2>1. writes # <<>> /\ writes' = Tail(writes) /\ phase' = "waiting" /\ UNCHANGED <<notes, read, renames>>
      BY <1>6 DEF EndWrite, PhaseFits
    <2>2. writes' \in Seq(WriteOfNotes)
      BY <2>1, TailsOfSequences, TypeParts DEF ChainOK
    <2>3. ChainOK'
      BY <2>1, <2>2, TypeParts DEF ChainOK
    <2>4. StoresOK'
      BY <1>1, <2>1, TypeParts DEF StoresOK
    <2> QED BY <1>2, <2>3, <2>4, TypePartsNext
  <1> QED BY <1>3, <1>4, <1>5, <1>6
-----------------------------------------------------------------------------
(* Where the notes are led.                                                 *)
LEMMA ChainsAreTyped ==
    ASSUME TypeOK
    PROVE  /\ writes \in Seq(WriteOfNotes) /\ renames \in Seq(WriteOfNotes)
           /\ Chain \in Seq(WriteOfNotes) /\ Len(Chain) = Len(writes) + Len(renames)
           /\ \A i \in 1..Len(writes) : Chain[i] = writes[i]
           /\ Len(writes) \in Nat /\ Len(renames) \in Nat
  <1>1. writes \in Seq(WriteOfNotes) /\ renames \in Seq(WriteOfNotes)
    BY MigrationSequences DEF TypeOK
  <1>2. Len(writes) \in Nat /\ Len(renames) \in Nat
    BY <1>1
  <1> QED BY <1>1, <1>2, JoinedSequences DEF Chain

LEMMA FirstToComeIsThere ==
    ASSUME TypeOK, PhaseFits
    PROVE  FirstToCome \in 1..Len(writes) + 1 /\ FirstToCome \in {1, 2}
  <1>1. CASE phase = "saving"
    <2>1. Len(writes) \in Nat \ {0}
      BY <1>1, NextWriteIsTyped DEF PhaseFits
    <2> QED BY <1>1, <2>1 DEF FirstToCome
  <1>2. CASE phase # "saving"
    <2>1. Len(writes) \in Nat
      BY ChainsAreTyped
    <2> QED BY <1>2, <2>1 DEF FirstToCome
  <1> QED BY <1>1, <1>2

LEMMA AddedNotes ==
    ASSUME TypeOK, NEW k \in 1..Len(writes), writes[k].op = "add"
    PROVE  writes[k].note \in Note /\ writes[k].note.doc \in Docs /\ writes[k].note.path \in Paths
  <1>1. writes[k] \in WriteOfNotes
    BY ChainsAreTyped
  <1> QED BY <1>1, WriteFields, NoteFields

Led == PhaseFits /\ NotesLead /\ AddsLead

(* Nothing that matters here changes.                                       *)
LEMMA NothingWritten ==
    ASSUME Led, UNCHANGED <<path, notes, writes, phase, read, renames>>
    PROVE  Led'
  <1>1. Chain' = Chain /\ FirstToCome' = FirstToCome
    BY DEF Chain, FirstToCome
  <1>2. PhaseFits'
    BY DEF Led, PhaseFits
  <1>3. NotesLead'
    BY <1>1 DEF Led, NotesLead
  <1>4. AddsLead'
    BY <1>1 DEF Led, AddsLead
  <1> QED BY <1>2, <1>3, <1>4 DEF Led

(* A write other than that of a rename joins the chain.                     *)
LEMMA WriteAsked ==
    ASSUME TypeOK, Led, NEW w \in WriteOfNotes, w.op # "migrate", Write(w),
           UNCHANGED <<path, notes, phase, read, renames>>,
           w.op = "add" => w.note.late \/ Leads(w.note.path, renames, 1, path[w.note.doc])
    PROVE  Led'
  <1>1. writes' = Append(writes, w)
    BY DEF Write
  <1>2. /\ writes' \in Seq(WriteOfNotes) /\ Len(writes') = Len(writes) + 1 /\ Len(writes) \in Nat
        /\ \A i \in 1..Len(writes) : writes'[i] = writes[i]
        /\ writes'[Len(writes) + 1] = w
    BY <1>1, ChainsAreTyped, AppendedSequences
  <1>3. FirstToCome' = FirstToCome /\ FirstToCome \in 1..Len(writes) + 1
    BY FirstToComeIsThere DEF FirstToCome, Led
  <1>4. \A p, q : \A k \in 1..Len(writes) + 1 : Leads(p, Chain, k, q) => Leads(p, Chain', k, q)
    BY <1>1, ChainsAreTyped, LeadsPast DEF Chain
  <1>5. PhaseFits'
    <2>1. phase # "waiting" => writes # <<>> /\ Head(writes') = Head(writes)
      <3>1. ASSUME phase # "waiting" PROVE writes # <<>> /\ Head(writes') = Head(writes)
        <4>1. writes # <<>>
          BY <3>1 DEF Led, PhaseFits
        <4>2. Head(writes) = writes[1] /\ Len(writes) \in Nat \ {0}
          BY <4>1, NextWriteIsTyped
        <4>3. Head(writes') = writes'[1]
          BY <1>2, TailsOfSequences
        <4> QED BY <4>1, <4>2, <4>3, <1>2
      <3> QED BY <3>1
    <2>2. writes' # <<>>
      BY <1>2
    <2> QED BY <2>1, <2>2 DEF Led, PhaseFits
  <1>6. NotesLead'
    BY <1>3, <1>4 DEF Led, NotesLead
  <1>7. AddsLead'
    <2> SUFFICES ASSUME NEW k \in FirstToCome..Len(writes) + 1, writes'[k].op = "add"
                 PROVE  writes'[k].note.late \/ Leads(writes'[k].note.path, Chain', k + 1, path[writes'[k].note.doc])
      BY <1>2, <1>3 DEF AddsLead
    <2>1. CASE k \in 1..Len(writes)
      <3>1. writes'[k] = writes[k] /\ k \in FirstToCome..Len(writes)
        BY <2>1, <1>2
      <3>2. writes[k].note.late \/ Leads(writes[k].note.path, Chain, k + 1, path[writes[k].note.doc])
        BY <3>1 DEF Led, AddsLead
      <3>3. k + 1 \in 1..Len(writes) + 1
        BY <2>1, <1>2
      <3> QED BY <3>1, <3>2, <3>3, <1>4
    <2>2. CASE k = Len(writes) + 1
      <3>1. writes'[k] = w
        BY <2>2, <1>2
      <3>2. CASE w.note.late
        BY <3>1, <3>2
      <3>3. CASE Leads(w.note.path, renames, 1, path[w.note.doc])
        <4> DEFINE j == Len(writes) + 2
        <4>1. /\ Chain' \in Seq(WriteOfNotes) /\ Len(Chain') = Len(writes) + 1 + Len(renames)
              /\ \A i \in 1..Len(renames) : Chain'[Len(writes) + 1 + i] = renames[i]
              /\ renames \in Seq(WriteOfNotes) /\ Len(renames) \in Nat
          <5>1. Chain' = writes' \o renames
            BY DEF Chain
          <5>2. renames \in Seq(WriteOfNotes) /\ Len(renames) \in Nat
            BY ChainsAreTyped
          <5>3. /\ writes' \o renames \in Seq(WriteOfNotes)
                /\ Len(writes' \o renames) = Len(writes') + Len(renames)
                /\ \A i \in 1..Len(renames) : (writes' \o renames)[Len(writes') + i] = renames[i]
            <6>1. writes' \in Seq(WriteOfNotes)
              BY <1>2
            <6> QED BY <6>1, <5>2, JoinedSequences
          <5>4. Chain' \in Seq(WriteOfNotes) /\ Len(Chain') = Len(writes') + Len(renames)
            BY <5>1, <5>3
          <5>5. \A i \in 1..Len(renames) : Chain'[Len(writes') + i] = renames[i]
            BY <5>1, <5>3
          <5>6. Len(writes') = Len(writes) + 1
            BY <1>2
          <5>7. \A i \in 1..Len(renames) : Chain'[Len(writes) + 1 + i] = renames[i]
            BY <5>5, <5>6
          <5> QED BY <5>2, <5>4, <5>6, <5>7
        <4>2. \A i \in 1..Len(renames) : (i - 1) + j = Len(writes) + 1 + i
          BY <1>2
        <4>3. \A i \in 1..Len(renames) : Chain'[(i - 1) + j] = renames[i]
          BY <4>1, <4>2
        <4>4. j \in Nat \ {0} /\ 1 <= Len(renames) + 1 /\ Len(Chain') - j = Len(renames) - 1 /\ 1 \in Nat \ {0}
          BY <4>1, <1>2
        <4> HIDE DEF j
        <4>5. Leads(w.note.path, Chain', j, path[w.note.doc])
          BY <4>1, <4>3, <4>4, <3>3, LeadsAlike
        <4>6. j = k + 1
          BY <2>2, <1>2 DEF j
        <4> QED BY <4>5, <4>6, <3>1
      <3> QED BY <3>1, <3>2, <3>3
    <2> QED BY <2>1, <2>2, <1>2, <1>3
  <1> QED BY <1>5, <1>6, <1>7 DEF Led

(* A document gets another path: all that leads to it leads on.             *)
LEMMA RenameLeads ==
    ASSUME TypeOK, PathsDiffer, Led, NEW d \in Docs, Rename(d)
    PROVE  Led' /\ PathsDiffer'
  <1>1. PICK p \in Paths \ {path[e] : e \in Docs} :
            /\ path' = [path EXCEPT ![d] = p]
            /\ renames' = Append(renames, [op |-> "migrate", from |-> path[d], to |-> p])
    BY DEF Rename
  <1> DEFINE w == [op |-> "migrate", from |-> path[d], to |-> p]
  <1>2. UNCHANGED <<notes, writes, phase, read>>
    BY DEF Rename
  <1>3. path \in [Docs -> Paths]
    BY DEF TypeOK
  <1>4. w \in WriteOfNotes
    <2>1. path[d] \in Paths
      BY <1>3
    <2> QED BY <2>1, WritesAreTyped, MigrationsAreWrites
  <1>5. \A e \in Docs : path'[e] = Moved(path[e], w)
    <2>1. w.op = "migrate" /\ w.from = path[d] /\ w.to = p
      OBVIOUS
    <2> HIDE DEF w
    <2> SUFFICES ASSUME NEW e \in Docs PROVE path'[e] = Moved(path[e], w)
      OBVIOUS
    <2>2. CASE e = d
      BY <2>1, <2>2, <1>1, <1>3 DEF Moved
    <2>3. CASE e # d
      <3>1. path[e] # path[d] /\ path'[e] = path[e]
        BY <2>3, <1>1, <1>3 DEF PathsDiffer
      <3> QED BY <3>1, <2>1 DEF Moved
    <2> QED BY <2>2, <2>3
  <1>6. PathsDiffer'
    <2> SUFFICES ASSUME NEW e \in Docs, NEW f \in Docs, path'[e] = path'[f] PROVE e = f
      BY DEF PathsDiffer
    <2>1. \A g \in Docs : path[g] # p
      BY <1>1
    <2>2. \A g \in Docs : path'[g] = IF g = d THEN p ELSE path[g]
      BY <1>1, <1>3
    <2> QED BY <2>1, <2>2 DEF PathsDiffer
  <1>7. Chain' = Append(Chain, w)
    BY <1>1, <1>2, ChainsAreTyped DEF Chain
  <1> HIDE DEF w
  <1>8. \A x : \A e \in Docs : \A k \in 1..Len(Chain) + 1 : Leads(x, Chain, k, path[e]) => Leads(x, Chain', k, path'[e])
    BY <1>4, <1>5, <1>7, ChainsAreTyped, LeadsThrough
  <1>9. FirstToCome' = FirstToCome /\ FirstToCome \in 1..Len(Chain) + 1
    <2>1. FirstToCome \in 1..Len(writes) + 1
      BY FirstToComeIsThere DEF Led
    <2> QED BY <2>1, <1>2, ChainsAreTyped DEF FirstToCome
  <1>10. PhaseFits'
    BY <1>2 DEF Led, PhaseFits
  <1>11. NotesLead'
    <2>1. \A n \in notes : n.doc \in Docs
      BY NoteFields DEF TypeOK
    <2> QED BY <2>1, <1>2, <1>8, <1>9 DEF Led, NotesLead
  <1>12. AddsLead'
    <2> SUFFICES ASSUME NEW k \in FirstToCome..Len(writes), writes[k].op = "add"
                 PROVE  writes[k].note.late \/ Leads(writes[k].note.path, Chain', k + 1, path'[writes[k].note.doc])
      BY <1>2, <1>9 DEF AddsLead
    <2>1. k \in 1..Len(writes) /\ k + 1 \in 1..Len(Chain) + 1
      BY <1>9, ChainsAreTyped
    <2>2. writes[k].note.doc \in Docs
      BY <2>1, AddedNotes
    <2> QED BY <2>1, <2>2, <1>8 DEF Led, AddsLead
  <1> QED BY <1>6, <1>10, <1>11, <1>12 DEF Led

(* A rename that is told of takes its place in the chain.                   *)
LEMMA MigrationLeads ==
    ASSUME TypeOK, Led, MigrateEvidencePaths
    PROVE  Led'
  <1>1. renames # <<>> /\ writes' = Append(writes, Head(renames)) /\ renames' = Tail(renames)
    BY DEF MigrateEvidencePaths, Write
  <1>2. UNCHANGED <<path, notes, phase, read>>
    BY DEF MigrateEvidencePaths
  <1>3. renames \in Seq(Migration) /\ Head(renames) \in Migration
    BY <1>1, TailsOfSequences DEF TypeOK
  <1>4. Head(renames) \in WriteOfNotes /\ Head(renames).op = "migrate"
    BY <1>3, MigrationsAreWrites DEF Migration
  <1>5. Chain' = Chain
    <2>1. writes \in Seq(WriteOfNotes) /\ renames \in Seq(WriteOfNotes)
      BY ChainsAreTyped
    <2>2. Append(writes, Head(renames)) \o Tail(renames) = writes \o renames
      BY <2>1, <1>1
    <2> QED BY <2>2, <1>1 DEF Chain
  <1>6. /\ Len(writes') = Len(writes) + 1 /\ Len(writes) \in Nat
        /\ \A i \in 1..Len(writes) : writes'[i] = writes[i]
        /\ writes'[Len(writes) + 1] = Head(renames)
    BY <1>1, <1>4, ChainsAreTyped, AppendedSequences
  <1>7. FirstToCome' = FirstToCome /\ FirstToCome \in 1..Len(writes) + 1
    BY <1>2, FirstToComeIsThere DEF FirstToCome, Led
  <1>8. PhaseFits'
    <2>1. writes' # <<>> /\ Head(writes') = writes'[1]
      <3>1. writes' \in Seq(WriteOfNotes) /\ writes' # <<>>
        BY <1>1, <1>4, <1>6, ChainsAreTyped, AppendedSequences
      <3> QED BY <3>1, TailsOfSequences
    <2>2. ASSUME phase = "merging" PROVE Head(writes') = Head(writes)
      <3>1. writes # <<>>
        BY <2>2 DEF Led, PhaseFits
      <3>2. Head(writes) = writes[1] /\ Len(writes) \in Nat \ {0}
        BY <3>1, NextWriteIsTyped
      <3> QED BY <3>2, <2>1, <1>6
    <2> QED BY <2>1, <2>2, <1>2 DEF Led, PhaseFits
  <1>9. NotesLead'
    BY <1>2, <1>5, <1>7 DEF Led, NotesLead
  <1>10. AddsLead'
    <2> SUFFICES ASSUME NEW k \in FirstToCome..Len(writes) + 1, writes'[k].op = "add"
                 PROVE  writes'[k].note.late \/ Leads(writes'[k].note.path, Chain, k + 1, path[writes'[k].note.doc])
      BY <1>2, <1>5, <1>6, <1>7 DEF AddsLead
    <2>1. k # Len(writes) + 1
      BY <1>4, <1>6
    <2>2. k \in FirstToCome..Len(writes) /\ k \in 1..Len(writes)
      BY <2>1, <1>6, <1>7
    <2>3. writes'[k] = writes[k]
      BY <2>2, <1>6
    <2> QED BY <2>2, <2>3 DEF Led, AddsLead
  <1> QED BY <1>8, <1>9, <1>10 DEF Led

(* The note a stored one was is led on by the write first in line.          *)
LEMMA StoredLead ==
    ASSUME TypeOK, Led, phase # "saving", writes # <<>>, NEW n \in notes
    PROVE  n.late \/ Leads(Moved(n.path, Head(writes)), Chain, 2, path[n.doc])
  <1>1. FirstToCome = 1
    BY DEF FirstToCome
  <1>2. Head(writes) = writes[1] /\ Len(writes) \in Nat \ {0}
    BY NextWriteIsTyped
  <1>3. Head(writes) = Chain[1] /\ 1 \in 1..Len(Chain) /\ Chain \in Seq(WriteOfNotes)
    BY <1>2, ChainsAreTyped
  <1>4. n.late \/ Leads(n.path, Chain, 1, path[n.doc])
    BY <1>1 DEF Led, NotesLead
  <1>5. ASSUME Leads(n.path, Chain, 1, path[n.doc]) PROVE Leads(Moved(n.path, Chain[1]), Chain, 1 + 1, path[n.doc])
    BY <1>3, <1>5, LeadsOn
  <1> QED BY <1>3, <1>4, <1>5

LEMMA StartLeads ==
    ASSUME TypeOK, Led, StartWrite
    PROVE  Led'
  <1>1. writes # <<>> /\ phase = "waiting" /\ UNCHANGED <<path, writes, renames>>
    BY DEF StartWrite
  <1>2. Chain' = Chain /\ FirstToCome = 1
    BY <1>1 DEF Chain, FirstToCome
  <1>3. Head(writes) \in WriteOfNotes /\ Head(writes) = writes[1] /\ Len(writes) \in Nat \ {0}
    BY <1>1, NextWriteIsTyped
  <1>4. CASE Head(writes).op = "import"
    <2>1. phase' = "merging" /\ read' = notes /\ notes' = notes
      BY <1>4 DEF StartWrite
    <2>2. FirstToCome' = 1
      BY <2>1 DEF FirstToCome
    <2>3. PhaseFits'
      BY <2>1, <1>1, <1>4 DEF PhaseFits
    <2>4. NotesLead'
      BY <2>1, <2>2, <1>1, <1>2 DEF Led, NotesLead
    <2>5. AddsLead'
      BY <2>2, <1>1, <1>2 DEF Led, AddsLead
    <2> QED BY <2>3, <2>4, <2>5 DEF Led
  <1>5. CASE Head(writes).op # "import"
    <2>1. phase' = "saving" /\ notes' = After(Head(writes), notes)
      BY <1>5 DEF StartWrite
    <2>2. FirstToCome' = 2
      BY <2>1 DEF FirstToCome
    <2>3. PhaseFits'
      BY <2>1, <1>1 DEF PhaseFits
    <2>4. NotesLead'
      <3> SUFFICES ASSUME NEW m \in After(Head(writes), notes)
                   PROVE  m.late \/ Leads(m.path, Chain, 2, path[m.doc])
        BY <2>1, <2>2, <1>1, <1>2 DEF NotesLead
      <3>1. CASE Head(writes).op = "add" /\ m = Head(writes).note
        <4>1. 1 \in FirstToCome..Len(writes)
          BY <1>2, <1>3
        <4>2. writes[1].note.late \/ Leads(writes[1].note.path, Chain, 1 + 1, path[writes[1].note.doc])
          BY <4>1, <3>1, <1>3 DEF Led, AddsLead
        <4> QED BY <4>2, <3>1, <1>3
      <3>2. CASE \E n \in notes : SameButForItsPlace(m, n) /\ m.path = Moved(n.path, Head(writes))
        <4>1. PICK n \in notes : SameButForItsPlace(m, n) /\ m.path = Moved(n.path, Head(writes))
          BY <3>2
        <4>2. n.late \/ Leads(Moved(n.path, Head(writes)), Chain, 2, path[n.doc])
          BY <1>1, StoredLead
        <4>3. m.late = n.late /\ m.doc = n.doc
          BY <4>1 DEF SameButForItsPlace
        <4> QED BY <4>1, <4>2, <4>3
      <3>3. notes \in SUBSET Note
        BY DEF TypeOK
      <3> QED BY <3>1, <3>2, <3>3, <1>3, <1>5, AfterWrite
    <2>5. AddsLead'
      <3>1. \A k \in 2..Len(writes) : k \in FirstToCome..Len(writes)
        BY <1>2, <1>3
      <3> QED BY <3>1, <2>2, <1>1, <1>2 DEF Led, AddsLead
    <2> QED BY <2>3, <2>4, <2>5 DEF Led
  <1> QED BY <1>4, <1>5

LEMMA MergeLeads ==
    ASSUME TypeOK, Led, MergeImport
    PROVE  Led'
  <1>1. phase = "merging" /\ phase' = "saving" /\ UNCHANGED <<path, writes, renames>>
    BY DEF MergeImport
  <1>2. Chain' = Chain /\ FirstToCome = 1 /\ FirstToCome' = 2
    BY <1>1 DEF Chain, FirstToCome
  <1>3. writes # <<>> /\ Head(writes).op = "import" /\ read = notes
    BY <1>1 DEF Led, PhaseFits
  <1>4. Head(writes) \in WriteOfNotes /\ Len(writes) \in Nat
    BY <1>3, NextWriteIsTyped
  <1> DEFINE w == [op |-> "import", notes |-> Imported(Head(writes))]
  <1>5. Imported(Head(writes)) \in SUBSET Note
    BY <1>3, <1>4, ImportedNotes
  <1>6. w \in WriteOfNotes
    BY <1>5, WritesAreTyped
  <1>7. w.op = "import" /\ w.notes = Imported(Head(writes)) /\ notes' = After(w, notes)
    BY <1>3, MergeStores
  <1> HIDE DEF w
  <1>8. PhaseFits'
    BY <1>1, <1>3 DEF PhaseFits
  <1>9. NotesLead'
    <2> SUFFICES ASSUME NEW m \in After(w, notes)
                 PROVE  m.late \/ Leads(m.path, Chain, 2, path[m.doc])
      BY <1>1, <1>2, <1>7 DEF NotesLead
    <2>1. CASE m \in w.notes
      BY <2>1, <1>3, <1>4, <1>7, ImportedNotes
    <2>2. CASE \E n \in notes : SameButForItsPlace(m, n) /\ m.path = Moved(n.path, w)
      <3>1. PICK n \in notes : SameButForItsPlace(m, n) /\ m.path = Moved(n.path, w)
        BY <2>2
      <3>2. n.late \/ Leads(Moved(n.path, Head(writes)), Chain, 2, path[n.doc])
        BY <1>1, <1>3, StoredLead
      <3>3. Moved(n.path, Head(writes)) = n.path /\ Moved(n.path, w) = n.path
        BY <1>3, <1>7 DEF Moved
      <3>4. m.late = n.late /\ m.doc = n.doc
        BY <3>1 DEF SameButForItsPlace
      <3> QED BY <3>1, <3>2, <3>3, <3>4
    <2>3. notes \in SUBSET Note
      BY DEF TypeOK
    <2> QED BY <2>1, <2>2, <2>3, <1>6, <1>7, AfterWrite
  <1>10. AddsLead'
    <2>1. \A k \in 2..Len(writes) : k \in FirstToCome..Len(writes)
      BY <1>2, <1>4
    <2> QED BY <2>1, <1>1, <1>2 DEF Led, AddsLead
  <1> QED BY <1>8, <1>9, <1>10 DEF Led

LEMMA EndLeads ==
    ASSUME TypeOK, Led, EndWrite
    PROVE  Led'
  <1>1. phase = "saving" /\ phase' = "waiting" /\ writes' = Tail(writes) /\ UNCHANGED <<path, notes, renames>>
    BY DEF EndWrite
  <1>2. writes # <<>>
    BY <1>1 DEF Led, PhaseFits
  <1>3. FirstToCome = 2 /\ FirstToCome' = 1
    BY <1>1 DEF FirstToCome
  <1>4. /\ writes' \in Seq(WriteOfNotes) /\ Len(writes') = Len(writes) - 1 /\ Len(writes) \in Nat \ {0}
        /\ \A i \in 1..Len(writes') : writes'[i] = writes[i + 1]
    BY <1>1, <1>2, ChainsAreTyped, TailsOfSequences
  <1>5. /\ Chain' \in Seq(WriteOfNotes) /\ Len(Chain') = Len(Chain) - 1
        /\ \A i \in 1..Len(Chain') : Chain'[i] = Chain[i + 1]
    <2>1. writes \in Seq(WriteOfNotes) /\ renames \in Seq(WriteOfNotes)
      BY ChainsAreTyped
    <2>2. writes' \o renames = Tail(writes \o renames) /\ writes \o renames # <<>>
      BY <2>1, <1>1, <1>2
    <2>3. Chain' = Tail(Chain) /\ Chain # <<>>
      BY <2>2, <1>1 DEF Chain
    <2> QED BY <2>3, ChainsAreTyped, TailsOfSequences
  <1>6. ASSUME NEW p, NEW q, NEW k \in 1..Len(writes), Leads(p, Chain, k + 1, q)
        PROVE  Leads(p, Chain', k, q)
    <2> DEFINE j == k + 1
    <2>1. /\ Len(Chain) \in Nat /\ Len(Chain) >= Len(writes) /\ Len(Chain') = Len(Chain) - 1
          /\ Chain \in Seq(WriteOfNotes) /\ Chain' \in Seq(WriteOfNotes)
      BY <1>4, <1>5, ChainsAreTyped
    <2>2. j \in Nat \ {0} /\ k \in Nat \ {0} /\ j <= Len(Chain) + 1 /\ Len(Chain') - k = Len(Chain) - j
      BY <2>1, <1>4
    <2>3. ASSUME NEW i \in j..Len(Chain) PROVE Chain'[(i - j) + k] = Chain[i]
      <3>1. (i - j) + k = i - 1 /\ i - 1 \in 1..Len(Chain') /\ (i - 1) + 1 = i
        BY <2>1, <2>2
      <3> QED BY <3>1, <1>5
    <2>4. Leads(p, Chain, j, q)
      BY <1>6
    <2> HIDE DEF j
    <2> QED BY <2>1, <2>2, <2>3, <2>4, LeadsAlike
  <1>7. PhaseFits'
    BY <1>1 DEF PhaseFits
  <1>8. NotesLead'
    <2>1. 1 \in 1..Len(writes) /\ 1 + 1 = 2
      BY <1>4
    <2>2. \A p, q : Leads(p, Chain, 2, q) => Leads(p, Chain', 1, q)
      BY <2>1, <1>6
    <2> QED BY <2>2, <1>1, <1>3 DEF Led, NotesLead
  <1>9. AddsLead'
    <2> SUFFICES ASSUME NEW k \in 1..Len(writes'), writes'[k].op = "add"
                 PROVE  writes'[k].note.late \/ Leads(writes'[k].note.path, Chain', k + 1, path[writes'[k].note.doc])
      BY <1>1, <1>3 DEF AddsLead
    <2> DEFINE j == k + 1
    <2>1. j \in 2..Len(writes) /\ j \in 1..Len(writes)
      BY <1>4
    <2>2. writes'[k] = writes[j]
      BY <1>4
    <2> HIDE DEF j
    <2>3. writes[j].note.late \/ Leads(writes[j].note.path, Chain, j + 1, path[writes[j].note.doc])
      BY <2>1, <2>2, <1>3 DEF Led, AddsLead
    <2>4. writes[j].note.late \/ Leads(writes[j].note.path, Chain', j, path[writes[j].note.doc])
      BY <2>1, <2>3, <1>6
    <2> QED BY <2>2, <2>4 DEF j
  <1> QED BY <1>7, <1>8, <1>9 DEF Led
-----------------------------------------------------------------------------
(* Codes are those of the lines they were taken from.                       *)
AllAsTaken == NotesAsTaken /\ AsksAsTaken /\ WritesAsTaken

LEMMA SameAsTaken ==
    ASSUME NEW m, NEW n, m.code = n.code, m.of = n.of, m.anchor = n.anchor, CodeAsTaken(n)
    PROVE  CodeAsTaken(m)
  BY DEF CodeAsTaken

LEMMA WriteAskedAsTaken ==
    ASSUME TypeOK, WritesAsTaken, NEW w \in WriteOfNotes, Write(w),
           w.op = "add" => CodeAsTaken(w.note),
           w.op = "import" => \A n \in w.notes : CodeAsTaken(n)
    PROVE  WritesAsTaken'
  <1>1. /\ Len(writes') = Len(writes) + 1 /\ Len(writes) \in Nat
        /\ \A i \in 1..Len(writes) : writes'[i] = writes[i]
        /\ writes'[Len(writes) + 1] = w
    BY ChainsAreTyped, AppendedSequences DEF Write
  <1> SUFFICES ASSUME NEW k \in 1..Len(writes) + 1
               PROVE  /\ writes'[k].op = "add" => CodeAsTaken(writes'[k].note)
                      /\ writes'[k].op = "import" => \A n \in writes'[k].notes : CodeAsTaken(n)
    BY <1>1 DEF WritesAsTaken, CodeAsTaken
  <1>2. CASE k = Len(writes) + 1
    BY <1>1, <1>2
  <1>3. CASE k \in 1..Len(writes)
    BY <1>1, <1>3 DEF WritesAsTaken
  <1> QED BY <1>1, <1>2, <1>3

(* What the stores hold.                                                    *)
LEMMA StoresAsTaken ==
    ASSUME TypeOK, AllAsTaken, NEW w \in WriteOfNotes, notes' = After(w, notes), UNCHANGED exported,
           w.op = "add" => CodeAsTaken(w.note),
           w.op = "import" => \A n \in w.notes : CodeAsTaken(n)
    PROVE  NotesAsTaken'
  <1> SUFFICES ASSUME NEW m \in After(w, notes) \union exported PROVE CodeAsTaken(m)
    BY DEF NotesAsTaken, CodeAsTaken
  <1>1. CASE m \in exported
    BY <1>1 DEF AllAsTaken, NotesAsTaken
  <1>2. CASE m \in After(w, notes)
    <2>1. notes \in SUBSET Note
      BY DEF TypeOK
    <2>2. CASE \E n \in notes : SameButForItsPlace(m, n)
      <3>1. PICK n \in notes : SameButForItsPlace(m, n)
        BY <2>2
      <3>2. CodeAsTaken(n)
        BY DEF AllAsTaken, NotesAsTaken
      <3> QED BY <3>1, <3>2, SameAsTaken DEF SameButForItsPlace
    <2>3. CASE w.op = "add" /\ m = w.note
      BY <2>3
    <2>4. CASE w.op = "import" /\ m \in w.notes
      BY <2>4
    <2> QED BY <1>2, <2>1, <2>2, <2>3, <2>4, AfterWrite
  <1> QED BY <1>1, <1>2

LEMMA AllAsTakenStep ==
    ASSUME Inv, Next
    PROVE  AllAsTaken'
  <1> USE DEF Inv
  <1>1. AllAsTaken
    BY DEF AllAsTaken
  <1>2. ASSUME NEW d \in Docs, Edit(d) \/ Rename(d) PROVE AllAsTaken'
    <2>1. UNCHANGED <<notes, exported, asks, writes>>
      BY <1>2 DEF Edit, Rename
    <2> QED BY <1>1, <2>1 DEF AllAsTaken, NotesAsTaken, AsksAsTaken, WritesAsTaken, CodeAsTaken
  <1>3. ASSUME NEW d \in Docs, SelectCode(d) \/ SelectItem(d) PROVE AllAsTaken'
    <2>1. UNCHANGED <<notes, exported, writes>>
      BY <1>3 DEF SelectCode, SelectItem
    <2>2. NotesAsTaken' /\ WritesAsTaken'
      BY <1>1, <2>1 DEF AllAsTaken, NotesAsTaken, WritesAsTaken, CodeAsTaken
    <2>3. CASE SelectCode(d)
      <3>1. PICK i \in DOMAIN text[d] :
                asks' = asks \union {[op |-> "select", doc |-> d, path |-> path[d], line |-> i,
                                      code |-> Content(text[d][i]), of |-> text[d][i]]}
        BY <2>3 DEF SelectCode
      <3>2. AsksAsTaken'
        BY <1>1, <3>1 DEF AllAsTaken, AsksAsTaken, CodeAsTaken
      <3> QED BY <2>2, <3>2 DEF AllAsTaken
    <2>4. CASE SelectItem(d)
      <3>1. PICK i \in DOMAIN text[d] :
                asks' = asks \union {[op |-> "item", doc |-> d, path |-> path[d], line |-> i,
                                      code |-> "clues", of |-> text[d][i]]}
        BY <2>4 DEF SelectItem
      <3>2. AsksAsTaken'
        BY <1>1, <3>1 DEF AllAsTaken, AsksAsTaken, CodeAsTaken
      <3> QED BY <2>2, <3>2 DEF AllAsTaken
    <2> QED BY <1>3, <2>3, <2>4
  <1>4. ASSUME NEW a \in asks, AddSelectionEvidence(a) \/ AddEvidenceForItem(a) PROVE AllAsTaken'
    <2>1. PICK anchor : Add(a, anchor) /\ (anchor = NoAnchor \/ a.op = "select") /\ anchor \in Anchor
                        /\ a.op # "open"
      <3>1. CASE AddSelectionEvidence(a)
        <4>1. a.op = "select" /\ a.doc \in Docs /\ a.line \in Nat \ {0}
          BY <3>1, AsksAreTyped DEF TypeOK, AddSelectionEvidence
        <4>2. ContextAnchor(text[a.doc], a.line) \in Anchor
          BY <4>1, TextsOfDocuments, AnchorsAreTyped
        <4> QED BY <3>1, <4>1, <4>2 DEF AddSelectionEvidence
      <3>2. CASE AddEvidenceForItem(a)
        <4>1. NoAnchor \in Anchor
          BY DEF Anchor
        <4> QED BY <3>2, <4>1 DEF AddEvidenceForItem
      <3> QED BY <1>4, <3>1, <3>2
    <2>2. PICK id \in NewIds : asks' = asks \ {a} /\ Write([op |-> "add", note |-> NewNote(a, id, anchor)])
      BY <2>1 DEF Add, NewNote
    <2>3. id \in Ids /\ a \in Asked
      BY DEF NewIds, TypeOK
    <2>4. NewNote(a, id, anchor) \in Note
      BY <2>1, <2>3, NotesOfAsks, LeadsIsBoolean DEF NewNote
    <2> DEFINE w == [op |-> "add", note |-> NewNote(a, id, anchor)]
    <2>5. w \in WriteOfNotes /\ w.op = "add" /\ w.note = NewNote(a, id, anchor)
      BY <2>4, WritesAreTyped
    <2>6. CodeAsTaken(NewNote(a, id, anchor))
      <3>1. a.op = "select" => a.code = Content(a.of)
        BY <1>1 DEF AllAsTaken, AsksAsTaken
      <3> QED BY <3>1, <2>1 DEF CodeAsTaken, NewNote
    <2>7. WritesAsTaken'
      <3>1. Write(w)
        BY <2>2
      <3> HIDE DEF w
      <3> QED BY <3>1, <2>5, <2>6, WriteAskedAsTaken
    <2>8. UNCHANGED <<notes, exported>>
      BY <1>4 DEF AddSelectionEvidence, AddEvidenceForItem
    <2>9. NotesAsTaken' /\ AsksAsTaken'
      BY <1>1, <2>2, <2>8 DEF AllAsTaken, NotesAsTaken, AsksAsTaken, CodeAsTaken
    <2> QED BY <2>7, <2>9 DEF AllAsTaken
  <1>5. ASSUME NEW a \in asks, GiveUp(a) \/ EvidenceUnavailable(a) \/ \E d \in Docs : EvidenceOpened(a, d)
        PROVE  AllAsTaken'
    <2>1. asks' = asks \ {a} /\ UNCHANGED <<notes, exported>>
      BY <1>5 DEF GiveUp, EvidenceUnavailable, EvidenceOpened
    <2>2. NotesAsTaken' /\ AsksAsTaken'
      BY <1>1, <2>1 DEF AllAsTaken, NotesAsTaken, AsksAsTaken, CodeAsTaken
    <2>3. UNCHANGED writes \/ \E id \in Ids, l \in Location : Write([op |-> "locate", id |-> id, location |-> l])
      BY <1>5, LocatingWrites
    <2>4. WritesAsTaken'
      <3>1. CASE UNCHANGED writes
        BY <1>1, <3>1 DEF AllAsTaken, WritesAsTaken, CodeAsTaken
      <3>2. ASSUME NEW id \in Ids, NEW l \in Location, Write([op |-> "locate", id |-> id, location |-> l])
            PROVE  WritesAsTaken'
        <4> DEFINE w == [op |-> "locate", id |-> id, location |-> l]
        <4>1. w \in WriteOfNotes /\ w.op = "locate" /\ Write(w)
          BY <3>2, WritesAreTyped
        <4> HIDE DEF w
        <4> QED BY <4>1, WriteAskedAsTaken
      <3> QED BY <2>3, <3>1, <3>2
    <2> QED BY <2>2, <2>4 DEF AllAsTaken
  <1>6. CASE RemoveEvidence
    <2>1. PICK n \in notes : Write([op |-> "remove", id |-> n.id])
      BY <1>6 DEF RemoveEvidence
    <2> DEFINE w == [op |-> "remove", id |-> n.id]
    <2>2. w \in WriteOfNotes /\ w.op = "remove" /\ Write(w)
      BY <2>1, NoteFields, WritesAreTyped DEF TypeOK
    <2> HIDE DEF w
    <2>3. WritesAsTaken'
      BY <2>2, WriteAskedAsTaken
    <2>4. UNCHANGED <<notes, exported, asks>>
      BY <1>6 DEF RemoveEvidence
    <2> QED BY <1>1, <2>3, <2>4 DEF AllAsTaken, NotesAsTaken, AsksAsTaken, CodeAsTaken
  <1>7. CASE OpenEvidence
    <2>1. PICK n \in notes : asks' = asks \union {[op |-> "open", note |-> n]}
      BY <1>7 DEF OpenEvidence
    <2>2. CodeAsTaken(n)
      BY <1>1 DEF AllAsTaken, NotesAsTaken
    <2>3. AsksAsTaken'
      BY <1>1, <2>1, <2>2 DEF AllAsTaken, AsksAsTaken, CodeAsTaken
    <2>4. UNCHANGED <<notes, exported, writes>>
      BY <1>7 DEF OpenEvidence
    <2> QED BY <1>1, <2>3, <2>4 DEF AllAsTaken, NotesAsTaken, WritesAsTaken, CodeAsTaken
  <1>8. CASE ExportReviewSession
    <2>1. exported' = {[n EXCEPT !.status = "new"] : n \in notes} /\ UNCHANGED <<notes, asks, writes>>
      BY <1>8 DEF ExportReviewSession
    <2>2. ASSUME NEW m \in exported' PROVE CodeAsTaken(m)
      <3>1. PICK n \in notes : m = [n EXCEPT !.status = "new"]
        BY <2>1, <2>2
      <3>2. "new" \in Status /\ n \in Note
        BY DEF Status, TypeOK
      <3>3. m.code = n.code /\ m.of = n.of /\ m.anchor = n.anchor
        BY <3>1, <3>2, NoteStatusesChange
      <3>4. CodeAsTaken(n)
        BY <1>1 DEF AllAsTaken, NotesAsTaken
      <3> QED BY <3>3, <3>4, SameAsTaken
    <2>3. NotesAsTaken'
      BY <1>1, <2>1, <2>2 DEF AllAsTaken, NotesAsTaken, CodeAsTaken
    <2> QED BY <1>1, <2>1, <2>3 DEF AllAsTaken, AsksAsTaken, WritesAsTaken, CodeAsTaken
  <1>9. CASE ImportReviewSession
    <2> DEFINE w == [op |-> "import", notes |-> exported]
    <2>1. w \in WriteOfNotes /\ w.op = "import" /\ w.notes = exported /\ Write(w)
      BY <1>9, WritesAreTyped DEF ImportReviewSession, TypeOK
    <2> HIDE DEF w
    <2>2. \A n \in w.notes : CodeAsTaken(n)
      BY <1>1, <2>1 DEF AllAsTaken, NotesAsTaken
    <2>3. WritesAsTaken'
      BY <2>1, <2>2, WriteAskedAsTaken
    <2>4. UNCHANGED <<notes, exported, asks>>
      BY <1>9 DEF ImportReviewSession
    <2> QED BY <1>1, <2>3, <2>4 DEF AllAsTaken, NotesAsTaken, AsksAsTaken, CodeAsTaken
  <1>10. CASE MigrateEvidencePaths
    <2>1. renames # <<>> /\ Write(Head(renames)) /\ UNCHANGED <<notes, exported, asks>>
      BY <1>10 DEF MigrateEvidencePaths
    <2>2. Head(renames) \in Migration
      BY <2>1, TailsOfSequences DEF TypeOK
    <2>3. Head(renames) \in WriteOfNotes /\ Head(renames).op = "migrate"
      BY <2>2, MigrationsAreWrites DEF Migration
    <2>4. WritesAsTaken'
      BY <2>1, <2>3, WriteAskedAsTaken
    <2> QED BY <1>1, <2>1, <2>4 DEF AllAsTaken, NotesAsTaken, AsksAsTaken, CodeAsTaken
  <1>11. CASE StartWrite
    <2>1. writes # <<>> /\ UNCHANGED <<exported, asks, writes>>
      BY <1>11 DEF StartWrite
    <2>2. Head(writes) \in WriteOfNotes /\ Head(writes) = writes[1] /\ 1 \in 1..Len(writes)
      BY <2>1, NextWriteIsTyped
    <2>3. UNCHANGED notes \/ notes' = After(Head(writes), notes)
      BY <1>11 DEF StartWrite
    <2>4. NotesAsTaken'
      <3>1. CASE UNCHANGED notes
        BY <1>1, <2>1, <3>1 DEF AllAsTaken, NotesAsTaken, CodeAsTaken
      <3>2. CASE notes' = After(Head(writes), notes)
        <4>1. /\ Head(writes).op = "add" => CodeAsTaken(Head(writes).note)
              /\ Head(writes).op = "import" => \A n \in Head(writes).notes : CodeAsTaken(n)
          BY <1>1, <2>2 DEF AllAsTaken, WritesAsTaken
        <4> QED BY <1>1, <2>1, <2>2, <3>2, <4>1, StoresAsTaken
      <3> QED BY <2>3, <3>1, <3>2
    <2> QED BY <1>1, <2>1, <2>4 DEF AllAsTaken, AsksAsTaken, WritesAsTaken, CodeAsTaken
  <1>12. CASE MergeImport
    <2>1. phase = "merging" /\ UNCHANGED <<exported, asks, writes>>
      BY <1>12 DEF MergeImport
    <2>2. writes # <<>> /\ Head(writes).op = "import" /\ read = notes
      BY <2>1 DEF PhaseFits
    <2>3. Head(writes) \in WriteOfNotes /\ Head(writes) = writes[1] /\ 1 \in 1..Len(writes)
      BY <2>2, NextWriteIsTyped
    <2> DEFINE w == [op |-> "import", notes |-> Imported(Head(writes))]
    <2>4. Imported(Head(writes)) \in SUBSET Note
      BY <2>2, <2>3, ImportedNotes
    <2>5. w \in WriteOfNotes /\ w.op = "import" /\ w.notes = Imported(Head(writes)) /\ notes' = After(w, notes)
      BY <1>12, <2>2, <2>4, MergeStores, WritesAreTyped
    <2> HIDE DEF w
    <2>6. ASSUME NEW m \in w.notes PROVE CodeAsTaken(m)
      <3>1. PICK n \in Head(writes).notes : m.code = n.code /\ m.of = n.of /\ m.anchor = n.anchor
        BY <2>2, <2>3, <2>5, ImportedNotes
      <3>2. CodeAsTaken(n)
        BY <1>1, <2>2, <2>3 DEF AllAsTaken, WritesAsTaken
      <3> QED BY <3>1, <3>2, SameAsTaken
    <2>7. NotesAsTaken'
      BY <1>1, <2>1, <2>5, <2>6, StoresAsTaken
    <2> QED BY <1>1, <2>1, <2>7 DEF AllAsTaken, AsksAsTaken, WritesAsTaken, CodeAsTaken
  <1>13. CASE EndWrite
    <2>1. phase = "saving" /\ writes' = Tail(writes) /\ UNCHANGED <<notes, exported, asks>>
      BY <1>13 DEF EndWrite
    <2>2. writes # <<>>
      BY <2>1 DEF PhaseFits
    <2>3. /\ Len(writes') = Len(writes) - 1 /\ Len(writes) \in Nat \ {0}
          /\ \A i \in 1..Len(writes') : writes'[i] = writes[i + 1]
      BY <2>1, <2>2, ChainsAreTyped, TailsOfSequences
    <2>4. \A i \in 1..Len(writes') : i + 1 \in 1..Len(writes)
      BY <2>3
    <2>5. WritesAsTaken'
      BY <1>1, <2>3, <2>4 DEF AllAsTaken, WritesAsTaken, CodeAsTaken
    <2> QED BY <1>1, <2>1, <2>5 DEF AllAsTaken, NotesAsTaken, AsksAsTaken, CodeAsTaken
  <1> QED BY <1>2, <1>3, <1>4, <1>5, <1>6, <1>7, <1>8, <1>9, <1>10, <1>11, <1>12, <1>13 DEF Next
-----------------------------------------------------------------------------
(* The invariant.                                                           *)
LEMMA LeadsStays == ASSUME NEW p \in Paths PROVE Leads(p, <<>>, 1, p)
  <1> DEFINE way == [i \in 1..1 |-> p]
  <1>1. way \in [1..1 -> Paths] /\ way[1] = p
    OBVIOUS
  <1>2. Len(<<>>) + 1 = 1 /\ 1..Len(<<>>) = {}
    OBVIOUS
  <1> HIDE DEF way
  <1>3. way \in [1..Len(<<>>) + 1 -> Paths] /\ way[Len(<<>>) + 1] = p
    BY <1>1, <1>2
  <1> QED BY <1>1, <1>2, <1>3 DEF Leads

LEMMA EmptyChain == writes = <<>> /\ renames = <<>> => Chain = <<>>
  BY DEF Chain

LEMMA InvInit == Init => Inv
  <1> SUFFICES ASSUME Init PROVE Inv
    OBVIOUS
  <1> USE DEF Init
  <1>1. TypeOK
    <2>1. done \in [commands : Nat, edits : Nat, renames : Nat, ids : SUBSET Ids]
      <3>1. {n.id : n \in Colleague \union Earlier} \in SUBSET Ids
        BY NotesBefore, NoteFields
      <3> QED BY <3>1
    <2>2. path \in [Docs -> Paths]
      BY FirstPathsDiffer
    <2>3. notes \in SUBSET Note /\ exported \in SUBSET Note /\ read \in SUBSET Note
      BY NotesBefore
    <2>4. text \in [Docs -> UNION Range(Texts)] /\ \A d \in Docs : text[d] \in Texts[d]
      OBVIOUS
    <2> QED BY <2>1, <2>2, <2>3, <2>4 DEF TypeOK
  <1>2. PathsDiffer
    BY FirstPathsDiffer DEF PathsDiffer
  <1>3. PhaseFits
    BY DEF PhaseFits
  <1>4. NotesLead
    <2> SUFFICES ASSUME NEW n \in notes, ~n.late PROVE Leads(n.path, Chain, FirstToCome, path[n.doc])
      BY DEF NotesLead
    <2>1. Chain = <<>> /\ FirstToCome = 1
      BY EmptyChain DEF FirstToCome
    <2>2. n.path = path[n.doc] /\ n.path \in Paths
      BY NotesBefore, NoteFields
    <2> QED BY <2>1, <2>2, LeadsStays
  <1>5. AddsLead
    BY DEF AddsLead, FirstToCome
  <1>6. NotesAsTaken /\ AsksAsTaken /\ WritesAsTaken
    BY NotesBefore DEF NotesAsTaken, AsksAsTaken, WritesAsTaken
  <1> QED BY <1>1, <1>2, <1>3, <1>4, <1>5, <1>6 DEF Inv

LEMMA TypeStep ==
    ASSUME TypeOK, PhaseFits, Next
    PROVE  TypeOK'
  <1>1. ASSUME NEW d \in Docs, Edit(d) \/ Rename(d) PROVE TypeOK'
    BY <1>1, WorkspaceIsTyped
  <1>2. ASSUME NEW d \in Docs, SelectCode(d) \/ SelectItem(d) PROVE TypeOK'
    BY <1>2, SelectionsAreTyped
  <1>3. ASSUME NEW a \in asks, AddSelectionEvidence(a) \/ AddEvidenceForItem(a) PROVE TypeOK'
    BY <1>3, AnswersAreTyped
  <1>4. ASSUME NEW a \in asks, GiveUp(a) \/ EvidenceUnavailable(a) \/ \E d \in Docs : EvidenceOpened(a, d)
        PROVE  TypeOK'
    BY <1>4, OpeningIsTyped
  <1>5. CASE RemoveEvidence \/ OpenEvidence \/ ExportReviewSession \/ ImportReviewSession
    BY <1>5, CommandsAreTyped
  <1>6. CASE MigrateEvidencePaths \/ StartWrite \/ MergeImport \/ EndWrite
    BY <1>6, ChainIsTyped
  <1> QED BY <1>1, <1>2, <1>3, <1>4, <1>5, <1>6 DEF Next

(* What is asked for joins the chain where it leads right.                  *)
LEMMA AnswerLeads ==
    ASSUME TypeOK, Led, NEW a \in asks, AddSelectionEvidence(a) \/ AddEvidenceForItem(a)
    PROVE  Led' /\ UNCHANGED path
  <1>1. a \in Asked /\ a.op # "open"
    BY DEF TypeOK, AddSelectionEvidence, AddEvidenceForItem
  <1>2. UNCHANGED <<path, notes, phase, read, renames>>
    BY DEF AddSelectionEvidence, AddEvidenceForItem
  <1>3. PICK anchor \in Anchor : Add(a, anchor)
    <2>1. CASE AddSelectionEvidence(a)
      <3>1. a.doc \in Docs /\ a.line \in Nat \ {0}
        BY <1>1, AsksAreTyped
      <3>2. ContextAnchor(text[a.doc], a.line) \in Anchor
        BY <3>1, TextsOfDocuments, AnchorsAreTyped
      <3> QED BY <2>1, <3>2 DEF AddSelectionEvidence
    <2>2. CASE AddEvidenceForItem(a)
      BY <2>2 DEF AddEvidenceForItem, Anchor
    <2> QED BY <2>1, <2>2
  <1>4. PICK id \in NewIds : Write([op |-> "add", note |-> NewNote(a, id, anchor)])
    BY <1>3 DEF Add, NewNote
  <1> DEFINE w == [op |-> "add", note |-> NewNote(a, id, anchor)]
  <1>5. NewNote(a, id, anchor) \in Note
    BY <1>1, NotesOfAsks, LeadsIsBoolean DEF NewNote, NewIds
  <1>6. w \in WriteOfNotes /\ w.op = "add" /\ w.note = NewNote(a, id, anchor) /\ Write(w)
    BY <1>4, <1>5, WritesAreTyped
  <1>7. w.note.late \/ Leads(w.note.path, renames, 1, path[w.note.doc])
    <2>1. w.note.path = a.path /\ w.note.doc = a.doc /\ w.note.late = ~Leads(a.path, renames, 1, path[a.doc])
      BY <1>6 DEF NewNote
    <2>2. CASE Leads(a.path, renames, 1, path[a.doc])
      BY <2>1, <2>2
    <2>3. CASE ~Leads(a.path, renames, 1, path[a.doc])
      BY <2>1, <2>3
    <2> QED BY <2>2, <2>3
  <1> HIDE DEF w
  <1> QED BY <1>2, <1>6, <1>7, WriteAsked

LEMMA LedStep ==
    ASSUME TypeOK, PathsDiffer, Led, Next
    PROVE  Led' /\ PathsDiffer'
  <1>1. ASSUME UNCHANGED path PROVE PathsDiffer'
    BY <1>1 DEF PathsDiffer
  <1>2. ASSUME NEW d \in Docs, Edit(d) \/ SelectCode(d) \/ SelectItem(d) PROVE Led' /\ PathsDiffer'
    <2>1. UNCHANGED <<path, notes, writes, phase, read, renames>>
      BY <1>2 DEF Edit, SelectCode, SelectItem
    <2> QED BY <1>1, <2>1, NothingWritten
  <1>3. ASSUME NEW d \in Docs, Rename(d) PROVE Led' /\ PathsDiffer'
    BY <1>3, RenameLeads
  <1>4. ASSUME NEW a \in asks, AddSelectionEvidence(a) \/ AddEvidenceForItem(a) PROVE Led' /\ PathsDiffer'
    BY <1>1, <1>4, AnswerLeads
  <1>5. ASSUME NEW a \in asks, GiveUp(a) \/ EvidenceUnavailable(a) \/ \E d \in Docs : EvidenceOpened(a, d)
        PROVE  Led' /\ PathsDiffer'
    <2>1. UNCHANGED <<path, notes, phase, read, renames>>
      BY <1>5 DEF GiveUp, EvidenceUnavailable, EvidenceOpened
    <2>2. CASE UNCHANGED writes
      BY <1>1, <2>1, <2>2, NothingWritten
    <2>3. ASSUME NEW id \in Ids, NEW l \in Location, Write([op |-> "locate", id |-> id, location |-> l])
          PROVE  Led'
      <3> DEFINE w == [op |-> "locate", id |-> id, location |-> l]
      <3>1. w \in WriteOfNotes /\ w.op = "locate" /\ Write(w)
        BY <2>3, WritesAreTyped
      <3> HIDE DEF w
      <3> QED BY <2>1, <3>1, WriteAsked
    <2> QED BY <1>1, <1>5, <2>1, <2>2, <2>3, LocatingWrites
  <1>6. CASE OpenEvidence \/ ExportReviewSession
    <2>1. UNCHANGED <<path, notes, writes, phase, read, renames>>
      BY <1>6 DEF OpenEvidence, ExportReviewSession
    <2> QED BY <1>1, <2>1, NothingWritten
  <1>7. CASE RemoveEvidence
    <2>1. PICK n \in notes : Write([op |-> "remove", id |-> n.id])
      BY <1>7 DEF RemoveEvidence
    <2> DEFINE w == [op |-> "remove", id |-> n.id]
    <2>2. w \in WriteOfNotes /\ w.op = "remove" /\ Write(w)
      BY <2>1, NoteFields, WritesAreTyped DEF TypeOK
    <2> HIDE DEF w
    <2>3. UNCHANGED <<path, notes, phase, read, renames>>
      BY <1>7 DEF RemoveEvidence
    <2> QED BY <1>1, <2>2, <2>3, WriteAsked
  <1>8. CASE ImportReviewSession
    <2> DEFINE w == [op |-> "import", notes |-> exported]
    <2>1. w \in WriteOfNotes /\ w.op = "import" /\ Write(w)
      BY <1>8, WritesAreTyped DEF ImportReviewSession, TypeOK
    <2> HIDE DEF w
    <2>2. UNCHANGED <<path, notes, phase, read, renames>>
      BY <1>8 DEF ImportReviewSession
    <2> QED BY <1>1, <2>1, <2>2, WriteAsked
  <1>9. CASE MigrateEvidencePaths
    BY <1>1, <1>9, MigrationLeads DEF MigrateEvidencePaths
  <1>10. CASE StartWrite
    BY <1>1, <1>10, StartLeads DEF StartWrite
  <1>11. CASE MergeImport
    BY <1>1, <1>11, MergeLeads DEF MergeImport
  <1>12. CASE EndWrite
    BY <1>1, <1>12, EndLeads DEF EndWrite
  <1> QED BY <1>2, <1>3, <1>4, <1>5, <1>6, <1>7, <1>8, <1>9, <1>10, <1>11, <1>12 DEF Next

LEMMA InvStep == Inv /\ [Next]_vars => Inv'
  <1> SUFFICES ASSUME Inv, [Next]_vars PROVE Inv'
    OBVIOUS
  <1>1. CASE Next
    <2>1. TypeOK /\ PhaseFits /\ PathsDiffer /\ Led
      BY DEF Inv, Led
    <2>2. TypeOK'
      BY <1>1, <2>1, TypeStep
    <2>3. Led' /\ PathsDiffer'
      BY <1>1, <2>1, LedStep
    <2>4. AllAsTaken'
      BY <1>1, AllAsTakenStep
    <2> QED BY <2>2, <2>3, <2>4 DEF Inv, Led, AllAsTaken
  <1>2. CASE UNCHANGED vars
    <2>1. TypeOK'
      BY <1>2 DEF vars, Inv, TypeOK
    <2>2. PathsDiffer' /\ PhaseFits'
      BY <1>2 DEF vars, Inv, PathsDiffer, PhaseFits
    <2>3. NotesLead' /\ AddsLead'
      BY <1>2 DEF vars, Inv, NotesLead, AddsLead, Chain, FirstToCome
    <2>4. NotesAsTaken' /\ AsksAsTaken' /\ WritesAsTaken'
      BY <1>2 DEF vars, Inv, NotesAsTaken, AsksAsTaken, WritesAsTaken, CodeAsTaken
    <2> QED BY <2>1, <2>2, <2>3, <2>4 DEF Inv
  <1> QED BY <1>1, <1>2

(* The invariant holds in every state: all notes, stored or still to be     *)
(* added, are led to the files of their documents by what is to come.       *)
THEOREM InvHolds == Spec => []Inv
  <1>1. Init => Inv
    BY InvInit
  <1>2. Inv /\ [Next]_vars => Inv'
    BY InvStep
  <1> QED BY <1>1, <1>2, PTL DEF Spec

(* Every variable keeps its type.                                           *)
THEOREM TypeCorrect == Spec => []TypeOK
  <1>1. Inv => TypeOK
    BY DEF Inv
  <1> QED BY <1>1, InvHolds, PTL

(* When all writes are done and all renames told, a note names the file of  *)
(* its document unless it was written with an outdated path: no number of   *)
(* renames, imports and commands that overlap leads it elsewhere.           *)
THEOREM RenamesFollowed == Spec => []NotesFollowRenames
  <1>1. Inv => NotesFollowRenames
    <2> SUFFICES ASSUME Inv, writes = <<>>, renames = <<>>, NEW n \in notes, ~n.late
                 PROVE  n.path = path[n.doc]
      BY DEF NotesFollowRenames
    <2>1. FirstToCome = 1 /\ Chain = <<>>
      BY EmptyChain DEF Inv, PhaseFits, FirstToCome
    <2>2. Leads(n.path, <<>>, 1, path[n.doc])
      BY <2>1 DEF Inv, NotesLead
    <2> QED BY <2>2, LeadsNowhere
  <1> QED BY <1>1, InvHolds, PTL

(* A note goes when its own removal is written, and only then: an import    *)
(* stores what it read before it waited, and that is still what is stored.  *)
LEMMA KeptStep ==
    ASSUME Inv, Next, NEW n \in notes, \A m \in notes' : m.id # n.id
    PROVE  writes # <<>> /\ Head(writes) = [op |-> "remove", id |-> n.id]
  <1>1. StartWrite \/ MergeImport
    <2>1. UNCHANGED notes => FALSE
      OBVIOUS
    <2> QED BY <2>1 DEF Next, Edit, Rename, SelectCode, SelectItem, AddSelectionEvidence, AddEvidenceForItem, GiveUp,
          RemoveEvidence, OpenEvidence, EvidenceUnavailable, EvidenceOpened, ExportReviewSession, ImportReviewSession,
          MigrateEvidencePaths, EndWrite
  <1>2. notes \in SUBSET Note
    BY DEF Inv, TypeOK
  <1>3. CASE StartWrite
    <2>1. writes # <<>> /\ (UNCHANGED notes \/ notes' = After(Head(writes), notes))
      BY <1>3 DEF StartWrite
    <2>2. Head(writes) \in WriteOfNotes
      BY <2>1, NextWriteIsTyped DEF Inv
    <2>3. notes' = After(Head(writes), notes)
      BY <2>1
    <2>4. Head(writes).op = "remove" /\ Head(writes).id = n.id
      BY <1>2, <2>2, <2>3, AfterKeeps
    <2>5. Head(writes) \in [op : {"remove"}, id : Ids]
      BY <2>2, <2>4 DEF WriteOfNotes, Migration
    <2> QED BY <2>1, <2>4, <2>5
  <1>4. CASE MergeImport
    <2>1. writes # <<>> /\ Head(writes).op = "import" /\ read = notes
      BY <1>4 DEF Inv, PhaseFits, MergeImport
    <2>2. Head(writes) \in WriteOfNotes
      BY <2>1, NextWriteIsTyped DEF Inv
    <2> DEFINE w == [op |-> "import", notes |-> Imported(Head(writes))]
    <2>3. w \in WriteOfNotes
      BY <2>1, <2>2, ImportedNotes, WritesAreTyped
    <2>4. w.op = "import" /\ notes' = After(w, notes)
      BY <1>4, <2>1, MergeStores
    <2> HIDE DEF w
    <2> QED BY <1>2, <2>3, <2>4, AfterKeeps
  <1> QED BY <1>1, <1>3, <1>4

THEOREM KeptCorrect == Spec => NotesAreKept
  <1>1. Inv /\ [Next]_vars =>
            [\A n \in notes : (\A m \in notes' : m.id # n.id) =>
                 writes # <<>> /\ Head(writes) = [op |-> "remove", id |-> n.id]]_vars
    BY KeptStep
  <1> QED BY <1>1, InvHolds, PTL DEF Spec, NotesAreKept

(* Code that stands in one place with the context it was noted in is the    *)
(* only candidate left.                                                     *)
LEMMA StandsAlone ==
    ASSUME NEW n \in Note, CodeAsTaken(n), NEW lines \in Seq(Line), NEW i \in Stands(n, lines)
    PROVE  Candidates(n, lines) = {i}
  <1>1. /\ i \in DOMAIN lines /\ lines[i] = n.of /\ ContextAnchor(lines, i) = n.anchor
        /\ \A j \in DOMAIN lines \ {i} : Content(lines[j]) # Content(lines[i]) \/ ContextAnchor(lines, j) # n.anchor
    BY DEF Stands
  <1>2. i \in Nat \ {0}
    BY <1>1
  <1>3. n.anchor # NoAnchor
    BY <1>1, <1>2, AnchorsAreTyped
  <1>4. n.code = Content(lines[i])
    BY <1>1, <1>3 DEF CodeAsTaken
  <1>5. i \in LinesAlike(n, lines)
    BY <1>1, <1>4 DEF LinesAlike
  <1>6. \A j \in LinesAlike(n, lines) : ContextAnchor(lines, j) = n.anchor => j = i
    BY <1>1, <1>4 DEF LinesAlike
  <1>7. CASE Cardinality(LinesAlike(n, lines)) > 1
    BY <1>1, <1>3, <1>5, <1>6, <1>7 DEF Candidates
  <1>8. CASE ~(Cardinality(LinesAlike(n, lines)) > 1)
    <2>1. Candidates(n, lines) = LinesAlike(n, lines)
      BY <1>8 DEF Candidates
    <2>2. IsFiniteSet(LinesAlike(n, lines))
      BY CandidatesAreFinite
    <2>3. Cardinality(LinesAlike(n, lines)) \in Nat
      BY <2>2, FS_CardinalityType
    <2>4. Cardinality(LinesAlike(n, lines)) # 0
      BY <1>5, <2>2, FS_EmptySet
    <2>5. Cardinality(LinesAlike(n, lines)) = 1
      BY <1>8, <2>3, <2>4
    <2>6. \E x : LinesAlike(n, lines) = {x}
      BY <2>2, <2>5, FS_Singleton
    <2> QED BY <1>5, <2>1, <2>6
  <1> QED BY <1>7, <1>8

LEMMA FoundAlone ==
    ASSUME NEW n \in Note, CodeAsTaken(n), NEW lines \in Seq(Line), NEW i \in Stands(n, lines)
    PROVE  ResolveEvidenceLocation(n, lines) = [status |-> IF i = n.line THEN "current" ELSE "relocated", line |-> i]
  <1>1. Candidates(n, lines) = {i}
    BY StandsAlone
  <1>2. Cardinality({i}) = 1
    BY FS_Singleton
  <1>3. Cardinality(Candidates(n, lines)) = 1
    BY <1>1, <1>2
  <1>4. (CHOOSE j \in Candidates(n, lines) : TRUE) = i
    BY <1>1
  <1> QED BY <1>3, <1>4, ResolvedLocation

LEMMA FoundStep ==
    ASSUME Inv, Next, NEW a \in asks \ asks', NEW d \in Docs, a.op = "open", path[d] = a.note.path, d = a.note.doc,
           NEW i \in Stands(a.note, text[d])
    PROVE  Last(writes').location = [status |-> IF i = a.note.line THEN "current" ELSE "relocated", line |-> i]
  <1>1. \E b \in asks : \E e \in Docs : EvidenceOpened(b, e) /\ asks' = asks \ {b}
    <2>1. UNCHANGED asks => FALSE
      OBVIOUS
    <2>2. \A x : asks' = asks \union x => FALSE
      OBVIOUS
    <2>3. ASSUME NEW b \in asks, asks' = asks \ {b} PROVE a = b
      BY <2>3
    <2>4. ASSUME NEW b \in asks, AddSelectionEvidence(b) \/ AddEvidenceForItem(b) \/ GiveUp(b) PROVE FALSE
      <3>1. asks' = asks \ {b} /\ b.op # "open"
        BY <2>4 DEF AddSelectionEvidence, AddEvidenceForItem, GiveUp, Add
      <3> QED BY <2>3, <3>1
    <2>5. ASSUME NEW b \in asks, EvidenceUnavailable(b) PROVE FALSE
      <3>1. asks' = asks \ {b} /\ \A e \in Docs : path[e] # b.note.path
        BY <2>5 DEF EvidenceUnavailable
      <3> QED BY <2>3, <3>1
    <2>6. ASSUME NEW b \in asks, NEW e \in Docs, EvidenceOpened(b, e) PROVE asks' = asks \ {b}
      BY <2>6 DEF EvidenceOpened
    <2>7. ASSUME NEW e \in Docs, SelectCode(e) \/ SelectItem(e) PROVE FALSE
      BY <2>2, <2>7 DEF SelectCode, SelectItem
    <2>8. CASE OpenEvidence
      BY <2>2, <2>8 DEF OpenEvidence
    <2> QED BY <2>1, <2>4, <2>5, <2>6, <2>7, <2>8 DEF Next, Edit, Rename,
          RemoveEvidence, ExportReviewSession, ImportReviewSession, MigrateEvidencePaths, StartWrite, MergeImport, EndWrite
  <1>2. PICK e \in Docs : EvidenceOpened(a, e)
    BY <1>1
  <1>3. e = d
    BY <1>2 DEF EvidenceOpened, Inv, PathsDiffer
  <1>4. writes' = Append(writes, Located(a.note, text[d]))
    BY <1>2, <1>3 DEF EvidenceOpened, Write
  <1>5. a \in Asked /\ a.note \in Note /\ CodeAsTaken(a.note)
    BY AsksAreTyped DEF Inv, TypeOK, AsksAsTaken
  <1>6. text[d] \in Seq(Line)
    BY TextsOfDocuments DEF Inv
  <1>7. ResolveEvidenceLocation(a.note, text[d]) = [status |-> IF i = a.note.line THEN "current" ELSE "relocated", line |-> i]
    BY <1>5, <1>6, FoundAlone
  <1>8. Last(writes') = Located(a.note, text[d])
    <2>1. a.note.id \in Ids /\ ResolveEvidenceLocation(a.note, text[d]) \in Location
      BY <1>5, <1>6, NoteFields, LocationsAreTyped
    <2>2. Located(a.note, text[d]) \in WriteOfNotes /\ writes \in Seq(WriteOfNotes)
      BY <2>1, WritesAreTyped DEF Located, Inv, TypeOK
    <2>3. Len(writes') = Len(writes) + 1 /\ writes'[Len(writes) + 1] = Located(a.note, text[d])
      BY <1>4, <2>2, AppendedSequences
    <2> QED BY <2>3 DEF Last
  <1> QED BY <1>7, <1>8 DEF Located

(* A note that is opened is found at the very line it was taken from while  *)
(* that stands in its context, whatever was edited and copied around it.    *)
THEOREM FoundCorrect == Spec => FoundWhereItStands
  <1>1. Inv /\ [Next]_vars =>
            [\A a \in asks \ asks', d \in Docs :
                 /\ a.op = "open" /\ path[d] = a.note.path /\ d = a.note.doc
                 => \A i \in Stands(a.note, text[d]) :
                        Last(writes').location = [status |-> IF i = a.note.line THEN "current" ELSE "relocated", line |-> i]]_vars
    BY FoundStep
  <1> QED BY <1>1, InvHolds, PTL DEF Spec, FoundWhereItStands
-----------------------------------------------------------------------------
Quiet == \A c \in Commands : command[c].op \in Queries => ~command[c].disturbed
Asks(i, op) == command[asked[i]].op = op

(* A command that is asked waits for its answer, and has asked once.        *)
AskedOnce ==
    /\ \A i \in 1..Len(asked) : command[asked[i]].at = "asked"
    /\ \A i, j \in 1..Len(asked) : asked[i] = asked[j] => i = j
(* Nothing disturbs a model before it asks again.                           *)
PickingQuietly == \A c \in Commands : At(c, "model", "picking") => ~command[c].disturbed
LastIsNoted ==
    \A i \in 1..Len(asked) :
        Asks(i, "query") /\ (\A j \in 1..Len(asked) : Asks(j, "query") => j <= i) => lastRequest = asked[i]
ShownIsNoted ==
    (\A i \in 1..Len(asked) : ~Asks(i, "query")) /\ view.kind = "result" => lastRequest = view.of
RerunsComeLast ==
    \A i, j \in 1..Len(asked) : Asks(i, "query") /\ Asks(j, "model") => i < j

RequestNoted == LastIsNoted /\ ShownIsNoted /\ RerunsComeLast
DeskInv == DeskTypeOK /\ AskedOnce /\ PickingQuietly /\ (Quiet => RequestNoted)
-----------------------------------------------------------------------------
Op == {"none", "query", "trace", "model", "clear"}
Place == {"none", "indexing", "picking", "asked", "shown", "done"}
CommandState == [op : Op, at : Place, rerun : Commands \union {0}, disturbed : BOOLEAN]

(* The fields of a command that changes.                                    *)
LEMMA CommandFields ==
    ASSUME NEW r \in CommandState
    PROVE  /\ r.op \in Op /\ r.at \in Place /\ r.rerun \in Commands \union {0} /\ r.disturbed \in BOOLEAN
           /\ \A at \in Place : [r EXCEPT !.at = at] \in CommandState
           /\ [r EXCEPT !.disturbed = TRUE] \in CommandState
  BY DEF CommandState

LEMMA GivenIsTyped ==
    /\ Given \in CommandState
    /\ \A op \in Op, at \in Place : [Given EXCEPT !.op = op, !.at = at] \in CommandState
    /\ \A op \in Op, at \in Place, c \in Commands \union {0} :
           [Given EXCEPT !.op = op, !.at = at, !.rerun = c] \in CommandState
  BY DEF Given, CommandState, Op, Place

LEMMA CommandsOfViewAreTyped == DeskTypeOK => command \in [Commands -> CommandState]
  BY DEF DeskTypeOK, CommandState, Op, Place

LEMMA DisturbTyped ==
    ASSUME NEW state \in [Commands -> CommandState], NEW op, NEW at
    PROVE  /\ Disturb(state, op, at) \in [Commands -> CommandState]
           /\ \A c \in Commands : /\ Disturb(state, op, at)[c].op = state[c].op
                                  /\ Disturb(state, op, at)[c].at = state[c].at
                                  /\ Disturb(state, op, at)[c].rerun = state[c].rerun
           /\ \A c \in Commands : state[c].disturbed => Disturb(state, op, at)[c].disturbed
           /\ \A c \in Commands : state[c].op = op /\ state[c].at = at => Disturb(state, op, at)[c].disturbed
           /\ \A c \in Commands : state[c].op # op \/ state[c].at # at => Disturb(state, op, at)[c] = state[c]
<1>1. \A c \in Commands : state[c] \in CommandState
    OBVIOUS
<1>2. \A r \in CommandState :
        /\ [r EXCEPT !.disturbed = TRUE].op = r.op /\ [r EXCEPT !.disturbed = TRUE].at = r.at
        /\ [r EXCEPT !.disturbed = TRUE].rerun = r.rerun /\ [r EXCEPT !.disturbed = TRUE].disturbed = TRUE
  BY DEF CommandState
<1> QED
  BY <1>1, <1>2, CommandFields DEF Disturb

Put(state, c, at) == [state EXCEPT ![c].at = at]

LEMMA Placed ==
    ASSUME NEW state \in [Commands -> CommandState], NEW c \in Commands, NEW at \in Place
    PROVE  /\ Put(state, c, at) \in [Commands -> CommandState]
           /\ Put(state, c, at)[c].op = state[c].op
           /\ Put(state, c, at)[c].at = at
           /\ Put(state, c, at)[c].rerun = state[c].rerun
           /\ Put(state, c, at)[c].disturbed = state[c].disturbed
           /\ \A d \in Commands \ {c} : Put(state, c, at)[d] = state[d]
<1>1. state[c] \in CommandState
    OBVIOUS
<1>2. Put(state, c, at) = [state EXCEPT ![c] = [state[c] EXCEPT !.at = at]]
  BY DEF Put
<1>3. [state[c] EXCEPT !.at = at] \in CommandState
  BY <1>1, CommandFields
<1>4. /\ [state[c] EXCEPT !.at = at].op = state[c].op /\ [state[c] EXCEPT !.at = at].at = at
      /\ [state[c] EXCEPT !.at = at].rerun = state[c].rerun
      /\ [state[c] EXCEPT !.at = at].disturbed = state[c].disturbed
  BY <1>1 DEF CommandState
<1> QED
  BY <1>2, <1>3, <1>4

LEMMA ToPlaces ==
    ASSUME DeskTypeOK, NEW c \in Commands, NEW at \in Place
    PROVE  /\ To(c, at) \in [Commands -> CommandState]
           /\ To(c, at)[c].op = command[c].op
           /\ To(c, at)[c].at = at
           /\ To(c, at)[c].rerun = command[c].rerun
           /\ To(c, at)[c].disturbed = command[c].disturbed
           /\ \A d \in Commands \ {c} : To(c, at)[d] = command[d]
<1>1. To(c, at) = Put(command, c, at)
  BY DEF To, Put
<1> QED
  BY <1>1, Placed, CommandsOfViewAreTyped

LEMMA PlacesThereAre == {"none", "indexing", "picking", "asked", "shown", "done"} = Place
  BY DEF Place
-----------------------------------------------------------------------------
(* Commands that are asked stay so, what is asked and what is noted stay,   *)
(* and no other result is shown: nothing is lost of what was noted.         *)
LEMMA Aside ==
    ASSUME DeskInv, DeskTypeOK', asked' = asked, lastRequest' = lastRequest,
           view' = view \/ view'.kind # "result",
           \A d \in Commands : command[d].at = "asked" => command'[d].at = "asked" /\ command'[d].op = command[d].op,
           \A d \in Commands : command[d].op \in Queries /\ command[d].disturbed
                                 => command'[d].op \in Queries /\ command'[d].disturbed,
           PickingQuietly'
    PROVE  DeskInv'
<1>1. Quiet' => Quiet
  BY DEF Quiet
<1>2. \A i \in 1..Len(asked) : asked[i] \in Commands
  BY DEF DeskInv, DeskTypeOK
<1>3. \A i \in 1..Len(asked) : command'[asked[i]].at = "asked" /\ command'[asked[i]].op = command[asked[i]].op
  BY <1>2 DEF DeskInv, AskedOnce
<1>4. AskedOnce'
  BY <1>3 DEF DeskInv, AskedOnce
<1>5. RequestNoted => RequestNoted'
  <2>1. \A i \in 1..Len(asked) : \A op : Asks(i, op)' <=> Asks(i, op)
    BY <1>3 DEF Asks
  <2> QED
    BY <2>1 DEF RequestNoted, LastIsNoted, ShownIsNoted, RerunsComeLast
<1> QED
  BY <1>1, <1>4, <1>5 DEF DeskInv

(* The oldest request is answered: its command goes on.                     *)
LEMMA Answered ==
    ASSUME DeskInv, DeskTypeOK', asked # <<>>, asked' = Tail(asked), NEW c \in Commands, c = Head(asked),
           command'[c].at # "picking" \/ command'[c].op # "model",
           \A d \in Commands \ {c} : command'[d] = command[d]
    PROVE  /\ AskedOnce' /\ PickingQuietly'
           /\ (Quiet /\ RequestNoted) => RerunsComeLast'
           /\ Len(asked') = Len(asked) - 1 /\ Len(asked) \in Nat \ {0} /\ asked[1] = c
           /\ \A i \in 1..Len(asked') : asked'[i] = asked[i + 1] /\ i + 1 \in 1..Len(asked)
           /\ \A i \in 1..Len(asked') : \A op : Asks(i, op)' <=> Asks(i + 1, op)
<1>1. asked \in Seq(Commands)
  BY DEF DeskInv, DeskTypeOK
<1>2. /\ Len(asked') = Len(asked) - 1 /\ Len(asked) \in Nat \ {0} /\ asked[1] = c
      /\ \A i \in 1..Len(asked') : asked'[i] = asked[i + 1]
  BY <1>1, TailsOfSequences
<1>3. \A i \in 1..Len(asked') : i + 1 \in 1..Len(asked)
  BY <1>2
<1>4. \A i \in 1..Len(asked') : asked'[i] # c /\ asked'[i] \in Commands
  <2> TAKE i \in 1..Len(asked')
  <2>1. i + 1 # 1 /\ 1 \in 1..Len(asked) /\ i + 1 \in 1..Len(asked)
    BY <1>2, <1>3
  <2>2. asked[i + 1] # asked[1]
    BY <2>1 DEF DeskInv, AskedOnce
  <2> QED
    BY <2>1, <2>2, <1>1, <1>2
<1>5. \A i \in 1..Len(asked') : command'[asked'[i]] = command[asked[i + 1]]
  BY <1>2, <1>4
<1>6. \A i \in 1..Len(asked') : \A op : Asks(i, op)' <=> Asks(i + 1, op)
  BY <1>5 DEF Asks
<1>7. AskedOnce'
  <2>1. \A i \in 1..Len(asked') : command'[asked'[i]].at = "asked"
    BY <1>3, <1>5 DEF DeskInv, AskedOnce
  <2>2. \A i, j \in 1..Len(asked') : asked'[i] = asked'[j] => i = j
    <3> TAKE i, j \in 1..Len(asked')
    <3>1. asked'[i] = asked'[j] => i + 1 = j + 1
      BY <1>2, <1>3 DEF DeskInv, AskedOnce
    <3> QED
      BY <3>1, <1>2
  <2> QED
    BY <2>1, <2>2 DEF AskedOnce
<1>8. PickingQuietly'
  BY DEF PickingQuietly, At, DeskInv
<1>9. (Quiet /\ RequestNoted) => RerunsComeLast'
  <2> SUFFICES ASSUME Quiet, RequestNoted, NEW i \in 1..Len(asked'), NEW j \in 1..Len(asked'),
                      Asks(i, "query")', Asks(j, "model")'
               PROVE  i < j
    BY DEF RerunsComeLast
  <2>1. i + 1 < j + 1
    BY <1>3, <1>6 DEF RequestNoted, RerunsComeLast
  <2> QED
    BY <2>1, <1>2
<1> QED
  BY <1>2, <1>3, <1>6, <1>7, <1>8, <1>9

(* A request joins those the worker owes answers to.                        *)
LEMMA Joins ==
    ASSUME DeskInv, NEW c \in Commands, asked' = Append(asked, c), command[c].at # "asked", command'[c].at = "asked",
           \A d \in Commands \ {c} : command'[d].at = command[d].at /\ command'[d].op = command[d].op
    PROVE  /\ AskedOnce'
           /\ Len(asked') = Len(asked) + 1 /\ Len(asked) \in Nat /\ asked'[Len(asked) + 1] = c
           /\ \A i \in 1..Len(asked) : asked'[i] = asked[i] /\ \A op : Asks(i, op)' <=> Asks(i, op)
           /\ \A i \in {Len(asked) + 1} : \A op : Asks(i, op)' <=> command'[c].op = op
<1>1. asked \in Seq(Commands)
  BY DEF DeskInv, DeskTypeOK
<1>2. /\ Len(asked') = Len(asked) + 1 /\ Len(asked) \in Nat /\ asked'[Len(asked) + 1] = c
      /\ \A i \in 1..Len(asked) : asked'[i] = asked[i]
  BY <1>1, AppendedSequences
<1>3. \A i \in 1..Len(asked) : asked[i] \in Commands \ {c}
  BY <1>1 DEF DeskInv, AskedOnce
<1>4. \A i \in 1..Len(asked) : \A op : Asks(i, op)' <=> Asks(i, op)
  BY <1>2, <1>3 DEF Asks
<1>5. \A i \in {Len(asked) + 1} : \A op : Asks(i, op)' <=> command'[c].op = op
  BY <1>2 DEF Asks
<1>6. AskedOnce'
  <2>1. \A i \in 1..Len(asked') : command'[asked'[i]].at = "asked"
    BY <1>2, <1>3 DEF DeskInv, AskedOnce
  <2>2. \A i, j \in 1..Len(asked') : asked'[i] = asked'[j] => i = j
    BY <1>2, <1>3 DEF DeskInv, AskedOnce
  <2> QED
    BY <2>1, <2>2 DEF AskedOnce
<1> QED
  BY <1>2, <1>4, <1>5, <1>6

(* One that is no query leaves what is noted as it is.                      *)
LEMMA OtherJoins ==
    ASSUME DeskInv, NEW c \in Commands, asked' = Append(asked, c), command[c].at # "asked", command'[c].at = "asked",
           \A d \in Commands \ {c} : command'[d].at = command[d].at /\ command'[d].op = command[d].op,
           command'[c].op # "query", RequestNoted, lastRequest' = lastRequest, view' = view
    PROVE  RequestNoted'
<1>1. /\ Len(asked') = Len(asked) + 1 /\ Len(asked) \in Nat
      /\ \A i \in 1..Len(asked) : asked'[i] = asked[i] /\ \A op : Asks(i, op)' <=> Asks(i, op)
      /\ \A i \in {Len(asked) + 1} : ~Asks(i, "query")'
  BY Joins
<1>2. \A i \in 1..Len(asked') : Asks(i, "query")' => i \in 1..Len(asked) /\ Asks(i, "query")
  BY <1>1
<1>3. \A i \in 1..Len(asked) : i \in 1..Len(asked') /\ (Asks(i, "query") => Asks(i, "query")')
  BY <1>1
<1>4. LastIsNoted'
  BY <1>1, <1>2, <1>3 DEF RequestNoted, LastIsNoted
<1>5. ShownIsNoted'
  BY <1>3 DEF RequestNoted, ShownIsNoted
<1>6. RerunsComeLast'
  <2> SUFFICES ASSUME NEW i \in 1..Len(asked'), NEW j \in 1..Len(asked'), Asks(i, "query")', Asks(j, "model")'
               PROVE  i < j
    BY DEF RerunsComeLast
  <2>1. i \in 1..Len(asked) /\ Asks(i, "query")
    BY <1>2
  <2>2. CASE j = Len(asked) + 1
    BY <2>1, <2>2, <1>1
  <2>3. CASE j # Len(asked) + 1
    <3>1. j \in 1..Len(asked)
      BY <2>3, <1>1
    <3>2. Asks(j, "model")
      BY <3>1, <1>1
    <3> QED
      BY <2>1, <3>1, <3>2 DEF RequestNoted, RerunsComeLast
  <2> QED
    BY <2>2, <2>3
<1> QED
  BY <1>4, <1>5, <1>6 DEF RequestNoted
-----------------------------------------------------------------------------
View == [kind : {"none", "result", "trace"}, of : Commands \union {0}, cursor : Nat]
Contexts == [query : BOOLEAN, trace : BOOLEAN]

LEMMA DeskTypeParts ==
    DeskTypeOK <=> /\ view \in View /\ lastRequest \in Commands \union {0} /\ contexts \in Contexts
               /\ command \in [Commands -> CommandState] /\ asked \in Seq(Commands) /\ messages \in Seq(Commands)
  BY DEF DeskTypeOK, View, Contexts, CommandState, Op, Place

LEMMA DeskTypePartsNext ==
    DeskTypeOK' <=> /\ view' \in View /\ lastRequest' \in Commands \union {0} /\ contexts' \in Contexts
                /\ command' \in [Commands -> CommandState] /\ asked' \in Seq(Commands) /\ messages' \in Seq(Commands)
  BY DEF DeskTypeOK, View, Contexts, CommandState, Op, Place

LEMMA ViewsAreTyped ==
    Nothing \in View /\ \A c \in Commands \union {0} : Result(c) \in View /\ Trace(c) \in View
  BY DEF Nothing, Result, Trace, View

LEMMA ContextsAreTyped ==
    ASSUME NEW r \in Contexts, NEW value \in BOOLEAN
    PROVE  /\ [r EXCEPT !.query = value] \in Contexts /\ [r EXCEPT !.trace = value] \in Contexts
           /\ [r EXCEPT !["query"] = value] \in Contexts
           /\ [query |-> FALSE, trace |-> FALSE] \in Contexts
  BY DEF Contexts

LEMMA ContextSet ==
    ASSUME DeskTypeOK, NEW c \in Commands, NEW value \in BOOLEAN, SetContext(c, "query", value)
    PROVE  contexts' \in Contexts /\ messages' \in Seq(Commands)
<1>1. messages \in Seq(Commands) /\ messages' = Append(messages, c)
  BY DEF DeskTypeOK, SetContext
<1>2. contexts \in Contexts /\ contexts' = [contexts EXCEPT !["query"] = value]
  BY DeskTypeParts DEF SetContext
<1> QED
  BY <1>1, <1>2, AppendedSequences, ContextsAreTyped

LEMMA MessageAnswered ==
    ASSUME DeskTypeOK, messages # <<>>, messages' = Tail(messages)
    PROVE  messages' \in Seq(Commands)
  BY TailsOfSequences DEF DeskTypeOK

LEMMA AskedTyped ==
    ASSUME DeskTypeOK
    PROVE  /\ asked # <<>> => Tail(asked) \in Seq(Commands)
           /\ \A c \in Commands : Append(asked, c) \in Seq(Commands)
  BY TailsOfSequences, AppendedSequences DEF DeskTypeOK

LEMMA DeskTypeStep == ASSUME DeskTypeOK, [DeskNext]_deskVars PROVE DeskTypeOK'
<1> USE DeskTypeParts, DeskTypePartsNext
<1>1. ASSUME NEW c \in Commands, GiveQuery(c) \/ GiveTrace(c) \/ GiveTraceFinding(c) PROVE DeskTypeOK'
  <2>1. \E op \in Op, at \in Place : command' = [command EXCEPT ![c] = [Given EXCEPT !.op = op, !.at = at]]
    BY <1>1 DEF GiveQuery, GiveTrace, GiveTraceFinding, Start, Op, Place
  <2> QED
    BY <1>1, <2>1, GivenIsTyped DEF GiveQuery, GiveTrace, GiveTraceFinding
<1>2. ASSUME NEW c \in Commands, GiveModel(c) PROVE DeskTypeOK'
  <2>1. \E n \in Commands \union {0} :
            command' = [command EXCEPT ![c] = [Given EXCEPT !.op = "model", !.at = "picking", !.rerun = n]]
    BY <1>2 DEF GiveModel
  <2> QED
    BY <1>2, <2>1, GivenIsTyped DEF GiveModel, Op, Place
<1>3. ASSUME NEW c \in Commands, ClearAuditQuery(c) PROVE DeskTypeOK'
  <2>1. command' \in [Commands -> CommandState]
    BY <1>3, DisturbTyped, GivenIsTyped DEF ClearAuditQuery, Op, Place
  <2>2. contexts' \in Contexts
    BY <1>3, ContextsAreTyped DEF ClearAuditQuery
  <2> QED
    BY <1>3, <2>1, <2>2, ViewsAreTyped DEF ClearAuditQuery
<1>4. ASSUME NEW c \in Commands, Ask(c) PROVE DeskTypeOK'
  <2>1. (IF command[c].op = "query" THEN Disturb(command, "model", "asked") ELSE command) \in [Commands -> CommandState]
    BY DisturbTyped
  <2>0. command' = Put(IF command[c].op = "query" THEN Disturb(command, "model", "asked") ELSE command, c, "asked")
    BY <1>4 DEF Ask, Put
  <2>2. command' \in [Commands -> CommandState]
    BY <2>1, <2>0, Placed DEF Place
  <2> QED
    BY <1>4, <2>2, AskedTyped DEF Ask
<1>5. ASSUME NEW c \in Commands, InspectCallees(c) PROVE DeskTypeOK'
  BY <1>5, GivenIsTyped DEF InspectCallees, Op, Place
<1>6. ASSUME NEW c \in Commands, AskAgain(c) PROVE DeskTypeOK'
  BY <1>6, ToPlaces, PlacesThereAre, AskedTyped DEF AskAgain
<1>7. ASSUME NEW c \in Commands, Fail(c) PROVE DeskTypeOK'
  <2>1. command[c] \in CommandState
    OBVIOUS
  <2>2. [[command[c] EXCEPT !.at = "done"] EXCEPT !.disturbed = TRUE] \in CommandState
    BY <2>1, CommandFields DEF Place
  <2>3. command' = [command EXCEPT ![c] = [[command[c] EXCEPT !.at = "done"] EXCEPT !.disturbed = TRUE]]
    BY <1>7 DEF Fail
  <2> QED
    BY <1>7, <2>2, <2>3, AskedTyped DEF Fail
<1>8. ASSUME NEW c \in Commands, PathsFound(c) PROVE DeskTypeOK'
  BY <1>8, ToPlaces, PlacesThereAre, AskedTyped DEF PathsFound
<1>9. ASSUME NEW c \in Commands, PickNone(c) PROVE DeskTypeOK'
  BY <1>9, ToPlaces, PlacesThereAre DEF PickNone
<1>10. ASSUME NEW c \in Commands, ShowResult(c) PROVE DeskTypeOK'
  <2>1. contexts' \in Contexts /\ messages' \in Seq(Commands)
    BY <1>10, ContextSet DEF ShowResult
  <2> QED
    BY <1>10, <2>1, ToPlaces, PlacesThereAre, AskedTyped, ViewsAreTyped DEF ShowResult
<1>11. ASSUME NEW c \in Commands, ResultShown(c) PROVE DeskTypeOK'
  <2>1. contexts' \in Contexts /\ messages' \in Seq(Commands)
    BY <1>11, MessageAnswered, ContextsAreTyped DEF ResultShown
  <2> QED
    BY <1>11, <2>1, ToPlaces, PlacesThereAre DEF ResultShown
<1>12. ASSUME NEW c \in Commands, StartInteractiveTrace(c) PROVE DeskTypeOK'
  <2>1. contexts' \in Contexts /\ messages' \in Seq(Commands)
    BY <1>12, ContextSet DEF StartInteractiveTrace
  <2> QED
    BY <1>12, <2>1, ToPlaces, PlacesThereAre, ViewsAreTyped DEF StartInteractiveTrace
<1>13. ASSUME NEW c \in Commands, TraceShown(c) PROVE DeskTypeOK'
  <2>1. contexts' \in Contexts /\ messages' \in Seq(Commands)
    BY <1>13, MessageAnswered, ContextsAreTyped DEF TraceShown
  <2> QED
    BY <1>13, <2>1, ToPlaces, PlacesThereAre DEF TraceShown
<1>14. ASSUME NEW c \in Commands, ShowAgain(c) PROVE DeskTypeOK'
  <2>1. contexts' \in Contexts /\ messages' \in Seq(Commands)
    BY <1>14, ContextSet DEF ShowAgain
  <2>2. command[c].rerun \in Commands \union {0}
    BY CommandFields
  <2>3. view' \in View /\ lastRequest' \in Commands \union {0}
    BY <1>14, <2>2, ViewsAreTyped DEF ShowAgain
  <2>4. command' \in [Commands -> CommandState]
    BY <1>14, ToPlaces, PlacesThereAre DEF ShowAgain
  <2>5. asked' \in Seq(Commands)
    BY <1>14, AskedTyped DEF ShowAgain
  <2> QED
    BY <2>1, <2>3, <2>4, <2>5
<1>15. ASSUME NEW index \in 1..Steps, SelectTraceStep(index) PROVE DeskTypeOK'
  <2>1. index \in Nat
    OBVIOUS
  <2>2. [view EXCEPT !.cursor = index] \in View
    BY <2>1 DEF View
  <2> QED
    BY <1>15, <2>2 DEF SelectTraceStep
<1>16. ASSUME SessionChanged PROVE DeskTypeOK'
  <2>1. (view.kind = "result") \in BOOLEAN
    OBVIOUS
  <2>2. contexts' \in Contexts
    BY <1>16, <2>1, ContextsAreTyped DEF SessionChanged
  <2> QED
    BY <1>16, <2>2 DEF SessionChanged
<1>17. CASE UNCHANGED deskVars
  BY <1>17 DEF deskVars
<1> QED
  BY <1>1, <1>2, <1>3, <1>4, <1>5, <1>6, <1>7, <1>8, <1>9, <1>10, <1>11, <1>12, <1>13, <1>14, <1>15, <1>16, <1>17 DEF DeskNext
-----------------------------------------------------------------------------
LEMMA GivenFields ==
    /\ Given.op = "none" /\ Given.at = "none" /\ ~Given.disturbed
    /\ \A op, at : /\ [Given EXCEPT !.op = op, !.at = at].op = op /\ [Given EXCEPT !.op = op, !.at = at].at = at
                   /\ ~[Given EXCEPT !.op = op, !.at = at].disturbed
    /\ \A op, at, c : ~[Given EXCEPT !.op = op, !.at = at, !.rerun = c].disturbed
  BY DEF Given

(* A command is given, or begins again: it is not disturbed then.           *)
LEMMA Begins ==
    ASSUME DeskInv, DeskTypeOK', NEW c \in Commands, NEW r, command' = [command EXCEPT ![c] = r], ~r.disturbed,
           command[c].at # "asked", command[c].op \in Queries => ~command[c].disturbed,
           asked' = asked, lastRequest' = lastRequest, view' = view
    PROVE  DeskInv'
<1>1. command'[c] = r /\ \A d \in Commands \ {c} : command'[d] = command[d]
  BY DEF DeskInv, DeskTypeOK
<1>2. PickingQuietly'
  BY <1>1 DEF PickingQuietly, At, DeskInv
<1> QED
  BY <1>1, <1>2, Aside

(* A command that waits for no answer goes on.                              *)
LEMMA GoesOn ==
    ASSUME DeskInv, DeskTypeOK', NEW c \in Commands, NEW at \in Place, command' = To(c, at),
           at # "picking", command[c].at # "asked",
           asked' = asked, lastRequest' = lastRequest, view' = view \/ view'.kind # "result"
    PROVE  DeskInv'
<1>1. /\ command'[c].op = command[c].op /\ command'[c].at = at /\ command'[c].disturbed = command[c].disturbed
      /\ \A d \in Commands \ {c} : command'[d] = command[d]
  BY ToPlaces DEF DeskInv
<1>2. PickingQuietly'
  BY <1>1 DEF PickingQuietly, At, DeskInv
<1>3. \A d \in Commands : command[d].at = "asked" => command'[d].at = "asked" /\ command'[d].op = command[d].op
  BY <1>1
<1>4. \A d \in Commands : command[d].op \in Queries /\ command[d].disturbed => command'[d].op \in Queries /\ command'[d].disturbed
  BY <1>1
<1> QED
  BY <1>2, <1>3, <1>4, Aside

LEMMA ClearKeeps == ASSUME DeskInv, DeskTypeOK', NEW c \in Commands, ClearAuditQuery(c) PROVE DeskInv'
<1>1. command \in [Commands -> CommandState]
  BY CommandsOfViewAreTyped DEF DeskInv
<1> DEFINE after == Disturb(command, "trace", "shown")
<1>2. /\ after \in [Commands -> CommandState]
      /\ \A d \in Commands : /\ after[d].op = command[d].op /\ after[d].at = command[d].at
                             /\ command[d].disturbed => after[d].disturbed
                             /\ command[d].op # "trace" => after[d] = command[d]
  BY <1>1, DisturbTyped
<1>3. command' = [after EXCEPT ![c] = [Given EXCEPT !.op = "clear", !.at = "done"]]
  BY DEF ClearAuditQuery
<1> HIDE DEF after
<1>4. command'[c] = [Given EXCEPT !.op = "clear", !.at = "done"] /\ \A d \in Commands \ {c} : command'[d] = after[d]
  BY <1>2, <1>3
<1>5. command[c] = Given
  BY DEF ClearAuditQuery, Turn
<1>6. PickingQuietly'
  <2>1. command'[c].at = "done"
    BY <1>4, GivenFields
  <2>2. \A d \in Commands \ {c} : command'[d].op = "model" => command'[d] = command[d]
    BY <1>2, <1>4
  <2> QED
    BY <2>1, <2>2 DEF PickingQuietly, At, DeskInv
<1>7. \A d \in Commands : command[d].at = "asked" => command'[d].at = "asked" /\ command'[d].op = command[d].op
  BY <1>2, <1>4, <1>5, GivenFields
<1>8. \A d \in Commands : command[d].op \in Queries /\ command[d].disturbed => command'[d].op \in Queries /\ command'[d].disturbed
  BY <1>2, <1>4, <1>5, GivenFields DEF Queries
<1>9. asked' = asked /\ lastRequest' = lastRequest /\ view'.kind # "result"
  BY DEF ClearAuditQuery, Nothing
<1> QED
  BY <1>6, <1>7, <1>8, <1>9, Aside

LEMMA AskKeeps == ASSUME DeskInv, DeskTypeOK', NEW c \in Commands, Ask(c) PROVE DeskInv'
<1>1. command \in [Commands -> CommandState]
  BY CommandsOfViewAreTyped DEF DeskInv
<1> DEFINE after == IF command[c].op = "query" THEN Disturb(command, "model", "asked") ELSE command
<1>2. /\ after \in [Commands -> CommandState]
      /\ \A d \in Commands : /\ after[d].op = command[d].op /\ after[d].at = command[d].at
                             /\ command[d].disturbed => after[d].disturbed
                             /\ command[d].at # "asked" => after[d] = command[d]
      /\ command[c].op = "query" =>
            \A d \in Commands : command[d].op = "model" /\ command[d].at = "asked" => after[d].disturbed
  BY <1>1, DisturbTyped
<1>3. command' = Put(after, c, "asked")
  BY DEF Ask, Put
<1> HIDE DEF after
<1>4. /\ command'[c].op = command[c].op /\ command'[c].at = "asked" /\ command'[c].disturbed = after[c].disturbed
      /\ \A d \in Commands \ {c} : command'[d] = after[d]
  BY <1>2, <1>3, Placed DEF Place
<1>5. command[c].at = "indexing" /\ asked' = Append(asked, c) /\ view' = view
  BY DEF Ask
<1>6. \A d \in Commands \ {c} : command'[d].at = command[d].at /\ command'[d].op = command[d].op
  BY <1>2, <1>4
<1>7. /\ AskedOnce'
      /\ Len(asked') = Len(asked) + 1 /\ Len(asked) \in Nat /\ asked'[Len(asked) + 1] = c
      /\ \A i \in 1..Len(asked) : asked'[i] = asked[i] /\ \A op : Asks(i, op)' <=> Asks(i, op)
      /\ \A i \in {Len(asked) + 1} : \A op : Asks(i, op)' <=> command'[c].op = op
  BY <1>4, <1>5, <1>6, Joins
<1>8. PickingQuietly'
  BY <1>2, <1>4 DEF PickingQuietly, At, DeskInv
<1>9. Quiet' => Quiet
  <2>1. after[c].disturbed = command[c].disturbed
    BY <1>2, <1>5
  <2>2. \A d \in Commands : command[d].op \in Queries /\ command[d].disturbed => command'[d].op \in Queries /\ command'[d].disturbed
    BY <1>2, <1>4, <2>1
  <2> QED
    BY <2>2 DEF Quiet
<1>10. CASE command[c].op = "query"
  <2>1. ASSUME Quiet' PROVE \A i \in 1..Len(asked') : ~Asks(i, "model")'
    <3> SUFFICES ASSUME NEW i \in 1..Len(asked'), Asks(i, "model")' PROVE FALSE
      OBVIOUS
    <3>1. i \in 1..Len(asked) /\ Asks(i, "model")
      BY <1>4, <1>7, <1>10
    <3>2. asked[i] \in Commands /\ command[asked[i]].at = "asked" /\ command[asked[i]].op = "model"
      BY <3>1 DEF DeskInv, DeskTypeOK, AskedOnce, Asks
    <3>3. after[asked[i]].disturbed /\ after[asked[i]].op = "model"
      BY <3>2, <1>2, <1>10
    <3>4. asked[i] # c
      BY <3>2, <1>5
    <3>5. command'[asked[i]].disturbed /\ command'[asked[i]].op = "model"
      BY <3>2, <3>3, <3>4, <1>4
    <3> QED
      BY <2>1, <3>2, <3>5 DEF Quiet, Queries
  <2>2. lastRequest' = c
    BY <1>10 DEF Ask
  <2>3. \A i \in {Len(asked) + 1} : i \in 1..Len(asked') /\ Asks(i, "query")'
    BY <1>4, <1>7, <1>10
  <2>4. LastIsNoted'
    <3> SUFFICES ASSUME NEW i \in 1..Len(asked'), \A j \in 1..Len(asked') : Asks(j, "query")' => j <= i
                 PROVE  lastRequest' = asked'[i]
      BY DEF LastIsNoted
    <3>1. i = Len(asked) + 1
      BY <2>3, <1>7
    <3> QED
      BY <3>1, <2>2, <1>7
  <2>5. ShownIsNoted'
    BY <2>3 DEF ShownIsNoted
  <2>6. Quiet' => RerunsComeLast'
    BY <2>1 DEF RerunsComeLast
  <2> QED
    BY <1>7, <1>8, <2>4, <2>5, <2>6 DEF DeskInv, RequestNoted
<1>11. CASE command[c].op # "query"
  <2>1. lastRequest' = lastRequest
    BY <1>11 DEF Ask
  <2>2. RequestNoted => RequestNoted'
    BY <2>1, <1>4, <1>5, <1>6, <1>11, OtherJoins
  <2> QED
    BY <1>7, <1>8, <1>9, <2>2 DEF DeskInv
<1> QED
  BY <1>10, <1>11

LEMMA AskAgainKeeps == ASSUME DeskInv, DeskTypeOK', NEW c \in Commands, AskAgain(c) PROVE DeskInv'
<1>1. /\ command'[c].op = command[c].op /\ command'[c].at = "asked" /\ command'[c].disturbed = command[c].disturbed
      /\ \A d \in Commands \ {c} : command'[d] = command[d]
  BY ToPlaces, PlacesThereAre DEF AskAgain, DeskInv
<1>2. command[c].at = "picking" /\ command[c].op = "model"
  BY DEF AskAgain, At
<1>3. asked' = Append(asked, c) /\ lastRequest' = lastRequest /\ view' = view
  BY DEF AskAgain
<1>4. AskedOnce'
  BY <1>1, <1>2, <1>3, Joins
<1>5. RequestNoted => RequestNoted'
  BY <1>1, <1>2, <1>3, OtherJoins
<1>6. PickingQuietly'
  BY <1>1 DEF PickingQuietly, At, DeskInv
<1>7. Quiet' => Quiet
  BY <1>1 DEF Quiet
<1> QED
  BY <1>4, <1>5, <1>6, <1>7 DEF DeskInv

(* Where no query was answered the last one is noted as before.             *)
LEMMA OtherAnswered ==
    ASSUME DeskInv, DeskTypeOK', asked # <<>>, asked' = Tail(asked), NEW c \in Commands, c = Head(asked),
           command[c].op # "query", command'[c].at # "picking" \/ command'[c].op # "model",
           \A d \in Commands \ {c} : command'[d] = command[d],
           lastRequest' = lastRequest, view' = view, Quiet, RequestNoted
    PROVE  RequestNoted'
<1>1. /\ RerunsComeLast'
      /\ Len(asked') = Len(asked) - 1 /\ Len(asked) \in Nat \ {0} /\ asked[1] = c
      /\ \A i \in 1..Len(asked') : asked'[i] = asked[i + 1] /\ i + 1 \in 1..Len(asked)
      /\ \A i \in 1..Len(asked') : \A op : Asks(i, op)' <=> Asks(i + 1, op)
  BY Answered
<1>2. \A j \in 1..Len(asked) : Asks(j, "query") => j - 1 \in 1..Len(asked') /\ Asks(j - 1, "query")'
  <2> SUFFICES ASSUME NEW j \in 1..Len(asked), Asks(j, "query")
               PROVE  j - 1 \in 1..Len(asked') /\ Asks(j - 1, "query")'
    OBVIOUS
  <2>1. j # 1
    BY <1>1 DEF Asks
  <2>2. j - 1 \in 1..Len(asked') /\ (j - 1) + 1 = j
    BY <2>1, <1>1
  <2>3. Asks(j - 1, "query")' <=> Asks((j - 1) + 1, "query")
    BY <1>1, <2>2
  <2> QED
    BY <2>2, <2>3
<1>3. LastIsNoted'
  <2> SUFFICES ASSUME NEW i \in 1..Len(asked'), Asks(i, "query")', \A j \in 1..Len(asked') : Asks(j, "query")' => j <= i
               PROVE  lastRequest' = asked'[i]
    BY DEF LastIsNoted
  <2>1. i + 1 \in 1..Len(asked) /\ Asks(i + 1, "query")
    BY <1>1
  <2>2. \A j \in 1..Len(asked) : Asks(j, "query") => j <= i + 1
    BY <1>2
  <2> QED
    BY <1>1, <2>1, <2>2 DEF RequestNoted, LastIsNoted
<1>4. ShownIsNoted'
  BY <1>2 DEF RequestNoted, ShownIsNoted
<1> QED
  BY <1>1, <1>3, <1>4 DEF RequestNoted

LEMMA FailKeeps == ASSUME DeskInv, DeskTypeOK', NEW c \in Commands, Fail(c) PROVE DeskInv'
<1>1. command[c] \in CommandState
  BY CommandsOfViewAreTyped DEF DeskInv
<1>2. /\ command' = [command EXCEPT ![c] = [[command[c] EXCEPT !.at = "done"] EXCEPT !.disturbed = TRUE]]
      /\ asked # <<>> /\ c = Head(asked) /\ asked' = Tail(asked) /\ view' = view /\ lastRequest' = lastRequest
  BY DEF Fail
<1>3. /\ [[command[c] EXCEPT !.at = "done"] EXCEPT !.disturbed = TRUE].op = command[c].op
      /\ [[command[c] EXCEPT !.at = "done"] EXCEPT !.disturbed = TRUE].at = "done"
      /\ [[command[c] EXCEPT !.at = "done"] EXCEPT !.disturbed = TRUE].disturbed
  BY <1>1 DEF CommandState
<1>4. /\ command'[c].op = command[c].op /\ command'[c].at = "done" /\ command'[c].disturbed
      /\ \A d \in Commands \ {c} : command'[d] = command[d]
  BY <1>2, <1>3 DEF DeskInv, DeskTypeOK
<1>5. AskedOnce' /\ PickingQuietly'
  BY <1>2, <1>4, Answered
<1>6. CASE command[c].op \in Queries
  <2>1. ~Quiet'
    BY <1>4, <1>6 DEF Quiet
  <2> QED
    BY <1>5, <2>1 DEF DeskInv
<1>7. CASE command[c].op \notin Queries
  <2>1. Quiet' => Quiet
    BY <1>4, <1>7 DEF Quiet
  <2>2. Quiet /\ RequestNoted => RequestNoted'
    BY <1>2, <1>4, <1>7, OtherAnswered DEF Queries
  <2> QED
    BY <1>5, <2>1, <2>2 DEF DeskInv
<1> QED
  BY <1>6, <1>7

LEMMA PathsFoundKeeps == ASSUME DeskInv, DeskTypeOK', NEW c \in Commands, PathsFound(c) PROVE DeskInv'
<1>1. /\ command'[c].op = command[c].op /\ command'[c].disturbed = command[c].disturbed
      /\ \A d \in Commands \ {c} : command'[d] = command[d]
  BY ToPlaces, PlacesThereAre DEF PathsFound, DeskInv
<1>2. /\ command[c].op = "trace" /\ asked # <<>> /\ c = Head(asked) /\ asked' = Tail(asked)
      /\ view' = view /\ lastRequest' = lastRequest
  BY DEF PathsFound
<1>3. AskedOnce' /\ PickingQuietly'
  BY <1>1, <1>2, Answered
<1>4. Quiet' => Quiet
  BY <1>1 DEF Quiet
<1>5. Quiet /\ RequestNoted => RequestNoted'
  BY <1>1, <1>2, OtherAnswered
<1> QED
  BY <1>3, <1>4, <1>5 DEF DeskInv

(* The result of a query: that of the last one asked is of the request      *)
(* noted.                                                                   *)
LEMMA ShowResultKeeps == ASSUME DeskInv, DeskTypeOK', NEW c \in Commands, ShowResult(c) PROVE DeskInv'
<1>1. /\ command'[c].op = command[c].op /\ command'[c].at = "shown" /\ command'[c].disturbed = command[c].disturbed
      /\ \A d \in Commands \ {c} : command'[d] = command[d]
  BY ToPlaces, PlacesThereAre DEF ShowResult, DeskInv
<1>2. /\ command[c].op = "query" /\ asked # <<>> /\ c = Head(asked) /\ asked' = Tail(asked)
      /\ view'.of = c /\ lastRequest' = lastRequest
  BY DEF ShowResult, Result
<1>3. /\ AskedOnce' /\ PickingQuietly' /\ ((Quiet /\ RequestNoted) => RerunsComeLast')
      /\ Len(asked') = Len(asked) - 1 /\ Len(asked) \in Nat \ {0} /\ asked[1] = c
      /\ \A i \in 1..Len(asked') : asked'[i] = asked[i + 1] /\ i + 1 \in 1..Len(asked)
      /\ \A i \in 1..Len(asked') : \A op : Asks(i, op)' <=> Asks(i + 1, op)
  BY <1>1, <1>2, Answered
<1>4. Quiet' => Quiet
  BY <1>1 DEF Quiet
<1>5. \A j \in 1..Len(asked) : Asks(j, "query") /\ j # 1 => j - 1 \in 1..Len(asked') /\ Asks(j - 1, "query")'
  <2> SUFFICES ASSUME NEW j \in 1..Len(asked), Asks(j, "query"), j # 1
               PROVE  j - 1 \in 1..Len(asked') /\ Asks(j - 1, "query")'
    OBVIOUS
  <2>1. j - 1 \in 1..Len(asked') /\ (j - 1) + 1 = j
    BY <1>3
  <2>2. Asks(j - 1, "query")' <=> Asks((j - 1) + 1, "query")
    BY <1>3, <2>1
  <2> QED
    BY <2>1, <2>2
<1>6. RequestNoted => LastIsNoted'
  <2> SUFFICES ASSUME RequestNoted, NEW i \in 1..Len(asked'), Asks(i, "query")',
                      \A j \in 1..Len(asked') : Asks(j, "query")' => j <= i
               PROVE  lastRequest' = asked'[i]
    BY DEF LastIsNoted
  <2>1. i + 1 \in 1..Len(asked) /\ Asks(i + 1, "query")
    BY <1>3
  <2>2. \A j \in 1..Len(asked) : Asks(j, "query") => j <= i + 1
    BY <1>5
  <2> QED
    BY <1>2, <1>3, <2>1, <2>2 DEF RequestNoted, LastIsNoted
<1>7. RequestNoted => ShownIsNoted'
  <2> SUFFICES ASSUME RequestNoted, \A i \in 1..Len(asked') : ~Asks(i, "query")' PROVE lastRequest' = view'.of
    BY DEF ShownIsNoted
  <2>1. 1 \in 1..Len(asked) /\ Asks(1, "query")
    BY <1>2, <1>3 DEF Asks
  <2>2. \A j \in 1..Len(asked) : Asks(j, "query") => j <= 1
    BY <1>5
  <2> QED
    BY <1>2, <1>3, <2>1, <2>2 DEF RequestNoted, LastIsNoted
<1> QED
  BY <1>3, <1>4, <1>6, <1>7 DEF DeskInv, RequestNoted

(* The result of a rerun: no query waits behind it.                         *)
LEMMA ShowAgainKeeps == ASSUME DeskInv, DeskTypeOK', NEW c \in Commands, ShowAgain(c) PROVE DeskInv'
<1>1. /\ command'[c].op = command[c].op /\ command'[c].at = "shown" /\ command'[c].disturbed = command[c].disturbed
      /\ \A d \in Commands \ {c} : command'[d] = command[d]
  BY ToPlaces, PlacesThereAre DEF ShowAgain, DeskInv
<1>2. /\ command[c].op = "model" /\ asked # <<>> /\ c = Head(asked) /\ asked' = Tail(asked)
      /\ view'.of = command[c].rerun /\ lastRequest' = command[c].rerun
  BY DEF ShowAgain, Result
<1>3. /\ AskedOnce' /\ PickingQuietly' /\ ((Quiet /\ RequestNoted) => RerunsComeLast')
      /\ Len(asked') = Len(asked) - 1 /\ Len(asked) \in Nat \ {0} /\ asked[1] = c
      /\ \A i \in 1..Len(asked') : asked'[i] = asked[i + 1] /\ i + 1 \in 1..Len(asked)
      /\ \A i \in 1..Len(asked') : \A op : Asks(i, op)' <=> Asks(i + 1, op)
  BY <1>1, <1>2, Answered
<1>4. Quiet' => Quiet
  BY <1>1 DEF Quiet
<1>5. RequestNoted => \A i \in 1..Len(asked') : ~Asks(i, "query")'
  <2> SUFFICES ASSUME RequestNoted, NEW i \in 1..Len(asked'), Asks(i, "query")' PROVE FALSE
    OBVIOUS
  <2>1. 1 \in 1..Len(asked) /\ Asks(1, "model")
    BY <1>2, <1>3 DEF Asks
  <2>2. i + 1 \in 1..Len(asked) /\ Asks(i + 1, "query")
    BY <1>3
  <2>3. i + 1 < 1
    BY <2>1, <2>2 DEF RequestNoted, RerunsComeLast
  <2> QED
    BY <2>3
<1>6. RequestNoted => LastIsNoted' /\ ShownIsNoted'
  BY <1>2, <1>5 DEF LastIsNoted, ShownIsNoted
<1> QED
  BY <1>3, <1>4, <1>6 DEF DeskInv, RequestNoted
-----------------------------------------------------------------------------
LEMMA DeskInvInit == DeskInit => DeskInv
<1> SUFFICES ASSUME DeskInit PROVE DeskInv
  OBVIOUS
<1>1. command \in [Commands -> CommandState] /\ \A c \in Commands : command[c] = Given
  BY GivenIsTyped DEF DeskInit
<1>2. view \in View /\ contexts \in Contexts /\ asked = <<>> /\ messages = <<>> /\ lastRequest = 0
  BY ViewsAreTyped DEF DeskInit, Contexts
<1>3. DeskTypeOK
  BY <1>1, <1>2, DeskTypeParts
<1>4. AskedOnce
  BY <1>2 DEF AskedOnce
<1>5. PickingQuietly
  BY <1>1, GivenFields DEF PickingQuietly, At
<1>6. RequestNoted
  BY <1>2 DEF RequestNoted, LastIsNoted, ShownIsNoted, RerunsComeLast, DeskInit, Nothing
<1> QED
  BY <1>3, <1>4, <1>5, <1>6 DEF DeskInv

LEMMA DeskInvStep == DeskInv /\ [DeskNext]_deskVars => DeskInv'
<1> SUFFICES ASSUME DeskInv, [DeskNext]_deskVars PROVE DeskInv'
  OBVIOUS
<1> DeskTypeOK'
  BY DeskTypeStep DEF DeskInv
<1>1. ASSUME NEW c \in Commands, GiveQuery(c) \/ GiveTrace(c) \/ GiveTraceFinding(c) PROVE DeskInv'
  <2>1. PICK op, at : command' = [command EXCEPT ![c] = [Given EXCEPT !.op = op, !.at = at]]
    BY <1>1 DEF GiveQuery, GiveTrace, GiveTraceFinding, Start
  <2>2. command[c] = Given /\ asked' = asked /\ lastRequest' = lastRequest /\ view' = view
    BY <1>1 DEF GiveQuery, GiveTrace, GiveTraceFinding, Start, Turn
  <2> QED
    BY <2>1, <2>2, GivenFields, Begins
<1>2. ASSUME NEW c \in Commands, GiveModel(c) PROVE DeskInv'
  <2>1. PICK n : command' = [command EXCEPT ![c] = [Given EXCEPT !.op = "model", !.at = "picking", !.rerun = n]]
    BY <1>2 DEF GiveModel
  <2>2. command[c] = Given /\ asked' = asked /\ lastRequest' = lastRequest /\ view' = view
    BY <1>2 DEF GiveModel, Turn
  <2> QED
    BY <2>1, <2>2, GivenFields, Begins
<1>3. ASSUME NEW c \in Commands, ClearAuditQuery(c) PROVE DeskInv'
  BY <1>3, ClearKeeps
<1>4. ASSUME NEW c \in Commands, Ask(c) PROVE DeskInv'
  BY <1>4, AskKeeps
<1>5. ASSUME NEW c \in Commands, InspectCallees(c) PROVE DeskInv'
  <2>1. command' = [command EXCEPT ![c] = [Given EXCEPT !.op = "query", !.at = "indexing"]]
    BY <1>5 DEF InspectCallees
  <2>2. command[c].at = "picking" /\ ~command[c].disturbed /\ asked' = asked /\ lastRequest' = lastRequest /\ view' = view
    BY <1>5 DEF InspectCallees, At, DeskInv, PickingQuietly
  <2> QED
    BY <2>1, <2>2, GivenFields, Begins
<1>6. ASSUME NEW c \in Commands, AskAgain(c) PROVE DeskInv'
  BY <1>6, AskAgainKeeps
<1>7. ASSUME NEW c \in Commands, Fail(c) PROVE DeskInv'
  BY <1>7, FailKeeps
<1>8. ASSUME NEW c \in Commands, PathsFound(c) PROVE DeskInv'
  BY <1>8, PathsFoundKeeps
<1>9. ASSUME NEW c \in Commands, PickNone(c) PROVE DeskInv'
  BY <1>9, GoesOn, PlacesThereAre DEF PickNone
<1>10. ASSUME NEW c \in Commands, ShowResult(c) PROVE DeskInv'
  BY <1>10, ShowResultKeeps
<1>11. ASSUME NEW c \in Commands, ResultShown(c) PROVE DeskInv'
  BY <1>11, GoesOn, PlacesThereAre DEF ResultShown
<1>12. ASSUME NEW c \in Commands, StartInteractiveTrace(c) PROVE DeskInv'
  BY <1>12, GoesOn, PlacesThereAre DEF StartInteractiveTrace, At, Trace
<1>13. ASSUME NEW c \in Commands, TraceShown(c) PROVE DeskInv'
  BY <1>13, GoesOn, PlacesThereAre DEF TraceShown, At
<1>14. ASSUME NEW c \in Commands, ShowAgain(c) PROVE DeskInv'
  BY <1>14, ShowAgainKeeps
<1>15. ASSUME NEW index \in 1..Steps, SelectTraceStep(index) PROVE DeskInv'
  <2>1. view'.kind # "result" /\ command' = command /\ asked' = asked /\ lastRequest' = lastRequest
    BY <1>15 DEF SelectTraceStep, DeskInv, DeskTypeOK
  <2> QED
    BY <2>1, Aside DEF DeskInv, PickingQuietly, At
<1>16. ASSUME SessionChanged PROVE DeskInv'
  BY <1>16, Aside DEF SessionChanged, DeskInv, PickingQuietly, At
<1>17. CASE UNCHANGED deskVars
  BY <1>17, Aside DEF deskVars, DeskInv, PickingQuietly, At
<1> QED
  BY <1>1, <1>2, <1>3, <1>4, <1>5, <1>6, <1>7, <1>8, <1>9, <1>10, <1>11, <1>12, <1>13, <1>14, <1>15, <1>16, <1>17 DEF DeskNext

(* While the worker owes answers the request noted is the last query asked. *)
THEOREM DeskInvHolds == DeskSpec => []DeskInv
<1>1. DeskInit => DeskInv
  BY DeskInvInit
<1>2. DeskInv /\ [DeskNext]_deskVars => DeskInv'
  BY DeskInvStep
<1> QED
  BY <1>1, <1>2, PTL DEF DeskSpec

(* The view, the commands and the requests are of their types.              *)
THEOREM DeskTypeCorrect == DeskSpec => []DeskTypeOK
<1>1. DeskInv => DeskTypeOK
  BY DEF DeskInv
<1> QED
  BY <1>1, DeskInvHolds, PTL

(* What is asked again after a model was saved is what is shown, for any    *)
(* number of commands that overlap in any way.                              *)
THEOREM RerunCorrect == DeskSpec => []RerunAsksWhatIsShown
<1>1. DeskInv => RerunAsksWhatIsShown
  <2> SUFFICES ASSUME DeskInv, asked = <<>>, view.kind = "result",
                      \A c \in Commands : command[c].op \in Queries => ~command[c].disturbed
               PROVE  lastRequest = view.of
    BY DEF RerunAsksWhatIsShown
  <2>1. RequestNoted
    BY DEF DeskInv, Quiet
  <2>2. \A i \in 1..Len(asked) : ~Asks(i, "query")
    OBVIOUS
  <2> QED
    BY <2>1, <2>2 DEF RequestNoted, ShownIsNoted
<1> QED
  BY <1>1, DeskInvHolds, PTL

(* ------------------------- The review queue ------------------------------ *)

(* Of numbers there is a least.                                             *)
LEMMA LeastThereIs ==
    ASSUME NEW S \in SUBSET Nat, S # {}
    PROVE  \E n \in S : \A k \in S : n <= k
<1> DEFINE R == {p \in Nat \X Nat : p[1] < p[2]}
<1>1. IsWellFoundedOn(R, Nat)
  BY NatLessThanWellFounded, Zenon DEF OpToRel
<1>2. PICK n \in S : \A k \in S : <<k, n>> \notin R
  BY <1>1, WFMin, Zenon
<1>3. \A k \in S : ~(k < n)
  BY <1>2
<1> QED
  BY <1>3

(* The findings of evaluateFlowPaths, taken apart: one for each hit, with   *)
(* the paths of the hits that are counted as the same.                      *)
Hits(found) == {h \in Rules \X found : Matches(h[1], h[2])}
PathsOf(found, h) ==
    {k[2] : k \in {j \in Hits(found) : FindingId(j[1], j[2]) = FindingId(h[1], h[2])}}
PrimaryOf(rule, some) == CHOOSE a \in some : \A b \in some : ~RiskBefore(rule, b, a)
FindingOf(found, h) ==
    [id |-> FindingId(h[1], h[2]), paths |-> PathsOf(found, h), primary |-> PrimaryOf(h[1], PathsOf(found, h))]

LEMMA FindingsAre == ASSUME NEW found PROVE EvaluateFlowPaths(found) = {FindingOf(found, h) : h \in Hits(found)}
  BY DEF EvaluateFlowPaths, Hits, PathsOf, PrimaryOf, FindingOf

LEMMA HitsAlike ==
    ASSUME NEW found, NEW h \in Hits(found), NEW k \in Hits(found), FindingId(h[1], h[2]) = FindingId(k[1], k[2])
    PROVE  h[1] = k[1] /\ PathsOf(found, h) = PathsOf(found, k)
<1>1. h[1].id = k[1].id
  BY DEF FindingId
<1>2. h[1] \in Rules /\ k[1] \in Rules
  BY DEF Hits
<1> QED
  BY <1>1, <1>2, RulesDiffer DEF PathsOf

(* A finding has its name for itself.                                       *)
LEMMA FindingsDiffer ==
    ASSUME NEW found, NEW f \in EvaluateFlowPaths(found), NEW g \in EvaluateFlowPaths(found), f.id = g.id
    PROVE  f = g
<1>1. PICK h \in Hits(found) : f = FindingOf(found, h)
  BY FindingsAre
<1>2. PICK k \in Hits(found) : g = FindingOf(found, k)
  BY FindingsAre
<1>3. FindingId(h[1], h[2]) = FindingId(k[1], k[2])
  BY <1>1, <1>2 DEF FindingOf
<1> QED
  BY <1>1, <1>2, <1>3, HitsAlike DEF FindingOf

LEMMA RanksAreNumbers ==
    ASSUME NEW flow
    PROVE  ConfidenceRank(Confidence(flow)) \in {0, 1, 2} /\ ExposureBonus(flow) \in {-30, 0, 10}
  BY DEF Confidence, ConfidenceRank, ExposureBonus

LEMMA ScoresAreBounded ==
    ASSUME NEW rule \in Rules, NEW flow
    PROVE  SortScore(rule, flow) \in -30..44
<1>1. IsFiniteSet(MissingGuards(rule, flow))
  BY RecommendedAreFinite, FS_Subset DEF MissingGuards
<1>2. Cardinality(MissingGuards(rule, flow)) \in Nat
  BY <1>1, FS_CardinalityType
<1> QED
  BY <1>2, RanksAreNumbers DEF SortScore

(* Some path comes before no other, and it is of the highest confidence.    *)
LEMMA PrimaryIs ==
    ASSUME NEW rule \in Rules, NEW some, some # {}
    PROVE  /\ PrimaryOf(rule, some) \in some
           /\ \A b \in some : ConfidenceRank(Confidence(PrimaryOf(rule, some))) <= ConfidenceRank(Confidence(b))
<1> DEFINE Rated(b) == 100 * ConfidenceRank(Confidence(b)) + (44 - SortScore(rule, b))
           Ratings == {Rated(b) : b \in some}
<1>1. \A b \in some : Rated(b) \in Nat
  BY RanksAreNumbers, ScoresAreBounded
<1>2. Ratings \in SUBSET Nat /\ Ratings # {}
  BY <1>1
<1>3. PICK n \in Ratings : \A k \in Ratings : n <= k
  BY <1>2, LeastThereIs
<1>4. PICK a \in some : n = Rated(a)
  BY <1>3
<1>5. \A b \in some : Rated(a) <= Rated(b)
  BY <1>3, <1>4
<1>6. \A b \in some : ~RiskBefore(rule, b, a)
  BY <1>5, RanksAreNumbers, ScoresAreBounded DEF RiskBefore
<1> HIDE DEF Rated, Ratings
<1>7. PrimaryOf(rule, some) \in some /\ \A b \in some : ~RiskBefore(rule, b, PrimaryOf(rule, some))
  BY <1>4, <1>6 DEF PrimaryOf
<1> QED
  BY <1>7, RanksAreNumbers DEF RiskBefore

(* With more paths, each finding stands, with all its paths and no less     *)
(* confidence.                                                              *)
LEMMA EvidenceGrows ==
    ASSUME NEW found, NEW more, found \subseteq more, NEW f \in EvaluateFlowPaths(found)
    PROVE  \E g \in EvaluateFlowPaths(more) :
               /\ g.id = f.id /\ f.paths \subseteq g.paths
               /\ ConfidenceRank(Confidence(g.primary)) <= ConfidenceRank(Confidence(f.primary))
<1>1. PICK h \in Hits(found) : f = FindingOf(found, h)
  BY FindingsAre
<1>2. Hits(found) \subseteq Hits(more) /\ h[1] \in Rules
  BY DEF Hits
<1>3. PathsOf(found, h) \subseteq PathsOf(more, h) /\ h[2] \in PathsOf(found, h)
  BY <1>2 DEF PathsOf
<1>4. f.primary \in PathsOf(found, h)
  BY <1>1, <1>2, <1>3, PrimaryIs DEF FindingOf
<1>5. ConfidenceRank(Confidence(PrimaryOf(h[1], PathsOf(more, h)))) <= ConfidenceRank(Confidence(f.primary))
  BY <1>2, <1>3, <1>4, PrimaryIs
<1>6. FindingOf(more, h) \in EvaluateFlowPaths(more)
  BY <1>2, FindingsAre
<1>7. /\ FindingOf(more, h).id = f.id /\ f.paths \subseteq FindingOf(more, h).paths
      /\ FindingOf(more, h).primary = PrimaryOf(h[1], PathsOf(more, h))
  BY <1>1, <1>3 DEF FindingOf
<1> QED
  BY <1>5, <1>6, <1>7

(* The two tests of a path: what Problems shows passes that of the queue.   *)
LEMMA VerifiedPasses ==
    ASSUME NEW flow, PathVerificationStatus(flow) = "verified"
    PROVE  PathIsVerified(flow)
<1>1. /\ ~(SinkStep(flow).quality = "candidate" \/ Shows(flow, "unresolved"))
      /\ ~(Confidence(flow) = "review" \/ Shows(flow, "heuristic") \/ GuessedCall(flow))
  BY DEF PathVerificationStatus
<1> QED
  BY <1>1 DEF PathIsVerified

(* A target, and what the calibration makes of it.                          *)
Linked(p, found, item) == UNION {f.paths : f \in {g \in found : FindingTouchesTarget(p, g, item)}}
Urgent(item, linked) == IF SomePathVerified(linked) THEN "P0" ELSE "P1"
Target ==
    [kind : {"endpoint", "function", "file"}, fn : {x.id : x \in UNION Programs}, file : {x.file : x \in UNION Programs},
     line : {x.line : x \in UNION Programs}, endLine : {x.endLine : x \in UNION Programs}, backlog : BOOLEAN,
     score : {Score(k, x) : k \in {"endpoint", "function", "file"}, x \in UNION Programs}, confidence : {"review"},
     reachable : BOOLEAN, entries : {EntriesOf(p, x) : p \in Programs, x \in UNION Programs}, unresolved : BOOLEAN,
     priority : {"P0", "P1", "P2", "Backlog"}]

LEMMA TargetsAre ==
    ASSUME NEW p \in Programs, NEW item \in BuildReviewTargets(p)
    PROVE  item \in Target /\ (item.kind = "endpoint" => item.priority # "Backlog" /\ ~item.backlog)
<1>1. ASSUME NEW kind \in {"endpoint", "function", "file"}, NEW f \in p, NEW backlog \in BOOLEAN
      PROVE  /\ PrioritizeTarget(kind, p, f, backlog) \in Target
             /\ ~backlog => PrioritizeTarget(kind, p, f, backlog).priority # "Backlog"
             /\ PrioritizeTarget(kind, p, f, backlog).kind = kind
             /\ PrioritizeTarget(kind, p, f, backlog).backlog = backlog
  <2>1. f \in UNION Programs
    OBVIOUS
  <2>2. (EntriesOf(p, f) # {}) \in BOOLEAN /\ Unresolved(p, f) \in BOOLEAN
    BY DEF Unresolved
  <2> QED
    BY <2>1, <2>2 DEF PrioritizeTarget, Target
<1>2. \/ \E f \in p : item = PrioritizeTarget("endpoint", p, f, FALSE)
      \/ \E f \in p : item = PrioritizeTarget("function", p, f, ~SensitiveFlow(f))
      \/ \E f \in p : item = PrioritizeTarget("file", p, f, FALSE)
  BY DEF BuildReviewTargets
<1>3. \A f : (~SensitiveFlow(f)) \in BOOLEAN
  OBVIOUS
<1> QED
  BY <1>1, <1>2, <1>3

Same(c, item) ==
    /\ c.kind = item.kind /\ c.fn = item.fn /\ c.file = item.file /\ c.line = item.line
    /\ c.endLine = item.endLine

LEMMA Calibrated ==
    ASSUME NEW p, NEW item \in Target, NEW found, item.kind = "endpoint" => item.priority # "Backlog"
    PROVE  LET c == CalibrateTarget(p, item, found)
               linked == Linked(p, found, item)
           IN  /\ Same(c, item)
               /\ linked # {} =>
                    /\ c.confidence = IF SomePathVerified(linked) THEN "verified" ELSE "review"
                    /\ item.kind = "endpoint" => c.priority = Urgent(item, linked)
                    /\ item.kind # "endpoint" => c.priority \in {"Backlog", "P2"}
               /\ linked = {} =>
                    /\ c.confidence = "review" /\ c.priority \in {"P1", "P2", "Backlog"}
                    /\ item.kind = "endpoint" => c.priority # "Backlog"
<1> DEFINE linked == Linked(p, found, item)
           c == CalibrateTarget(p, item, found)
           supported == SomePathVerified(linked)
           guessed == \E flow \in linked : ~PathIsVerified(flow)
           urgent == IF item.kind = "endpoint" THEN IF supported THEN "P0" ELSE "P1"
                     ELSE IF item.backlog /\ ~guessed THEN "Backlog" ELSE "P2"
           sure == IF supported THEN "verified" ELSE "review"
           calm == IF item.kind = "endpoint" /\ item.unresolved THEN "P1" ELSE item.priority
           met == item.reachable \/ item.kind = "endpoint"
           open == item.unresolved \/ guessed
<1>0. c = IF linked # {}
          THEN [item EXCEPT !.priority = urgent, !.confidence = sure, !.reachable = met, !.unresolved = open]
          ELSE IF item.priority = "P0"
          THEN [item EXCEPT !.priority = "P1", !.reachable = TRUE, !.unresolved = TRUE]
          ELSE [item EXCEPT !.priority = calm, !.reachable = met]
  BY DEF CalibrateTarget, Linked
<1> HIDE DEF linked, c, guessed
<1>1. CASE linked # {}
  <2>1. c = [item EXCEPT !.priority = urgent, !.confidence = sure, !.reachable = met, !.unresolved = open]
    BY <1>0, <1>1, Zenon
  <2> HIDE DEF urgent, sure, met, open
  <2>2. Same(c, item) /\ c.priority = urgent /\ c.confidence = sure
    BY <2>1 DEF Target, Same
  <2> USE DEF urgent, sure
  <2> QED
    BY <1>1, <2>2 DEF Urgent, linked, c
<1>2. CASE linked = {} /\ item.priority = "P0"
  <2>1. c = [item EXCEPT !.priority = "P1", !.reachable = TRUE, !.unresolved = TRUE]
    BY <1>0, <1>2, Zenon
  <2>2. Same(c, item) /\ c.priority = "P1" /\ c.confidence = item.confidence
    BY <2>1 DEF Target, Same
  <2>3. item.confidence = "review"
    BY DEF Target
  <2> QED
    BY <1>2, <2>2, <2>3 DEF linked, c
<1>3. CASE linked = {} /\ item.priority # "P0"
  <2>1. c = [item EXCEPT !.priority = calm, !.reachable = met]
    BY <1>0, <1>3, Zenon
  <2> HIDE DEF calm, met
  <2>2. Same(c, item) /\ c.priority = calm /\ c.confidence = item.confidence
    BY <2>1 DEF Target, Same
  <2> USE DEF calm
  <2>3. item.confidence = "review" /\ item.priority \in {"P0", "P1", "P2", "Backlog"}
    BY DEF Target
  <2> QED
    BY <1>3, <2>2, <2>3 DEF linked, c
<1> QED
  BY <1>1, <1>2, <1>3
(* What is linked to a target grows with the findings' paths, and a target  *)
(* and what the calibration makes of it are touched by the same findings.   *)
LEMMA LinkedGrows ==
    ASSUME NEW p, NEW item, NEW found, NEW more,
           \A f \in found : \E g \in more : f.paths \subseteq g.paths
    PROVE  Linked(p, found, item) \subseteq Linked(p, more, item)
<1> SUFFICES ASSUME NEW f \in found, FindingTouchesTarget(p, f, item), NEW flow \in f.paths
             PROVE  flow \in Linked(p, more, item)
  BY DEF Linked
<1>1. PICK g \in more : f.paths \subseteq g.paths
  OBVIOUS
<1>2. FindingTouchesTarget(p, g, item)
  BY <1>1 DEF FindingTouchesTarget
<1> QED
  BY <1>1, <1>2 DEF Linked

LEMMA TouchedAlike ==
    ASSUME NEW p, NEW f, NEW c, NEW item, Same(c, item)
    PROVE  FindingTouchesTarget(p, f, c) <=> FindingTouchesTarget(p, f, item)
  BY DEF FindingTouchesTarget, Same

LEMMA NothingLinked ==
    ASSUME NEW p, NEW item, NEW found, NEW more, Linked(p, found, item) = {}, Linked(p, more, item) = {}
    PROVE  CalibrateTarget(p, item, found) = CalibrateTarget(p, item, more)
  BY DEF CalibrateTarget, Linked, SomePathVerified

(* The model and the panel are what was last made of the paths.             *)
QueueInv ==
    /\ program \in Programs
    /\ findings = EvaluateFlowPaths(paths)
    /\ queue = CalibrateReviewTargets(program, findings)
    /\ problems = Diagnostics(findings, statuses, stale)

LEMMA QueueInvInit == QueueInit => QueueInv
<1> SUFFICES ASSUME QueueInit PROVE QueueInv
  OBVIOUS
<1>1. EvaluateFlowPaths({}) = {}
  BY FindingsAre DEF Hits
<1>2. Diagnostics({}, statuses, FALSE) = {}
  BY DEF Diagnostics
<1> QED
  BY <1>1, <1>2 DEF QueueInit, QueueInv

LEMMA QueueInvStep == QueueInv /\ [QueueNext]_queueVars => QueueInv'
<1> SUFFICES ASSUME QueueInv, [QueueNext]_queueVars PROVE QueueInv'
  OBVIOUS
<1>1. CASE ApplyWorkerResult
  <2>1. program' = program /\ statuses' = statuses /\ stale' = stale
    BY <1>1 DEF ApplyWorkerResult
  <2>2. /\ findings' = EvaluateFlowPaths(paths')
        /\ queue' = CalibrateReviewTargets(program, findings')
        /\ problems' = Diagnostics(findings', statuses, stale)
    BY <1>1 DEF ApplyWorkerResult
  <2>3. Diagnostics(findings, statuses, stale)' = Diagnostics(findings', statuses, stale)
    BY <2>1 DEF Diagnostics, Fn
  <2> QED
    BY <2>1, <2>2, <2>3 DEF QueueInv
<1>2. CASE SetFindingStatus
  <2>1. UNCHANGED <<program, findings, paths, queue, stale>> /\ problems' = Diagnostics(findings, statuses', stale)
    BY <1>2 DEF SetFindingStatus
  <2>2. Diagnostics(findings, statuses, stale)' = Diagnostics(findings, statuses', stale)
    BY <2>1 DEF Diagnostics, Fn
  <2> QED
    BY <2>1, <2>2 DEF QueueInv
<1>3. CASE MarkStale
  <2>1. UNCHANGED <<program, findings, paths, queue, statuses>> /\ problems' = Diagnostics(findings, statuses, stale')
    BY <1>3 DEF MarkStale
  <2>2. Diagnostics(findings, statuses, stale)' = Diagnostics(findings, statuses, stale')
    BY <2>1 DEF Diagnostics, Fn
  <2> QED
    BY <2>1, <2>2 DEF QueueInv
<1>4. CASE UNCHANGED queueVars
  <2>1. UNCHANGED <<program, findings, paths, queue, statuses, stale, problems>>
    BY <1>4 DEF queueVars
  <2>2. Diagnostics(findings, statuses, stale)' = Diagnostics(findings, statuses, stale)
    BY <2>1 DEF Diagnostics, Fn
  <2> QED
    BY <2>1, <2>2 DEF QueueInv
<1> QED
  BY <1>1, <1>2, <1>3, <1>4 DEF QueueNext

LEMMA QueueInvHolds == QueueSpec => []QueueInv
  BY QueueInvInit, QueueInvStep, PTL DEF QueueSpec

(* A target of the queue, with the target it was made of.                   *)
LEMMA QueuedTargets ==
    ASSUME QueueInv, NEW i \in queue
    PROVE  \E item \in BuildReviewTargets(program) :
              /\ item \in Target /\ (item.kind = "endpoint" => item.priority # "Backlog")
              /\ i = CalibrateTarget(program, item, findings)
  BY TargetsAre DEF QueueInv, CalibrateReviewTargets

(* What Problems shows leads the queue: the endpoint it touches is P0 and   *)
(* verified, and nothing else is but endpoints of flows as well supported.  *)
LEMMA ShownLeads == QueueInv => VerifiedFlowsLeadTheQueue
<1> SUFFICES ASSUME QueueInv, NEW problem \in problems, NEW f \in findings, f.id = problem.id,
                    NEW e \in queue, e.kind = "endpoint", FindingTouchesTarget(program, f, e)
             PROVE  /\ e.confidence = "verified"
                    /\ \A i \in queue : i.confidence = "review" \/ i.kind # "endpoint" => CompareTargets(e, i)
  BY DEF VerifiedFlowsLeadTheQueue
<1>1. PICK g \in findings : g.id = problem.id /\ FindingPool(g, statuses) = "verified"
  BY DEF QueueInv, Diagnostics
<1>2. f = g
  BY <1>1, FindingsDiffer DEF QueueInv
<1>3. PICK flow \in f.paths : PathIsVerified(flow)
  BY <1>1, <1>2, VerifiedPasses DEF FindingPool
<1>4. e.confidence = "verified" /\ e.priority = "P0"
  <2>1. PICK item \in Target : /\ e = CalibrateTarget(program, item, findings)
                               /\ item.kind = "endpoint" => item.priority # "Backlog"
    BY QueuedTargets
  <2>2. Same(e, item)
    BY <2>1, Calibrated
  <2>3. FindingTouchesTarget(program, f, item) /\ item.kind = "endpoint"
    BY <2>2, TouchedAlike DEF Same
  <2>4. flow \in Linked(program, findings, item)
    BY <1>3, <2>3 DEF Linked
  <2>5. SomePathVerified(Linked(program, findings, item))
    BY <1>3, <2>4 DEF SomePathVerified
  <2> QED
    BY <2>1, <2>3, <2>4, <2>5, Calibrated DEF Urgent
<1>5. ASSUME NEW i \in queue, i.confidence = "review" \/ i.kind # "endpoint"
      PROVE  i.priority \in {"P1", "P2", "Backlog"}
  <2>1. PICK item \in Target : /\ i = CalibrateTarget(program, item, findings)
                               /\ item.kind = "endpoint" => item.priority # "Backlog"
    BY QueuedTargets
  <2>2. i.kind = item.kind
    BY <2>1, Calibrated DEF Same
  <2>3. CASE Linked(program, findings, item) = {}
    BY <2>1, <2>3, Calibrated
  <2>4. CASE Linked(program, findings, item) # {}
    BY <1>5, <2>1, <2>2, <2>4, Calibrated DEF Urgent
  <2> QED
    BY <2>3, <2>4
<1> QED
  BY <1>4, <1>5 DEF CompareTargets, PriorityRank

(* The endpoint that stands in the Problems panel leads the queue, whatever *)
(* the programs, the rules and the paths delivered (review/targets.js       *)
(* calibrateReviewTargets, review/finding-pool.js).                         *)
THEOREM VerifiedFlowsLead == QueueSpec => []VerifiedFlowsLeadTheQueue
  BY QueueInvHolds, ShownLeads, PTL

(* The rank of an endpoint by what is linked to it.                         *)
LEMMA EndpointRises ==
    ASSUME NEW p, NEW item \in Target, item.kind = "endpoint", item.priority # "Backlog",
           NEW found, NEW more, Linked(p, found, item) \subseteq Linked(p, more, item)
    PROVE  PriorityRank(CalibrateTarget(p, item, more).priority) <= PriorityRank(CalibrateTarget(p, item, found).priority)
<1> DEFINE before == CalibrateTarget(p, item, found).priority
           after == CalibrateTarget(p, item, more).priority
<1>1. CASE Linked(p, found, item) # {}
  <2>1. before = Urgent(item, Linked(p, found, item)) /\ after = Urgent(item, Linked(p, more, item))
    BY <1>1, Calibrated
  <2>2. SomePathVerified(Linked(p, found, item)) => SomePathVerified(Linked(p, more, item))
    BY DEF SomePathVerified
  <2> QED
    BY <2>1, <2>2 DEF Urgent, PriorityRank
<1>2. CASE Linked(p, found, item) = {} /\ Linked(p, more, item) # {}
  <2>1. before \in {"P1", "P2"} /\ after = Urgent(item, Linked(p, more, item))
    BY <1>2, Calibrated
  <2> QED
    BY <2>1 DEF Urgent, PriorityRank
<1>3. CASE Linked(p, found, item) = {} /\ Linked(p, more, item) = {}
  <2>1. before = after /\ before \in {"P1", "P2"}
    BY <1>3, NothingLinked, Calibrated
  <2> QED
    BY <2>1 DEF PriorityRank
<1> QED
  BY <1>1, <1>2, <1>3

LEMMA NothingHidden ==
    QueueInv /\ QueueInv' /\ [QueueNext]_queueVars =>
    (paths \subseteq paths' /\ statuses' = statuses /\ stale' = stale =>
        /\ \A p \in problems : \E q \in problems' :
              p.id = q.id /\ ConfidenceRank(q.confidence) <= ConfidenceRank(p.confidence)
        /\ \A i \in queue : i.kind = "endpoint" => \E j \in queue' :
              j.fn = i.fn /\ PriorityRank(j.priority) <= PriorityRank(i.priority))
<1> SUFFICES ASSUME QueueInv, QueueInv', [QueueNext]_queueVars,
                    paths \subseteq paths', statuses' = statuses, stale' = stale
             PROVE  /\ \A p \in problems : \E q \in problems' :
                          p.id = q.id /\ ConfidenceRank(q.confidence) <= ConfidenceRank(p.confidence)
                    /\ \A i \in queue : i.kind = "endpoint" => \E j \in queue' :
                          j.fn = i.fn /\ PriorityRank(j.priority) <= PriorityRank(i.priority)
  OBVIOUS
<1>0. program' = program
  BY DEF QueueNext, ApplyWorkerResult, SetFindingStatus, MarkStale, queueVars
<1>1. /\ findings = EvaluateFlowPaths(paths) /\ findings' = EvaluateFlowPaths(paths')
      /\ queue = CalibrateReviewTargets(program, findings)
      /\ queue' = CalibrateReviewTargets(program, findings')
      /\ problems = Diagnostics(findings, statuses, stale)
      /\ problems' = Diagnostics(findings', statuses, stale)
  <2>1. Diagnostics(findings, statuses, stale)' = Diagnostics(findings', statuses, stale)
    BY <1>0 DEF Diagnostics, Fn
  <2>2. CalibrateReviewTargets(program, findings)' = CalibrateReviewTargets(program, findings')
    BY <1>0
  <2> QED
    BY <2>1, <2>2 DEF QueueInv
<1>2. \A f \in findings : \E g \in findings' :
          /\ g.id = f.id /\ f.paths \subseteq g.paths
          /\ ConfidenceRank(Confidence(g.primary)) <= ConfidenceRank(Confidence(f.primary))
  BY <1>1, EvidenceGrows
<1>3. ASSUME NEW p \in problems
      PROVE  \E q \in problems' : p.id = q.id /\ ConfidenceRank(q.confidence) <= ConfidenceRank(p.confidence)
  <2>1. ~stale
    BY <1>1 DEF Diagnostics
  <2>2. PICK f \in findings : /\ FindingPool(f, statuses) = "verified"
                              /\ p.id = f.id /\ p.confidence = Confidence(f.primary)
    BY <1>1 DEF Diagnostics
  <2>3. PICK g \in findings' : /\ g.id = f.id /\ f.paths \subseteq g.paths
                               /\ ConfidenceRank(Confidence(g.primary)) <= ConfidenceRank(Confidence(f.primary))
    BY <1>2
  <2>4. FindingPool(g, statuses) = "verified"
    <3>1. statuses[f.id] = "open" /\ \E flow \in f.paths : PathVerificationStatus(flow) = "verified"
      BY <2>2 DEF FindingPool
    <3> QED
      BY <2>3, <3>1 DEF FindingPool
  <2>5. \E q \in problems' : q.id = g.id /\ q.confidence = Confidence(g.primary)
    <3> DEFINE q == [id |-> g.id, file |-> Fn(g.id[2]).file, confidence |-> Confidence(g.primary), from |-> SourceStep(g.primary).fn]
    <3>1. q \in problems'
      BY <1>1, <2>1, <2>4 DEF Diagnostics
    <3>2. q.id = g.id /\ q.confidence = Confidence(g.primary)
      OBVIOUS
    <3> QED
      BY <3>1, <3>2
  <2> QED
    BY <2>2, <2>3, <2>5
<1>4. ASSUME NEW i \in queue, i.kind = "endpoint"
      PROVE  \E j \in queue' : j.fn = i.fn /\ PriorityRank(j.priority) <= PriorityRank(i.priority)
  <2>1. PICK item \in BuildReviewTargets(program) :
              /\ item \in Target /\ (item.kind = "endpoint" => item.priority # "Backlog")
              /\ i = CalibrateTarget(program, item, findings)
    BY QueuedTargets
  <2>2. i.kind = item.kind /\ i.fn = item.fn
    BY <2>1, Calibrated DEF Same
  <2> DEFINE j == CalibrateTarget(program, item, findings')
  <2>3. j \in queue'
    BY <1>1, <2>1 DEF CalibrateReviewTargets
  <2>4. j.fn = i.fn
    BY <2>1, <2>2, Calibrated DEF Same
  <2>5. Linked(program, findings, item) \subseteq Linked(program, findings', item)
    BY <1>2, LinkedGrows
  <2>6. PriorityRank(j.priority) <= PriorityRank(i.priority)
    BY <1>4, <2>1, <2>2, <2>5, EndpointRises
  <2> QED
    BY <2>3, <2>4, <2>6
<1> QED
  BY <1>3, <1>4

(* Further paths take no finding out of Problems, lower no connection there *)
(* and no endpoint of the queue, for every program, rule and set of paths   *)
(* (rules/rule-engine.js evaluateFlowPaths, review/targets.js).             *)
THEOREM NothingIsHidden == QueueSpec => MoreEvidenceHidesNothing
<1>1. QueueInv /\ QueueInv' /\ [QueueNext]_queueVars =>
        [paths \subseteq paths' /\ statuses' = statuses /\ stale' = stale =>
          /\ \A p \in problems : \E q \in problems' :
                p.id = q.id /\ ConfidenceRank(q.confidence) <= ConfidenceRank(p.confidence)
          /\ \A i \in queue : i.kind = "endpoint" => \E j \in queue' :
                j.fn = i.fn /\ PriorityRank(j.priority) <= PriorityRank(i.priority)]_queueVars
  BY NothingHidden
<1> QED
  BY <1>1, QueueInvHolds, PTL DEF QueueSpec, MoreEvidenceHidesNothing
====
