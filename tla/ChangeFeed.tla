------------------------------ MODULE ChangeFeed ------------------------------
(***************************************************************************)
(* What a queue of workspace changes promises, whatever it keeps inside:   *)
(* every change reported is owed until a synchronisation that started      *)
(* after the report has succeeded.  A synchronisation takes everything     *)
(* owed, there is one at a time, and one that fails gives back what it     *)
(* took.                                                                   *)
(***************************************************************************)
CONSTANT Path

VARIABLES owed,   \* reported, and not taken since
          taken,  \* being synchronised
          closed

feed == <<owed, taken, closed>>

Init == owed = {} /\ taken = {} /\ closed = FALSE

Report(S) ==
    /\ ~closed
    /\ owed' = owed \union S
    /\ UNCHANGED <<taken, closed>>

Take ==
    /\ ~closed /\ taken = {}
    /\ taken' = owed /\ owed' = {}
    /\ UNCHANGED closed

(* A synchronisation succeeds; the next may start at once.                 *)
Settle ==
    /\ \/ taken' = {} /\ owed' = owed
       \/ ~closed /\ taken' = owed /\ owed' = {}
    /\ UNCHANGED closed

GiveBack ==
    /\ taken' = {}
    /\ owed' = IF closed THEN {} ELSE owed \union taken
    /\ UNCHANGED closed

Close ==
    /\ closed' = TRUE
    /\ owed' = {}
    /\ UNCHANGED taken

Next == \/ \E S \in SUBSET Path : Report(S)
        \/ Take \/ Settle \/ GiveBack \/ Close

Spec == Init /\ [][Next]_feed
=============================================================================
