-------------------------- MODULE BoundedHistory --------------------------
(***************************************************************************)
(* What the persistent clipboard history promises, with no byte counter,   *)
(* no keys, no processes and no transactions: contents are recorded one at *)
(* a time, and the only contents that ever disappear are the oldest ones,  *)
(* never so many that fewer than Keep are left.                            *)
(***************************************************************************)
EXTENDS Integers, FiniteSets

CONSTANTS Contents,   \* everything that can be recorded, with sec and frac
          Keep        \* how many contents a trim always spares

VARIABLE items        \* the contents in the history

Older(a, b) ==
    \/ a.sec < b.sec
    \/ a.sec = b.sec /\ a.frac < b.frac

SameInstant(a, b) == a.sec = b.sec /\ a.frac = b.frac

\* Dropping `gone' leaves at least Keep contents, each newer than all of `gone'.
Droppable(gone) ==
    /\ \A g \in gone, k \in items \ gone : Older(g, k)
    /\ gone # {} => Cardinality(items \ gone) >= Keep

Init == items = {}

\* Record content c, the newest so far, dropping old contents if need be.  A
\* content captured at the same instant is the same capture and is replaced.
Record(c) ==
    /\ \A i \in items : Older(i, c) \/ SameInstant(i, c)
    /\ \E gone \in SUBSET items :
         /\ Droppable(gone)
         /\ items' = {i \in items \ gone : ~SameInstant(i, c)} \cup {c}

Trim ==
    \E gone \in SUBSET items :
        /\ Droppable(gone)
        /\ items' = items \ gone

Next == Trim \/ \E c \in Contents : Record(c)

Spec == Init /\ [][Next]_items

=============================================================================
