--------------------------------- MODULE Lake ---------------------------------
(***************************************************************************)
(* What the data lake promises of the objects the workers write, however   *)
(* many compactor runs there are and wherever they fail: an object leaves  *)
(* the landing zone once and for good, when all its records are in the     *)
(* analytical lake or for its age; it is tagged only when they are; and    *)
(* the analytical lake never loses a record nor holds one nobody wrote.    *)
(***************************************************************************)
CONSTANTS
    Objects,
    LinesOf    \* the records of each object

VARIABLES
    place,     \* where each object is
    tagged,    \* the objects tagged as compacted
    lake       \* the records in the analytical lake

lakeVars == <<place, tagged, lake>>

Places == {"unwritten", "landed", "cleared", "expired"}

Init ==
    /\ place = [o \in Objects |-> "unwritten"]
    /\ tagged = {}
    /\ lake = {}

Move(S, to) ==
    /\ \A o \in S : place[o] = "landed"
    /\ place' = [o \in Objects |-> IF o \in S THEN to ELSE place[o]]
    /\ UNCHANGED <<tagged, lake>>

\* A worker writes an object.
Land(o) ==
    /\ place[o] = "unwritten"
    /\ place' = [place EXCEPT ![o] = "landed"]
    /\ UNCHANGED <<tagged, lake>>

\* Records of objects that were written get into the analytical lake.
Consolidate(L) ==
    /\ \A l \in L : \E o \in Objects : place[o] # "unwritten" /\ l \in LinesOf[o]
    /\ lake' = lake \cup L
    /\ UNCHANGED <<place, tagged>>

\* Objects whose records are all there are tagged, or deleted.
Complete(S) == \A o \in S : LinesOf[o] \subseteq lake

Mark(S) ==
    /\ Complete(S) /\ \A o \in S : place[o] = "landed"
    /\ tagged' = tagged \cup S
    /\ UNCHANGED <<place, lake>>

Clear(S) == Complete(S) /\ Move(S, "cleared")

\* Retention.
Expire(S) == Move(S, "expired")

Next ==
    \/ \E o \in Objects : Land(o)
    \/ \E L \in SUBSET (UNION {LinesOf[o] : o \in Objects}) : Consolidate(L)
    \/ \E S \in SUBSET Objects : Mark(S) \/ Clear(S) \/ Expire(S)

Spec == Init /\ [][Next]_lakeVars

\* No record is made up: each in the analytical lake is one of a written object.
Genuine == \A l \in lake : \E o \in Objects : place[o] # "unwritten" /\ l \in LinesOf[o]
=============================================================================
