---------------------------- MODULE CompanyShelf ----------------------------
(***************************************************************************)
(* What the company files promise, without files, keys or steps: a shelf   *)
(* of books, one set of books for each company, and copies taken of them.  *)
(***************************************************************************)
EXTENDS Naturals

CONSTANTS Companies, MaxRevision, Nil

VARIABLES shelf,   \* the books of each company that opens, or Nil
          copies   \* the books some copy holds

Books == [root : Companies, at : 1..MaxRevision]

First(c) == [root |-> c, at |-> 1]

Init == /\ shelf \in [Companies -> Books \cup {Nil}]
        /\ copies \subseteq Books

\* The copies there may be after a step: those there were, those of what is on
\* the shelf, and the books of a company being created.
Copying == copies' \subseteq copies \cup ({shelf[c] : c \in Companies} \ {Nil})
                                    \cup {First(c) : c \in Companies}

\* A commit.
Write(c) == /\ shelf[c] # Nil
            /\ shelf' = [shelf EXCEPT ![c].at = @ + 1]

\* A company is created, or restored from a copy.
Place(c) == /\ shelf[c] = Nil
            /\ \E books \in copies : shelf' = [shelf EXCEPT ![c] = books]

\* It is deleted, or can no longer be opened.
Drop(c) == shelf' = [shelf EXCEPT ![c] = Nil]

Next == /\ Copying
        /\ \/ UNCHANGED shelf
           \/ \E c \in Companies : Write(c) \/ Place(c) \/ Drop(c)

Spec == Init /\ [][Next]_<<shelf, copies>>
=============================================================================
