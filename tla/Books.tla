-------------------------------- MODULE Books --------------------------------
(***************************************************************************)
(* What the voucher ledger promises its users: books of entries that only  *)
(* grow, in which nothing dated in a frozen year ever changes, every entry *)
(* made balances, and an entry is corrected either by amending it while    *)
(* nothing offsets it or by one offsetting entry for exactly its lines.    *)
(***************************************************************************)
EXTENDS Naturals, Sequences

CONSTANTS Years,
          LineSet,       \* the lines an entry may have
          Balanced(_),   \* whether debits equal credits
          Flipped(_)     \* the same amounts on the other side

VARIABLES entries,  \* the entries, in the order they were made
          frozen    \* the years nothing may be written in

bookVars == <<entries, frozen>>

Entry == [fy : Years, lines : LineSet, offsets : Nat]

\* An entry nothing offsets and that offsets nothing.
Standing(i) == /\ entries[i].offsets = 0
               /\ \A j \in DOMAIN entries : entries[j].offsets # i

BooksInit == entries = <<>> /\ frozen = {}

Enter == \E y \in Years \ frozen, lines \in LineSet :
           /\ entries' = Append(entries, [fy |-> y, lines |-> lines, offsets |-> 0])
           /\ Balanced(lines)

Amend == \E i \in DOMAIN entries :
           /\ Standing(i)
           /\ entries[i].fy \notin frozen
           /\ \E lines \in LineSet :
                /\ entries' = [entries EXCEPT ![i].lines = lines]
                /\ Balanced(lines)

Offset == \E i \in DOMAIN entries, y \in Years \ frozen :
            /\ Standing(i)
            /\ entries' = Append(entries, [fy |-> y, lines |-> Flipped(entries[i].lines),
                                           offsets |-> i])

Write == (Enter \/ Amend \/ Offset) /\ UNCHANGED frozen

Freeze == UNCHANGED entries /\ frozen' \in SUBSET Years

BooksNext == Freeze \/ Write

BooksSpec == BooksInit /\ [][BooksNext]_bookVars
=============================================================================
