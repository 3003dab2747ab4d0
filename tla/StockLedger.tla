------------------------------ MODULE StockLedger ------------------------------
(***************************************************************************)
(* What the inventory transaction engine promises its callers: stock (one  *)
(* product and lot at one location) moves only together with an entry in   *)
(* an append-only ledger that says by how much, and a checked movement     *)
(* never takes more than there is.  A movement that nobody checks may      *)
(* leave a row below zero, except the one that opens the row.  Nothing is  *)
(* said of locks, reads or requests: every posting is one indivisible      *)
(* step.                                                                   *)
(***************************************************************************)
EXTENDS Integers, Sequences

CONSTANTS
    Rows,       \* the on-hand rows
    Places,     \* where an entry may be written: Rows, and places that hold no stock
    Movements   \* what an entry may say: a signed quantity, checked or not

VARIABLES
    balance,    \* stock of every row
    opened,     \* rows that some posting has opened
    entries     \* the ledger, oldest entry first

ledgerVars == <<balance, opened, entries>>

Init ==
    /\ balance = [r \in Rows |-> 0]
    /\ opened = {}
    /\ entries = << >>

(* A row is opened with what the first movement brings, or with nothing. *)
Opening(delta) == IF delta < 0 THEN 0 ELSE delta

(* Stock and what it is needed for: a checked movement is covered by it. *)
Move(row, m) ==
    /\ m.checked => row \in opened /\ balance[row] + m.delta >= 0
    /\ balance' = [balance EXCEPT ![row] =
                     IF row \in opened THEN @ + m.delta ELSE Opening(m.delta)]
    /\ opened' = opened \cup {row}

(* An entry at a place that is no row is a note: it moves no stock. *)
Note == UNCHANGED <<balance, opened>>

Post(place, m) ==
    /\ IF place \in Rows THEN Move(place, m) ELSE Note
    /\ entries' = Append(entries, [place |-> place, movement |-> m])

Next == \E place \in Places, m \in Movements : Post(place, m)

Spec == Init /\ [][Next]_ledgerVars
================================================================================
