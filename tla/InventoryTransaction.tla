-------------------------- MODULE InventoryTransaction --------------------------
(***************************************************************************)
(* InventoryTransactionService.executeTransaction                          *)
(* (src/src/inventory/inventory-transaction.service.ts), the engine behind *)
(* the RF putaway, pick and quick-adjustment endpoints.                    *)
(*                                                                         *)
(* A request takes a Redis lock on the lot (SET NX PX 500), opens a        *)
(* database transaction, reads the on-hand row, changes it (by a guarded   *)
(* update or an upsert), writes a ledger row with the balance before and   *)
(* after, commits, and deletes the lock.  Every await is a point where     *)
(* another request may run.  The update and the ledger row commit          *)
(* together and the update re-reads the row it locks, so they are one      *)
(* step; the read that fills "before" is a step of its own, because        *)
(* READ COMMITTED lets another transaction commit after it.                *)
(*                                                                         *)
(* The lock lives 500 ms and nothing renews it, while the transaction may  *)
(* wait 2 s for a connection and run for 5 s (Prisma's defaults), so it    *)
(* may lapse at any point.  Every holder writes the same token, '1', so a  *)
(* release deletes whatever lock is there, its own or another's.           *)
(*                                                                         *)
(* AcquireTaken, UnclampedAfter and UpsertOfWhatWasRead are defective      *)
(* variants of the definitions they precede: each breaks one of the        *)
(* properties at the end.                                                  *)
(***************************************************************************)
EXTENDS Integers, Sequences, FiniteSets

CONSTANTS
    Requests,    \* requests in flight at once, over all nodes
    Locations,   \* storage locations
    Lots,        \* lots of one product in one facility
    NoLocation,  \* dto.locationId left out
    NilLot,      \* dto.lotId left out: the all-zero uuid
    Types,       \* transaction types callers send
    Quantities,  \* dto.quantity
    Calls,       \* the arguments callers pass: a set of Dtos, see below
    MaxLedger,   \* bound: rows the ledger may grow to
    NoRequest,   \* the lock is free
    NoDto        \* no call in progress

(* CreateTransactionDto asks for a number and no more: a quantity may be     *)
(* negative.                                                                 *)
ASSUME QuantitiesAssumption == Quantities \subseteq Int
ASSUME BlankAssumption ==
    /\ NoRequest \notin Requests
    /\ NoLocation \notin Locations
    /\ NilLot \notin Lots
ASSUME MaxLedgerAssumption == MaxLedger \in Nat

VARIABLES
    onHand,      \* inventory_on_hand.quantity_on_hand, 0 where there is no row
    existing,    \* rows of inventory_on_hand that exist
    ledger,      \* inventory_transactions, in commit order
    lock,        \* who set inv:lock:{product}:{lot}, or NoRequest
    pc,          \* where each request is
    dto,         \* its argument
    before,      \* qtyBefore, as the request read it
    lapsed       \* history: some lock ran out before its holder had released it

stock == <<onHand, existing, ledger>>
vars == <<onHand, existing, ledger, lock, pc, dto, before, lapsed>>

--------------------------------------------------------------------------------
Rows == Locations \X Lots
LockKeys == Lots \cup {NilLot}
Places == (Locations \cup {NoLocation}) \X LockKeys
Dtos == [place: Places, type: Types, quantity: Quantities]
ASSUME CallsAssumption == Calls \subseteq Dtos

Stages == {"idle", "locked", "read", "releasing"}

LotOf(place) == place[2]

(* signQuantity: the types that take stock away. *)
Decrementing == {"PICK", "SHIP", "ADJUSTMENT_DECREASE", "TRANSFER_OUT",
                 "CYCLE_COUNT_RESERVE", "HOLD_RELEASE", "QC_FAIL", "SCRAPP"}

(* txnTypes: the types whose update carries the quantity guard. *)
Guarded == {"PICK", "SHIP", "ADJUSTMENT_DECREASE", "TRANSFER_OUT", "SCRAPP"}

(* The types the endpoints admit (@IsEnum of CreateTransactionDto). *)
TransactionTypeDto == {"RECEIPT", "PUTAWAY", "PICK", "PACK", "SHIP",
    "ADJUSTMENT_INCREASE", "ADJUSTMENT_DECREASE", "TRANSFER_IN", "TRANSFER_OUT"}

ASSUME TypesAssumption == Types \subseteq TransactionTypeDto

Sign(type) == IF type \in Decrementing THEN -1 ELSE 1
Delta(d) == Sign(d.type) * d.quantity
AtLeastZero(n) == IF n < 0 THEN 0 ELSE n

(* The row the call names, when it names both a location and a lot. *)
NamesRow(d) == d.place \in Rows

(* A movement that takes stock away is guarded by its type: a PICK of 5 is, a *)
(* RECEIPT of -5 is not.                                                      *)
IsGuarded(d) == Delta(d) < 0 /\ d.type \in Guarded

--------------------------------------------------------------------------------
Init ==
    /\ onHand = [r \in Rows |-> 0]
    /\ existing = {}
    /\ ledger = << >>
    /\ lock = [k \in LockKeys |-> NoRequest]
    /\ pc = [p \in Requests |-> "idle"]
    /\ dto = [p \in Requests |-> NoDto]
    /\ before = [p \in Requests |-> 0]
    /\ lapsed = FALSE

AcquireTaken(p) ==
    /\ pc[p] = "idle"
    /\ \E d \in Calls :
        /\ lock' = [lock EXCEPT ![LotOf(d.place)] = p]
        /\ dto' = [dto EXCEPT ![p] = d]
    /\ pc' = [pc EXCEPT ![p] = "locked"]
    /\ UNCHANGED <<stock, before, lapsed>>

(* SET key '1' PX 500 NX answered OK. When the key is taken the call throws  *)
(* and nothing changes.                                                      *)
Acquire(p) ==
    /\ pc[p] = "idle"
    /\ \E d \in Calls :
        /\ lock[LotOf(d.place)] = NoRequest
        /\ lock' = [lock EXCEPT ![LotOf(d.place)] = p]
        /\ dto' = [dto EXCEPT ![p] = d]
    /\ pc' = [pc EXCEPT ![p] = "locked"]
    /\ UNCHANGED <<stock, before, lapsed>>

(* The transaction's findFirst: qtyBefore is 0 when there is no row, or when *)
(* the call names none.                                                      *)
Read(p) ==
    /\ pc[p] = "locked"
    /\ before' = [before EXCEPT
          ![p] = IF NamesRow(dto[p]) THEN onHand[dto[p].place] ELSE 0]
    /\ pc' = [pc EXCEPT ![p] = "read"]
    /\ UNCHANGED <<stock, lock, dto, lapsed>>

(* updateMany ... where quantityOnHand >= |quantity|, which is -Delta here,  *)
(* changed one row.                                                          *)
GuardedUpdate(d) ==
    /\ NamesRow(d) /\ IsGuarded(d)
    /\ d.place \in existing
    /\ onHand[d.place] >= -Delta(d)
    /\ onHand' = [onHand EXCEPT ![d.place] = @ + Delta(d)]
    /\ UNCHANGED existing

UpsertOfWhatWasRead(d, after) ==
    /\ NamesRow(d) /\ ~IsGuarded(d)
    /\ onHand' = [onHand EXCEPT ![d.place] = after]
    /\ existing' = existing \cup {d.place}

(* upsert: increment the row, or create it with quantity "after". *)
Upsert(d, after) ==
    /\ NamesRow(d) /\ ~IsGuarded(d)
    /\ onHand' = [onHand EXCEPT ![d.place] =
                    IF d.place \in existing THEN @ + Delta(d) ELSE after]
    /\ existing' = existing \cup {d.place}

(* Without a location or a lot only the ledger row is written. *)
NoRowChange(d) ==
    /\ ~NamesRow(d)
    /\ UNCHANGED <<onHand, existing>>

UnclampedAfter(p) ==
    IF NamesRow(dto[p]) THEN before[p] + Delta(dto[p]) ELSE 0

After(p) ==
    IF NamesRow(dto[p]) THEN AtLeastZero(before[p] + Delta(dto[p])) ELSE 0

LedgerRow(p) ==
    [place |-> dto[p].place, type |-> dto[p].type, quantity |-> dto[p].quantity,
     before |-> before[p], after |-> After(p)]

(* The change of the on-hand row and the ledger row, committed together. *)
Commit(p) ==
    /\ pc[p] = "read"
    /\ Len(ledger) < MaxLedger
    /\ \/ GuardedUpdate(dto[p])
       \/ Upsert(dto[p], After(p))
       \/ NoRowChange(dto[p])
    /\ ledger' = Append(ledger, LedgerRow(p))
    /\ pc' = [pc EXCEPT ![p] = "releasing"]
    /\ UNCHANGED <<lock, dto, before, lapsed>>

(* "Insufficient quantity on hand": the guarded update matched no row, the   *)
(* transaction rolls back.                                                   *)
Insufficient(p) ==
    /\ pc[p] = "read"
    /\ NamesRow(dto[p]) /\ IsGuarded(dto[p])
    /\ dto[p].place \notin existing \/ onHand[dto[p].place] < -Delta(dto[p])
    /\ pc' = [pc EXCEPT ![p] = "releasing"]
    /\ UNCHANGED <<stock, lock, dto, before, lapsed>>

(* The transaction fails for a reason of the database: no connection within  *)
(* 2 s, longer than 5 s, connection lost.                                    *)
Rollback(p) ==
    /\ pc[p] \in {"locked", "read"}
    /\ pc' = [pc EXCEPT ![p] = "releasing"]
    /\ UNCHANGED <<stock, lock, dto, before, lapsed>>

Forget(p) ==
    /\ pc' = [pc EXCEPT ![p] = "idle"]
    /\ dto' = [dto EXCEPT ![p] = NoDto]
    /\ before' = [before EXCEPT ![p] = 0]

(* The finally block's script: the key holds '1' whoever set it, so it is    *)
(* deleted.                                                                  *)
Release(p) ==
    /\ pc[p] = "releasing"
    /\ lock' = [lock EXCEPT ![LotOf(dto[p].place)] = NoRequest]
    /\ Forget(p)
    /\ UNCHANGED <<stock, lapsed>>

(* The process dies, or the script's error is swallowed by .catch: the       *)
(* request is over and the key stays until its time runs out.                *)
Abandon(p) ==
    /\ pc[p] # "idle"
    /\ Forget(p)
    /\ UNCHANGED <<stock, lock, lapsed>>

(* Redis drops the key 500 ms after it was set. *)
Expire(k) ==
    /\ lock[k] # NoRequest
    /\ lock' = [lock EXCEPT ![k] = NoRequest]
    /\ lapsed' = (lapsed \/ (pc[lock[k]] # "idle" /\ LotOf(dto[lock[k]].place) = k))
    /\ UNCHANGED <<stock, pc, dto, before>>

Step(p) ==
    \/ Acquire(p) \/ Read(p) \/ Commit(p) \/ Insufficient(p)
    \/ Rollback(p) \/ Release(p) \/ Abandon(p)

Next ==
    \/ \E p \in Requests : Step(p)
    \/ \E k \in LockKeys : Expire(k)

Spec == Init /\ [][Next]_vars

--------------------------------------------------------------------------------
(* No ledger row quotes a balance after it below zero, even when a lock       *)
(* lapses between a request's check and its update.                           *)
TypeOK ==
    /\ onHand \in [Rows -> Int]
    /\ existing \in SUBSET Rows
    /\ ledger \in Seq([place: Places, type: Types, quantity: Quantities,
                       before: Int, after: Nat])
    /\ lock \in [LockKeys -> Requests \cup {NoRequest}]
    /\ pc \in [Requests -> Stages]
    /\ dto \in [Requests -> Dtos \cup {NoDto}]
    /\ before \in [Requests -> Int]
    /\ lapsed \in BOOLEAN
    /\ \A p \in Requests : pc[p] # "idle" => dto[p] \in Dtos

(* Whatever the locks do (they may lapse, or be deleted by a stranger), stock *)
(* moves only in the step that writes its ledger row, by exactly the movement *)
(* of that row unless it is the one that creates the stock row, and the types *)
(* the code guards never take more than there is: executeTransaction          *)
(* implements StockLedger.                                                    *)
MovementOf(d) == [delta |-> Delta(d), checked |-> IsGuarded(d)]
Movements == {MovementOf(d) : d \in [type: Types, quantity: Quantities]}

Entry(row) == [place |-> row.place, movement |-> MovementOf(row)]
Entries == [i \in 1 .. Len(ledger) |-> Entry(ledger[i])]

Promise == INSTANCE StockLedger WITH
    balance <- onHand, opened <- existing, entries <- Entries

ImplementsStockLedger == Promise!Spec

(* As long as no lock ran out under its holder, the ledger of a row reads as  *)
(* one unbroken account: every entry starts from the balance the entry before *)
(* it ended with, and ends with that balance plus its own movement.  Entries  *)
(* that overdraw the row are excepted, and what follows right after them: an  *)
(* unguarded movement of a negative quantity writes 0 where the balance is    *)
(* below it.                                                                  *)
PreviousOf(i, j) ==
    /\ j < i
    /\ ledger[j].place = ledger[i].place
    /\ \A k \in j + 1 .. i - 1 : ledger[k].place # ledger[i].place

Overdraws(i) ==
    /\ NamesRow(ledger[i]) /\ ~IsGuarded(ledger[i])
    /\ ledger[i].before + Delta(ledger[i]) < 0

Continues(i) ==
    /\ \A j \in 1 .. i - 1 :
          PreviousOf(i, j) /\ ~Overdraws(j) => ledger[i].before = ledger[j].after
    /\ (\A j \in 1 .. i - 1 : ledger[j].place # ledger[i].place) => ledger[i].before = 0

RowAddsUp(i) ==
    NamesRow(ledger[i]) => ledger[i].after = ledger[i].before + Delta(ledger[i])

UnbrokenAccount ==
    ~lapsed => \A i \in 1 .. Len(ledger) : Continues(i) /\ (RowAddsUp(i) \/ Overdraws(i))

(* Every ledger row adds up on its own: before plus movement is after.        *)
LedgerRowsAddUp == \A i \in 1 .. Len(ledger) : RowAddsUp(i)
================================================================================
