----------------------- MODULE InventoryTransactionProofs -----------------------
(***************************************************************************)
(* Proofs about InventoryTransaction for any number of requests,           *)
(* locations, lots, calls and ledger rows.                                 *)
(***************************************************************************)
EXTENDS InventoryTransaction, SequenceTheorems, TLAPS

LedgerRows == [place: Places, type: Types, quantity: Quantities, before: Int, after: Nat]

LEMMA DeltaIsInt ==
    ASSUME NEW type, NEW quantity \in Quantities,
           NEW d, d.type = type, d.quantity = quantity
    PROVE  Delta(d) \in Int
<1>1. quantity \in Int
    BY QuantitiesAssumption
<1>2. Delta(d) = quantity \/ Delta(d) = -1 * quantity
    BY <1>1 DEF Delta, Sign
<1> QED
    BY <1>1, <1>2

LEMMA LockKeyOfCall ==
    ASSUME NEW d \in Dtos
    PROVE  LotOf(d.place) \in LockKeys
BY DEF Dtos, Places, LotOf

(***************************************************************************)
(* A row that does not exist holds nothing, and whoever read it read zero: *)
(* rows are never deleted, so the upsert that creates a row writes the     *)
(* movement it adds.                                                       *)
(***************************************************************************)
AbsentRowsAreEmpty ==
    /\ \A r \in Rows \ existing : onHand[r] = 0
    /\ \A p \in Requests :
         pc[p] = "read" /\ NamesRow(dto[p]) /\ dto[p].place \notin existing
            => before[p] = 0

StockInv == TypeOK /\ AbsentRowsAreEmpty

(* What a commit does to the row it names. *)
LEMMA CommitMoves ==
    ASSUME StockInv, NEW p \in Requests, Commit(p)
    PROVE  /\ dto[p] \in Dtos /\ Delta(dto[p]) \in Int
           /\ LedgerRow(p) \in LedgerRows
           /\ NamesRow(dto[p]) => Promise!Move(dto[p].place, MovementOf(dto[p]))
           /\ ~NamesRow(dto[p]) => UNCHANGED <<onHand, existing>>
<1>1. dto[p] \in Dtos
    BY DEF Commit, StockInv, TypeOK
<1>2. before[p] \in Int /\ Delta(dto[p]) \in Int
    BY <1>1, DeltaIsInt DEF StockInv, TypeOK, Dtos
<1>3. LedgerRow(p) \in LedgerRows
    <2>1. After(p) \in Nat
        BY <1>2 DEF After, AtLeastZero
    <2>2. QED
        BY <1>1, <1>2, <2>1 DEF LedgerRow, LedgerRows, Dtos
<1>4. NamesRow(dto[p]) => dto[p].place \in Rows /\ onHand[dto[p].place] \in Int
    BY DEF NamesRow, StockInv, TypeOK
<1>5. CASE GuardedUpdate(dto[p])
    <2>1. /\ dto[p].place \in existing /\ existing' = existing \cup {dto[p].place}
          /\ onHand[dto[p].place] >= -Delta(dto[p])
          /\ onHand' = [onHand EXCEPT ![dto[p].place] = @ + Delta(dto[p])]
          /\ NamesRow(dto[p])
        BY <1>5 DEF GuardedUpdate
    <2>2. onHand[dto[p].place] + Delta(dto[p]) >= 0
        BY <1>2, <1>4, <2>1
    <2>3. Promise!Move(dto[p].place, MovementOf(dto[p]))
        BY <2>1, <2>2 DEF Promise!Move, MovementOf
    <2> QED
        BY <1>1, <1>2, <1>3, <2>1, <2>3
<1>6. CASE Upsert(dto[p], After(p))
    <2>1. /\ NamesRow(dto[p]) /\ ~IsGuarded(dto[p])
          /\ existing' = existing \cup {dto[p].place}
          /\ onHand' = [onHand EXCEPT ![dto[p].place] =
                 IF dto[p].place \in existing THEN @ + Delta(dto[p]) ELSE After(p)]
        BY <1>6 DEF Upsert
    <2>2. dto[p].place \notin existing => After(p) = Promise!Opening(Delta(dto[p]))
        <3> SUFFICES ASSUME dto[p].place \notin existing
                     PROVE  After(p) = Promise!Opening(Delta(dto[p]))
            OBVIOUS
        <3>1. before[p] = 0
            BY <2>1 DEF Commit, StockInv, AbsentRowsAreEmpty
        <3>2. After(p) = AtLeastZero(Delta(dto[p]))
            BY <1>2, <2>1, <3>1 DEF After
        <3> QED
            BY <3>2 DEF AtLeastZero, Promise!Opening
    <2>3. Promise!Move(dto[p].place, MovementOf(dto[p]))
        <3>1. CASE dto[p].place \in existing
            BY <2>1, <3>1 DEF Promise!Move, MovementOf
        <3>2. CASE dto[p].place \notin existing
            BY <2>1, <2>2, <3>2 DEF Promise!Move, MovementOf
        <3> QED
            BY <3>1, <3>2
    <2> QED
        BY <1>1, <1>2, <1>3, <2>1, <2>3
<1>7. CASE NoRowChange(dto[p])
    BY <1>1, <1>2, <1>3, <1>7 DEF NoRowChange
<1>8. QED
    BY <1>5, <1>6, <1>7 DEF Commit

(* What such a move leaves of the types. *)
LEMMA CommitTypes ==
    ASSUME StockInv, NEW p \in Requests, Commit(p)
    PROVE  /\ onHand' \in [Rows -> Int]
           /\ existing' \in SUBSET Rows
           /\ existing \subseteq existing'
           /\ NamesRow(dto[p]) => dto[p].place \in existing'
           /\ \A r \in Rows : r # dto[p].place => onHand'[r] = onHand[r]
<1>1. /\ onHand \in [Rows -> Int] /\ existing \in SUBSET Rows
      /\ Delta(dto[p]) \in Int
    BY CommitMoves DEF StockInv, TypeOK
<1>2. CASE NamesRow(dto[p])
    <2>1. Promise!Move(dto[p].place, MovementOf(dto[p])) /\ dto[p].place \in Rows
        BY <1>2, CommitMoves DEF NamesRow
    <2>2. MovementOf(dto[p]).delta = Delta(dto[p])
        BY DEF MovementOf
    <2> QED
        BY <1>1, <2>1, <2>2 DEF Promise!Move, Promise!Opening
<1>3. CASE ~NamesRow(dto[p])
    BY <1>1, <1>3, CommitMoves
<1> QED
    BY <1>2, <1>3

LEMMA StockInvInit == Init => StockInv
<1> SUFFICES ASSUME Init PROVE StockInv
    OBVIOUS
<1>1. TypeOK
    <2>1. ledger \in Seq(LedgerRows)
        BY DEF Init
    <2>2. lapsed \in BOOLEAN
        BY DEF Init
    <2>3. QED
        BY <2>1, <2>2 DEF Init, TypeOK, Stages, LedgerRows
<1>2. AbsentRowsAreEmpty
    BY DEF Init, AbsentRowsAreEmpty
<1>3. QED
    BY <1>1, <1>2 DEF StockInv

(* Steps that leave the stock alone and take no new reading. *)
LEMMA StockUntouched ==
    ASSUME StockInv, UNCHANGED <<onHand, existing>>, NEW p \in Requests,
           \A q \in Requests \ {p} :
              dto'[q] = dto[q] /\ before'[q] = before[q] /\ pc'[q] = pc[q],
           pc'[p] # "read"
    PROVE  AbsentRowsAreEmpty'
<1>1. onHand' = onHand /\ existing' = existing
    OBVIOUS
<1>2. ASSUME NEW q \in Requests, pc'[q] = "read", NamesRow(dto[q])', dto'[q].place \notin existing'
      PROVE  before'[q] = 0
    <2>1. q # p
        BY <1>2
    <2>2. pc[q] = "read" /\ dto'[q] = dto[q] /\ before'[q] = before[q]
        BY <1>2, <2>1
    <2>3. QED
        BY <1>1, <1>2, <2>2 DEF StockInv, AbsentRowsAreEmpty, NamesRow
<1>3. \A r \in Rows \ existing' : onHand'[r] = 0
    BY <1>1 DEF StockInv, AbsentRowsAreEmpty
<1>4. QED
    BY <1>2, <1>3 DEF AbsentRowsAreEmpty

LEMMA StockInvStep == StockInv /\ [Next]_vars => StockInv'
<1> SUFFICES ASSUME StockInv, [Next]_vars PROVE StockInv'
    OBVIOUS
<1> USE DEF StockInv
<1>1. CASE UNCHANGED vars
    BY <1>1 DEF vars, stock, TypeOK, AbsentRowsAreEmpty, NamesRow
<1>2. ASSUME NEW p \in Requests, Acquire(p) PROVE StockInv'
    <2>1. PICK d \in Calls : /\ lock' = [lock EXCEPT ![LotOf(d.place)] = p]
                             /\ dto' = [dto EXCEPT ![p] = d]
        BY <1>2 DEF Acquire
    <2>2. d \in Dtos
        BY CallsAssumption
    <2>3. TypeOK'
        BY <1>2, <2>1, <2>2, LockKeyOfCall DEF Acquire, TypeOK, stock, Stages
    <2>4. AbsentRowsAreEmpty'
        BY <1>2, <2>1, StockUntouched DEF Acquire, TypeOK, stock
    <2>5. QED
        BY <2>3, <2>4
<1>3. ASSUME NEW p \in Requests, Read(p) PROVE StockInv'
    <2>1. before'[p] \in Int
        BY <1>3 DEF Read, TypeOK, NamesRow
    <2>2. TypeOK'
        BY <1>3, <2>1 DEF Read, TypeOK, stock, Stages
    <2>3. AbsentRowsAreEmpty'
        BY <1>3 DEF Read, TypeOK, stock, AbsentRowsAreEmpty, NamesRow
    <2>4. QED
        BY <2>2, <2>3
<1>4. ASSUME NEW p \in Requests, Commit(p) PROVE StockInv'
    <2>1. /\ LedgerRow(p) \in LedgerRows
          /\ onHand' \in [Rows -> Int]
          /\ existing' \in SUBSET Rows
        BY <1>4, CommitMoves, CommitTypes
    <2>2. ledger' \in Seq(LedgerRows)
        BY <1>4, <2>1 DEF Commit, TypeOK, LedgerRows
    <2>3. TypeOK'
        BY <1>4, <2>1, <2>2 DEF Commit, TypeOK, Stages, LedgerRows
    <2>4. \A r \in Rows \ existing' : r \in Rows \ existing /\ onHand'[r] = onHand[r]
        <3>1. ASSUME NEW r \in Rows, r \notin existing', r = dto[p].place PROVE FALSE
            BY <1>4, <3>1, CommitTypes DEF NamesRow
        <3>2. QED
            BY <1>4, <3>1, CommitTypes
    <2>5. AbsentRowsAreEmpty'
        BY <1>4, <2>4, CommitTypes DEF Commit, AbsentRowsAreEmpty, TypeOK, NamesRow
    <2>6. QED
        BY <2>3, <2>5
<1>5. ASSUME NEW p \in Requests, Insufficient(p) \/ Rollback(p) PROVE StockInv'
    <2>1. TypeOK'
        BY <1>5 DEF Insufficient, Rollback, TypeOK, stock, Stages
    <2>2. AbsentRowsAreEmpty'
        BY <1>5, StockUntouched DEF Insufficient, Rollback, TypeOK, stock
    <2>3. QED
        BY <2>1, <2>2
<1>6. ASSUME NEW p \in Requests, Release(p) \/ Abandon(p) PROVE StockInv'
    <2>1. TypeOK'
        <3>1. lock' \in [LockKeys -> Requests \cup {NoRequest}]
            BY <1>6 DEF Release, Abandon, TypeOK
        <3>2. Forget(p) /\ UNCHANGED <<onHand, existing, ledger, lapsed>>
            BY <1>6 DEF Release, Abandon, stock
        <3>3. QED
            BY <3>1, <3>2 DEF Forget, TypeOK, Stages
    <2>2. AbsentRowsAreEmpty'
        BY <1>6, StockUntouched DEF Release, Abandon, Forget, TypeOK, stock
    <2>3. QED
        BY <2>1, <2>2
<1>7. ASSUME NEW k \in LockKeys, Expire(k) PROVE StockInv'
    <2>1. lapsed' \in BOOLEAN
        BY <1>7, Zenon DEF Expire, TypeOK
    <2>2. TypeOK'
        BY <1>7, <2>1 DEF Expire, TypeOK, stock
    <2>3. AbsentRowsAreEmpty'
        BY <1>7 DEF Expire, stock, AbsentRowsAreEmpty, NamesRow
    <2>4. QED
        BY <2>2, <2>3
<1>8. QED
    BY <1>1, <1>2, <1>3, <1>4, <1>5, <1>6, <1>7 DEF Next, Step

LEMMA StockInvariant == Spec => []StockInv
BY StockInvInit, StockInvStep, PTL DEF Spec

(* The engine's tables keep their types, and no entry quotes a balance after *)
(* it below zero, for any number of requests and however their locks lapse.  *)
THEOREM TypeCorrect == Spec => []TypeOK
<1>1. StockInv => TypeOK
    BY DEF StockInv
<1>2. QED
    BY <1>1, StockInvariant, PTL

(***************************************************************************)
(* Every step maps to a posting of StockLedger or to a stutter.            *)
(***************************************************************************)
LEMMA EntriesGrow ==
    ASSUME ledger \in Seq(LedgerRows), NEW row \in LedgerRows,
           ledger' = Append(ledger, row)
    PROVE  Entries' = Append(Entries, Entry(row))
<1> DEFINE All == [place: Places, movement: {MovementOf(d) : d \in LedgerRows}]
<1>1. /\ Len(ledger) \in Nat /\ Len(ledger') = Len(ledger) + 1
      /\ ledger'[Len(ledger) + 1] = row
      /\ \A i \in 1 .. Len(ledger) : ledger'[i] = ledger[i] /\ ledger[i] \in LedgerRows
    BY AppendProperties
<1>2. ASSUME NEW e \in LedgerRows PROVE Entry(e) \in All
    BY DEF Entry, LedgerRows
<1> HIDE DEF All
<1>3. \A i \in 1 .. Len(ledger) : Entry(ledger[i]) \in All
    BY <1>1, <1>2
<1>4. Entries \in Seq(All) /\ Len(Entries) = Len(ledger)
    BY <1>1, <1>3 DEF Entries
<1>5. Entry(row) \in All
    BY <1>2
<1> DEFINE grown == Append(Entries, Entry(row))
<1>6. /\ grown \in Seq(All)
      /\ Len(grown) = Len(ledger) + 1
      /\ \A i \in 1 .. Len(ledger) : grown[i] = Entries[i]
      /\ grown[Len(ledger) + 1] = Entry(row)
    BY <1>4, <1>5, AppendProperties
<1> HIDE DEF grown
<1>7. grown = [i \in 1 .. Len(ledger) + 1 |-> grown[i]]
    BY <1>6
<1>8. Entries' = [i \in 1 .. Len(ledger) + 1 |-> Entry(ledger'[i])]
    BY <1>1 DEF Entries, Entry, MovementOf, Delta, IsGuarded
<1>9. \A i \in 1 .. Len(ledger) + 1 : Entry(ledger'[i]) = grown[i]
    <2>1. TAKE i \in 1 .. Len(ledger) + 1
    <2>2. CASE i = Len(ledger) + 1
        BY <1>1, <1>6, <2>2
    <2>3. CASE i \in 1 .. Len(ledger)
        <3>1. ledger'[i] = ledger[i] /\ grown[i] = Entries[i]
            BY <1>1, <1>6, <2>3
        <3>2. Entries[i] = Entry(ledger[i])
            BY <2>3 DEF Entries
        <3> QED
            BY <3>1, <3>2
    <2>4. QED
        BY <1>1, <2>2, <2>3
<1>10. Entries' = grown
    BY <1>7, <1>8, <1>9
<1> QED
    BY <1>10 DEF grown

LEMMA CommitPosts ==
    ASSUME StockInv, NEW p \in Requests, Commit(p)
    PROVE  Promise!Post(dto[p].place, MovementOf(dto[p]))
<1>1. IF dto[p].place \in Rows THEN Promise!Move(dto[p].place, MovementOf(dto[p]))
                               ELSE Promise!Note
    BY CommitMoves DEF NamesRow, Promise!Note
<1>2. Entries' = Append(Entries, [place |-> dto[p].place, movement |-> MovementOf(dto[p])])
    <2>1. Entry(LedgerRow(p)) = [place |-> dto[p].place, movement |-> MovementOf(dto[p])]
        BY DEF Entry, LedgerRow, MovementOf, Delta, IsGuarded
    <2>2. ledger \in Seq(LedgerRows) /\ ledger' = Append(ledger, LedgerRow(p))
        BY DEF StockInv, TypeOK, LedgerRows, Commit
    <2>3. LedgerRow(p) \in LedgerRows
        BY CommitMoves
    <2>4. QED
        BY <2>1, <2>2, <2>3, EntriesGrow
<1>3. QED
    BY <1>1, <1>2 DEF Promise!Post

LEMMA StepPosts ==
    StockInv /\ [Next]_vars => [Promise!Next]_(Promise!ledgerVars)
<1> SUFFICES ASSUME StockInv, [Next]_vars
             PROVE  Promise!Next \/ UNCHANGED <<onHand, existing, ledger>>
    BY DEF Promise!ledgerVars, Entries, Entry, MovementOf, Delta, IsGuarded
<1>1. CASE UNCHANGED vars
    BY <1>1 DEF vars, stock
<1>2. ASSUME NEW p \in Requests, Commit(p) PROVE Promise!Next
    <2>1. dto[p] \in Dtos
        BY <1>2, CommitMoves
    <2>2. MovementOf(dto[p]) \in Movements
        <3> PICK d : d = [type |-> dto[p].type, quantity |-> dto[p].quantity]
            OBVIOUS
        <3>1. d \in [type: Types, quantity: Quantities]
            BY <2>1 DEF Dtos
        <3>2. MovementOf(d) = MovementOf(dto[p])
            BY DEF MovementOf, Delta, IsGuarded
        <3> QED
            BY <3>1, <3>2 DEF Movements
    <2>3. dto[p].place \in Places
        BY <2>1 DEF Dtos
    <2>4. QED
        BY <1>2, <2>2, <2>3, CommitPosts DEF Promise!Next
<1>3. ASSUME NEW p \in Requests, Step(p), ~Commit(p)
      PROVE  UNCHANGED <<onHand, existing, ledger>>
    BY <1>3 DEF Step, Acquire, Read, Insufficient, Rollback, Release, Abandon, stock
<1>4. ASSUME NEW k \in LockKeys, Expire(k) PROVE UNCHANGED <<onHand, existing, ledger>>
    BY <1>4 DEF Expire, stock
<1>5. QED
    BY <1>1, <1>2, <1>3, <1>4 DEF Next

(* executeTransaction implements StockLedger: whatever the locks do, stock   *)
(* moves only together with its ledger entry, and the types the code guards  *)
(* never take more than there is.                                            *)
THEOREM StockLedgerImplemented == Spec => ImplementsStockLedger
<1>1. Init => Promise!Init
    BY DEF Init, Promise!Init, Entries
<1>2. QED
    BY <1>1, StockInvariant, StepPosts, PTL DEF Spec, ImplementsStockLedger, Promise!Spec

(***************************************************************************)
(* The account of a row is unbroken while no lock lapses.  The property    *)
(* speaks of the past only; what makes it inductive is that the lock makes *)
(* reader and writer the same request (HoldersLock), so that what a        *)
(* request read is still the balance when it writes (ReadIsCurrent), and   *)
(* that the last entry of a row shows its balance (LastEntryIsBalance).    *)
(***************************************************************************)
HoldersLock ==
    \A p \in Requests : pc[p] # "idle" => lock[LotOf(dto[p].place)] = p

BalanceAt(place) == IF place \in Rows THEN onHand[place] ELSE 0

ReadIsCurrent ==
    \A p \in Requests : pc[p] = "read" => before[p] = BalanceAt(dto[p].place)

LastEntryIsBalance ==
    \A i \in 1 .. Len(ledger) :
        (\A k \in i + 1 .. Len(ledger) : ledger[k].place # ledger[i].place) /\ ~Overdraws(i)
            => ledger[i].after = BalanceAt(ledger[i].place)

UnpostedIsEmpty ==
    \A r \in Rows : (\A i \in 1 .. Len(ledger) : ledger[i].place # r) => onHand[r] = 0

SoFarUnbroken ==
    \A i \in 1 .. Len(ledger) : Continues(i) /\ (RowAddsUp(i) \/ Overdraws(i))

AccountInv ==
    ~lapsed => /\ HoldersLock /\ ReadIsCurrent
               /\ LastEntryIsBalance /\ UnpostedIsEmpty /\ SoFarUnbroken

(* Two requests on one lot are one request. *)
LEMMA OneHolder ==
    ASSUME HoldersLock, NEW p \in Requests, NEW q \in Requests,
           pc[p] # "idle", pc[q] # "idle", LotOf(dto[p].place) = LotOf(dto[q].place)
    PROVE  p = q
BY DEF HoldersLock

(* The entries and the stock stay: so does everything said of them. *)
LEMMA AccountUntouched ==
    ASSUME UNCHANGED <<onHand, ledger>>
    PROVE  /\ LastEntryIsBalance => LastEntryIsBalance'
           /\ UnpostedIsEmpty => UnpostedIsEmpty'
           /\ SoFarUnbroken => SoFarUnbroken'
<1>1. LastEntryIsBalance => LastEntryIsBalance'
    BY DEF LastEntryIsBalance, BalanceAt, Overdraws, NamesRow, IsGuarded, Delta
<1>2. UnpostedIsEmpty => UnpostedIsEmpty'
    BY DEF UnpostedIsEmpty
<1>3. SoFarUnbroken => SoFarUnbroken'
    BY DEF SoFarUnbroken, Continues, PreviousOf, RowAddsUp, Overdraws, NamesRow,
           IsGuarded, Delta
<1>4. QED
    BY <1>1, <1>2, <1>3

(* An unguarded movement of more than there is. *)
Overdrawing(row) ==
    NamesRow(row) /\ ~IsGuarded(row) /\ row.before + Delta(row) < 0

(* The entry a commit adds starts from the balance of its row and, unless it *)
(* overdraws it, ends with the new one.                                      *)
LEMMA CommitAccounts ==
    ASSUME StockInv, ReadIsCurrent, NEW p \in Requests, Commit(p)
    PROVE  /\ LedgerRow(p).place = dto[p].place
           /\ LedgerRow(p).before = BalanceAt(dto[p].place)
           /\ ~Overdrawing(LedgerRow(p)) => LedgerRow(p).after = BalanceAt(dto[p].place)'
           /\ NamesRow(LedgerRow(p)) /\ ~Overdrawing(LedgerRow(p)) =>
                LedgerRow(p).after = LedgerRow(p).before + Delta(LedgerRow(p))
<1>1. /\ LedgerRow(p).place = dto[p].place
      /\ LedgerRow(p).before = before[p]
      /\ LedgerRow(p).after = After(p)
      /\ Delta(LedgerRow(p)) = Delta(dto[p])
      /\ IsGuarded(LedgerRow(p)) = IsGuarded(dto[p])
      /\ NamesRow(LedgerRow(p)) = NamesRow(dto[p])
    BY DEF LedgerRow, Delta, IsGuarded, NamesRow
<1>2. before[p] = BalanceAt(dto[p].place) /\ dto'[p] = dto[p]
    BY DEF ReadIsCurrent, Commit
<1>3. CASE NamesRow(dto[p]) /\ ~Overdrawing(LedgerRow(p))
    <2>1. before[p] = onHand[dto[p].place] /\ dto[p].place \in Rows
        BY <1>2, <1>3 DEF BalanceAt, NamesRow
    <2>2. /\ onHand \in [Rows -> Int] /\ before[p] \in Int /\ Delta(dto[p]) \in Int
          /\ Promise!Move(dto[p].place, MovementOf(dto[p]))
        BY <1>3, CommitMoves DEF StockInv, TypeOK
    <2>3. /\ IsGuarded(dto[p]) =>
              dto[p].place \in existing /\ onHand[dto[p].place] + Delta(dto[p]) >= 0
          /\ onHand' = [onHand EXCEPT ![dto[p].place] =
               IF dto[p].place \in existing THEN @ + Delta(dto[p])
                                            ELSE Promise!Opening(Delta(dto[p]))]
        BY <2>2 DEF Promise!Move, MovementOf
    <2>4. before[p] + Delta(dto[p]) >= 0
        <3>1. CASE IsGuarded(dto[p])
            BY <2>1, <2>3, <3>1
        <3>2. CASE ~IsGuarded(dto[p])
            BY <1>1, <1>3, <2>2, <3>2 DEF Overdrawing
        <3> QED
            BY <3>1, <3>2
    <2>5. After(p) = before[p] + Delta(dto[p])
        BY <1>3, <2>2, <2>4 DEF After, AtLeastZero
    <2>6. onHand'[dto[p].place] = before[p] + Delta(dto[p])
        <3>1. CASE dto[p].place \in existing
            BY <2>1, <2>2, <2>3, <3>1
        <3>2. CASE dto[p].place \notin existing
            <4>1. before[p] = 0
                BY <2>1, <3>2 DEF StockInv, AbsentRowsAreEmpty
            <4>2. onHand'[dto[p].place] = Promise!Opening(Delta(dto[p]))
                BY <2>1, <2>2, <2>3, <3>2
            <4> QED
                BY <2>2, <2>4, <4>1, <4>2 DEF Promise!Opening
        <3> QED
            BY <3>1, <3>2
    <2>7. QED
        BY <1>1, <1>2, <2>1, <2>5, <2>6 DEF BalanceAt
<1>4. CASE NamesRow(dto[p]) /\ Overdrawing(LedgerRow(p))
    BY <1>1, <1>2, <1>4
<1>5. CASE ~NamesRow(dto[p])
    <2>1. After(p) = 0
        BY <1>5 DEF After
    <2>2. QED
        BY <1>1, <1>2, <1>5, <2>1 DEF BalanceAt, NamesRow
<1>6. QED
    BY <1>3, <1>4, <1>5

(* An entry added at the end leaves what was said of the earlier ones.       *)
LEMMA CommitKeepsAccount ==
    ASSUME StockInv, NEW p \in Requests, Commit(p), ReadIsCurrent,
           LastEntryIsBalance, UnpostedIsEmpty, SoFarUnbroken
    PROVE  LastEntryIsBalance' /\ UnpostedIsEmpty' /\ SoFarUnbroken'
<1> DEFINE n == Len(ledger)
           row == LedgerRow(p)
<1>1. /\ n \in Nat /\ Len(ledger') = n + 1 /\ ledger'[n + 1] = row
      /\ \A i \in 1 .. n : ledger'[i] = ledger[i]
    <2>1. ledger \in Seq(LedgerRows) /\ ledger' = Append(ledger, row)
        BY DEF Commit, StockInv, TypeOK, LedgerRows
    <2>2. row \in LedgerRows
        BY CommitMoves
    <2> HIDE DEF row
    <2>3. QED
        BY <2>1, <2>2
<1>2. /\ row.place = dto[p].place
      /\ row.before = BalanceAt(row.place)
      /\ ~Overdrawing(row) =>
            row.after = (IF row.place \in Rows THEN onHand'[row.place] ELSE 0)
      /\ NamesRow(row) /\ ~Overdrawing(row) => row.after = row.before + Delta(row)
    BY CommitAccounts DEF BalanceAt, Commit
<1>3. \A r \in Rows : r # row.place => onHand'[r] = onHand[r]
    BY <1>2, CommitTypes
<1> HIDE DEF n, row
<1>0. /\ \A i \in 1 .. n : Overdraws(i)' <=> Overdraws(i)
      /\ \A i \in {n + 1} : Overdraws(i)' <=> Overdrawing(row)
    BY <1>1 DEF Overdraws, Overdrawing, NamesRow, IsGuarded, Delta
<1>4. LastEntryIsBalance'
    <2> SUFFICES ASSUME NEW i \in 1 .. n + 1,
                        \A k \in i + 1 .. n + 1 : ledger'[k].place # ledger'[i].place,
                        ~Overdraws(i)'
                 PROVE  ledger'[i].after =
                            IF ledger'[i].place \in Rows THEN onHand'[ledger'[i].place] ELSE 0
        BY <1>1 DEF LastEntryIsBalance, BalanceAt
    <2>1. CASE i = n + 1
        BY <1>0, <1>1, <1>2, <2>1
    <2>2. CASE i \in 1 .. n
        <3>1. row.place # ledger[i].place /\ ledger'[i] = ledger[i]
            BY <1>1, <2>2
        <3>2. \A k \in i + 1 .. n : ledger[k].place # ledger[i].place
            BY <1>1, <2>2
        <3>3. ledger[i].after = BalanceAt(ledger[i].place)
            BY <1>0, <2>2, <3>2 DEF LastEntryIsBalance, n
        <3>4. QED
            BY <1>3, <3>1, <3>3 DEF BalanceAt
    <2>3. QED
        BY <1>1, <2>1, <2>2
<1>5. UnpostedIsEmpty'
    <2> SUFFICES ASSUME NEW r \in Rows, \A i \in 1 .. n + 1 : ledger'[i].place # r
                 PROVE  onHand'[r] = 0
        BY <1>1 DEF UnpostedIsEmpty
    <2>1. r # row.place /\ \A i \in 1 .. n : ledger[i].place # r
        BY <1>1
    <2>2. QED
        BY <1>3, <2>1 DEF UnpostedIsEmpty, n
<1>6. SoFarUnbroken'
    <2> SUFFICES ASSUME NEW i \in 1 .. n + 1
                 PROVE  Continues(i)' /\ (RowAddsUp(i)' \/ Overdraws(i)')
        BY <1>1 DEF SoFarUnbroken
    <2>1. CASE i \in 1 .. n
        <3>1. Continues(i) /\ (RowAddsUp(i) \/ Overdraws(i))
            BY <2>1 DEF SoFarUnbroken, n
        <3>2. Continues(i)'
            BY <1>0, <1>1, <2>1, <3>1 DEF Continues, PreviousOf
        <3>3. RowAddsUp(i)' \/ Overdraws(i)'
            <4>1. RowAddsUp(i) => RowAddsUp(i)'
                BY <1>1, <2>1 DEF RowAddsUp, NamesRow, Delta
            <4> QED
                BY <1>0, <2>1, <3>1, <4>1
        <3>4. QED
            BY <3>2, <3>3
    <2>2. CASE i = n + 1
        <3>1. RowAddsUp(i)' \/ Overdraws(i)'
            <4>1. CASE Overdrawing(row)
                BY <1>0, <2>2, <4>1
            <4>2. CASE ~Overdrawing(row)
                BY <1>1, <1>2, <2>2, <4>2 DEF RowAddsUp, NamesRow, Delta
            <4> QED
                BY <4>1, <4>2
        <3>2. ASSUME NEW j \in 1 .. n, PreviousOf(i, j)', ~Overdraws(j)'
              PROVE  row.before = ledger[j].after
            <4>1. ledger[j].place = row.place
                BY <1>1, <2>2, <3>2 DEF PreviousOf
            <4>2. \A k \in j + 1 .. n : ledger[k].place # ledger[j].place
                BY <1>1, <2>2, <3>2, <4>1 DEF PreviousOf
            <4>3. QED
                BY <1>0, <1>2, <3>2, <4>1, <4>2 DEF LastEntryIsBalance, n
        <3>3. ASSUME \A j \in 1 .. n : ledger[j].place # row.place
              PROVE  row.before = 0
            BY <1>2, <3>3 DEF UnpostedIsEmpty, BalanceAt, n
        <3>4. Continues(i)'
            BY <1>1, <2>2, <3>2, <3>3 DEF Continues
        <3>5. QED
            BY <3>1, <3>4
    <2>3. QED
        BY <1>1, <2>1, <2>2
<1>7. QED
    BY <1>4, <1>5, <1>6

LEMMA AccountInvStep == StockInv /\ StockInv' /\ AccountInv /\ [Next]_vars => AccountInv'
<1> SUFFICES ASSUME StockInv, StockInv', AccountInv, [Next]_vars, ~lapsed'
             PROVE  /\ HoldersLock' /\ ReadIsCurrent'
                    /\ LastEntryIsBalance' /\ UnpostedIsEmpty' /\ SoFarUnbroken'
    BY DEF AccountInv
<1> USE DEF StockInv
<1>1. CASE UNCHANGED vars
    <2>1. UNCHANGED <<onHand, ledger, lock, pc, dto, before, lapsed>>
        BY <1>1 DEF vars, stock
    <2>2. HoldersLock' /\ ReadIsCurrent'
        BY <2>1 DEF AccountInv, HoldersLock, ReadIsCurrent, BalanceAt
    <2>3. QED
        BY <2>1, <2>2, AccountUntouched DEF AccountInv
<1>2. ASSUME NEW p \in Requests, Acquire(p)
      PROVE  HoldersLock' /\ ReadIsCurrent' /\ UNCHANGED <<onHand, ledger, lapsed>>
    <2>1. PICK d \in Calls : /\ lock[LotOf(d.place)] = NoRequest
                             /\ lock' = [lock EXCEPT ![LotOf(d.place)] = p]
                             /\ dto' = [dto EXCEPT ![p] = d]
        BY <1>2 DEF Acquire
    <2>2. HoldersLock /\ ReadIsCurrent
        BY <1>2 DEF AccountInv, Acquire
    <2>3. pc[p] = "idle" /\ pc' = [pc EXCEPT ![p] = "locked"]
          /\ UNCHANGED <<onHand, ledger, before, lapsed>>
        BY <1>2 DEF Acquire, stock
    <2>4. d \in Dtos
        BY CallsAssumption
    <2>5. ASSUME NEW q \in Requests, pc'[q] # "idle"
          PROVE  lock'[LotOf(dto'[q].place)] = q
        <3>1. CASE q = p
            BY <2>1, <2>4, <3>1, LockKeyOfCall DEF TypeOK
        <3>2. CASE q # p
            <4>1. lock[LotOf(dto[q].place)] = q /\ dto'[q] = dto[q] /\ q # NoRequest
                BY <2>1, <2>2, <2>3, <2>5, <3>2, BlankAssumption DEF HoldersLock, TypeOK
            <4>2. QED
                BY <2>1, <4>1 DEF TypeOK
        <3>3. QED
            BY <3>1, <3>2
    <2>6. ReadIsCurrent'
        BY <2>1, <2>2, <2>3 DEF ReadIsCurrent, BalanceAt, TypeOK
    <2>7. QED
        BY <2>3, <2>5, <2>6 DEF HoldersLock
<1>3. ASSUME NEW p \in Requests, Read(p)
      PROVE  HoldersLock' /\ ReadIsCurrent' /\ UNCHANGED <<onHand, ledger, lapsed>>
    <2>1. HoldersLock /\ ReadIsCurrent
        BY <1>3 DEF AccountInv, Read
    <2>2. HoldersLock'
        BY <1>3, <2>1 DEF Read, HoldersLock, TypeOK
    <2>3. ReadIsCurrent'
        BY <1>3, <2>1 DEF Read, ReadIsCurrent, BalanceAt, NamesRow, TypeOK, stock
    <2>4. QED
        BY <1>3, <2>2, <2>3 DEF Read, stock
<1>4. ASSUME NEW p \in Requests, Commit(p)
      PROVE  /\ HoldersLock' /\ ReadIsCurrent'
             /\ LastEntryIsBalance' /\ UnpostedIsEmpty' /\ SoFarUnbroken'
    <2>1. /\ HoldersLock /\ ReadIsCurrent
          /\ LastEntryIsBalance /\ UnpostedIsEmpty /\ SoFarUnbroken
        BY <1>4 DEF AccountInv, Commit
    <2>2. HoldersLock'
        BY <1>4, <2>1 DEF Commit, HoldersLock, TypeOK
    <2>3. ASSUME NEW q \in Requests, pc'[q] = "read"
          PROVE  before'[q] = BalanceAt(dto[q].place)'
        <3>1. q # p /\ pc[q] = "read" /\ pc[p] = "read"
            BY <1>4, <2>3 DEF Commit, TypeOK
        <3>2. dto[q].place # dto[p].place
            BY <2>1, <3>1, OneHolder
        <3>3. BalanceAt(dto[q].place)' = BalanceAt(dto[q].place)
            BY <1>4, <3>2, CommitTypes DEF BalanceAt, Commit, TypeOK
        <3>4. QED
            BY <1>4, <2>1, <3>1, <3>3 DEF ReadIsCurrent, Commit
    <2>4. QED
        BY <1>4, <2>1, <2>2, <2>3, CommitKeepsAccount DEF ReadIsCurrent
<1>5. ASSUME NEW p \in Requests, Insufficient(p) \/ Rollback(p)
      PROVE  HoldersLock' /\ ReadIsCurrent' /\ UNCHANGED <<onHand, ledger, lapsed>>
    <2>1. /\ pc[p] # "idle" /\ pc' = [pc EXCEPT ![p] = "releasing"]
          /\ UNCHANGED <<onHand, ledger, lock, dto, before, lapsed>>
        BY <1>5 DEF Insufficient, Rollback, stock
    <2>2. HoldersLock'
        BY <2>1 DEF AccountInv, HoldersLock, TypeOK
    <2>3. ReadIsCurrent'
        BY <2>1 DEF AccountInv, ReadIsCurrent, BalanceAt, TypeOK
    <2>4. QED
        BY <2>1, <2>2, <2>3
<1>6. ASSUME NEW p \in Requests, Release(p) \/ Abandon(p)
      PROVE  HoldersLock' /\ ReadIsCurrent' /\ UNCHANGED <<onHand, ledger, lapsed>>
    <2>1. /\ pc[p] # "idle" /\ Forget(p)
          /\ UNCHANGED <<onHand, ledger, lapsed>>
        BY <1>6 DEF Release, Abandon, stock
    <2>2. \A q \in Requests : pc'[q] # "idle" => q # p /\ pc'[q] = pc[q] /\ dto'[q] = dto[q]
                                                  /\ before'[q] = before[q]
        BY <2>1 DEF Forget, TypeOK
    <2>3. HoldersLock /\ ReadIsCurrent
        BY <2>1 DEF AccountInv
    <2>4. ASSUME NEW q \in Requests, pc'[q] # "idle"
          PROVE  lock'[LotOf(dto'[q].place)] = q
        <3>1. lock[LotOf(dto[q].place)] = q /\ q # p /\ dto'[q] = dto[q]
            BY <2>2, <2>3, <2>4 DEF HoldersLock
        <3>2. LotOf(dto[q].place) # LotOf(dto[p].place)
            BY <2>1, <2>2, <2>3, <2>4, <3>1, OneHolder
        <3>3. LotOf(dto[q].place) \in LockKeys
            BY <2>2, <2>4, LockKeyOfCall DEF TypeOK
        <3>4. lock'[LotOf(dto[q].place)] = lock[LotOf(dto[q].place)]
            BY <1>6, <3>2, <3>3 DEF Release, Abandon, TypeOK
        <3>5. QED
            BY <3>1, <3>4
    <2>5. ReadIsCurrent'
        BY <2>1, <2>2, <2>3 DEF ReadIsCurrent, BalanceAt
    <2>6. QED
        BY <2>1, <2>4, <2>5 DEF HoldersLock
<1>7. ASSUME NEW k \in LockKeys, Expire(k)
      PROVE  HoldersLock' /\ ReadIsCurrent' /\ UNCHANGED <<onHand, ledger, lapsed>>
    <2>1. /\ ~lapsed
          /\ ~(pc[lock[k]] # "idle" /\ LotOf(dto[lock[k]].place) = k)
          /\ UNCHANGED <<onHand, ledger, pc, dto, before>>
        BY <1>7 DEF Expire, stock
    <2>2. HoldersLock'
        BY <1>7, <2>1 DEF AccountInv, HoldersLock, Expire, TypeOK
    <2>3. ReadIsCurrent'
        BY <2>1 DEF AccountInv, ReadIsCurrent, BalanceAt
    <2>4. QED
        BY <1>7, <2>1, <2>2, <2>3 DEF TypeOK
<1>8. QED
    <2>1. CASE UNCHANGED <<onHand, ledger, lapsed>>
        BY <1>1, <1>2, <1>3, <1>4, <1>5, <1>6, <1>7, <2>1, AccountUntouched
           DEF Next, Step, AccountInv
    <2>2. QED
        BY <1>1, <1>2, <1>3, <1>4, <1>5, <1>6, <1>7, <2>1 DEF Next, Step

(* As long as no lock ran out under its holder, the ledger rows of one       *)
(* location and lot form an unbroken account, but for unguarded movements of *)
(* more than there is, for any number of requests.                           *)
THEOREM AccountUnbroken == Spec => []UnbrokenAccount
<1>1. Init => AccountInv
    BY DEF Init, AccountInv, HoldersLock, ReadIsCurrent, LastEntryIsBalance,
           UnpostedIsEmpty, SoFarUnbroken
<1>2. AccountInv => UnbrokenAccount
    BY DEF AccountInv, SoFarUnbroken, UnbrokenAccount
<1>3. QED
    BY <1>1, <1>2, StockInvariant, AccountInvStep, PTL DEF Spec
================================================================================
