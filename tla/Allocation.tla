------------------------------- MODULE Allocation -------------------------------
(***************************************************************************)
(* Allocation of the stock of one product in one facility to sales orders: *)
(* AllocationService (src/src/outbound/allocation.service.ts), the         *)
(* allocation-engine jobs that call it, and the nightly job that cancels   *)
(* expired soft allocations (reconcile-allocations.processor.ts).          *)
(*                                                                         *)
(* Three kinds of actor work on the same rows, on any node, with no lock   *)
(* between them: a job per order (soft allocation, then hard allocation    *)
(* when the job asks for it), the cron of every node, and the desks from   *)
(* which supervisors override or release an allocation.  Every await is a  *)
(* point where another actor may run; a database transaction whose writes  *)
(* are relative is one step, but what it read before may be stale.         *)
(*                                                                         *)
(* Stock on hand and reservations do not move here: they are constants.    *)
(* The rules that order and filter the candidate rows are a choice.        *)
(*                                                                         *)
(* The stock query joins transfer lines on their location_id.  The         *)
(* repository's schema and migrations give inventory_transfer_lines no     *)
(* such column, so on the database they build the query throws, and every  *)
(* attempt of a job ends where it would read the stock (StockQueryRuns     *)
(* FALSE).  The runs take a database that has it.                          *)
(*                                                                         *)
(* AvailableToReservations, CreateWholeOffer, CountWithoutSubtracting,     *)
(* FinishEveryLine, NotYetExpired and CancelKeepingCount are defective     *)
(* variants of definitions that follow them.                               *)
(***************************************************************************)
EXTENDS Integers, Sequences, FiniteSets

CONSTANTS
    Orders, Lines, OrderOf,    \* sales orders, their lines, the order of a line
    Requested,                 \* requestedQuantity of a line
    HardOrders,                \* orders whose job has hardAllocate set
    Locations, Lots,
    OnHand, Reserved,          \* quantityOnHand and quantityReserved of a row
    Filters,                   \* sets of locations a matched rule may restrict to
    StockQueryRuns,            \* whether the database has the column it joins on
    Nodes,                     \* nodes that run the cron
    Desks,                     \* supervisors working at once
    MaxAttempts,               \* attempts of a job (BullMQ: 3)
    MaxAllocs,                 \* bound: allocations that may be created
    MaxCalls,                  \* bound: calls made from the desks
    NoLine, NoRow, NoCopy      \* nothing

Rows == Locations \X Lots
LocationOf(row) == row[1]
LinesOf(o) == {l \in Lines : OrderOf[l] = o}

ASSUME OrderAssumption == OrderOf \in [Lines -> Orders] /\ HardOrders \subseteq Orders
ASSUME QuantityAssumption ==
    /\ Requested \in [Lines -> Nat \ {0}]
    /\ OnHand \in [Rows -> Nat]
    /\ Reserved \in [Rows -> Nat]
ASSUME FilterAssumption == Filters \subseteq SUBSET Locations
ASSUME StockQueryAssumption == StockQueryRuns \in BOOLEAN
ASSUME BoundAssumption == MaxAttempts \in Nat \ {0} /\ MaxAllocs \in Nat /\ MaxCalls \in Nat
ASSUME NothingAssumption ==
    NoLine \notin Lines /\ NoRow \notin Rows /\ NoCopy \notin [id: Nat, row: Rows, quantity: Nat]

VARIABLES
    allocs,       \* inventory_allocations, by id
    allocated,    \* inventory_on_hand.quantity_allocated
    lineStatus,   \* sales_order_lines.status, CREATED or ALLOCATED here
    orderStatus,  \* sales_orders.status, VALIDATED or ALLOCATED here
    posted,       \* stock that ADJUSTMENT_INCREASE ledger rows say has come in
    overdue,      \* allocations whose expiresAt has passed
    job,          \* the allocation-engine job of every order
    cron,         \* expired allocations a node has still to release
    desk,         \* what every supervisor is doing
    calls,        \* calls made from the desks so far
    substituted,  \* history: rows an override has moved an allocation to
    disturbed     \* history: see Quiet, Overlaps and the actions that set it

tables == <<allocs, allocated, lineStatus, orderStatus, posted>>
vars == <<allocs, allocated, lineStatus, orderStatus, posted, overdue,
          job, cron, desk, calls, substituted, disturbed>>

--------------------------------------------------------------------------------
Statuses == {"SOFT", "HARD_ALLOCATED", "CANCELLED"}
Active == {"SOFT", "HARD_ALLOCATED"}

AllocIds == 1 .. MaxAllocs
Ids == 1 .. Len(allocs)

(* A row of inventory_allocations as somebody read it. *)
Copies == [id: AllocIds, row: Rows, quantity: Nat]
CopyOf(a) == [id |-> a, row |-> allocs[a].row, quantity |-> allocs[a].quantity]

(* A row of the stock query, and what soft allocation takes of it. *)
Offers == [row: Rows, available: Nat]

AvailableToReservations(row) == OnHand[row] - Reserved[row]

Available(row) == OnHand[row] - allocated[row] - Reserved[row]

Smaller(m, n) == IF m < n THEN m ELSE n

(* updateMany by location and product: every lot there is decremented. *)
Decremented(row, quantity) ==
    [r \in Rows |-> IF LocationOf(r) = LocationOf(row)
                    THEN allocated[r] - quantity ELSE allocated[r]]

JobStages == {"waiting", "lines", "stock", "counting", "soft_done", "hard",
              "locking", "done", "failed"}
Working == JobStages \ {"waiting", "done", "failed"}

IdleDesk == [stage |-> "idle", copy |-> NoCopy, substitute |-> NoRow]
NewJob == [stage |-> "waiting", attempts |-> 0, lines |-> {}, line |-> NoLine,
           remaining |-> 0, offers |-> {}, copies |-> {}, current |-> NoCopy]

Quiet == /\ \A o \in Orders : job[o].stage \notin Working
         /\ \A n \in Nodes : cron[n] = {}
         /\ \A d \in Desks : desk[d].stage = "idle"

(* An operation starts: the history notes whether another one is under way. *)
Overlaps == disturbed' = (disturbed \/ ~Quiet)

Init ==
    /\ allocs = << >>
    /\ allocated = [r \in Rows |-> 0]
    /\ lineStatus = [l \in Lines |-> "CREATED"]
    /\ orderStatus = [o \in Orders |-> "VALIDATED"]
    /\ posted = [r \in Rows |-> 0]
    /\ overdue = {}
    /\ job = [o \in Orders |-> NewJob]
    /\ cron = [n \in Nodes |-> {}]
    /\ desk = [d \in Desks |-> IdleDesk]
    /\ calls = 0
    /\ substituted = {}
    /\ disturbed = FALSE
--------------------------------------------------------------------------------
(* softAllocate *)

(* An attempt reads the order with its lines. Lines that are ALLOCATED are   *)
(* taken again.                                                              *)
Start(o) ==
    /\ job[o].stage = "waiting"
    /\ job' = [job EXCEPT ![o] = [NewJob EXCEPT
                 !.stage = "lines", !.attempts = job[o].attempts + 1,
                 !.lines = {l \in LinesOf(o) : lineStatus[l] \in {"ALLOCATED", "CREATED"}}]]
    /\ Overlaps
    /\ UNCHANGED <<tables, overdue, cron, desk, calls, substituted>>

(* The stock query of the next line: rows with something available, but for  *)
(* those that a rule or a transfer in transit leaves out.  Where it throws,  *)
(* what follows is Interrupt.                                                *)
ReadStock(o) ==
    /\ job[o].stage = "lines"
    /\ StockQueryRuns
    /\ \E l \in job[o].lines, locations \in Filters :
          job' = [job EXCEPT
            ![o].stage = "stock", ![o].lines = @ \ {l}, ![o].line = l,
            ![o].remaining = Requested[l],
            ![o].offers = {[row |-> r, available |-> Available(r)] :
                r \in {r \in Rows : LocationOf(r) \in locations /\ Available(r) > 0}}]
    /\ UNCHANGED <<tables, overdue, cron, desk, calls, substituted, disturbed>>

SoftAllocation(o, row, quantity) ==
    [row |-> row, quantity |-> quantity, status |-> "SOFT", line |-> job[o].line]

CreateWholeOffer(o) ==
    /\ job[o].stage = "stock"
    /\ job[o].remaining > 0
    /\ Len(allocs) < MaxAllocs
    /\ \E offer \in job[o].offers :
          /\ allocs' = Append(allocs, SoftAllocation(o, offer.row, offer.available))
          /\ job' = [job EXCEPT
                ![o].stage = "counting", ![o].offers = @ \ {offer},
                ![o].current = [id |-> Len(allocs) + 1, row |-> offer.row,
                                quantity |-> offer.available]]
    /\ UNCHANGED <<allocated, lineStatus, orderStatus, posted, overdue, cron, desk,
                    calls, substituted, disturbed>>

(* Take what an offer had when it was read, or what the line still misses.   *)
CreateAllocation(o) ==
    /\ job[o].stage = "stock"
    /\ job[o].remaining > 0
    /\ Len(allocs) < MaxAllocs
    /\ \E offer \in job[o].offers :
          LET take == Smaller(offer.available, job[o].remaining)
          IN  /\ allocs' = Append(allocs, SoftAllocation(o, offer.row, take))
              /\ job' = [job EXCEPT
                   ![o].stage = "counting", ![o].offers = @ \ {offer},
                   ![o].current = [id |-> Len(allocs) + 1, row |-> offer.row, quantity |-> take]]
    /\ UNCHANGED <<allocated, lineStatus, orderStatus, posted, overdue, cron, desk,
                    calls, substituted, disturbed>>

CountWithoutSubtracting(o) ==
    /\ job[o].stage = "counting"
    /\ allocated' = [allocated EXCEPT ![job[o].current.row] = @ + job[o].current.quantity]
    /\ job' = [job EXCEPT ![o].stage = "stock", ![o].current = NoCopy]
    /\ UNCHANGED <<allocs, lineStatus, orderStatus, posted, overdue, cron, desk,
                    calls, substituted, disturbed>>

(* quantityAllocated of the row is incremented by it. *)
CountAllocation(o) ==
    /\ job[o].stage = "counting"
    /\ LET taken == job[o].current
       IN  /\ allocated' = [allocated EXCEPT ![taken.row] = @ + taken.quantity]
           /\ job' = [job EXCEPT ![o].stage = "stock", ![o].current = NoCopy,
                                 ![o].remaining = @ - taken.quantity]
    /\ UNCHANGED <<allocs, lineStatus, orderStatus, posted, overdue, cron, desk,
                    calls, substituted, disturbed>>

FinishEveryLine(o) ==
    /\ job[o].stage = "stock"
    /\ job[o].remaining <= 0 \/ job[o].offers = {}
    /\ lineStatus' = [lineStatus EXCEPT ![job[o].line] = "ALLOCATED"]
    /\ job' = [job EXCEPT ![o].stage = "lines", ![o].offers = {}, ![o].line = NoLine,
                          ![o].remaining = 0]
    /\ UNCHANGED <<allocs, allocated, orderStatus, posted, overdue, cron, desk, calls,
                    substituted, disturbed>>

(* The line is ALLOCATED when nothing remains, and left as it was when the   *)
(* offers run out.                                                           *)
FinishLine(o) ==
    /\ job[o].stage = "stock"
    /\ job[o].remaining <= 0 \/ job[o].offers = {}
    /\ lineStatus' = IF job[o].remaining <= 0
                     THEN [lineStatus EXCEPT ![job[o].line] = "ALLOCATED"] ELSE lineStatus
    /\ job' = [job EXCEPT ![o].stage = "lines", ![o].offers = {}, ![o].line = NoLine,
                          ![o].remaining = 0]
    /\ UNCHANGED <<allocs, allocated, orderStatus, posted, overdue, cron, desk, calls,
                    substituted, disturbed>>

(* syncOrderStatus. *)
SyncOrderStatus(o) ==
    /\ job[o].stage = "lines" /\ job[o].lines = {}
    /\ orderStatus' = IF \A l \in LinesOf(o) : lineStatus[l] = "ALLOCATED"
                      THEN [orderStatus EXCEPT ![o] = "ALLOCATED"] ELSE orderStatus
    /\ job' = [job EXCEPT ![o].stage = IF o \in HardOrders THEN "soft_done" ELSE "done"]
    /\ UNCHANGED <<allocs, allocated, lineStatus, posted, overdue, cron, desk, calls,
                    substituted, disturbed>>

--------------------------------------------------------------------------------
(* hardAllocate *)

SoftOf(o) == {a \in Ids : allocs[a].status = "SOFT" /\ OrderOf[allocs[a].line] = o}

ReadSoft(o) ==
    /\ job[o].stage = "soft_done"
    /\ job' = [job EXCEPT ![o].stage = "hard", ![o].copies = {CopyOf(a) : a \in SoftOf(o)}]
    /\ UNCHANGED <<tables, overdue, cron, desk, calls, substituted, disturbed>>

(* The row must have as much available again as the allocation already       *)
(* counts on it.                                                             *)
CheckStock(o) ==
    /\ job[o].stage = "hard"
    /\ \E copy \in job[o].copies :
          /\ Available(copy.row) >= copy.quantity
          /\ job' = [job EXCEPT ![o].stage = "locking", ![o].current = copy,
                                ![o].copies = @ \ {copy}]
    /\ UNCHANGED <<tables, overdue, cron, desk, calls, substituted, disturbed>>

(* The update asks for the id only, not for the status that was read. *)
HardLock(o) ==
    /\ job[o].stage = "locking"
    /\ allocs' = [allocs EXCEPT ![job[o].current.id].status = "HARD_ALLOCATED"]
    /\ job' = [job EXCEPT ![o].stage = "hard", ![o].current = NoCopy]
    /\ UNCHANGED <<allocated, lineStatus, orderStatus, posted, overdue, cron, desk,
                    calls, substituted, disturbed>>

Finish(o) ==
    /\ job[o].stage = "hard" /\ job[o].copies = {}
    /\ job' = [job EXCEPT ![o].stage = "done"]
    /\ UNCHANGED <<tables, overdue, cron, desk, calls, substituted, disturbed>>

--------------------------------------------------------------------------------
(* The attempt ends early: hardAllocate found too little, or the database,   *)
(* the connection or the process failed.  BullMQ runs the job again, from    *)
(* the start, until its attempts are used up.                                *)
EndAttempt(o) ==
    job' = [job EXCEPT ![o] = [NewJob EXCEPT
              !.attempts = job[o].attempts,
              !.stage = IF job[o].attempts < MaxAttempts THEN "waiting" ELSE "failed"]]

InsufficientStock(o) ==
    /\ job[o].stage = "hard"
    /\ \E copy \in job[o].copies : Available(copy.row) < copy.quantity
    /\ EndAttempt(o)
    /\ UNCHANGED <<tables, overdue, cron, desk, calls, substituted, disturbed>>

Interrupt(o) ==
    /\ job[o].stage \in Working
    /\ EndAttempt(o)
    /\ disturbed' = (disturbed \/ job[o].stage = "counting")
    /\ UNCHANGED <<tables, overdue, cron, desk, calls, substituted>>
--------------------------------------------------------------------------------
(* ReconcileAllocationsProcessor *)

(* 24 hours have passed since the allocation was created. *)
Elapse(a) ==
    /\ a \in Ids \ overdue
    /\ overdue' = overdue \cup {a}
    /\ UNCHANGED <<tables, job, cron, desk, calls, substituted, disturbed>>

NotYetExpired == {a \in Ids \ overdue : allocs[a].status = "SOFT"}

Expired == {a \in Ids \cap overdue : allocs[a].status = "SOFT"}

(* A node's cron, or a trigger-reconciliation job, reads what has expired. *)
StartReconciliation(n) ==
    /\ cron[n] = {}
    /\ Expired # {}
    /\ cron' = [cron EXCEPT ![n] = {CopyOf(a) : a \in Expired}]
    /\ Overlaps
    /\ UNCHANGED <<tables, overdue, job, desk, calls, substituted>>

CancelKeepingCount(n, copy) ==
    /\ copy \in cron[n]
    /\ allocs' = [allocs EXCEPT ![copy.id].status = "CANCELLED"]
    /\ posted' = [posted EXCEPT ![copy.row] = @ + copy.quantity]
    /\ cron' = [cron EXCEPT ![n] = @ \ {copy}]
    /\ UNCHANGED <<allocated, lineStatus, orderStatus, overdue, job, desk, calls,
                    substituted, disturbed>>

(* One transaction per allocation: it is CANCELLED whatever it has become,   *)
(* the location it was read at is decremented, and the ledger is told that   *)
(* the quantity came in.                                                     *)
CancelExpired(n, copy) ==
    /\ copy \in cron[n]
    /\ allocs' = [allocs EXCEPT ![copy.id].status = "CANCELLED"]
    /\ allocated' = Decremented(copy.row, copy.quantity)
    /\ posted' = [posted EXCEPT ![copy.row] = @ + copy.quantity]
    /\ cron' = [cron EXCEPT ![n] = @ \ {copy}]
    /\ UNCHANGED <<lineStatus, orderStatus, overdue, job, desk, calls, substituted, disturbed>>

(* The transaction fails; the error is logged and the next one is tried. *)
SkipExpired(n, copy) ==
    /\ copy \in cron[n]
    /\ cron' = [cron EXCEPT ![n] = @ \ {copy}]
    /\ UNCHANGED <<tables, overdue, job, desk, calls, substituted, disturbed>>

--------------------------------------------------------------------------------
(* overrideAllocation and releaseAllocation, called from a desk *)

(* Both start by reading the allocation, whatever its status is. *)
Call(d, stage, a, substitute) ==
    /\ desk[d].stage = "idle"
    /\ calls < MaxCalls
    /\ calls' = calls + 1
    /\ desk' = [desk EXCEPT ![d] = [stage |-> stage, copy |-> CopyOf(a), substitute |-> substitute]]
    /\ disturbed' = (disturbed \/ ~Quiet \/ allocs[a].status = "CANCELLED")
    /\ UNCHANGED <<tables, overdue, job, cron, substituted>>

StartOverride(d) == \E a \in Ids, row \in Rows : Call(d, "override", a, row)

StartRelease(d) == \E a \in Ids : Call(d, "release", a, NoRow)

(* What the transaction sees of the substitute row: its own decrement, which *)
(* nobody else sees before the commit, and all that others have committed.   *)
SeenAllocated(copy, row) == Decremented(copy.row, copy.quantity)[row]

SubstituteSuffices(d) ==
    LET copy == desk[d].copy
        row == desk[d].substitute
    IN  OnHand[row] - SeenAllocated(copy, row) >= copy.quantity

(* A substitute at another location is not locked by the transaction yet, so *)
(* others may change it between the check and the commit.                    *)
CheckSubstitute(d) ==
    /\ desk[d].stage = "override"
    /\ LocationOf(desk[d].substitute) # LocationOf(desk[d].copy.row)
    /\ SubstituteSuffices(d)
    /\ desk' = [desk EXCEPT ![d].stage = "checked"]
    /\ UNCHANGED <<tables, overdue, job, cron, calls, substituted, disturbed>>

(* The commit.  The locks the decrement took on the old rows last until      *)
(* here, so a substitute at the old location is checked and changed at once. *)
CommitOverride(d) ==
    LET copy == desk[d].copy
        row == desk[d].substitute
    IN  /\ \/ desk[d].stage = "checked"
           \/ /\ desk[d].stage = "override"
              /\ LocationOf(row) = LocationOf(copy.row)
              /\ SubstituteSuffices(d)
        /\ allocated' = [Decremented(copy.row, copy.quantity) EXCEPT ![row] = @ + copy.quantity]
        /\ allocs' = [allocs EXCEPT ![copy.id].row = row,
                                    ![copy.id].status = "HARD_ALLOCATED"]
        /\ posted' = [posted EXCEPT ![row] = @ + copy.quantity]
        /\ substituted' = substituted \cup {row}
        /\ desk' = [desk EXCEPT ![d] = IdleDesk]
        /\ UNCHANGED <<lineStatus, orderStatus, overdue, job, cron, calls, disturbed>>

(* releaseAllocation is two statements without a transaction. *)
GiveBack(d) ==
    /\ desk[d].stage = "release"
    /\ allocated' = Decremented(desk[d].copy.row, desk[d].copy.quantity)
    /\ desk' = [desk EXCEPT ![d].stage = "given_back"]
    /\ UNCHANGED <<allocs, lineStatus, orderStatus, posted, overdue, job, cron, calls,
                    substituted, disturbed>>

MarkReleased(d) ==
    /\ desk[d].stage = "given_back"
    /\ allocs' = [allocs EXCEPT ![desk[d].copy.id].status = "CANCELLED"]
    /\ desk' = [desk EXCEPT ![d] = IdleDesk]
    /\ UNCHANGED <<allocated, lineStatus, orderStatus, posted, overdue, job, cron, calls,
                    substituted, disturbed>>

(* The call fails: the substitute has too little, or the database, the       *)
(* connection or the process failed.                                         *)
Hangup(d) ==
    /\ desk[d].stage # "idle"
    /\ desk' = [desk EXCEPT ![d] = IdleDesk]
    /\ disturbed' = (disturbed \/ desk[d].stage = "given_back")
    /\ UNCHANGED <<tables, overdue, job, cron, calls, substituted>>

--------------------------------------------------------------------------------
JobStep(o) ==
    \/ Start(o) \/ ReadStock(o) \/ CreateAllocation(o) \/ CountAllocation(o)
    \/ FinishLine(o) \/ SyncOrderStatus(o)
    \/ ReadSoft(o) \/ CheckStock(o) \/ HardLock(o) \/ Finish(o)
    \/ InsufficientStock(o) \/ Interrupt(o)

CronStep(n) ==
    \/ StartReconciliation(n)
    \/ \E copy \in cron[n] : CancelExpired(n, copy) \/ SkipExpired(n, copy)

DeskStep(d) ==
    \/ StartOverride(d) \/ CheckSubstitute(d) \/ CommitOverride(d)
    \/ StartRelease(d) \/ GiveBack(d) \/ MarkReleased(d) \/ Hangup(d)

Next ==
    \/ \E o \in Orders : JobStep(o)
    \/ \E n \in Nodes : CronStep(n)
    \/ \E d \in Desks : DeskStep(d)
    \/ \E a \in AllocIds : Elapse(a)

Spec == Init /\ [][Next]_vars

(* The cron runs every night on every node, and a transaction tried on every *)
(* one of them succeeds at last.                                             *)
Fairness ==
    \A n \in Nodes :
        /\ WF_vars(StartReconciliation(n))
        /\ SF_vars(\E copy \in cron[n] : CancelExpired(n, copy))

FairSpec == Spec /\ Fairness

--------------------------------------------------------------------------------
JobRecords ==
    [stage: JobStages, attempts: 0 .. MaxAttempts, lines: SUBSET Lines,
     line: Lines \cup {NoLine}, remaining: Nat, offers: SUBSET Offers,
     copies: SUBSET Copies, current: Copies \cup {NoCopy}]

DeskRecords ==
    [stage: {"idle", "override", "checked", "release", "given_back"},
     copy: Copies \cup {NoCopy}, substitute: Rows \cup {NoRow}]

AllocRecords == [row: Rows, quantity: Nat \ {0}, status: Statuses, line: Lines]

(* Every allocation takes something, and a job never takes more of a line    *)
(* than remained of it (remaining stays in Nat), however stale its offers.   *)
TypeOK ==
    /\ allocs \in Seq(AllocRecords) /\ Len(allocs) <= MaxAllocs
    /\ allocated \in [Rows -> Int]
    /\ lineStatus \in [Lines -> {"CREATED", "ALLOCATED"}]
    /\ orderStatus \in [Orders -> {"VALIDATED", "ALLOCATED"}]
    /\ posted \in [Rows -> Nat]
    /\ overdue \in SUBSET Ids
    /\ job \in [Orders -> JobRecords]
    /\ cron \in [Nodes -> SUBSET Copies]
    /\ desk \in [Desks -> DeskRecords]
    /\ calls \in 0 .. MaxCalls
    /\ substituted \in SUBSET Rows
    /\ disturbed \in BOOLEAN

Units(ids) == UNION {{a} \X (1 .. allocs[a].quantity) : a \in ids}

(* The units of stock that active allocations hold in a row. *)
HoldersOf(row) == {a \in Ids : allocs[a].row = row /\ allocs[a].status \in Active}
Held(row) == Cardinality(Units(HoldersOf(row)))

(* No stock is stranded: what a row counts as allocated, some active          *)
(* allocation holds, whatever is interleaved, retried, expired, released      *)
(* twice or cut short.  Only on a row an override moved an allocation to can  *)
(* more be counted than is held.                                              *)
NothingStranded ==
    \A row \in Rows \ substituted : allocated[row] <= Held(row)

(* Attempts repeat what earlier ones allocated, but each takes at most what   *)
(* the line requests; and a line that says ALLOCATED was allocated in full    *)
(* (its allocations may have been cancelled since).                           *)
AllocsOf(line) == {a \in Ids : allocs[a].line = line}
Taken(line) == Cardinality(Units(AllocsOf(line)))

RetriesBounded ==
    \A l \in Lines : Taken(l) <= Requested[l] * job[OrderOf[l]].attempts

AllocatedInFull ==
    \A l \in Lines : lineStatus[l] = "ALLOCATED" => Taken(l) >= Requested[l]

(* As long as operations did not overlap, none was cut short between its two  *)
(* writes and no desk named a cancelled allocation, quantityAllocated is      *)
(* exactly what the active allocations hold, and never more than is on hand.  *)
BooksExact ==
    ~disturbed =>
        \A row \in Rows : /\ Quiet => allocated[row] = Held(row)
                          /\ Held(row) <= OnHand[row]

(* A soft allocation that has expired does not stay soft: its stock is freed  *)
(* for others, unless a hard lock or an override claims it first.             *)
ExpiredIsReleased ==
    \A a \in AllocIds : a \in overdue ~> (a \in Ids /\ allocs[a].status # "SOFT")
================================================================================
