# A TLA+ model of the Elastic WMS back end

These modules model the parts of the warehouse back end in which several actors
change the same stock: what the code does step by step, what it promises, and how
far the promise holds. TLC checks the models on small instances; TLAPS proves the
results that hold for every instance. `PROJECT.json` lists the runs, the defective
variants each property must detect, the source lines each definition stands for, the
findings, the hazards and the theorems.

Paths are relative to the repository root's parent (`src/src/...` is the application
source, `src/prisma/schema.prisma` the schema, `src/WhatIsCompleted.txt` the
specification the code was written from).

Contents: 1 the system, 2 the plan, 3 the modules, 4 the runs, 5 the proofs,
6 findings, 7 what is not modelled, 8 how to run it.

## 1. The system

A NestJS application for many tenants. State is in PostgreSQL (Prisma 5, so READ
COMMITTED unless stated otherwise; the schema has no CHECK constraints), locks,
caches and sessions are in Redis, background work is in BullMQ queues (3 attempts with
exponential backoff, `src/src/app.module.ts:98`), notifications go through
EventEmitter2 inside a process, and `@Cron` jobs run on *every* node at the same
time. No request holds a row lock across two statements unless it is in a
transaction, so every `await` is a point where another request, job, cron or node
may run.

| Part | State it keeps | Operations | What is hard | What makes it correct | Here |
|---|---|---|---|---|---|
| Inventory transaction engine (`inventory/inventory-transaction.service.ts`) | `inventory_on_hand.quantity_on_hand`, the ledger `inventory_transactions`, Redis lock per product and lot | `executeTransaction` | the lock lives 500 ms and is not renewed, all holders write the same token; balances are read before the update; quantities may be negative | stock moves only with its ledger row, and a guarded decrement never takes more than there is; the ledger of a row is an unbroken account | whole |
| Inventory reconciliation (`inventory/inventory-reconciliation.service.ts`) | none | nightly report of stock that differs from its ledger | half a dozen services write stock or ledger without the other | - | no |
| Allocation engine (`outbound/allocation*.ts`, `outbound/reconcile-allocations.processor.ts`) | `inventory_allocations`, `quantity_allocated`, line and order status | soft and hard allocation (BullMQ job), override, release, nightly expiry | no lock, no transaction around read and write, retried jobs, one cron per node | what a row counts as allocated is what active allocations hold; no more than there is; expired stock comes free | whole |
| Allocation rules | rules per tenant | choose the filter and order of candidate rows | - | - | as a choice |
| Cycle counts (`inventory/counts`) and approvals (`approvals`) | `cycle_counts`, `cycle_count_lines`, `adjustment_approvals`, Redis locks | schedule, ad hoc, assign, submit, finalise; approve, reject, auto-approve | snapshot of the system quantity, stock that moves meanwhile, statements without a transaction, no status guards | after an undisturbed count, stock is what is on the shelf | in part |
| Inbound: receipts, putaway (`inbound`) | GRN lines, lots, packages (LPNs), putaway tasks, Redis locks, a BullMQ queue | receive line, correct and inspect it, generate tasks, assign, confirm putaway, nightly repair | sums read before the transaction, a lock taken twice by the same job, double confirmation, other services that change packages and stock, repair on every node | nothing is claimed that was not scanned; what is in stock is stored; packages without stock are repaired | in part |
| Packages (`inbound/lpn.service.ts`, `warehouse/lpn`) | status and parent of every package | create, nest, unnest, relabel, delete, by two services | the search for a cycle is a read of unlocked rows, statuses are given without a look at the parent | no package is inside itself; NESTED says that it is inside another | nesting |
| Waves and picking, order header (`outbound/wave*.ts`, `picking.service.ts`, `order.service.ts`) | waves, picking tasks, lines, order status, on-hand and picked quantity | release, assign, confirm pick, listeners | release has neither a status check nor a transaction; a pick adds to what it read earlier; listeners write a header computed from lines read earlier | an allocation is picked once; task, line and shelf agree; the order does not go back by itself | in part |
| Packing (`outbound/packing-stations`, `outbound/packing.service.ts`) | sessions, containers with their contents in one column | start, scan, seal, close; two services on the same tables | no call is a transaction; contents and numbers are read, then written | counters agree with the contents; a closed session is sealed and stays closed | in part |
| Loads, docks, yard, carriers | records with a status | status changes | - | - | no |
| Transfers (`transfers`), adjustments | transfers with lines, in-transit LPNs, adjustments | dispatch, receive per LPN, reconcile; submit, approve | status checked before the transaction | stock leaves once and arrives once | receipt, as a disturbance |
| Reservations, holds, lots, policies | `quantity_reserved`, holds | reserve, release, place hold | availability checked before the transaction | reserved never exceeds available | no |
| HTTP edge (`common/interceptors`, `common/middleware`, `lifecycle`) | in-flight keys, cached answers, request counter, drain flag | idempotency, semaphore, shutdown | timers of an earlier request act on a later one, two slots given back for a success, the flag cleared before the close | no slot or key is lost; a key is processed once; the database outlives the requests; the process exits | in part |
| Rate limit and quota | Redis counters | count and reject | window edges | - | no |
| RF sessions | session in Redis per device | advance, complete | read-modify-write across a delete | a completed session stays completed | no |
| Integrations (`integrations`) | mapping tables, batches in Redis | webhooks, order import, batched stock export | outcomes of calls to shops | an order is imported once | no |
| Customisation: rules, state machine, BPMN | tenant-supplied JSON | interpret | - | no stock operation calls it | no |
| Facilities and locations, work orders, labor, master data, reports, notifications, platform | records | CRUD, pure I/O | - | - | no |

How they interact: RF endpoints call the transaction engine; the order service reacts
to the events of allocation, whose queue nothing in the repository fills; waves turn allocated lines into tasks;
picking decrements on-hand and allocated stock itself; counts and approvals write
stock and ledger directly, beside the engine and without its lock; the nightly jobs
read (reconciliation) or repair (expiry, phantom packages) what the others wrote. The
dock and the warehouse services share the packages, the packing stations and the RF
calls the containers. Every request passes the HTTP edge of its node. The
`hazards` list of `PROJECT.json` names the line at which each of these can go wrong.

## 2. The plan

In the order in which they were built, the stock first:

1. `StockLedger`, `InventoryTransaction`: the stock itself, with the abstract ledger, the
   refinement and the first proofs.
2. `Allocation`: the most contended component, with its jobs and its cron.
3. `CycleCount`: the second writer of stock, with the approvals it creates.
4. `WavePicking`: from the allocated order to its picks, and the order header.
5. `Packing`: stations and the calls of the other service on the same tables.
6. `GoodsReceipt`, and `Putaway` on top of it: from the dock to the racks.
7. `LpnHierarchy`: packages inside packages.
8. `HttpEdge`: what a node keeps in memory between load balancer and handler.

Composition: `Putaway` extends `GoodsReceipt` and interleaves all of its steps with the
generator, the operators, the repair, the office and the other services that touch
packages and stock. `Allocation` takes on-hand and reserved stock as constants, and
`WavePicking` starts from what it leaves: hard allocations of an ALLOCATED order.
`CycleCount` sees the engine as its `Move` action, `Putaway` sees engine, picks, counts
and dispatches as its `MoveStock`, and `LpnHierarchy` as the nesting and unnesting of its
office.

`Units` is shared by `WavePicking` and `Putaway`: a sum of
quantities is the number of units of the rows summed, a set that can be counted and
reasoned about without recursion.

Every invariant and action property a passing run checks is proved by now (section 5, with
the hypotheses of two of them). What is left that would repay the work: transfers, if
their handlers get a guard about which something can be stated; an abstract
specification of the shelf that `Allocation`, `WavePicking` and `CycleCount` could all be
shown to implement. No module declares a RECURSIVE operator.

## 3. The modules

### StockLedger
The promise of the engine, with no locks and no requests: `balance` moves only together
with an entry in `entries`, by the entry's delta, and a checked movement never
takes more than there is. A movement nobody checks may leave a row below zero; the one
that opens a row opens it with nothing instead.

### InventoryTransaction
`InventoryTransactionService.executeTransaction`, one action per step between two awaits.

| TLA+ | Code |
|---|---|
| `onHand`, `existing` | rows of `inventory_on_hand` and their quantity |
| `ledger` | `inventory_transactions`, in commit order |
| `lock` | Redis key `inv:lock:{product}:{lot}`; one product is modelled, so one key per lot, and one more for calls without a lot |
| `pc`, `dto`, `before` | where a request is, its argument, its local `qtyBefore` |
| `Acquire` | `SET ... PX 500 NX` (17-23) |
| `Read` | the `findFirst` inside the transaction (24-38) |
| `Commit` | `updateMany` with the quantity guard, or `upsert`, plus the ledger row, committed together (42-109) |
| `Insufficient` | the guarded update changed no row, throw, rollback (55-57) |
| `Rollback`, `Abandon`, `Expire` | database failure, death of the process, expiry of the key |
| `Release` | the `finally` script: it compares the value with `'1'`, which every holder writes, so it deletes whoever's key is there (110-119) |

The update re-reads the row it locks, and its effect and the ledger row become visible
together: one step. The read that fills `quantityBefore` is not locked: another step.
`lapsed` is a history variable: some key ran out before its holder had released it.

Assumptions: quantities are integers of either sign (the schema has Float; goods are
counted; the DTO asks for a number and has no `@Min`); types are those the DTO admits.
`IsGuarded` says which movements carry the guard: those that take stock away *by their
type*. A RECEIPT or PUTAWAY of a negative quantity takes stock away unguarded, may leave
the row below zero, and its ledger row then quotes 0, because `quantityAfter` is clamped
(line 40): `Overdraws` names such an entry. A call without a lot names no row here: the
code would look for the all-zero lot, which no row has (section *Putaway*).

### Allocation
`AllocationService`, the allocation-engine job, and the expiry cron.

| TLA+ | Code |
|---|---|
| `allocs`, `allocated`, `lineStatus`, `orderStatus`, `posted` | the tables; `posted` is what the ledger rows written by override and expiry say has come in |
| `job[o]` | one BullMQ job per order with its attempts and its locals: lines left, the offers it read, what remains of a line, the allocation being counted |
| `Start` ... `SyncOrderStatus` | `softAllocate` (24-112, 231-242) |
| `ReadSoft` ... `Finish`, `InsufficientStock` | `hardAllocate` (114-145) |
| `EndAttempt`, `Interrupt` | a throw or a crash, and the retry from the start |
| `cron[n]`, `StartReconciliation`, `CancelExpired`, `SkipExpired` | `reconcile-allocations.processor.ts:19-86`, one per node |
| `desk[d]`, `StartOverride`, `CheckSubstitute`, `CommitOverride` | `overrideAllocation` (164-219); when the substitute row is at another location, others may change it between check and commit |
| `StartRelease`, `GiveBack`, `MarkReleased`, `Hangup` | `releaseAllocation` (147-162), two statements without a transaction |

The rules and the FIFO/FEFO order of candidates are a choice: the set of locations comes
from `Filters`, the order of the offers is free. The stock query asks transfer lines for a
`location_id` (`allocation.service.ts:65-72`), which neither the schema
(`schema.prisma:1464-1483`) nor a migration gives them: on the database the repository
builds, it throws on every call, and no job allocates anything. The constant
`StockQueryRuns` guards `ReadStock`; FALSE is that database, on which every attempt ends
there (`Interrupt`), TRUE one that has the column (and those a rule may order by). The
runs take TRUE: what they show is what the rest of the code does once the query runs, and
the theorems hold for both. `releaseAllocation` and the queue have no caller in the
repository; they are modelled as the interface they are.
`disturbed` is a history variable: two operations overlapped, one was cut short between
its two writes, or a desk named a cancelled allocation. `substituted` collects rows that
an override moved an allocation to.

### CycleCount
`CycleCountService` and the approve and reject of `AdjustmentApprovalService`.

| TLA+ | Code |
|---|---|
| `physical` | the goods really there; environment, seen only by the operator |
| `onHand`, `journal` | stock, and the sum of the ledger rows of the row |
| `count`, `line`, `approvals` | the tables |
| `ReadScope`, `Create` | `schedule` and `adhocCount`: the rows are read, then inserted as lines; two steps |
| `Assign` | `assign`; allowed whatever the status is |
| `CountGoods`, `ReadLine`, `LockLine`, `RecordCount`, `UnlockLine`, `GiveUp`, `ExpireLineLock` | the operator counts; `submitLine` (100-130), whose check of the status comes before the lock |
| `StartFinalize`, `PassLine`, `PostLedger`, `PostStock`, `RequestApproval`, `Reconcile`, `Abort` | `finalizeCount` and `postAdjustment` (132-218), every statement a step |
| `ReadApproval`, `Approve`, `FailToApprove`, `Reject` | the approval service; approve checks before its transaction and re-reads the line inside |
| `Move` | goods move and the transaction engine posts it |

History variables: `moved` (lines whose row has moved since their snapshot), `begun`
(finalisations begun), `tainted` (rows of which no count can be trusted: goods moved
between snapshot and counting, two counts of the row were open at once, a count was
finalised twice, an approval was read twice at once, or the row is another lot of a
location that was adjusted) and `torn` (rows whose ledger and stock were not changed alike:
an automatic adjustment died between its two statements, or the row is another lot of an
adjusted location - approval and adjustment both update the stock of a product at a
location without naming the lot, while the ledger row goes to one).
Operators are assumed to count right.
Holds are left out: `freezeLocation` writes `''` and `'SYSTEM'` to uuid columns, so the
insert fails (after the count has been created) and no hold ever exists; nothing that
moves stock reads one anyway. Levels of approval are left out: `approve` looks at none.

### GoodsReceipt
`GrnService.createFromAsn` and `receiveLine`, for a notice with one line that may become
several receipts, and whoever else writes their lines.

| TLA+ | Code |
|---|---|
| `asn`, `received`, `lineStatus`, `lpn` | the tables |
| `CreateFromAsn` | 22-64 |
| `ReadLine` | the line is read and the sum checked (81-103), outside the transaction |
| `CommitScan` | the transaction (105-183): the package relatively, the line absolutely, with the sum of the earlier read |
| `Load` | the upsert of the package, and the lot number of the scan, which makes the lot |
| `RollbackScan` | the transaction fails |
| `CreateLine`, `UpdateLine`, `DeleteLine` | `web/grn-line.controller.ts` (59-116): a line may be typed, its received quantity overwritten, the line deleted, whatever its packages hold |
| `RouteToQc`, `Inspect`, `ApplyDisposition` | `qc.service.ts` (15-106): the status of the line and of its packages; a quarantine takes every package of the line, stored or not |

`accepted` is what was scanned onto packages of a line; `overlapped` are lines that two
devices had read at once; `edited` are lines whose received quantity was typed on the web,
of which nothing can be said. One lot number is modelled, which a package bears or not;
`lotKnown` says whether `inventory_lots` has it. Damaged quantities and the receipt's own
status, at which no scan looks, are left out. Statuses that nothing here asks for stand as
one of those that are modelled; QC_PASSED, which the generator also looks for, is never
written.

### Putaway
`PutawayService`, the `putaway-generator` queue and the nightly repair, with
`GoodsReceipt`.

| TLA+ | Code |
|---|---|
| `tasks`, `rows`, `onHand`, `corrected` | `putaway_tasks`, the on-hand rows that exist and their stock, and what SYSTEM_CORRECTION ledger rows added |
| `genLock`, `taskLock`, `ExpireGenLock`, `ExpireTaskLock` | Redis keys with a TTL; whoever holds one writes `LOCK` |
| `TakeJob`, `Retry`, `Leave`, `FailAttempt` | `putaway-generator.processor.ts`: the lock, its `finally`, BullMQ's retries |
| `Generate`, `Waiting`, `ReadPackages`, `CreateTask`, `EndGeneration` | `generateTasks` (21-75), which takes the same lock again; the packages of lines and in statuses its query asks for; a task per step |
| `AssignTask`, `UpdateTaskStatus` | 78-92, 160-169 |
| `ReadTask`, `ConfirmPutaway`, `RollbackPutaway` | `confirmPutaway` (94-151): the task is read unlocked, all that is written is relative, so the commit is one step |
| `Storable` | what makes the commit fail otherwise: the package is gone (P2025), or it names no lot |
| `CreateLpn`, `UpdateLpn`, `DeleteLpn`, `MoveLpn`, `NestLpn`, `UnnestLpn` | `warehouse/lpn/lpn.service.ts` (26-57, 164-187, 215-342, 387-405): any field, any status, with stock or without |
| `ReceiveTransfer` | `inventory-transfer.service.ts:92-163`: the package goes to the place of the transfer, and up to what it holds is added there |
| `MoveStock` | whatever else changes rows: picks (`picking.service.ts:79-91`), the engine, counts, adjustments, dispatches |
| `CreateLot` | `inventory-lot.service.ts:28-51` |
| `StartRepair`, `Repair` | `putaway-reconciliation.job.ts`, on every node; it inserts a row and a ledger row, or fails and is logged |

Nothing in the repository enqueues `putaway-generator` jobs (section 6); the queue is
modelled as the interface it is. One product and lot, so that a place has one stock row.
The foreign key of `inventory_on_hand.lot_id` (migration `0007`, line 399) refuses the
all-zero id that `confirmPutaway` and the repair write for a package without a lot: such a
package is not put away, and if it comes to be STORED otherwise, it is found and not
repaired every night. Nor is one where the row exists and is below zero, as the job finds
the package but the insert collides.

`disturbed` is a history variable: a task was confirmed by two operators at once or
reopened, a package got a second task, a package that had a task held something else
afterwards, a stored one was changed, moved, nested, quarantined or deleted, one became
STORED without a confirmation (`Upsets` says when a change of a package counts), a
transfer was received, or another service moved the stock.

### LpnHierarchy
`nestLpn` of both services, `unnestLpn`, `create` and `delete`.

| TLA+ | Code |
|---|---|
| `status`, `parent` | `license_plate_numbers` |
| `StartNest` | reads of child and parent and their checks (215-235); the dock service (`inbound/lpn.service.ts:37-63`) has its own set of parents, and the same ranks |
| `Walk`, `Walked`, `Inside`, `DepthReached`, `WalkUp` | the climb from the *child* (236-257), as a function over at most ten levels; its reads are one step, the write another |
| `CommitNest` | 259-273 |
| `StartUnnest` ... `CommitDelete` | 275-296, 387-407: read, then write; the foreign key refuses what it refuses in the schema |
| `Relabel` | every service that writes a status without looking at the parent: `update` (164-187), scans, putaway, quality control, picks |

`overlapped`: two nestings were in progress at once; `relabelled`: a status was given that
contradicts the parent.

### WavePicking
`releaseWave`, `assignTask`, `confirmPick` and the listeners of the order.

| TLA+ | Code |
|---|---|
| `order`, `line`, `tasks`, `wave`, `shelf` | the tables; `shelf` is the one stock row that all allocations are on |
| `StartRelease`, `CountTasks`, `CreateTask`, `MarkLine`, `FinishRelease`, `CutRelease` | `releaseWave` (41-148), every statement a step; it may end anywhere (a task number that is taken, another failure, a crash) |
| `AssignTask` | 146-160; the Redis lock only spaces assignments in time |
| `ReadTask` | the task is read before the transaction (52-59) |
| `EmitPick` | the event goes out inside the transaction (128), committed or not |
| `CommitPick`, `RollbackPick` | 61-143; the guarded `updateMany` on the stock may change no row and nobody looks |
| `RefuseFullPick` | the sum reaches the quantity: the query for the next task names a column the table lacks, and all is rolled back |
| `ReadLines`, `WriteHeader` | listeners of `order.service.ts`: lines read, then the header written, any number of events late; the `syncOrderStatus` of an allocation job that is still going on does the same |
| `SetStatus` | `updateStatus` (167-189): any status, with no check; `ByHand` are the statuses tried. The import of a shop's order is such a write too, of a status that is never ALLOCATED |

History: `crossed`, `cut` (releases), `doubled` (lines with a task two pickers confirmed at
once), `uncovered` (a pick of stock that was not there), `raced` (two listeners between
read and write), `byHand` (how often the status was set by hand).

### Packing
The station's service and the scan and seal of the other one.

| TLA+ | Code |
|---|---|
| `session`, `containers` | the tables; containers in the order of creation |
| `caller[k]`, `Begin` | a call and what it has read |
| `StartSession` | 11-48; its two inserts are one step: nobody has the new session's id |
| `LookForScan`, `OpenForScan`, `WriteContents`, `CountItem` | `scanItem` (50-113) |
| `LookForSeal`, `Seal`, `CountCarton`, `NumberNext`, `OpenNext` | `sealContainer` (115-156) |
| `LookForClose`, `SealForClose`, `CountSealed`, `Complete` | `closeSession` (158-191) |
| `LookForLpn`, `AttachLpn`, `SealOnly` | `outbound/packing.service.ts:28-81` |
| `Cut` | a statement fails or the node stops |

Items are numbered by the call that scans them, so that a lost one can be missed. A
session's own number never looks like a station's (`NamesAssumption`: the first container
is called like the session, the others like the station). Statuses CANCELLED, PAUSED and
TIMEOUT are never set.

### HttpEdge
One node: `RequestSemaphoreInterceptor`, inside it `IdempotencyInterceptor`, and the
shutdown.

| TLA+ | Code |
|---|---|
| `request[r]`, `slots`, `inFlight`, `cache`, `timers` | where a request is; the members of the two interceptors; answers whose timer is running |
| `Receive` | the drain middleware and hook |
| `Admit`, `TurnAway`, `GiveBack` | the semaphore: `GiveBack(2)` for a success, because value and completion each give one back |
| `Conflict`, `Replay`, `Enter`, `Succeed`, `Fail`, `Expire` | the idempotency interceptor, its clearing of a cache of more than 10000 entries included (`CacheOverflows`) |
| `Signal`, `StopDraining`, `CloseFastify`, `Exit`, `ForceExit` | `gracefulShutdown` (49-120) |

Nothing is registered with `ShutdownService`: it has no queue to pause and no Redis client
to quit, so those steps are not there. Clocks are not modelled: a timer fires at any
time after it was set.

### Defective variants
Operators such as `UnclampedAfter` or `SetToCounted` stand before the definition they
are a variant of. They are what a plausible mistake would make of it; each property of a
passing run fails when one of them replaces the definition (`mutants` in
`PROJECT.json`). Nothing else refers to them.

## 4. The runs

| Run | Instance | Shows |
|---|---|---|
| `inventory_transaction` | two requests, two locations, one lot, three ledger rows, five calls: a receipt of 2 and one of -1, a pick of 1 and one of -1, a call without a location | `TypeOK` (no quoted balance after a movement below zero), `ImplementsStockLedger`, `UnbrokenAccount` |
| `inventory_ledger_rows` | the same, without the negative quantities | violated: a ledger row that does not add up |
| `allocation` | one order for two units, two attempts, hard; two locations (4 + 1 units), cron on two nodes, one desk making one call | `TypeOK`, `NothingStranded`, `BooksExact`, and the liveness property `ExpiredIsReleased` |
| `allocation_jobs` | two orders for two units each, 3 + 1 units, two attempts | `RetriesBounded`, `AllocatedInFull` |
| `cycle_count` | one count of one row, two devices, two finalisations in parallel, two approvers, one movement; 2 recorded, 1, 2 or 4 there | `TypeOK`, `CountCorrects`, `LedgerAgrees` |
| `cycle_count_blind` | an ad hoc BLIND count alone | violated: what was counted is added to the stock |
| `putaway` | one receipt of two units, one package, two devices with two scans, one worker with a job of two attempts, two tasks, two operators, one place and the dock, two nodes, one intervention of the web, quality control, the office or another service | `TypeOK`, `NothingClaimed`, `ScansAddUp`, `StockIsStored`, and the liveness property `PhantomsRepaired` |
| `putaway_generation` | one receipt of one unit, one package, one device, one job, no intervention | violated: a job ends and its waiting package has no task |
| `lpn_hierarchy` | two pallets, two cartons, two desks, five calls and statuses | `TypeOK`, `NoneInsideItself`, `NestedIsInside`, `OnlyRootsTakeIn` |
| `wave_picking` | one order of two lines (3 + 1 units, 1 in stock), a wave released twice, two pickers with two picks, the status set back to ALLOCATED once by hand | `TypeOK`, `PickedByOneTask`, `PicksAddUp`, `NotOfferedAgain` |
| `packing` | two sessions at one station, two callers, three calls, four containers | `TypeOK`, `ItemsAddUp`, `ClosedIsSealed`, `StaysClosed`, `NumbersFree` |
| `http_edge` | five requests, three of them with one key, two slots, a shutdown at any time | `TypeOK`, `SlotsReturned`, `ProcessedOnce`, `KeysReturned`, `DatabaseOutlivesRequests`, and the liveness property `Exits` |

What they say in words:

- However locks lapse and are deleted by strangers, stock and ledger of the engine move
  together, and a PICK, SHIP or other guarded type never takes more than there is: the
  guarded update, not the lock, is what protects it. What is not guarded is a receipt or
  putaway of a negative quantity, which the DTO lets through and which may leave the row
  below zero. The lock is what keeps `quantityBefore`/`quantityAfter` an account; an
  entry that overdraws its row breaks it, as its balance is clamped at 0 and the stock
  is not.
- `NothingStranded`: whatever overlaps, crashes, retries or is released twice, a row never
  counts more allocated than active allocations hold (except a row that an override moved
  to). The errors of the allocation engine all go the other way, to selling too much.
- `RetriesBounded` and `AllocatedInFull`: a retry allocates ALLOCATED lines again, but
  never more than once per attempt, and ALLOCATED is not claimed too early.
- `ExpiredIsReleased`: an expired soft allocation does not stay soft.
- `CountCorrects`: a count that nothing disturbed makes stock true, because variances are
  relative: it does not matter that goods move after they were counted, that the same
  line is submitted twice, or how long an approval waits.
- `LedgerAgrees`: two things part stock from its ledger: an automatic adjustment that dies
  between its two statements, and any adjustment or approval at a location that holds
  other lots, whose rows are changed with it though no ledger row says so. Neither
  interleaving nor repetition does.
- `NothingClaimed` and `ScansAddUp`: a receipt line may claim less than was scanned (two
  devices each write the sum they read), never more; and exactly what was scanned when
  devices take turns; whatever is inspected or deleted meanwhile, and unless somebody
  typed the received quantity over.
- `StockIsStored` and `PhantomsRepaired`: putaway and repair never disagree about stock
  unless one of the disturbances named above; and a stored package that names a lot,
  where there is no stock row, is repaired the next night, whatever else goes wrong that
  night. One without a lot never is.
- `NoneInsideItself`: packages stay a forest, not because of the search for a cycle (it
  climbs the wrong side) but because what is NESTED may not take in another (`OnlyRootsTakeIn`; of the
  package put in, nothing is asked). Two nestings at once, or one status given carelessly,
  are enough to lose that.
- `PickedByOneTask`: what keeps a second release from creating a second task is the status
  of the lines, set last: only two releases at once, or one that ended half way, double a
  task. `PicksAddUp` names the two races in which task, line and shelf part.
- `NotOfferedAgain`: only two listeners at once, or a status set by hand, bring an order that
  is being picked back to ALLOCATED, where the planner finds it again.
- `ItemsAddUp`, `ClosedIsSealed`, `StaysClosed`, `NumbersFree`: each is true of calls that
  follow one another, including calls that die half way, and each names the overlap that
  breaks it.
- `ProcessedOnce`: a key is processed once until the cache is cleared; from then on the
  timer of a forgotten answer may free the key of a later request.
- `DatabaseOutlivesRequests`: although the drain flag is cleared before the server is
  closed, it is the closing that waits for requests; only a server that cannot be closed
  loses its database under them.

**Bounds.** Two of each kind of actor are enough for every hazard listed: they are
between two requests, jobs, nodes or devices (a third only repeats the part of one of
them). Three ledger rows let a request overtake another and a third continue the
account; two attempts exercise the retry, two locations the spill-over and the move of
an override. `MaxLedger`, `MaxAttempts`, `MaxAllocs`, `MaxCalls`, `MaxMoves`,
`MaxFinalizations`, `MaxApprovals`, `MaxScans`, `MaxJobs`, `MaxTasks`,
`MaxInterventions`, `MaxByHand`, `MaxReleases`, `MaxAssignments`, `MaxPicks`, `LateEvents` and `MaxContainers` are guards of
the model, not of the code, except `MaxAttempts` (BullMQ: 3). `LateEvents` is the number of
events of the allocation whose listeners have not run when the model begins; the run has
none, as the events of two picks already race. Allocation
runs have one lot: with two at a location `BooksExact` fails (section 6). One
intervention is enough to undo a putaway, and to meet a scan, a generation, a
confirmation or a repair halfway; `Moves` are one unit more and one less, which takes a
row below zero; `Typed` is less than the line expects. `putaway` has two of every actor
and one package, which is all that any of its races is about, be it between two scans,
two tasks, two confirmations or two repairs; that a row is the sum over several packages
is left to the proof (`StockIsWhatIsStored`). Four packages
make a chain of three and a package beside it. Two picks of one unit do not cover the
line of three, so that a task stays open under two pickers; the line of one is refused on
its first pick. Two sessions at a station are what makes codes meet, four containers
let both seal. Three requests with one key are one that is answered, one that meets the
answer and one that comes after it was forgotten. Requests, devices, pickers, offices and approvers are interchangeable and are symmetry sets in the runs that check no liveness.

**Deadlock** is checked for the engine, where a request can always be rolled back or
made again; jobs, counts and bounded calls do end, and so does a node that is told to
stop, so the other runs allow it.

**Fairness** is assumed of three things only. In `allocation`: every node keeps starting
its nightly cron while something has expired (it is a `@Cron`), and a transaction of a node
that is tried night after night succeeds at last (strong fairness: it may fail any number of
times in between). In `putaway` (and `putaway_generation`): the nightly repair of every node goes on (weak fairness of
`RepairStep`; it is a `@Cron` too, and it catches what fails of a package and goes on to the
next). In `http_edge`: the timer that forces the exit fires once it is set (weak fairness of
`ForceExit`; it is a `setTimeout` cleared only on the way out). Nothing is assumed of jobs, desks,
operators, handlers or clients.

## 5. The proofs

Checked by `tlapm`, each for every value of the constants that the module's named
assumptions admit. No bound of section 4 is used except as a type; of `MaxAttempts` it is
used that a job is tried at least once (BullMQ: 3). Two theorems have a hypothesis of their
own, and both are needed. `BooksAreExact` assumes one lot per location (`OneLot`): the release
has no lot in its condition, and with two lots the books do part (section 6).
`CountsCorrect` assumes that no ad hoc count is BLIND: `cycle_count_blind` shows what such
a count does.

| Module | Theorem | States | Argument |
|---|---|---|---|
| `InventoryTransactionProofs` | `TypeCorrect` | `TypeOK` | from `StockInv`: types, and `AbsentRowsAreEmpty`: a row that does not exist has stock 0, and whoever read it read 0 |
| | `StockLedgerImplemented` | `ImplementsStockLedger` | from `StockInv`: the step of `Commit` is a `Post`, every other step stutters; `Upsert` needs that what was read of a row it creates was 0, so that "after" is the movement, or nothing |
| | `AccountUnbroken` | `UnbrokenAccount` | from `AccountInv`, below |
| `AllocationProofs` | `TypeCorrect` | `TypeOK` | `WellFormed`: what an actor remembers of an allocation stays true of it, but for a row that an override changed |
| | `RetriesAreBounded`, `AllocatedLinesAreCovered` | `RetriesBounded`, `AllocatedInFull` | `LinesAccounted`: what a job took of a line and may still take is within its attempts |
| | `NoStockIsStranded` | `NothingStranded` | `CountsAreHeld`, below |
| | `BooksAreExact` | `BooksExact`, with one lot per location | `BooksKept`, below |
| `CycleCountProofs` | `TypeCorrect` | `TypeOK` | `WellFormed`: lines only go on, and nobody holds what does not exist |
| | `LedgerAlwaysAgrees` | `LedgerAgrees` | `LedgerKept`, below |
| | `CountsCorrect` | `CountCorrects`, without BLIND ad hoc counts | `CountedTrue`, below |
| `WavePickingProofs` | `TypeCorrect` | `TypeOK` | a release and a picker remember allocations, lines and tasks that there are |
| | `OneTaskEach` | `PickedByOneTask` | `WorkAhead`, `LinesMarked`: what a release has still to create has no task, and a line left ALLOCATED is one it will mark |
| | `OfferedOnce` | `NotOfferedAgain` | `HeaderFollows`, until a status is set by hand: no line goes back to ALLOCATED, so the last listener alone cannot write it |
| | `PicksAgree` | `PicksAddUp` | `HandsKnow`: the sum a picker read is still on its task unless another holds it too |
| `LpnHierarchyProofs` | `TypeCorrect`, `NeverInsideItself`, `MarkedAsNested`, `ParentsAreRoots` | `TypeOK`, `NoneInsideItself`, `NestedIsInside`, `OnlyRootsTakeIn` | putting a package into one at the root closes no cycle, taking one out neither |
| `PutawayProofs` | `ClaimsAreBacked`, `ScansCounted` | `NothingClaimed`, `ScansAddUp` | unless the line was edited, the sum a device will write is bounded by what will have been scanned |
| | `TypeCorrect` | `TypeOK` | `RacksTyped`: a busy worker has a receipt, one that is to try again has an attempt left, an operator without a task is idle |
| | `StockIsWhatIsStored` | `StockIsStored` | `Undisturbed`, below |
| `PackingProofs` | `TypeCorrect`, `ClosedAllSealed`, `ClosedStaysClosed`, `NumberIsFree` | `TypeOK`, `ClosedIsSealed`, `StaysClosed`, `NumbersFree` | a call alone on its session knows it: what it read is still so |
| | `CountsAddUp` | `ItemsAddUp` | `Tallied`: a call alone on its container writes back what is in it and one item more |
| `HttpEdgeProofs` | `TypeCorrect`, `NoSlotLost`, `NoKeyLost`, `OneProcessing`, `DatabaseLast` | `TypeOK`, `SlotsReturned`, `KeysReturned`, `ProcessedOnce`, `DatabaseOutlivesRequests` | the two collections together cover every key in use |

Why the invariants had to be strengthened:

- `UnbrokenAccount`. `AccountInv` adds, as long as no key has lapsed: a request that is past
  `Acquire` holds the lock of its lot (`HoldersLock`); what a request has read is still the
  stock of its row (`ReadIsCurrent`); the last entry of a row ends with the stock of the row
  (`LastEntryIsBalance`, but for an entry that overdraws it); a row without an entry is
  empty (`UnpostedIsEmpty`). The argument
  is that of mutual exclusion: only the holder writes a row of its lot, so what it read
  stays true until it commits.
- `NoneInsideItself`. `OneNesting` (unless nestings overlapped, one desk is nesting),
  `ParentAtRoot` (the parent it has read is still at the root: only another nesting or a
  careless status could have changed that) and `WalkTells` (the walk, useless otherwise, has
  told the package from its parent). Acyclic is stated as "in every set some package is not
  inside another of it", which needs no induction.
- `NothingClaimed`, `ScansAddUp`. `SumsBacked` and `SumsExact` bound the sum a device has
  computed and not yet written, of lines nobody typed over; what was scanned is never taken
  back, so what was enough stays enough. `Untouched`: nothing is on a line before it is there.
- `ClosedIsSealed`, `StaysClosed`, `NumbersFree`. As long as calls of a session do not
  overlap, one call at most is on it (`Alone`), the session is not closed under it
  (`Unclosed`), what closing has yet to seal is all that is ACTIVE (`ClosingSeals`), and
  numbers are one beyond the containers (`NumberFits`), whose codes are within them
  (`CodesFit`). It uses finite cardinalities, hence `FiniteSetTheorems`.
- `ProcessedOnce`. `Covered`: the key of a request being processed is in flight, that of an
  answer with a timer is cached; with `TimersKeyed` a new request meets neither.

- `NothingStranded`, `BooksExact`. Sums of quantities are cardinalities of sets of units
  (`Units`), so that an allocation more or less is a disjoint set more or less and
  `FiniteSetTheorems` does the rest. `CountsAreHeld` compares what a row counts, and what is
  about to be counted on it, with the allocations that no desk has yet given back: every
  interleaving errs to the same side. `BooksKept` says that the two are equal while one
  actor works at a time, what that actor has in its hands included.
- `LedgerAgrees`. `LedgerKept`: what the journal of a row says beyond its stock is the sum of
  the variances of the offices that are between the two statements. Two of them may post
  to one row at once, so that the sum is over a set of offices, not of one.
- `CountCorrects`. `CountedTrue` follows a variance from the snapshot to the posting: until then
  it is what is there beyond what is recorded, moves included; it is in one pair of
  hands (the line, an office, an approval or an approver), so it is posted once. Rows
  of which that cannot be said are the tainted ones.
- `PickedByOneTask`. `WorkAhead` and `LinesMarked`: the status of the line stands for a task only
  from the mark on, and until then the release that will set it is the only one.
- `NotOfferedAgain`. A listener may still hold a stale reading of the lines, so the invariant is
  about what it has read, not about the lines: once some line has left ALLOCATED, only
  such a reading can say ALLOCATED, and two of them are a race.
- `PicksAddUp`, `ItemsAddUp`. Both are lost updates, and both proofs say when there is none: who
  is alone with a task, or a container, writes what it has read and its own piece more
  (`HandsKnow`, in both). Which allocation or line a release takes next is a minimum, which
  exists by the well-foundedness of the natural numbers.
- `StockIsStored`. `Undisturbed`: a package has one task, which says what it holds, as does a
  worker about to create it (`OneTaskEach`, `TasksSay`, `WorkersSay`); what is stored has a
  completed task (`StoredIsDone`), so that what an operator is about to store is not stored
  (`OperatorsApart`) and is booked once. The place of a stored package has a row
  (`StoredHasRow`), and what the row says is a sum of quantities, never below zero: no
  repair begins (`NothingToRepair`). Every action of the dock, the web, the office and the
  other services either leaves packages that count alone, or sets `disturbed`.

Only model-checked: liveness (`ExpiredIsReleased`, `PhantomsRepaired`, `Exits`), which the
prover does not do under fairness. The lemmas about sums stand in each module that needs
them, stated for the table it sums over.

## 6. Findings

Each is the counterexample of a run that expects a violation; `PROJECT.json` quotes the
documents.

- `inventory_ledger_rows`: a ledger row whose before plus movement is not its after,
  because the balance is read without a row lock and the Redis lock may lapse.
- `cycle_count_blind`: an ad hoc BLIND count stores a system quantity of 0, so the whole
  count is posted as an increase.
- `putaway_generation`: a job of the queue takes `putaway:gen:{grn}` and then calls
  `generateTasks`, which finds it taken and returns no tasks. The document describes the
  job as the source of putaway tasks. Only when the key lapses between the two does a
  job create any.

Seen while modelling, not the subject of a run:

- Engine: a negative quantity passes the DTO, which has no `@Min`. A RECEIPT or PUTAWAY of
  -5 is not guarded and may take the row below zero. `WhatIsCompleted.txt:2055` promises
  "No negative `quantityOnHand` results" of concurrent picks, and that does hold.
- Allocation: the stock query throws on the repository's schema (section 3), so no order is
  ever allocated. Would it run, `softAllocate` reads what is available (line 48) and counts
  its allocation later (99) with neither a lock nor a condition, so that two orders may
  take the same units, of which `WhatIsCompleted.txt:2871` says "No oversell occurs". Nothing
  enqueues its jobs.
- Allocation: `hardAllocate` asks for the quantity on top of what the allocation already
  counts, so an order for the last units never becomes hard. The release half of override,
  release and expiry has no lot in its condition (`allocation.service.ts:171`), so every lot
  of the product at the location loses the quantity: with two lots at one location
  `BooksExact` fails.
- Counts: `submitLine` checks the status before the lock and deletes the lock when it is
  done, so that a second device need not get `409 AlreadyCounted` (`CountCorrects` shows
  that the stock is none the worse); `reject` may follow an approval that was already
  posted; the scheduler creates counts without lines; two counts of a row that are open at
  once both post the variance (`CountCorrects` claims nothing of such rows).
- Inbound: nothing enqueues `putaway-generator` jobs, and as long as the lock lasts such a
  job generates nothing (`WhatIsCompleted.txt:2329`, `2432` and `2462` describe it as
  the source of tasks); `generateTasks` has no other caller. `confirmPutaway` writes no
  ledger row (2354, 2464), and fails for a package without a lot, whose on-hand row the
  foreign key refuses; the nightly repair fails of it likewise, every night.
- Orders: `updateStatus` writes any status over any other, and `order.service.ts` has no
  table of transitions.
- Packages: `nestLpn` of the warehouse climbs from the child, so a sequence of nest, relabel
  and nest closes a cycle without any concurrency, after which `getChildren` and
  `getHierarchy` (344-371) do not end; the depth limit is met only when a package is nested
  again.
- Picking: a pick that completes its task is always rolled back, because the next task is
  looked for in the order of `priority`, a column `PickingTask` lacks
  (`picking.service.ts:21`), and its event has been emitted by then. The assignment lock
  outlives a failed update.
- Packing: a second session of a station gets the codes of the first (`station-n`, unique),
  so its first seal is committed, its next container is refused, and its caller sees an
  error; a later scan must name a container. `closeSession` of
  `outbound/packing.service.ts`, which creates shipments, has no caller, and that
  service's `startSession` always fails.
- HTTP edge: a success gives back two slots, so that more than `MAX_CONCURRENT` requests may
  be processed (`WhatIsCompleted.txt:4766`); keys are computed without URL and tenant; no
  queue and no Redis client is registered with `ShutdownService`, so nothing is paused or
  drained (4654, 4747, 4765), and `isDraining` is cleared before the server is
  closed.

## 7. What is not modelled, and why

- Transfers, adjustments, reservations: dispatch, receipt and reservation check a status or
  an availability before the transaction that acts on it, without a guard in the statement.
  No invariant of the stock survives that, and the pattern is the one of `Allocation` (soft
  allocation) and `CycleCount` (approvals). The receipt of a transfer is an action of
  `Putaway`, for what it does to packages. The lines are listed under `hazards`.
- Inventory reconciliation: it only reads, and compares two tables that expiry and override of
  allocations, putaway, picks, counts and transfers each write one of. What it names is
  therefore no more than where one of them has been.
- RF sessions: the payload of one device, read by no operation on stock; the race of advance
  and complete is listed.
- Integrations: the outcome depends on shops outside the repository; an import that updates
  the status of an order is among what `SetStatus` of `WavePicking` may do.
- Rate limits and quotas: counters updated atomically in Redis, which decide only on a
  refusal.
- Parts of modelled components: allocation rules are abstracted to a choice; purchase
  orders, notices and returns around `GoodsReceipt`, and of quality control all but the
  statuses it sets; packages given another product; creation and import
  of orders, the planning of waves and paths; shipments, labels and carriers; the offline
  count buffer, `routeForApproval` and the batch import, which have no caller; facilities,
  zones and locations; the response and timing interceptors, which keep no state.
- Customisation interprets tenant-supplied data that no stock operation uses. Labor,
  equipment, quality, work order and master-data services are CRUD with status fields;
  reports, analytics and notifications only read; the generated client, Prisma,
  tenancy, authorisation, health, cluster probes and observability are infrastructure.

Several handlers write values such as `''` or `'SYSTEM'` to uuid columns, or name columns
the schema lacks (the `priority` of a picking task, the location of a transfer line); where a modelled handler does so, its
section says what the model takes.

## 8. Running it

    tlc -config InventoryTransaction.cfg MCInventoryTransaction.tla
    tlc -config Putaway.cfg MCPutaway.tla
    tlapm PackingProofs.tla

and likewise for the other `.cfg` files (`InventoryTransactionLedger`, `Allocation*`,
`CycleCount*` and `Putaway*` belong to the MC modules of their component) and the other `*Proofs`
modules. The longest run takes about two minutes, the longest proof
(`AllocationProofs`) four to eight.
