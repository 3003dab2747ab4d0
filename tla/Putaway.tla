---------------------------------- MODULE Putaway ----------------------------------
(***************************************************************************)
(* From the dock to the racks: the generation of putaway tasks             *)
(* (putaway-generator.processor.ts and PutawayService.generateTasks), their *)
(* assignment and confirmation (putaway.service.ts), the job that repairs  *)
(* stored packages without stock (putaway-reconciliation.job.ts), and what *)
(* else changes a package or a row (the LPN services, transfers, and       *)
(* whatever moves stock), on top of the scans of GoodsReceipt.  One        *)
(* product and lot, so that a place has one on-hand row; stock of other    *)
(* lots, or of packages given another product, is not followed.            *)
(*                                                                         *)
(* A row without a lot cannot be: its foreign key refuses the zero id that *)
(* confirmPutaway and the repair write when a package names no lot.        *)
(*                                                                         *)
(* The processor and generateTasks take the same lock, which says LOCK     *)
(* whoever holds it, and each deletes it when it is done: while the lock   *)
(* of the processor lasts, the generation it calls finds it taken.         *)
(* confirmPutaway reads the task inside its transaction but unlocked, so   *)
(* two confirmations may both find it open; all it writes is relative.     *)
(*                                                                         *)
(* FailAttemptForever, ConfirmKeepingStatus and RepairFirstRowOnly are     *)
(* defective variants of what follows them.                                *)
(***************************************************************************)
EXTENDS GoodsReceipt, Sequences, Units

CONSTANTS
    Locations,    \* storage locations
    Workers,      \* workers of the putaway-generator queue
    Operators,    \* operators confirming tasks
    Nodes,        \* nodes that run the repair
    MaxJobs,      \* bound: jobs on the queue
    MaxAttempts,  \* attempts of a job (BullMQ: 3)
    MaxTasks,     \* bound: tasks created
    Moves         \* what other services add to rows

Places == Locations \cup {Dock}

ASSUME PlaceAssumption == Dock \notin Locations
ASSUME MoveAssumption == Moves \subseteq Int
ASSUME PutawayBoundAssumption ==
    MaxJobs \in Nat /\ MaxAttempts \in Nat \ {0} /\ MaxTasks \in Nat

VARIABLES
    tasks,        \* putaway_tasks, by id
    rows,         \* places that have a row of inventory_on_hand
    onHand,       \* its quantity_on_hand, 0 where there is none
    corrected,    \* what SYSTEM_CORRECTION ledger rows added, per place
    genLock,      \* receipts whose key putaway:gen:{grn} is set
    taskLock,     \* tasks whose key putaway:lock:{task} is set
    worker,       \* what every worker of the queue is doing
    operator,     \* the confirmation every operator is about to commit
    node,         \* packages a node has still to repair
    jobs,         \* jobs taken from the queue
    disturbed     \* history: see the actions that set it

\* What only the dock writes.
paper == <<asn, received, lineStatus, device, scans, accepted, overlapped, edited>>
racks == <<tasks, rows, onHand, corrected>>
vars == <<inbound, racks, genLock, taskLock, worker, operator, node, jobs, disturbed>>

--------------------------------------------------------------------------------
TaskStatuses == {"CREATED", "ASSIGNED", "COMPLETED"}
TaskIds == 1 .. Len(tasks)
IdleWorker == [stage |-> "idle", receipt |-> NoReceipt, attempts |-> 0, todo |-> {}]
IdleOperator == [task |-> 0, place |-> Dock]

(* A package that a task, a row or a worker about to create a task counts. *)
HasTask(p) == \E t \in TaskIds : tasks[t].lpn = p
Handled(p) ==
    \/ HasTask(p) \/ lpn[p].status = "STORED"
    \/ \E w \in Workers : \E copy \in worker[w].todo : copy.lpn = p

(* The change of a package counts when it is stored before or after, or when  *)
(* it has been handled and holds something else.                              *)
Upsets(p, package) ==
    /\ package # lpn[p]
    /\ \/ "STORED" \in {lpn[p].status, package.status}
       \/ package.quantity # lpn[p].quantity /\ Handled(p)

Init ==
    /\ GoodsReceiptInit
    /\ tasks = << >>
    /\ rows = {}
    /\ onHand = [place \in Places |-> 0]
    /\ corrected = [place \in Places |-> 0]
    /\ genLock = {}
    /\ taskLock = {}
    /\ worker = [w \in Workers |-> IdleWorker]
    /\ operator = [o \in Operators |-> IdleOperator]
    /\ node = [n \in Nodes |-> {}]
    /\ jobs = 0
    /\ disturbed = FALSE

(* The dock goes on. Goods scanned onto a package that has been handled are   *)
(* not in its task, and a quarantined package keeps its stock.                *)
Receive ==
    /\ GoodsReceiptNext
    /\ disturbed' = (disturbed \/ \E p \in Lpns : Upsets(p, lpn'[p]))
    /\ UNCHANGED <<racks, genLock, taskLock, worker, operator, node, jobs>>

--------------------------------------------------------------------------------
(* The queue *)

(* An attempt of a job: debounced when the key is set, else it sets it. *)
BeginAttempt(w, g, attempts) ==
    IF g \in genLock
    THEN worker' = [worker EXCEPT ![w] = IdleWorker] /\ UNCHANGED genLock
    ELSE /\ genLock' = genLock \cup {g}
         /\ worker' = [worker EXCEPT ![w] =
               [IdleWorker EXCEPT !.stage = "locked", !.receipt = g, !.attempts = attempts]]

TakeJob(w) ==
    /\ worker[w].stage = "idle"
    /\ jobs < MaxJobs
    /\ \E g \in Receipts : Created(g) /\ BeginAttempt(w, g, 1)
    /\ jobs' = jobs + 1
    /\ UNCHANGED <<inbound, racks, taskLock, operator, node, disturbed>>

Retry(w) ==
    /\ worker[w].stage = "retry"
    /\ BeginAttempt(w, worker[w].receipt, worker[w].attempts + 1)
    /\ UNCHANGED <<inbound, racks, taskLock, operator, node, jobs, disturbed>>

(* generateTasks asks for the key again, and returns no tasks if it is set. *)
Generate(w) ==
    /\ worker[w].stage = "locked"
    /\ worker' = [worker EXCEPT ![w].stage =
                    IF worker[w].receipt \in genLock THEN "leaving" ELSE "generating"]
    /\ genLock' = genLock \cup {worker[w].receipt}
    /\ UNCHANGED <<inbound, racks, taskLock, operator, node, jobs, disturbed>>

(* The packages of a line that is to be put away, which wait for it. *)
Waiting(g) ==
    {p \in Lpns : /\ lineStatus[g] \in {"RECEIVED", "PUTAWAY_PENDING"}
                  /\ lpn[p].receipt = g
                  /\ lpn[p].status \in {"RECEIVED", "PUTAWAY_PENDING"}}

ReadPackages(w) ==
    /\ worker[w].stage = "generating"
    /\ worker' = [worker EXCEPT
         ![w].stage = "creating",
         ![w].todo = {[lpn |-> p, quantity |-> lpn[p].quantity] : p \in Waiting(worker[w].receipt)}]
    /\ UNCHANGED <<inbound, racks, genLock, taskLock, operator, node, jobs, disturbed>>

(* One task per package, whether or not it has one. *)
CreateTask(w) ==
    /\ worker[w].stage = "creating"
    /\ Len(tasks) < MaxTasks
    /\ \E copy \in worker[w].todo :
          /\ tasks' = Append(tasks, [lpn |-> copy.lpn, quantity |-> copy.quantity,
                                     status |-> "CREATED"])
          /\ worker' = [worker EXCEPT ![w].todo = @ \ {copy}]
          /\ disturbed' = (disturbed \/ HasTask(copy.lpn))
    /\ UNCHANGED <<inbound, rows, onHand, corrected, genLock, taskLock, operator, node, jobs>>

(* Both finally blocks delete the key, whosever it is by now. *)
EndGeneration(w) ==
    /\ worker[w].stage = "creating" /\ worker[w].todo = {}
    /\ genLock' = genLock \ {worker[w].receipt}
    /\ worker' = [worker EXCEPT ![w].stage = "leaving"]
    /\ UNCHANGED <<inbound, racks, taskLock, operator, node, jobs, disturbed>>

Leave(w) ==
    /\ worker[w].stage = "leaving"
    /\ genLock' = genLock \ {worker[w].receipt}
    /\ worker' = [worker EXCEPT ![w] = IdleWorker]
    /\ UNCHANGED <<inbound, racks, taskLock, operator, node, jobs, disturbed>>

FailAttemptForever(w) ==
    /\ worker[w].stage \in {"generating", "creating"}
    /\ genLock' = genLock \ {worker[w].receipt}
    /\ worker' = [worker EXCEPT ![w].stage = "retry", ![w].todo = {}]
    /\ UNCHANGED <<inbound, racks, taskLock, operator, node, jobs, disturbed>>

(* A statement fails - two generations may compute the same task number - and *)
(* the job is tried again, with the tasks created so far in place.            *)
FailAttempt(w) ==
    /\ worker[w].stage \in {"generating", "creating"}
    /\ genLock' = genLock \ {worker[w].receipt}
    /\ worker' = [worker EXCEPT ![w] =
                    IF worker[w].attempts < MaxAttempts
                    THEN [worker[w] EXCEPT !.stage = "retry", !.todo = {}] ELSE IdleWorker]
    /\ UNCHANGED <<inbound, racks, taskLock, operator, node, jobs, disturbed>>

(* The key lives for 10 seconds. *)
ExpireGenLock(g) ==
    /\ g \in genLock
    /\ genLock' = genLock \ {g}
    /\ UNCHANGED <<inbound, racks, taskLock, worker, operator, node, jobs, disturbed>>

--------------------------------------------------------------------------------
(* Tasks *)

Confirming(t) == {o \in Operators : operator[o].task = t}

(* The assignment sets the status of the task, completed or not.  Its key is  *)
(* never deleted and outlives a failed update.                                *)
AssignTask(t) ==
    /\ t \in TaskIds \ taskLock
    /\ taskLock' = taskLock \cup {t}
    /\ \/ /\ tasks' = [tasks EXCEPT ![t].status = "ASSIGNED"]
          /\ disturbed' = (disturbed \/ tasks[t].status = "COMPLETED")
       \/ UNCHANGED <<tasks, disturbed>>
    /\ UNCHANGED <<receiving, rows, onHand, corrected, genLock, worker, operator, node, jobs>>

ExpireTaskLock(t) ==
    /\ t \in taskLock
    /\ taskLock' = taskLock \ {t}
    /\ UNCHANGED <<inbound, racks, genLock, worker, operator, node, jobs, disturbed>>

(* The board sets any status. *)
UpdateTaskStatus(t, status) ==
    /\ t \in TaskIds
    /\ tasks' = [tasks EXCEPT ![t].status = status]
    /\ disturbed' = (disturbed \/ tasks[t].status = "COMPLETED")
    /\ UNCHANGED <<receiving, rows, onHand, corrected, genLock, taskLock, worker, operator, node,
                    jobs>>

(* confirmPutaway finds the task open. *)
ReadTask(o) ==
    /\ operator[o] = IdleOperator
    /\ \E t \in TaskIds, place \in Locations :
          /\ tasks[t].status # "COMPLETED"
          /\ operator' = [operator EXCEPT ![o] = [task |-> t, place |-> place]]
          /\ disturbed' = (disturbed \/ Confirming(t) # {})
    /\ UNCHANGED <<inbound, racks, genLock, taskLock, worker, node, jobs>>

(* The row is created or added to. No ledger row is written. *)
Stock(place, quantity) ==
    /\ rows' = rows \cup {place}
    /\ onHand' = [onHand EXCEPT ![place] = @ + quantity]

(* The package is still there, and names a lot that is. *)
Storable(p) == lpn[p].status # "DELETED" /\ lpn[p].lot /\ lotKnown

ConfirmKeepingStatus(o) ==
    /\ operator[o] # IdleOperator
    /\ LET task == tasks[operator[o].task]
           place == operator[o].place
       IN  /\ Storable(task.lpn)
           /\ lpn' = [lpn EXCEPT ![task.lpn].place = place, ![task.lpn].status = "STORED"]
           /\ Stock(place, task.quantity)
    /\ operator' = [operator EXCEPT ![o] = IdleOperator]
    /\ UNCHANGED <<paper, lotKnown, tasks, corrected, genLock, taskLock, worker, node, jobs,
                    interventions, disturbed>>

(* The commit: task, package and on-hand row. *)
ConfirmPutaway(o) ==
    /\ operator[o] # IdleOperator
    /\ LET t == operator[o].task
           place == operator[o].place
       IN  /\ Storable(tasks[t].lpn)
           /\ tasks' = [tasks EXCEPT ![t].status = "COMPLETED"]
           /\ lpn' = [lpn EXCEPT ![tasks[t].lpn].place = place,
                                 ![tasks[t].lpn].status = "STORED"]
           /\ Stock(place, tasks[t].quantity)
    /\ operator' = [operator EXCEPT ![o] = IdleOperator]
    /\ UNCHANGED <<paper, lotKnown, corrected, genLock, taskLock, worker, node, jobs,
                    interventions, disturbed>>

RollbackPutaway(o) ==
    /\ operator[o] # IdleOperator
    /\ operator' = [operator EXCEPT ![o] = IdleOperator]
    /\ UNCHANGED <<inbound, racks, genLock, taskLock, worker, node, jobs, disturbed>>

--------------------------------------------------------------------------------
(* What else changes packages and rows *)

Rewrite(p, package) ==
    /\ lpn' = [lpn EXCEPT ![p] = package]
    /\ disturbed' = (disturbed \/ Upsets(p, package))
    /\ UNCHANGED <<paper, lotKnown, racks, genLock, taskLock, worker, operator, node, jobs>>

Present(p) == lpn[p].status \notin {"ABSENT", "DELETED"}

CreateLpn(p) ==
    /\ lpn[p].status = "ABSENT"
    /\ \E quantity \in Typed, lot \in BOOLEAN, place \in Places :
          Rewrite(p, [status |-> "RECEIVED", quantity |-> quantity, receipt |-> NoReceipt,
                      lot |-> lot, place |-> place])

(* Any field at once; stock does not follow, here or in what comes next. *)
UpdateLpn(p) ==
    /\ Present(p)
    /\ \E status \in LpnStatuses, quantity \in Typed \cup {lpn[p].quantity}, lot \in BOOLEAN,
          place \in Places :
          Rewrite(p, [lpn[p] EXCEPT !.status = status, !.quantity = quantity, !.lot = lot,
                                    !.place = place])

(* Its tasks stay. *)
DeleteLpn(p) ==
    /\ Present(p)
    /\ Rewrite(p, [lpn[p] EXCEPT !.status = "DELETED", !.receipt = NoReceipt])

MoveLpn(p) ==
    /\ Present(p)
    /\ \E place \in Places : Rewrite(p, [lpn[p] EXCEPT !.place = place])

(* Into a package that stands at some place. *)
NestLpn(p) ==
    /\ Present(p)
    /\ \E place \in Places : Rewrite(p, [lpn[p] EXCEPT !.status = "NESTED", !.place = place])

(* Out of it again, and STORED whatever it was before. *)
UnnestLpn(p) ==
    /\ lpn[p].status = "NESTED"
    /\ Rewrite(p, [lpn[p] EXCEPT !.status = "STORED"])

(* A transfer is received: what its lines still ask for goes to the row of    *)
(* the place, and the package with it, stored or not.                         *)
ReceiveTransfer(p) ==
    /\ Present(p)
    /\ lotKnown
    /\ \E place \in Places, take \in 1 .. lpn[p].quantity :
          /\ lpn' = [lpn EXCEPT ![p].place = place]
          /\ Stock(place, take)
    /\ disturbed' = TRUE
    /\ UNCHANGED <<paper, lotKnown, tasks, corrected, genLock, taskLock, worker, operator, node,
                    jobs>>

(* Picks, counts, adjustments, dispatches and inventory transactions change   *)
(* rows, below zero too, and some of them create one.                         *)
MoveStock ==
    /\ lotKnown
    /\ \E where \in SUBSET Places, change \in Moves :
          /\ where \subseteq rows \/ \E place \in Places : where = {place}
          /\ rows' = rows \cup where
          /\ onHand' = [place \in Places |->
                           IF place \in where THEN onHand[place] + change ELSE onHand[place]]
    /\ disturbed' = TRUE
    /\ UNCHANGED <<receiving, tasks, corrected, genLock, taskLock, worker, operator, node, jobs>>

(* InventoryLotService.create. *)
CreateLot ==
    /\ lotKnown' = TRUE
    /\ UNCHANGED <<paper, lpn, racks, genLock, taskLock, worker, operator, node, jobs, disturbed>>

--------------------------------------------------------------------------------
(* The repair *)

(* Packages that are STORED where there is no row, or one below zero. *)
Phantoms ==
    {p \in Lpns : lpn[p].status = "STORED" /\ ~(lpn[p].place \in rows /\ onHand[lpn[p].place] >= 0)}

StartRepair(n) ==
    /\ node[n] = {}
    /\ Phantoms # {}
    /\ node' = [node EXCEPT ![n] =
                  {[lpn |-> p, place |-> lpn[p].place, quantity |-> lpn[p].quantity,
                    lot |-> lpn[p].lot] : p \in Phantoms}]
    /\ UNCHANGED <<inbound, racks, genLock, taskLock, worker, operator, jobs, disturbed>>

(* A transaction per package creates the row and a SYSTEM_CORRECTION ledger   *)
(* row. It fails if there is a row by now, or if the package names no lot.    *)
RepairFirstRowOnly(n, copy) ==
    /\ copy \in node[n]
    /\ IF rows = {} /\ copy.lot /\ lotKnown
       THEN /\ Stock(copy.place, copy.quantity)
            /\ corrected' = [corrected EXCEPT ![copy.place] = @ + copy.quantity]
       ELSE UNCHANGED <<rows, onHand, corrected>>
    /\ node' = [node EXCEPT ![n] = @ \ {copy}]
    /\ UNCHANGED <<inbound, tasks, genLock, taskLock, worker, operator, jobs, disturbed>>

Repair(n, copy) ==
    /\ copy \in node[n]
    /\ IF copy.place \notin rows /\ copy.lot /\ lotKnown
       THEN /\ Stock(copy.place, copy.quantity)
            /\ corrected' = [corrected EXCEPT ![copy.place] = @ + copy.quantity]
       ELSE UNCHANGED <<rows, onHand, corrected>>
    /\ node' = [node EXCEPT ![n] = @ \ {copy}]
    /\ UNCHANGED <<inbound, tasks, genLock, taskLock, worker, operator, jobs, disturbed>>

--------------------------------------------------------------------------------
WorkerStep(w) ==
    \/ TakeJob(w) \/ Retry(w) \/ Generate(w) \/ ReadPackages(w) \/ CreateTask(w)
    \/ EndGeneration(w) \/ Leave(w) \/ FailAttempt(w)

OperatorStep(o) == ReadTask(o) \/ ConfirmPutaway(o) \/ RollbackPutaway(o)

RepairStep(n) == StartRepair(n) \/ \E copy \in node[n] : Repair(n, copy)

(* An unnesting is not counted: there are no more of them than nestings. *)
OfficeStep ==
    \/ /\ Intervene
       /\ \/ \E t \in TaskIds :
                AssignTask(t) \/ \E status \in TaskStatuses : UpdateTaskStatus(t, status)
          \/ \E p \in Lpns :
                \/ CreateLpn(p) \/ UpdateLpn(p) \/ DeleteLpn(p) \/ MoveLpn(p) \/ NestLpn(p)
                \/ ReceiveTransfer(p)
          \/ MoveStock
    \/ \E t \in TaskIds : ExpireTaskLock(t)
    \/ UNCHANGED interventions /\ (CreateLot \/ \E p \in Lpns : UnnestLpn(p))

Next ==
    \/ Receive
    \/ \E w \in Workers : WorkerStep(w)
    \/ \E g \in Receipts : ExpireGenLock(g)
    \/ \E o \in Operators : OperatorStep(o)
    \/ \E n \in Nodes : RepairStep(n)
    \/ OfficeStep

Spec == Init /\ [][Next]_vars

(* The repair runs every night and works through what it found. *)
Fairness == \A n \in Nodes : WF_vars(RepairStep(n))

FairSpec == Spec /\ Fairness

--------------------------------------------------------------------------------
Packages ==
    [status: LpnStatuses \cup {"ABSENT", "DELETED"}, quantity: Nat,
     receipt: Receipts \cup {NoReceipt}, lot: BOOLEAN, place: Places]
Stages == {"idle", "locked", "generating", "creating", "leaving", "retry"}

TypeOK ==
    /\ ReceivingTypeOK
    /\ lpn \in [Lpns -> Packages]
    /\ tasks \in Seq([lpn: Lpns, quantity: Nat, status: TaskStatuses])
    /\ rows \in SUBSET Places
    /\ onHand \in [Places -> Int]
    /\ corrected \in [Places -> Nat]
    /\ genLock \in SUBSET Receipts
    /\ taskLock \in SUBSET TaskIds
    /\ \A w \in Workers :
          /\ worker[w].stage \in Stages
          /\ worker[w].attempts <= MaxAttempts
    /\ operator \in [Operators -> [task: TaskIds \cup {0}, place: Places]]
    /\ disturbed \in BOOLEAN

(* The job the queue runs for a receipt leaves a task for every package of it *)
(* that waits to be put away: there is one for each when its generation ends. *)
JobsCreateTasks ==
    [][\A w \in Workers :
          worker[w].stage # "leaving" /\ worker'[w].stage = "leaving"
          => \A p \in Waiting(worker[w].receipt) : HasTask(p)]_vars

HeldBy == [p \in Lpns |-> lpn[p].quantity]
StoredAt(place) == {p \in Lpns : lpn[p].status = "STORED" /\ lpn[p].place = place}

(* Stock is what is stored: the on-hand quantity of a place is what the       *)
(* packages stored there hold, and the repair has had nothing to do, unless   *)
(* two operators confirmed a task at once, a completed task was reopened, a   *)
(* package got a second task, a package came to hold something else after it  *)
(* had been counted, a stored one was changed, quarantined, moved, nested or  *)
(* deleted, one was said to be STORED without a confirmation, or a transfer   *)
(* or another service changed the row.                                        *)
StockIsStored ==
    ~disturbed =>
        \A place \in Places :
            /\ onHand[place] = Cardinality(Units(HeldBy, StoredAt(place)))
            /\ corrected[place] = 0

(* A stored package that names a lot, at a place that has no row, is found,   *)
(* and its place gets a row: the night after a move or an unnesting, with     *)
(* several nodes at once. One without a lot, or whose row is below zero, is   *)
(* found every night in vain.                                                 *)
Repairable ==
    {p \in Phantoms : lpn[p].lot /\ lotKnown /\ lpn[p].place \notin rows}
PhantomsRepaired == \A p \in Lpns : p \in Repairable ~> p \notin Repairable
================================================================================
