--------------------------------- MODULE WavePicking ---------------------------------
(***************************************************************************)
(* From an allocated order to its picks: WaveService.releaseWave            *)
(* (src/src/outbound/wave.service.ts), PickingService.assignTask and        *)
(* confirmPick (picking.service.ts), and the listeners that derive the      *)
(* status of the order from its lines (order.service.ts).  One order, whose *)
(* hard allocations are of one lot and on one on-hand row (the pick of an   *)
(* allocation without a lot leaves the stock alone).                        *)
(*                                                                         *)
(* releaseWave is no transaction: it reads the order, creates a task per    *)
(* allocation, each numbered by a count taken before, then marks the lines, *)
(* then the wave.  Nothing tells the order: it stays ALLOCATED until a pick *)
(* makes a listener look at its lines, or until someone sets the status of  *)
(* the order by hand, which nothing checks.  Its lines stay what they are:  *)
(* one with an allocation cannot be deleted (migration 0007:420), and one   *)
(* that is added is OPEN.                                                   *)
(*                                                                         *)
(* confirmPick reads the task before its transaction.  When the sum reaches *)
(* the quantity to pick, the transaction ends by asking for the next task   *)
(* in an order that names a column the table lacks: the query is refused    *)
(* and the pick rolled back, after its event has been emitted.              *)
(*                                                                         *)
(* ReleaseAnyLine, HeaderElseAllocated, CoveredAnyway and CommitPickAnew    *)
(* are defective variants of the definitions that follow them.              *)
(***************************************************************************)
EXTENDS Sequences, FiniteSets, FiniteSetsExt, Units

CONSTANTS
    Lines,        \* lines of the order, numbered as the query returns them
    Allocations,  \* their HARD_ALLOCATED allocations, numbered in the order of picking
    LineOf,       \* orderLineId of each
    Quantity,     \* quantityAllocated of each
    Stock,        \* quantityOnHand to begin with
    Waves,        \* waves that select the order
    Releasers,    \* callers of releaseWave
    Pickers,      \* RF users
    Scans,        \* quantities a picker may confirm
    LateEvents,   \* events of the allocation whose listeners have not run yet
    ByHand,       \* statuses someone may give the order
    MaxByHand, MaxReleases, MaxAssignments, MaxPicks, MaxTasks,  \* bounds
    NoWave

(* The statuses that listeners write, and all an order may have. *)
HeaderStatuses == {"ALLOCATED", "WAVED", "PICKED", "PACKED", "SHIPPED"}
OrderStatuses ==
    HeaderStatuses \cup {"CREATED", "VALIDATED", "ON_HOLD", "RELEASED", "CLOSED", "CANCELLED"}

ASSUME AllocationAssumption ==
    /\ IsFiniteSet(Lines) /\ Lines \subseteq Nat
    /\ IsFiniteSet(Allocations) /\ Allocations \subseteq Nat
    /\ LineOf \in [Allocations -> Lines]
    /\ Quantity \in [Allocations -> Nat \ {0}]
    /\ Stock \in Nat /\ Scans \subseteq Nat
ASSUME BoundAssumption ==
    {LateEvents, MaxByHand, MaxReleases, MaxAssignments, MaxPicks, MaxTasks} \subseteq Nat
ASSUME ByHandAssumption == ByHand \subseteq OrderStatuses
ASSUME NoWaveAssumption == NoWave \notin Waves

VARIABLES
    order,        \* sales_orders.status
    line,         \* status and fulfilled quantity of every line
    tasks,        \* picking_tasks, by the number they were given
    wave,         \* status and total tasks of every wave
    shelf,        \* quantityOnHand and quantityPicked of the on-hand row
    releaser,     \* where every call of releaseWave stands
    picker,       \* where every call of confirmPick stands
    events,       \* events whose listeners have not read the lines yet
    headers,      \* statuses that listeners are about to write
    releases, assignments, picks,  \* calls so far
    history       \* see NoHistory

vars == <<order, line, tasks, wave, shelf, releaser, picker, events, headers,
          releases, assignments, picks, history>>

floor == <<tasks, shelf, picker, assignments, picks>>
office == <<wave, releaser, releases>>

--------------------------------------------------------------------------------
TaskIds == 1 .. Len(tasks)

IdleReleaser == [stage |-> "idle", wave |-> NoWave, todo |-> {}, count |-> 0, made |-> 0]
IdlePicker == [stage |-> "idle", task |-> 0, picked |-> 0, quantity |-> 0]

NoHistory ==
    [crossed |-> FALSE,       \* two releases were in progress at once
     cut |-> FALSE,           \* a release ended before it had marked its lines
     doubled |-> {},          \* lines with a task two pickers confirmed at once
     uncovered |-> FALSE,     \* a pick was recorded of stock that was not there
     raced |-> FALSE,         \* two listeners were between read and write at once
     byHand |-> 0]            \* how often the status of the order was set by hand

Releasing == {r \in Releasers : releaser[r].stage # "idle"}
Syncing == \E h \in HeaderStatuses : headers[h] > 0
LineOfTask(t) == LineOf[tasks[t].allocation]
Touched(t) == {p \in Pickers : picker[p].task = t}

Init ==
    /\ order = "ALLOCATED"
    /\ line = [l \in Lines |-> [status |-> "ALLOCATED", fulfilled |-> 0]]
    /\ tasks = << >>
    /\ wave = [w \in Waves |-> [status |-> "PLANNED", total |-> 0]]
    /\ shelf = [onHand |-> Stock, picked |-> 0]
    /\ releaser = [r \in Releasers |-> IdleReleaser]
    /\ picker = [p \in Pickers |-> IdlePicker]
    /\ events = LateEvents
    /\ headers = [h \in HeaderStatuses |-> 0]
    /\ releases = 0
    /\ assignments = 0
    /\ picks = 0
    /\ history = NoHistory

--------------------------------------------------------------------------------
(* releaseWave *)

(* What a release of some lines consists of: a task per allocation, a mark per *)
(* line.                                                                       *)
Work(found) == {<<"create", a>> : a \in {b \in Allocations : LineOf[b] \in found}}
               \cup {<<"mark", l>> : l \in found}

Opens(r, w, found) ==
    /\ releaser' = [releaser EXCEPT ![r] =
          [IdleReleaser EXCEPT !.stage = "create", !.wave = w, !.todo = Work(found)]]
    /\ releases' = releases + 1
    /\ history' = [history EXCEPT !.crossed = @ \/ Releasing # {}]
    /\ UNCHANGED <<order, line, wave, floor, events, headers>>

ReleaseAnyLine(r, w) ==
    /\ releaser[r] = IdleReleaser
    /\ releases < MaxReleases
    /\ Opens(r, w, IF order = "ALLOCATED" THEN Lines ELSE {})

(* The lines to release, if the order is ALLOCATED; whether the wave has been *)
(* released before is not asked.                                              *)
StartRelease(r, w) ==
    /\ releaser[r] = IdleReleaser
    /\ releases < MaxReleases
    /\ Opens(r, w, IF order = "ALLOCATED"
                   THEN {l \in Lines : line[l].status = "ALLOCATED"} ELSE {})

(* What remains of one kind of work. *)
Todo(r, kind) == {x \in Allocations \cup Lines : <<kind, x>> \in releaser[r].todo}

CountTasks(r) ==
    /\ releaser[r].stage = "create"
    /\ Todo(r, "create") # {}
    /\ releaser' = [releaser EXCEPT ![r].stage = "number", ![r].count = Len(tasks)]
    /\ UNCHANGED <<order, line, wave, floor, releases, events, headers, history>>

NewTask(a, w) == [allocation |-> a, wave |-> w, toPick |-> Quantity[a], picked |-> 0,
                  status |-> "CREATED"]

(* The number is the count plus one, and unique. *)
CreateTask(r) ==
    /\ releaser[r].stage = "number"
    /\ Len(tasks) < MaxTasks
    /\ releaser[r].count = Len(tasks)
    /\ LET a == Min(Todo(r, "create")) IN
          /\ tasks' = Append(tasks, NewTask(a, releaser[r].wave))
          /\ releaser' = [releaser EXCEPT ![r].stage = "create", ![r].made = @ + 1,
                                          ![r].todo = @ \ {<<"create", a>>}]
    /\ UNCHANGED <<order, line, wave, shelf, picker, assignments, picks, releases, events,
                    headers, history>>

(* With all tasks there, the lines are RELEASED one by one, whatever became  *)
(* of them since they were read.                                              *)
MarkLine(r) ==
    /\ releaser[r].stage = "create"
    /\ Todo(r, "create") = {}
    /\ Todo(r, "mark") # {}
    /\ LET l == Min(Todo(r, "mark")) IN
          /\ line' = [line EXCEPT ![l].status = "RELEASED"]
          /\ releaser' = [releaser EXCEPT ![r].todo = @ \ {<<"mark", l>>}]
    /\ UNCHANGED <<order, wave, floor, releases, events, headers, history>>

FinishRelease(r) ==
    /\ releaser[r].stage = "create" /\ releaser[r].todo = {}
    /\ wave' = [wave EXCEPT ![releaser[r].wave] =
                  [status |-> "RELEASED", total |-> releaser[r].made]]
    /\ releaser' = [releaser EXCEPT ![r] = IdleReleaser]
    /\ UNCHANGED <<order, line, floor, releases, events, headers, history>>

(* A task number is taken by now, another statement fails, or the node does. *)
CutRelease(r) ==
    /\ releaser[r] # IdleReleaser
    /\ history' = [history EXCEPT !.cut = TRUE]
    /\ releaser' = [releaser EXCEPT ![r] = IdleReleaser]
    /\ UNCHANGED <<order, line, wave, floor, releases, events, headers>>

--------------------------------------------------------------------------------
(* Picking *)

(* assignTask, whatever the status of the task.  The key pick:lock:{task} is    *)
(* deleted by nobody and lapses after ten minutes: it spaces the assignments of *)
(* a task in time and orders them with nothing else; a failed update is one     *)
(* that never was.                                                              *)
AssignTask(t) ==
    /\ t \in TaskIds
    /\ assignments < MaxAssignments
    /\ tasks' = [tasks EXCEPT ![t].status = "IN_PROGRESS"]
    /\ assignments' = assignments + 1
    /\ UNCHANGED <<order, line, shelf, picker, picks, office, events, headers, history>>

(* confirmPick up to its transaction. *)
ReadTask(p, t, quantity) ==
    /\ picker[p] = IdlePicker
    /\ picks < MaxPicks
    /\ t \in TaskIds /\ tasks[t].status = "IN_PROGRESS"
    /\ picker' = [picker EXCEPT ![p] =
          [stage |-> "read", task |-> t, picked |-> tasks[t].picked, quantity |-> quantity]]
    /\ history' = [history EXCEPT !.doubled =
          IF Touched(t) = {} THEN @ ELSE @ \cup {LineOfTask(t)}]
    /\ picks' = picks + 1
    /\ UNCHANGED <<order, line, tasks, shelf, assignments, office, events, headers>>

(* The event goes out before the transaction has committed; by then it has the *)
(* task locked.                                                                *)
EmitPick(p) ==
    /\ picker[p].stage = "read"
    /\ \A q \in Touched(picker[p].task) : picker[q].stage # "emitted"
    /\ picker' = [picker EXCEPT ![p].stage = "emitted"]
    /\ events' = events + 1
    /\ UNCHANGED <<order, line, tasks, shelf, assignments, picks, office, headers, history>>

Sum(p) == picker[p].picked + picker[p].quantity
FallsShort(p) == Sum(p) < tasks[picker[p].task].toPick
CoveredAnyway(p) == p \in Pickers
Covered(p) == shelf.onHand >= picker[p].quantity

(* What the commit does apart from the task: the shelf, if it has as much, *)
(* and the line, which is BACKORDERED since the pick falls short.             *)
Take(p) ==
    LET quantity == picker[p].quantity
        l == LineOfTask(picker[p].task)
    IN  /\ shelf' = IF Covered(p)
                    THEN [onHand |-> shelf.onHand - quantity, picked |-> shelf.picked + quantity]
                    ELSE shelf
        /\ line' = [line EXCEPT ![l] =
              [status |-> "BACKORDERED", fulfilled |-> @.fulfilled + quantity]]
        /\ history' = [history EXCEPT !.uncovered = @ \/ ~Covered(p)]

CommitPickAnew(p) ==
    /\ picker[p].stage = "emitted"
    /\ FallsShort(p)
    /\ tasks' = [tasks EXCEPT ![picker[p].task].picked = picker[p].quantity,
                              ![picker[p].task].status = "SHORT"]
    /\ Take(p)
    /\ picker' = [picker EXCEPT ![p] = IdlePicker]
    /\ UNCHANGED <<order, assignments, picks, office, events, headers>>

(* A pick that falls short is committed. *)
CommitPick(p) ==
    /\ picker[p].stage = "emitted"
    /\ FallsShort(p)
    /\ tasks' = [tasks EXCEPT ![picker[p].task].picked = Sum(p),
                              ![picker[p].task].status = "SHORT"]
    /\ Take(p)
    /\ picker' = [picker EXCEPT ![p] = IdlePicker]
    /\ UNCHANGED <<order, assignments, picks, office, events, headers>>

(* A pick that completes its task asks for the next one and is rolled back. *)
RefuseFullPick(p) ==
    /\ picker[p].stage = "emitted"
    /\ ~FallsShort(p)
    /\ picker' = [picker EXCEPT ![p] = IdlePicker]
    /\ UNCHANGED <<order, line, tasks, shelf, assignments, picks, office, events, headers,
                    history>>

(* Any other may be, if the database or the node fails. *)
RollbackPick(p) ==
    /\ picker[p].stage = "emitted"
    /\ FallsShort(p)
    /\ picker' = [picker EXCEPT ![p] = IdlePicker]
    /\ UNCHANGED <<order, line, tasks, shelf, assignments, picks, office, events, headers,
                    history>>

--------------------------------------------------------------------------------
(* Listeners *)

(* The last rule taken to be what is left over. *)
HeaderElseAllocated(statuses) ==
    IF statuses = {"SHIPPED"} THEN "SHIPPED"
    ELSE IF statuses \cap {"RELEASED", "PICK_IN_PROGRESS", "PICKED"} # {} THEN "WAVED"
    ELSE "ALLOCATED"

(* syncStatusFromLines: the status of the order for a set of line statuses,   *)
(* "" when no rule fits and it is left alone.                                 *)
HeaderOf(statuses) ==
    IF statuses = {"SHIPPED"} THEN "SHIPPED"
    ELSE IF statuses \subseteq {"PACKED", "READY_TO_SHIP", "SHIPPED"} THEN "PACKED"
    ELSE IF statuses \subseteq {"PICKED", "PACKED"} THEN "PICKED"
    ELSE IF statuses \cap {"RELEASED", "PICK_IN_PROGRESS", "PICKED"} # {} THEN "WAVED"
    ELSE IF statuses = {"ALLOCATED"} THEN "ALLOCATED"
    ELSE ""

(* A listener reads the lines, if it ever comes to it: nothing repeats an event *)
(* that is lost.                                                                *)
ReadLines ==
    /\ events > 0
    /\ events' = events - 1
    /\ LET found == HeaderOf({line[l].status : l \in Lines})
       IN  IF found = "" THEN UNCHANGED <<headers, history>>
           ELSE /\ headers' = [headers EXCEPT ![found] = @ + 1]
                /\ history' = [history EXCEPT !.raced = @ \/ Syncing]
    /\ UNCHANGED <<order, line, floor, office>>

WriteHeader(h) ==
    /\ headers[h] > 0
    /\ headers' = [headers EXCEPT ![h] = @ - 1]
    /\ order' = h
    /\ UNCHANGED <<line, floor, office, events, history>>

(* updateStatus: any status, whatever the order and its lines are. *)
SetStatus(status) ==
    /\ history.byHand < MaxByHand
    /\ order' = status
    /\ history' = [history EXCEPT !.byHand = @ + 1]
    /\ UNCHANGED <<line, floor, office, events, headers>>

--------------------------------------------------------------------------------
ReleaserStep(r) ==
    \/ \E w \in Waves : StartRelease(r, w)
    \/ CountTasks(r) \/ CreateTask(r) \/ MarkLine(r) \/ FinishRelease(r) \/ CutRelease(r)

PickerStep(p) ==
    \/ \E t \in TaskIds, quantity \in Scans : ReadTask(p, t, quantity)
    \/ EmitPick(p) \/ CommitPick(p) \/ RefuseFullPick(p) \/ RollbackPick(p)

Next ==
    \/ \E r \in Releasers : ReleaserStep(r)
    \/ \E p \in Pickers : PickerStep(p)
    \/ \E t \in TaskIds : AssignTask(t)
    \/ ReadLines
    \/ \E h \in HeaderStatuses : WriteHeader(h)
    \/ \E status \in ByHand : SetStatus(status)

Spec == Init /\ [][Next]_vars

--------------------------------------------------------------------------------
TypeOK ==
    /\ order \in OrderStatuses
    /\ line \in [Lines -> [status : {"ALLOCATED", "RELEASED", "BACKORDERED"}, fulfilled : Nat]]
    /\ \A t \in TaskIds :
          tasks[t] \in [allocation : Allocations, wave : Waves, toPick : Nat, picked : Nat,
                       status : {"CREATED", "IN_PROGRESS", "SHORT"}]
    /\ wave \in [Waves -> [status : {"PLANNED", "RELEASED"}, total : Nat]]
    /\ shelf \in [onHand : 0 .. Stock, picked : 0 .. Stock]
    /\ \A p \in Pickers : picker[p] # IdlePicker => picker[p].task \in TaskIds
    /\ \A r \in Releasers : releaser[r].made <= Len(tasks)
    /\ events \in Nat /\ headers \in [HeaderStatuses -> Nat]

(* However often waves are released, an allocation is picked by one task,   *)
(* unless two releases were in progress at once or one ended before its      *)
(* lines were marked (wave.service.ts:59-139).                               *)
PickedByOneTask ==
    history.crossed \/ history.cut
    \/ \A s, t \in TaskIds : tasks[s].allocation = tasks[t].allocation => s = t

PickedOn == [t \in TaskIds |-> tasks[t].picked]
FulfilledOn == [l \in Lines |-> line[l].fulfilled]
TasksOf(l) == {t \in TaskIds : LineOfTask(t) = l}

(* What was picked is in three places: on the tasks of a line, on the line   *)
(* and on the shelf.  Lines and tasks agree unless two pickers confirmed one *)
(* task at once, each writing the sum it had read (picking.service.ts:62);   *)
(* lines and shelf unless a pick was booked of stock that was not there,     *)
(* which the guarded updateMany passes over in silence (79-91).              *)
PicksAddUp ==
    /\ \A l \in Lines \ history.doubled :
          line[l].fulfilled = Cardinality(Units(PickedOn, TasksOf(l)))
    /\ history.uncovered \/ shelf.picked = Cardinality(Units(FulfilledOn, Lines))

(* An order that has left ALLOCATED is not offered to the wave planner again, *)
(* unless two listeners were between reading the lines and writing the order *)
(* at once, or someone has set its status by hand (order.service.ts:85-112,  *)
(* 148-152, 167-176).                                                        *)
NotOfferedAgain ==
    [][order # "ALLOCATED" /\ order' = "ALLOCATED" =>
          history.raced \/ history'.byHand > 0]_vars
================================================================================
