------------------------------- MODULE CycleCount -------------------------------
(***************************************************************************)
(* Cycle counts of the stock of one product in one facility, from the      *)
(* snapshot of the system quantity to the posting of the variance:         *)
(* CycleCountService (src/src/inventory/counts/cycle-count.service.ts) and *)
(* the approvals it creates (AdjustmentApprovalService,                    *)
(* src/src/approvals/adjustment-approval.service.ts).                      *)
(*                                                                         *)
(* Devices submit lines, offices finalise counts, approvers decide on what *)
(* is beyond the automatic limit, and meanwhile goods keep moving.  Every  *)
(* await is a point where another actor may run; approve's transaction has *)
(* relative writes only and is one step.  Operators count what is there:   *)
(* "physical" is the stock as it really is, which no program sees.         *)
(*                                                                         *)
(* The holds of freezeLocation are left out: it writes '' to the uuid      *)
(* column facility_id, so none is ever created (schedule and adhocCount    *)
(* throw after the count is there), and nothing that moves stock reads     *)
(* one.  The level of an approval (SUPERVISOR or MANAGER) is left out: no  *)
(* handler looks at it, and the one that looks for AUTO_APPROVED finds no  *)
(* approval of a count.  The assignment lock is one per count and user, so *)
(* it never keeps another user out.                                        *)
(*                                                                         *)
(* RecordVariance, SetToCounted and ApproveInLedgerOnly are defective      *)
(* variants of the definitions they precede.                               *)
(***************************************************************************)
EXTENDS Integers, Sequences, FiniteSets

CONSTANTS
    Counts, Locations, Lots,
    Stocks,         \* quantities of goods a row may have at first
    Recorded,       \* quantities it may be recorded to have
    AutoAdjusting,  \* counts created with autoAdjust
    AutoLimit,      \* units of variance worth autoThreshold (a unit is worth 10)
    AdhocMethods,   \* count methods of the ad hoc counts made
    Devices,        \* devices that submit lines
    Offices,        \* finalizeCount calls in progress
    Approvers,      \* approve calls in progress
    MaxMoves,       \* bound: movements of goods
    MaxFinalizations, \* bound: finalizeCount calls of a count
    MaxApprovals,   \* bound: approvals created
    NoLine, NoCount, Nobody

Rows == Locations \X Lots
Lines == Counts \X Rows     \* one line of a count per row, if the count has it
RowOf(l) == l[2]

ASSUME StocksAssumption == Stocks \subseteq Nat /\ Recorded \subseteq Nat
ASSUME CountsAssumption == AutoAdjusting \subseteq Counts /\ AutoLimit \in Nat
ASSUME BoundsAssumption == MaxMoves \in Nat /\ MaxFinalizations \in Nat /\ MaxApprovals \in Nat
ASSUME NothingAssumption ==
    NoLine \notin Lines /\ NoCount \notin Counts /\ Nobody \notin Devices

VARIABLES
    physical,   \* goods really in a row
    onHand,     \* inventory_on_hand.quantity_on_hand
    journal,    \* sum of the signed inventory_transactions of a row
    count,      \* cycle_counts: status (SCOPED: not yet inserted), and if it is assigned
    line,       \* cycle_count_lines: status, systemQuantity, countedQuantity
    lineLock,   \* who set count:line:{id}, or Nobody
    approvals,  \* adjustment_approvals of lines, by id
    device,     \* what every device is doing
    office,     \* what every finalizeCount is doing
    approver,   \* approval an approver has read as PENDING, or 0
    moves,      \* movements so far
    moved,      \* history: lines whose row has moved since their snapshot
    begun,      \* history: finalisations begun of every count
    tainted,    \* history: rows of which no count can be trusted, see below
    torn        \* history: rows whose ledger and stock were not changed alike

stock == <<physical, onHand, journal>>
history == <<moves, moved, begun, tainted, torn>>
vars == <<physical, onHand, journal, count, line, lineLock, approvals, device,
          office, approver, moves, moved, begun, tainted, torn>>

--------------------------------------------------------------------------------
NewCount == [status |-> "NONE", assigned |-> FALSE]
NewLine == [status |-> "ABSENT", system |-> 0, counted |-> 0]
IdleDevice == [stage |-> "idle", line |-> NoLine, quantity |-> 0, stale |-> FALSE]
IdleOffice == [stage |-> "idle", count |-> NoCount, assigned |-> FALSE,
               left |-> {}, current |-> NoLine]

Created(c) == count[c].status \notin {"NONE", "SCOPED"}
LinesOf(c) == {l \in Lines : l[1] = c /\ line[l].status # "ABSENT"}
Variance(l) == line[l].counted - line[l].system
Abs(n) == IF n < 0 THEN -n ELSE n

(* A line as finalizeCount read it, with its variance. *)
CopyOf(l) == [line |-> l, variance |-> Variance(l)]

(* A line whose variance may still be posted: a posting of another count's    *)
(* line of the same row makes this variance wrong.                            *)
Open(l) ==
    \/ line[l].status # "ABSENT" /\ count[l[1]].status # "RECONCILED"
    \/ \E i \in 1 .. Len(approvals) :
          /\ approvals[i].line = l
          /\ approvals[i].status = "PENDING" \/ \E p \in Approvers : approver[p] = i

(* Rows whose stock and counts a posting of l may set at odds: its own, when  *)
(* another count of it is open, and the other lots of its location, because   *)
(* postAdjustment and approve change every lot there.                         *)
OtherLots(l) == {r \in Rows : r[1] = RowOf(l)[1] /\ r # RowOf(l)}
TaintedBy(l) ==
    OtherLots(l) \cup {r \in {RowOf(l)} : \E m \in Lines \ {l} : RowOf(m) = r /\ Open(m)}

Adjusted(l, variance) ==
    [r \in Rows |-> IF r[1] = RowOf(l)[1] THEN onHand[r] + variance ELSE onHand[r]]

Init ==
    /\ physical \in [Rows -> Stocks]
    /\ onHand \in [Rows -> Recorded]
    /\ journal = onHand
    /\ count = [c \in Counts |-> NewCount]
    /\ line = [l \in Lines |-> NewLine]
    /\ lineLock = [l \in Lines |-> Nobody]
    /\ approvals = << >>
    /\ device = [d \in Devices |-> IdleDevice]
    /\ office = [f \in Offices |-> IdleOffice]
    /\ approver = [p \in Approvers |-> 0]
    /\ moves = 0
    /\ moved = {}
    /\ begun = [c \in Counts |-> 0]
    /\ tainted = {}
    /\ torn = {}

--------------------------------------------------------------------------------
(* Goods arrive or leave and the transaction engine posts them (external).    *)
Move(row, delta) ==
    /\ moves < MaxMoves
    /\ physical[row] + delta >= 0 /\ onHand[row] + delta >= 0
    /\ physical' = [physical EXCEPT ![row] = @ + delta]
    /\ onHand' = [onHand EXCEPT ![row] = @ + delta]
    /\ journal' = [journal EXCEPT ![row] = @ + delta]
    /\ moves' = moves + 1
    /\ moved' = moved \cup {l \in Lines : RowOf(l) = row /\ line[l].status \in {"SCOPED", "PENDING"}}
    /\ UNCHANGED <<count, line, lineLock, approvals, device, office, approver,
                    begun, tainted, torn>>

(* The rows in scope are read, the system quantity of each with them. *)
ReadScope(c, rows, system) ==
    /\ count[c].status = "NONE"
    /\ count' = [count EXCEPT ![c].status = "SCOPED"]
    /\ line' = [l \in Lines |->
                  IF l[1] = c /\ RowOf(l) \in rows
                  THEN [NewLine EXCEPT !.status = "SCOPED", !.system = system[RowOf(l)]]
                  ELSE line[l]]
    /\ UNCHANGED <<stock, lineLock, approvals, device, office, approver, history>>

Stocked == {r \in Rows : onHand[r] > 0}

(* schedule: a ZONE takes the empty rows as well. *)
Schedule(c) == \E rows \in {Rows, Stocked} : ReadScope(c, rows, onHand)

(* adhocCount: rows with stock at the locations named; a BLIND count gets     *)
(* system quantities of zero.                                                 *)
Adhoc(c) ==
    \E rows \in SUBSET Stocked, method \in AdhocMethods :
        /\ rows # {}
        /\ ReadScope(c, rows, IF method = "BLIND" THEN [r \in Rows |-> 0] ELSE onHand)

(* The count and its lines are inserted, all in one statement. *)
Create(c) ==
    /\ count[c].status = "SCOPED"
    /\ count' = [count EXCEPT ![c].status = "SCHEDULED"]
    /\ line' = [l \in Lines |->
                  IF l[1] = c /\ line[l].status = "SCOPED"
                  THEN [line[l] EXCEPT !.status = "PENDING"] ELSE line[l]]
    /\ UNCHANGED <<stock, lineLock, approvals, device, office, approver, history>>

(* assign, whatever the status of the count is. *)
Assign(c) ==
    /\ Created(c)
    /\ count' = [count EXCEPT ![c] = [status |-> "ASSIGNED", assigned |-> TRUE]]
    /\ UNCHANGED <<stock, line, lineLock, approvals, device, office, approver, history>>

--------------------------------------------------------------------------------
(* submitLine *)

(* The operator counts the goods of a line that the device shows as PENDING. *)
CountGoods(d, l) ==
    /\ device[d].stage = "idle"
    /\ line[l].status = "PENDING"
    /\ device' = [device EXCEPT ![d] = [stage |-> "counted", line |-> l,
                     quantity |-> physical[RowOf(l)], stale |-> l \in moved]]
    /\ UNCHANGED <<stock, count, line, lineLock, approvals, office, approver, history>>

(* submitLine looks at the status before it takes the lock. *)
ReadLine(d) ==
    /\ device[d].stage = "counted"
    /\ line[device[d].line].status = "PENDING"
    /\ device' = [device EXCEPT ![d].stage = "read"]
    /\ UNCHANGED <<stock, count, line, lineLock, approvals, office, approver, history>>

(* SET count:line:{id} '1' EX 30 NX. *)
LockLine(d) ==
    /\ device[d].stage = "read"
    /\ lineLock[device[d].line] = Nobody
    /\ lineLock' = [lineLock EXCEPT ![device[d].line] = d]
    /\ device' = [device EXCEPT ![d].stage = "locked"]
    /\ UNCHANGED <<stock, count, line, approvals, office, approver, history>>

RecordVariance(d) ==
    LET l == device[d].line
    IN  /\ device[d].stage = "locked"
        /\ line' = [line EXCEPT ![l].status = "COUNTED",
                                ![l].counted = device[d].quantity - line[l].system]
        /\ device' = [device EXCEPT ![d].stage = "written"]
        /\ tainted' = tainted \cup {r \in {RowOf(l)} : device[d].stale}
        /\ UNCHANGED <<stock, count, lineLock, approvals, office, approver, moves,
                        moved, begun, torn>>

(* The update asks for the id only.  systemQuantity never changes, so that    *)
(* the variance is that of the line.                                          *)
RecordCount(d) ==
    LET l == device[d].line
    IN  /\ device[d].stage = "locked"
        /\ line' = [line EXCEPT ![l].status = "COUNTED", ![l].counted = device[d].quantity]
        /\ device' = [device EXCEPT ![d].stage = "written"]
        /\ tainted' = tainted \cup {r \in {RowOf(l)} : device[d].stale}
        /\ UNCHANGED <<stock, count, lineLock, approvals, office, approver, moves,
                        moved, begun, torn>>

(* finally: the key is deleted, whoever set it; so it is when the update has  *)
(* failed.                                                                    *)
UnlockLine(d) ==
    /\ device[d].stage \in {"locked", "written"}
    /\ lineLock' = [lineLock EXCEPT ![device[d].line] = Nobody]
    /\ device' = [device EXCEPT ![d] = IdleDevice]
    /\ UNCHANGED <<stock, count, line, approvals, office, approver, history>>

(* The line is refused ("already counted", "409 AlreadyCounted"), or the      *)
(* process dies and leaves the lock.                                          *)
GiveUp(d) ==
    /\ device[d].stage # "idle"
    /\ device' = [device EXCEPT ![d] = IdleDevice]
    /\ UNCHANGED <<stock, count, line, lineLock, approvals, office, approver, history>>

(* 30 seconds have passed. *)
ExpireLineLock(l) ==
    /\ lineLock[l] # Nobody
    /\ lineLock' = [lineLock EXCEPT ![l] = Nobody]
    /\ UNCHANGED <<stock, count, line, approvals, device, office, approver, history>>

--------------------------------------------------------------------------------
(* finalizeCount *)

(* The count is read with its lines, all of them COUNTED; its status is not   *)
(* looked at.                                                                 *)
StartFinalize(f, c) ==
    /\ office[f].stage = "idle"
    /\ Created(c)
    /\ \A l \in LinesOf(c) : line[l].status = "COUNTED"
    /\ office' = [office EXCEPT ![f] = [stage |-> "lines", count |-> c,
                     assigned |-> count[c].assigned,
                     left |-> {CopyOf(l) : l \in LinesOf(c)}, current |-> NoLine]]
    /\ begun[c] < MaxFinalizations
    /\ begun' = [begun EXCEPT ![c] = @ + 1]
    /\ tainted' = tainted \cup {r \in Rows : begun[c] > 0 /\ <<c, r>> \in LinesOf(c)}
    /\ UNCHANGED <<stock, count, line, lineLock, approvals, device, approver, moves,
                    moved, torn>>

IsAutomatic(c, copy) == c \in AutoAdjusting /\ Abs(copy.variance) <= AutoLimit

(* postAdjustment has nothing to post. *)
PassLine(f) ==
    /\ office[f].stage = "lines"
    /\ \E copy \in office[f].left :
          /\ IsAutomatic(office[f].count, copy) /\ copy.variance = 0
          /\ office' = [office EXCEPT ![f].left = @ \ {copy}]
    /\ UNCHANGED <<stock, count, line, lineLock, approvals, device, approver, history>>

(* postAdjustment, first statement: the ledger row. *)
PostLedger(f) ==
    /\ office[f].stage = "lines"
    /\ \E copy \in office[f].left :
          /\ IsAutomatic(office[f].count, copy) /\ copy.variance # 0
          /\ journal' = [journal EXCEPT ![RowOf(copy.line)] = @ + copy.variance]
          /\ office' = [office EXCEPT ![f].stage = "posting", ![f].current = copy,
                                      ![f].left = @ \ {copy}]
    /\ UNCHANGED <<physical, onHand, count, line, lineLock, approvals, device, approver,
                    history>>

SetToCounted(f) ==
    LET copy == office[f].current
    IN  /\ office[f].stage = "posting"
        /\ onHand' = [onHand EXCEPT ![RowOf(copy.line)] = line[copy.line].counted]
        /\ office' = [office EXCEPT ![f].stage = "lines", ![f].current = NoLine]
        /\ tainted' = tainted \cup TaintedBy(copy.line)
        /\ torn' = torn \cup OtherLots(copy.line)
        /\ UNCHANGED <<physical, journal, count, line, lineLock, approvals, device,
                        approver, moves, moved, begun>>

(* postAdjustment, second statement: the stock. *)
PostStock(f) ==
    LET copy == office[f].current
    IN  /\ office[f].stage = "posting"
        /\ onHand' = Adjusted(copy.line, copy.variance)
        /\ office' = [office EXCEPT ![f].stage = "lines", ![f].current = NoLine]
        /\ tainted' = tainted \cup TaintedBy(copy.line)
        /\ torn' = torn \cup OtherLots(copy.line)
        /\ UNCHANGED <<physical, journal, count, line, lineLock, approvals, device,
                        approver, moves, moved, begun>>

(* What is not automatic waits for an approval.  An unassigned count has none *)
(* to request it: 'SYSTEM' is no uuid and the insert fails.                   *)
RequestApproval(f) ==
    /\ office[f].stage = "lines"
    /\ office[f].assigned
    /\ Len(approvals) < MaxApprovals
    /\ \E copy \in office[f].left :
          /\ ~IsAutomatic(office[f].count, copy)
          /\ approvals' = Append(approvals, [line |-> copy.line, status |-> "PENDING"])
          /\ office' = [office EXCEPT ![f].left = @ \ {copy}]
    /\ UNCHANGED <<stock, count, line, lineLock, device, approver, history>>

(* The count is RECONCILED when every line has been dealt with. *)
Reconcile(f) ==
    /\ office[f].stage = "lines" /\ office[f].left = {}
    /\ count' = [count EXCEPT ![office[f].count].status = "RECONCILED"]
    /\ office' = [office EXCEPT ![f] = IdleOffice]
    /\ UNCHANGED <<stock, line, lineLock, approvals, device, approver, history>>

(* A statement throws or the process dies: what was posted stays posted. *)
Abort(f) ==
    /\ office[f].stage # "idle"
    /\ torn' = torn \cup {r \in Rows : office[f].stage = "posting"
                                         /\ r = RowOf(office[f].current.line)}
    /\ office' = [office EXCEPT ![f] = IdleOffice]
    /\ UNCHANGED <<stock, count, line, lineLock, approvals, device, approver, moves,
                    moved, begun, tainted>>

--------------------------------------------------------------------------------
(* AdjustmentApprovalService *)

ApprovalIds == 1 .. Len(approvals)

(* approve reads the approval as PENDING before its transaction. *)
ReadApproval(p, i) ==
    /\ approver[p] = 0
    /\ approvals[i].status = "PENDING"
    /\ approver' = [approver EXCEPT ![p] = i]
    /\ tainted' = tainted \cup {r \in {RowOf(approvals[i].line)} :
                                 \E q \in Approvers : approver[q] = i}
    /\ UNCHANGED <<stock, count, line, lineLock, approvals, device, office, moves,
                    moved, begun, torn>>

ApproveInLedgerOnly(p) ==
    LET i == approver[p]
        l == approvals[i].line
    IN  /\ i # 0
        /\ approvals' = [approvals EXCEPT ![i].status = "APPROVED"]
        /\ journal' = [journal EXCEPT ![RowOf(l)] = @ + Variance(l)]
        /\ approver' = [approver EXCEPT ![p] = 0]
        /\ tainted' = tainted \cup TaintedBy(l)
        /\ torn' = torn \cup OtherLots(l)
        /\ UNCHANGED <<physical, onHand, count, line, lineLock, device, office, moves,
                        moved, begun>>

(* Its transaction: the status by id, the ledger row and the stock, with the  *)
(* variance the line has by now.                                              *)
Approve(p) ==
    LET i == approver[p]
        l == approvals[i].line
    IN  /\ i # 0
        /\ approvals' = [approvals EXCEPT ![i].status = "APPROVED"]
        /\ journal' = [journal EXCEPT ![RowOf(l)] = @ + Variance(l)]
        /\ onHand' = Adjusted(l, Variance(l))
        /\ approver' = [approver EXCEPT ![p] = 0]
        /\ tainted' = tainted \cup TaintedBy(l)
        /\ torn' = torn \cup OtherLots(l)
        /\ UNCHANGED <<physical, count, line, lineLock, device, office, moves,
                        moved, begun>>

(* The transaction fails and is rolled back. *)
FailToApprove(p) ==
    /\ approver[p] # 0
    /\ approver' = [approver EXCEPT ![p] = 0]
    /\ UNCHANGED <<stock, count, line, lineLock, approvals, device, office, history>>

(* reject, whatever the status of the approval is. *)
Reject(i) ==
    /\ approvals' = [approvals EXCEPT ![i].status = "REJECTED"]
    /\ UNCHANGED <<stock, count, line, lineLock, device, office, approver, history>>

--------------------------------------------------------------------------------
DeviceStep(d) ==
    \/ \E l \in Lines : CountGoods(d, l)
    \/ ReadLine(d) \/ LockLine(d) \/ RecordCount(d) \/ UnlockLine(d) \/ GiveUp(d)

OfficeStep(f) ==
    \/ \E c \in Counts : StartFinalize(f, c)
    \/ PassLine(f) \/ PostLedger(f) \/ PostStock(f) \/ RequestApproval(f)
    \/ Reconcile(f) \/ Abort(f)

ApproverStep(p) ==
    \/ \E i \in ApprovalIds : ReadApproval(p, i)
    \/ Approve(p) \/ FailToApprove(p)

Next ==
    \/ \E row \in Rows, delta \in {-1, 1} : Move(row, delta)
    \/ \E c \in Counts : Schedule(c) \/ Adhoc(c) \/ Create(c) \/ Assign(c)
    \/ \E d \in Devices : DeviceStep(d)
    \/ \E f \in Offices : OfficeStep(f)
    \/ \E p \in Approvers : ApproverStep(p)
    \/ \E i \in ApprovalIds : Reject(i)
    \/ \E l \in Lines : ExpireLineLock(l)

Spec == Init /\ [][Next]_vars

--------------------------------------------------------------------------------
CountRecords == [status: {"NONE", "SCOPED", "SCHEDULED", "ASSIGNED", "RECONCILED"},
                 assigned: BOOLEAN]
LineRecords == [status: {"ABSENT", "SCOPED", "PENDING", "COUNTED"}, system: Int, counted: Nat]
ApprovalRecords == [line: Lines, status: {"PENDING", "APPROVED", "REJECTED"}]
DeviceRecords == [stage: {"idle", "counted", "read", "locked", "written"},
                  line: Lines \cup {NoLine}, quantity: Nat, stale: BOOLEAN]
Copies == [line: Lines, variance: Int]
OfficeRecords == [stage: {"idle", "lines", "posting"}, count: Counts \cup {NoCount},
                  assigned: BOOLEAN, left: SUBSET Copies, current: Copies \cup {NoLine}]

Typed ==
    /\ physical \in [Rows -> Nat]
    /\ onHand \in [Rows -> Int]
    /\ journal \in [Rows -> Int]
    /\ count \in [Counts -> CountRecords]
    /\ line \in [Lines -> LineRecords]
    /\ lineLock \in [Lines -> Devices \cup {Nobody}]
    /\ approvals \in Seq(ApprovalRecords)
    /\ device \in [Devices -> DeviceRecords]
    /\ office \in [Offices -> OfficeRecords]
    /\ approver \in [Approvers -> 0 .. Len(approvals)]
    /\ moves \in 0 .. MaxMoves
    /\ moved \in SUBSET Lines
    /\ begun \in [Counts -> 0 .. MaxFinalizations]
    /\ tainted \in SUBSET Rows
    /\ torn \in SUBSET Rows

(* What is recorded as counted is a quantity of goods, never below zero, and  *)
(* whoever works on a line, count or approval works on one that exists.       *)
TypeOK ==
    /\ Typed
    /\ \A d \in Devices :
          device[d].stage # "idle" =>
              device[d].line \in Lines /\ line[device[d].line].status \in {"PENDING", "COUNTED"}
    /\ \A f \in Offices :
          /\ office[f].stage # "idle" => Created(office[f].count)
          /\ office[f].stage = "posting" => office[f].current \in Copies
    /\ \A i \in ApprovalIds : line[approvals[i].line].status = "COUNTED"

(* A count makes the stock true: once it is RECONCILED and its approvals are  *)
(* given, what is on hand is what is there.  Goods that move after they were  *)
(* counted do no harm, wherever the count has got to; nor do two devices that *)
(* submit the same line, a lock that runs out, or a finalisation that dies    *)
(* before it has begun to post.  Not so ("tainted") when goods moved between  *)
(* the snapshot and the counting, when two counts of a row were open at once, *)
(* when a count was finalised twice, or an approval given twice at once.      *)
Settled(l) ==
    /\ line[l].status # "ABSENT"
    /\ count[l[1]].status = "RECONCILED"
    /\ \A i \in ApprovalIds : approvals[i].line = l => approvals[i].status = "APPROVED"

CountCorrects ==
    \A l \in Lines :
        Settled(l) /\ RowOf(l) \notin tainted => onHand[RowOf(l)] = physical[RowOf(l)]

(* The ledger says what the stock is, whatever counts, postings, approvals and *)
(* movements interleave.  Not so where an automatic adjustment has written    *)
(* the one and not yet the other, and never again ("torn") where one has died *)
(* between the two, nor at the other lots of a location that a finalisation   *)
(* or an approval has adjusted: either changes the stock of every lot there   *)
(* and the ledger of one, with nothing dying.                                 *)
BeingPosted == {RowOf(office[f].current.line) : f \in {f \in Offices : office[f].stage = "posting"}}

LedgerAgrees ==
    \A r \in Rows \ (torn \cup BeingPosted) : journal[r] = onHand[r]
================================================================================
