------------------------------- MODULE GoodsReceipt -------------------------------
(***************************************************************************)
(* Goods receipts and the scans of the dock: GrnService.createFromAsn and  *)
(* receiveLine (src/src/inbound/grn.service.ts), the lines that are typed  *)
(* on the web (web/grn-line.controller.ts) and the inspections of QcService *)
(* (qc.service.ts).  One advance ship notice with one line may be turned   *)
(* into several receipts, and RF devices scan goods of a receipt's line    *)
(* onto packages (LPNs), new or known.                                     *)
(*                                                                         *)
(* receiveLine reads the line before its transaction and writes the sum it *)
(* computed then, so two devices on one line may both read first.  The     *)
(* transaction writes the package relatively and the line absolutely, and  *)
(* is one step.  There is one product, and one lot number, which a package *)
(* bears or not.  Damaged quantities and the header of the receipt, which  *)
(* no scan looks at, are left out.                                         *)
(*                                                                         *)
(* ScanOverReceived and LineStatusOneShort are defective variants of       *)
(* definitions that follow them.                                           *)
(***************************************************************************)
EXTENDS Integers, FiniteSets

CONSTANTS
    Receipts,     \* receipts that may be created from the notice
    Expected,     \* expectedQuantity of their line
    Lpns,         \* packages
    Quantities,   \* quantities of a scan
    Typed,        \* quantities typed on the web
    Devices,      \* RF devices at the dock
    Dock,         \* where a package is until it is put away
    MaxScans,     \* bound: scans tried
    MaxInterventions, \* bound: steps of WebStep, and of those who use this module
    NoReceipt

(* RfReceiveDto asks for at least 0.001, the DTOs of the web for at least 0. *)
ASSUME QuantityAssumption ==
    Expected \in Nat \ {0} /\ Quantities \subseteq Nat \ {0} /\ Typed \subseteq Nat
ASSUME BoundAssumption == MaxScans \in Nat /\ MaxInterventions \in Nat
ASSUME NothingAssumption == NoReceipt \notin Receipts

VARIABLES
    asn,          \* advance_ship_notices.status
    received,     \* goods_receipt_lines.received_quantity
    lineStatus,   \* goods_receipt_lines.status, ABSENT before there is a line
    lotKnown,     \* inventory_lots has the lot
    lpn,          \* license_plate_numbers
    device,       \* the scan every device is about to commit
    scans,        \* scans tried so far
    interventions, \* steps counted against MaxInterventions
    accepted,     \* history: what was scanned onto packages, per line
    overlapped,   \* history: lines two devices were scanning at once
    edited        \* history: lines whose received quantity was typed

receiving == <<asn, received, lineStatus, lotKnown, lpn, device, scans, accepted, overlapped,
               edited>>
inbound == <<receiving, interventions>>

--------------------------------------------------------------------------------
LineStatuses ==
    {"ABSENT", "OPEN", "RECEIVING", "RECEIVED", "QC_PENDING", "QC_FAILED", "PUTAWAY_PENDING",
     "DELETED"}

(* IN_STAGING is as PUTAWAY_PENDING, and every status left out as QUARANTINED: *)
(* nothing here asks for it.                                                  *)
LpnStatuses ==
    {"RECEIVED", "PUTAWAY_PENDING", "IN_QC", "NESTED", "STORED", "QUARANTINED"}

(* lot: the package bears the lot number. *)
NoPackage ==
    [status |-> "ABSENT", quantity |-> 0, receipt |-> NoReceipt, lot |-> FALSE, place |-> Dock]
IdleDevice == [receipt |-> NoReceipt, quantity |-> 0, sum |-> 0]

Created(g) == lineStatus[g] \notin {"ABSENT", "DELETED"}
Scanning(g) == {d \in Devices : device[d].receipt = g}

GoodsReceiptInit ==
    /\ asn = "CREATED"
    /\ received = [g \in Receipts |-> 0]
    /\ lineStatus = [g \in Receipts |-> "ABSENT"]
    /\ lotKnown = FALSE
    /\ lpn = [p \in Lpns |-> NoPackage]
    /\ device = [d \in Devices |-> IdleDevice]
    /\ scans = 0
    /\ interventions = 0
    /\ accepted = [g \in Receipts |-> 0]
    /\ overlapped = {}
    /\ edited = {}

--------------------------------------------------------------------------------
(* The notice is not asked whether it has been received before. *)
CreateFromAsn(g) ==
    /\ lineStatus[g] = "ABSENT"
    /\ lineStatus' = [lineStatus EXCEPT ![g] = "OPEN"]
    /\ asn' = "ARRIVED"
    /\ UNCHANGED <<received, lotKnown, lpn, device, scans, interventions, accepted, overlapped,
                    edited>>

(* QuantityExceededException otherwise. *)
Admitted(g, quantity) == received[g] + quantity <= Expected

(* receiveLine up to its transaction. *)
ReadLine(d) ==
    /\ device[d] = IdleDevice
    /\ scans < MaxScans
    /\ \E g \in Receipts, quantity \in Quantities :
          /\ Created(g)
          /\ Admitted(g, quantity)
          /\ device' = [device EXCEPT ![d] =
                [receipt |-> g, quantity |-> quantity, sum |-> received[g] + quantity]]
          /\ overlapped' = IF Scanning(g) = {} THEN overlapped ELSE overlapped \cup {g}
    /\ scans' = scans + 1
    /\ UNCHANGED <<asn, received, lineStatus, lotKnown, lpn, interventions, accepted, edited>>

LineStatusOneShort(sum) == IF sum >= Expected - 1 THEN "RECEIVED" ELSE "RECEIVING"

LineStatusOf(sum) == IF sum >= Expected THEN "RECEIVED" ELSE "RECEIVING"

(* The upsert of a package: what it holds is incremented, and whatever it was *)
(* and wherever it stood, it is RECEIVED at the dock, for this line and with  *)
(* the lot number of the scan or of the line. A deleted package is gone: its   *)
(* number makes a new one. A lot number that was scanned makes the lot.       *)
Load(scan) ==
    \E p \in Lpns, lot, scanned \in BOOLEAN :
        /\ lpn[p].status # "DELETED"
        /\ lpn' = [lpn EXCEPT ![p] =
              [status |-> "RECEIVED", quantity |-> lpn[p].quantity + scan.quantity,
               receipt |-> scan.receipt, lot |-> lot \/ scanned, place |-> Dock]]
        /\ lotKnown' = (lotKnown \/ scanned)

ScanOverReceived(d) ==
    /\ device[d] # IdleDevice
    /\ LET scan == device[d]
           g == scan.receipt
       IN  /\ Created(g)
           /\ Load(scan)
           /\ received' = [received EXCEPT ![g] = @ + scan.sum]
           /\ lineStatus' = [lineStatus EXCEPT ![g] = LineStatusOf(scan.sum)]
           /\ accepted' = [accepted EXCEPT ![g] = @ + scan.quantity]
    /\ device' = [device EXCEPT ![d] = IdleDevice]
    /\ UNCHANGED <<asn, scans, interventions, overlapped, edited>>

(* The transaction of receiveLine, which fails if the line is gone. *)
CommitScan(d) ==
    /\ device[d] # IdleDevice
    /\ LET scan == device[d]
           g == scan.receipt
       IN  /\ Created(g)
           /\ Load(scan)
           /\ received' = [received EXCEPT ![g] = scan.sum]
           /\ lineStatus' = [lineStatus EXCEPT ![g] = LineStatusOf(scan.sum)]
           /\ accepted' = [accepted EXCEPT ![g] = @ + scan.quantity]
    /\ device' = [device EXCEPT ![d] = IdleDevice]
    /\ UNCHANGED <<asn, scans, interventions, overlapped, edited>>

(* The transaction fails, or the node does, and nothing is written. *)
RollbackScan(d) ==
    /\ device[d] # IdleDevice
    /\ device' = [device EXCEPT ![d] = IdleDevice]
    /\ UNCHANGED <<asn, received, lineStatus, lotKnown, lpn, scans, interventions, accepted,
                    overlapped, edited>>

--------------------------------------------------------------------------------
(* The web: a line is created with the quantity it is said to have received,  *)
(* corrected, and deleted. No package hears of the first two; the third takes *)
(* the line from its packages.                                                *)

Intervene == interventions < MaxInterventions /\ interventions' = interventions + 1

CreateLine(g, quantity) ==
    /\ Intervene
    /\ lineStatus[g] = "ABSENT"
    /\ lineStatus' = [lineStatus EXCEPT ![g] = "OPEN"]
    /\ received' = [received EXCEPT ![g] = quantity]
    /\ edited' = IF quantity = 0 THEN edited ELSE edited \cup {g}
    /\ UNCHANGED <<asn, lotKnown, lpn, device, scans, accepted, overlapped>>

UpdateLine(g, quantity) ==
    /\ Intervene
    /\ Created(g)
    /\ received' = [received EXCEPT ![g] = quantity]
    /\ edited' = edited \cup {g}
    /\ UNCHANGED <<asn, lineStatus, lotKnown, lpn, device, scans, accepted, overlapped>>

DeleteLine(g) ==
    /\ Intervene
    /\ Created(g)
    /\ lineStatus' = [lineStatus EXCEPT ![g] = "DELETED"]
    /\ lpn' = [p \in Lpns |-> IF lpn[p].receipt = g
                              THEN [lpn[p] EXCEPT !.receipt = NoReceipt] ELSE lpn[p]]
    /\ UNCHANGED <<asn, received, lotKnown, device, scans, accepted, overlapped, edited>>

(* Inspections and dispositions set the status of the line, and of those of   *)
(* its packages whose status is one of "from".                                *)
Judge(g, status, from, to) ==
    /\ Intervene
    /\ Created(g)
    /\ lineStatus' = [lineStatus EXCEPT ![g] = status]
    /\ lpn' = [p \in Lpns |-> IF lpn[p].receipt = g /\ lpn[p].status \in from
                              THEN [lpn[p] EXCEPT !.status = to] ELSE lpn[p]]
    /\ UNCHANGED <<asn, received, lotKnown, device, scans, accepted, overlapped, edited>>

RouteToQc(g) == Judge(g, "QC_PENDING", {}, "IN_QC")

Inspect(g) ==
    \/ Judge(g, "PUTAWAY_PENDING", {"IN_QC"}, "PUTAWAY_PENDING")
    \/ Judge(g, "QC_FAILED", {"IN_QC"}, "QUARANTINED")

(* To quarantine a line is to quarantine its packages, the stored ones too.   *)
ApplyDisposition(g) ==
    \/ Judge(g, "QC_FAILED", LpnStatuses, "QUARANTINED")
    \/ Judge(g, "QC_FAILED", {}, "QUARANTINED")
    \/ Judge(g, "PUTAWAY_PENDING", {}, "PUTAWAY_PENDING")

WebStep(g) ==
    \/ \E quantity \in Typed : CreateLine(g, quantity) \/ UpdateLine(g, quantity)
    \/ DeleteLine(g) \/ RouteToQc(g) \/ Inspect(g) \/ ApplyDisposition(g)

GoodsReceiptNext ==
    \/ \E g \in Receipts : CreateFromAsn(g) \/ WebStep(g)
    \/ \E d \in Devices : ReadLine(d) \/ CommitScan(d) \/ RollbackScan(d)

GoodsReceiptSpec == GoodsReceiptInit /\ [][GoodsReceiptNext]_inbound
--------------------------------------------------------------------------------
Scans == [receipt: Receipts, quantity: Quantities, sum: Nat]

ReceivingTypeOK ==
    /\ asn \in {"CREATED", "ARRIVED"}
    /\ received \in [Receipts -> Nat]
    /\ lineStatus \in [Receipts -> LineStatuses]
    /\ lotKnown \in BOOLEAN
    /\ device \in [Devices -> Scans \cup {IdleDevice}]
    /\ scans \in Nat /\ interventions \in Nat
    /\ accepted \in [Receipts -> Nat]
    /\ overlapped \in SUBSET Receipts /\ edited \in SUBSET Receipts

(* However scans of a line, inspections and deletions interleave and fail, a  *)
(* line whose received quantity nobody typed on the web never claims more     *)
(* than was scanned onto packages, and if it says RECEIVED, all it expected   *)
(* was: lost updates only ever understate.                                    *)
NothingClaimed ==
    \A g \in Receipts \ edited :
        /\ received[g] <= accepted[g] /\ received[g] <= Expected
        /\ lineStatus[g] = "RECEIVED" => accepted[g] >= Expected

(* A line that was never scanned by two devices at once, and whose received   *)
(* quantity nobody typed, says exactly what its packages were given, and that *)
(* is no more than expected.                                                  *)
ScansAddUp ==
    \A g \in Receipts \ (overlapped \cup edited) :
        accepted[g] = received[g] /\ accepted[g] <= Expected
================================================================================
