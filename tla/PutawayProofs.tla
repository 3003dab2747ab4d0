------------------------------- MODULE PutawayProofs -------------------------------
(***************************************************************************)
(* For any number of receipts, devices, workers and operators: what a line *)
(* claims was scanned, and the stock of every place is what is stored      *)
(* there.                                                                  *)
(*                                                                         *)
(* The sum a device has read and will write is what makes the claims       *)
(* inductive (SumsBacked): on a line whose quantity nobody typed, it never *)
(* exceeds what is on packages by then and what the device is about to     *)
(* add, because what was scanned is never taken back.                      *)
(*                                                                         *)
(* Stock is what is stored because, undisturbed, a package has one task,   *)
(* which says what it holds, and what an operator is about to confirm is   *)
(* not stored (Undisturbed).  The place of a stored package then has a     *)
(* row, which is never below zero, and the repair finds nothing.           *)
(***************************************************************************)
EXTENDS Putaway, SequenceTheorems, FiniteSetTheorems, TLAPS

Busy == {d \in Devices : device[d] # IdleDevice}

(* What a device will write is no more than expected, nor than there will be. *)
SumsBacked ==
    \A d \in Busy :
        device[d].receipt \notin edited =>
            /\ device[d].sum <= Expected
            /\ device[d].sum <= accepted[device[d].receipt] + device[d].quantity

(* Alone on its line, a device will write exactly what there will be. *)
SumsExact ==
    \A d \in Busy :
        device[d].receipt \notin overlapped \cup edited =>
            /\ device[d].sum = accepted[device[d].receipt] + device[d].quantity
            /\ \A e \in Busy : device[e].receipt = device[d].receipt => e = d

(* Before there is a line, nothing is on it. *)
Untouched ==
    \A g \in Receipts :
        lineStatus[g] = "ABSENT" => received[g] = 0 /\ accepted[g] = 0

ReceivingInv ==
    /\ ReceivingTypeOK
    /\ NothingClaimed
    /\ ScansAddUp
    /\ SumsBacked
    /\ SumsExact
    /\ Untouched

--------------------------------------------------------------------------------
LEMMA BusyScans ==
    ASSUME ReceivingTypeOK, NEW d \in Busy
    PROVE  /\ d \in Devices /\ device[d] \in Scans
           /\ device[d].receipt \in Receipts
           /\ device[d].quantity \in Nat /\ device[d].sum \in Nat
    BY QuantityAssumption DEF Busy, ReceivingTypeOK, Scans

LEMMA ReceivingInitially == GoodsReceiptInit => ReceivingInv
<1> SUFFICES ASSUME GoodsReceiptInit PROVE ReceivingInv
    OBVIOUS
<1>1. Busy = {}
    BY DEF GoodsReceiptInit, Busy
<1>2. ReceivingTypeOK
    BY DEF GoodsReceiptInit, ReceivingTypeOK, LineStatuses
<1>3. NothingClaimed /\ ScansAddUp /\ Untouched
    BY QuantityAssumption DEF GoodsReceiptInit, NothingClaimed, ScansAddUp, Untouched
<1> QED
    BY <1>1, <1>2, <1>3 DEF ReceivingInv, SumsBacked, SumsExact

(* Whoever sets the status of a line to one that does not say RECEIVED. *)
LEMMA MarkKeeps ==
    ASSUME ReceivingInv, NEW g \in Receipts, NEW status \in LineStatuses \ {"ABSENT", "RECEIVED"},
           lineStatus' = [lineStatus EXCEPT ![g] = status],
           asn' \in {"CREATED", "ARRIVED"}, interventions' \in Nat,
           UNCHANGED <<received, lotKnown, device, scans, accepted, overlapped, edited>>
    PROVE  ReceivingInv'
<1>1. Busy' = Busy
    BY DEF Busy
<1>2. lineStatus \in [Receipts -> LineStatuses]
    BY DEF ReceivingInv, ReceivingTypeOK
<1>3. /\ lineStatus' \in [Receipts -> LineStatuses]
      /\ \A h \in Receipts :
            lineStatus'[h] \in {"ABSENT", "RECEIVED"} => lineStatus'[h] = lineStatus[h]
    BY <1>2
<1>4. ReceivingTypeOK'
    BY <1>3 DEF ReceivingInv, ReceivingTypeOK
<1>5. NothingClaimed' /\ ScansAddUp' /\ Untouched'
    BY <1>3 DEF ReceivingInv, NothingClaimed, ScansAddUp, Untouched
<1>6. SumsBacked' /\ SumsExact'
    BY <1>1 DEF ReceivingInv, SumsBacked, SumsExact
<1> QED
    BY <1>4, <1>5, <1>6 DEF ReceivingInv

LEMMA CreateKeeps ==
    ASSUME ReceivingInv, NEW g \in Receipts, CreateFromAsn(g) PROVE ReceivingInv'
<1>1. "OPEN" \in LineStatuses \ {"ABSENT", "RECEIVED"}
    BY DEF LineStatuses
<1>2. interventions' \in Nat
    BY DEF CreateFromAsn, ReceivingInv, ReceivingTypeOK
<1> QED
    BY <1>1, <1>2, MarkKeeps DEF CreateFromAsn

LEMMA ReadKeeps ==
    ASSUME ReceivingInv, NEW d \in Devices, ReadLine(d) PROVE ReceivingInv'
<1> USE DEF ReceivingInv
<1>1. PICK g \in Receipts, quantity \in Quantities :
        /\ received[g] + quantity <= Expected
        /\ device' = [device EXCEPT ![d] =
              [receipt |-> g, quantity |-> quantity, sum |-> received[g] + quantity]]
        /\ overlapped' = IF Scanning(g) = {} THEN overlapped ELSE overlapped \cup {g}
    BY DEF ReadLine, Admitted
<1>2. /\ quantity \in Nat /\ received[g] \in Nat /\ accepted[g] \in Nat
      /\ g \notin edited => received[g] <= accepted[g]
    BY QuantityAssumption DEF ReceivingTypeOK, NothingClaimed
<1>3. /\ UNCHANGED <<asn, received, lineStatus, lotKnown, interventions, accepted, edited>>
      /\ device[d] = IdleDevice
    BY DEF ReadLine
<1>4. /\ device'[d] = [receipt |-> g, quantity |-> quantity, sum |-> received[g] + quantity]
      /\ \A e \in Devices \ {d} : device'[e] = device[e]
    BY <1>1 DEF ReceivingTypeOK
<1>5. d \notin Busy /\ Busy' = Busy \cup {d}
    BY <1>3, <1>4, NothingAssumption DEF Busy, IdleDevice
<1>6. ReceivingTypeOK'
    <2>1. device' \in [Devices -> Scans \cup {IdleDevice}]
        BY <1>1, <1>2 DEF ReceivingTypeOK, Scans
    <2>2. scans' \in Nat /\ overlapped' \in SUBSET Receipts
        BY <1>1 DEF ReadLine, ReceivingTypeOK
    <2> QED
        BY <2>1, <2>2, <1>3 DEF ReceivingTypeOK
<1>7. NothingClaimed' /\ ScansAddUp' /\ Untouched'
    BY <1>1, <1>3 DEF NothingClaimed, ScansAddUp, Untouched
<1>8. SumsBacked'
    BY <1>1, <1>2, <1>3, <1>4, <1>5 DEF SumsBacked, Busy
<1>9. SumsExact'
    <2>1. overlapped \subseteq overlapped' /\ (g \notin overlapped' => Scanning(g) = {})
        BY <1>1
    <2>2. \A e \in Busy : g \notin overlapped' => device[e].receipt # g
        BY <2>1 DEF Scanning, Busy
    <2>3. g \notin overlapped' \cup edited => received[g] = accepted[g]
        BY <2>1 DEF ScansAddUp
    <2> QED
        BY <1>2, <1>3, <1>4, <1>5, <2>1, <2>2, <2>3 DEF SumsExact, Busy
<1> QED
    BY <1>6, <1>7, <1>8, <1>9

LEMMA CommitKeeps ==
    ASSUME ReceivingInv, NEW d \in Devices, CommitScan(d) PROVE ReceivingInv'
<1> USE DEF ReceivingInv
<1> DEFINE g == device[d].receipt
           quantity == device[d].quantity
           sum == device[d].sum
<1>1. d \in Busy
    BY DEF CommitScan, Busy
<1>2. g \in Receipts /\ quantity \in Nat /\ sum \in Nat
    BY <1>1, BusyScans
<1>3. /\ received' = [received EXCEPT ![g] = sum]
      /\ lineStatus' = [lineStatus EXCEPT ![g] = LineStatusOf(sum)]
      /\ accepted' = [accepted EXCEPT ![g] = @ + quantity]
      /\ device' = [device EXCEPT ![d] = IdleDevice]
      /\ UNCHANGED <<asn, scans, interventions, overlapped, edited>>
    BY DEF CommitScan
<1>4. Busy' = Busy \ {d} /\ \A e \in Busy' : device'[e] = device[e]
    BY <1>1, <1>3 DEF Busy, ReceivingTypeOK
<1>5. /\ received'[g] = sum /\ accepted'[g] = accepted[g] + quantity
      /\ lineStatus'[g] = LineStatusOf(sum)
      /\ \A h \in Receipts \ {g} :
            received'[h] = received[h] /\ accepted'[h] = accepted[h]
            /\ lineStatus'[h] = lineStatus[h]
    BY <1>2, <1>3 DEF ReceivingTypeOK
<1>6. \A h \in Receipts : received[h] \in Nat /\ accepted[h] \in Nat
    BY DEF ReceivingTypeOK
<1>7. ReceivingTypeOK'
    <2>1. /\ received' \in [Receipts -> Nat] /\ accepted' \in [Receipts -> Nat]
          /\ lineStatus' \in [Receipts -> LineStatuses]
        BY <1>2, <1>3, <1>6 DEF ReceivingTypeOK, LineStatusOf, LineStatuses
    <2>2. device' \in [Devices -> Scans \cup {IdleDevice}]
        BY <1>3 DEF ReceivingTypeOK
    <2>3. lotKnown' \in BOOLEAN
        <3>1. PICK scanned \in BOOLEAN : lotKnown' = (lotKnown \/ scanned)
            BY DEF CommitScan, Load
        <3> QED
            BY <3>1, Zenon
    <2> QED
        BY <1>3, <2>1, <2>2, <2>3 DEF ReceivingTypeOK
<1>8. g \notin edited => sum <= Expected /\ sum <= accepted[g] + quantity
    BY <1>1 DEF SumsBacked
<1>9. NothingClaimed'
    BY <1>2, <1>3, <1>5, <1>6, <1>8, QuantityAssumption DEF NothingClaimed, LineStatusOf
<1>10. ScansAddUp'
    <2>1. g \notin overlapped \cup edited => sum = accepted[g] + quantity
        BY <1>1 DEF SumsExact
    <2> QED
        BY <1>2, <1>3, <1>5, <1>8, <2>1 DEF ScansAddUp
<1>11. SumsBacked'
    <2>1. SUFFICES ASSUME NEW e \in Busy', device[e].receipt \notin edited
                   PROVE  /\ device[e].sum <= Expected
                          /\ device[e].sum <= accepted'[device[e].receipt] + device[e].quantity
        BY <1>3, <1>4 DEF SumsBacked
    <2>2. e \in Busy
        BY <1>4
    <2>3. device[e].receipt \in Receipts /\ device[e].sum \in Nat /\ device[e].quantity \in Nat
        BY <2>2, BusyScans
    <2>4. accepted'[device[e].receipt] >= accepted[device[e].receipt]
          /\ accepted'[device[e].receipt] \in Nat
        BY <1>2, <1>5, <1>6, <2>3
    <2> QED
        BY <1>6, <2>1, <2>2, <2>3, <2>4 DEF SumsBacked
<1>12. SumsExact'
    <2>1. SUFFICES ASSUME NEW e \in Busy', device[e].receipt \notin overlapped \cup edited
                   PROVE  /\ device[e].sum = accepted'[device[e].receipt] + device[e].quantity
                          /\ \A f \in Busy' : device[f].receipt = device[e].receipt => f = e
        BY <1>3, <1>4 DEF SumsExact
    <2>2. e \in Busy /\ e # d /\ device[e].receipt \in Receipts
        BY <1>4, BusyScans
    <2>3. device[e].receipt # g
        BY <1>1, <2>1, <2>2 DEF SumsExact
    <2> QED
        BY <1>4, <1>5, <2>1, <2>2, <2>3 DEF SumsExact
<1>13. Untouched'
    BY <1>5 DEF Untouched, LineStatusOf
<1> QED
    BY <1>7, <1>9, <1>10, <1>11, <1>12, <1>13

LEMMA RollbackKeeps ==
    ASSUME ReceivingInv, NEW d \in Devices, RollbackScan(d) PROVE ReceivingInv'
<1> USE DEF ReceivingInv
<1>1. Busy' = Busy \ {d} /\ \A e \in Busy' : device'[e] = device[e]
    BY DEF RollbackScan, Busy, ReceivingTypeOK
<1>2. UNCHANGED <<asn, received, lineStatus, lotKnown, scans, interventions, accepted, overlapped,
                  edited>>
    BY DEF RollbackScan
<1>3. ReceivingTypeOK'
    BY <1>2 DEF RollbackScan, ReceivingTypeOK
<1>4. NothingClaimed' /\ ScansAddUp' /\ Untouched'
    BY <1>2 DEF NothingClaimed, ScansAddUp, Untouched
<1>5. SumsBacked' /\ SumsExact'
    BY <1>1, <1>2 DEF SumsBacked, SumsExact
<1> QED
    BY <1>3, <1>4, <1>5

(* A quantity is typed: a new line has none on it, and of another one nothing is *)
(* claimed any more.                                                           *)
LEMMA TypedKeeps ==
    ASSUME ReceivingInv, NEW g \in Receipts, NEW quantity \in Typed,
           CreateLine(g, quantity) \/ UpdateLine(g, quantity)
    PROVE  ReceivingInv'
<1> USE DEF ReceivingInv
<1>1. /\ UNCHANGED <<asn, lotKnown, device, scans, accepted, overlapped>>
      /\ received' = [received EXCEPT ![g] = quantity]
      /\ interventions' = interventions + 1
    BY DEF CreateLine, UpdateLine, Intervene
<1>2. Busy' = Busy /\ quantity \in Nat
    BY <1>1, QuantityAssumption DEF Busy
<1>3. /\ \/ lineStatus' = lineStatus /\ lineStatus[g] # "ABSENT"
         \/ lineStatus[g] = "ABSENT" /\ lineStatus' = [lineStatus EXCEPT ![g] = "OPEN"]
      /\ \/ edited' = edited \cup {g}
         \/ edited' = edited /\ lineStatus[g] = "ABSENT" /\ quantity = 0
    BY DEF CreateLine, UpdateLine, Created
<1>4. /\ edited \subseteq edited' /\ edited' \subseteq edited \cup {g}
      /\ \A h \in Receipts \ {g} : received'[h] = received[h] /\ lineStatus'[h] = lineStatus[h]
      /\ received'[g] = quantity
      /\ lineStatus'[g] # "ABSENT"
      /\ g \notin edited' => /\ received'[g] = 0 /\ accepted[g] = 0
                             /\ lineStatus'[g] # "RECEIVED"
    <2>1. received \in [Receipts -> Nat] /\ lineStatus \in [Receipts -> LineStatuses]
        BY DEF ReceivingTypeOK
    <2>2. lineStatus[g] = "ABSENT" => accepted[g] = 0
        BY DEF Untouched
    <2> QED
        BY <1>1, <1>3, <2>1, <2>2
<1>5. ReceivingTypeOK'
    <2>1. received' \in [Receipts -> Nat] /\ interventions' \in Nat
        BY <1>1, <1>2 DEF ReceivingTypeOK
    <2>2. lineStatus' \in [Receipts -> LineStatuses]
        BY <1>3 DEF ReceivingTypeOK, LineStatuses
    <2>3. edited' \in SUBSET Receipts
        BY <1>4 DEF ReceivingTypeOK
    <2> QED
        BY <1>1, <2>1, <2>2, <2>3 DEF ReceivingTypeOK
<1>6. NothingClaimed' /\ ScansAddUp'
    <2>1. 0 <= Expected
        BY QuantityAssumption
    <2> QED
        BY <1>1, <1>4, <2>1 DEF NothingClaimed, ScansAddUp
<1>7. SumsBacked' /\ SumsExact'
    BY <1>1, <1>2, <1>4 DEF SumsBacked, SumsExact
<1>8. Untouched'
    BY <1>1, <1>4 DEF Untouched
<1> QED
    BY <1>5, <1>6, <1>7, <1>8

LEMMA WebKeeps ==
    ASSUME ReceivingInv, NEW g \in Receipts, WebStep(g) PROVE ReceivingInv'
<1>1. CASE \E quantity \in Typed : CreateLine(g, quantity) \/ UpdateLine(g, quantity)
    BY <1>1, TypedKeeps
<1>2. ASSUME NEW status \in {"DELETED", "QC_PENDING", "QC_FAILED", "PUTAWAY_PENDING"},
             Intervene, lineStatus' = [lineStatus EXCEPT ![g] = status],
             UNCHANGED <<asn, received, lotKnown, device, scans, accepted, overlapped, edited>>
      PROVE  ReceivingInv'
    <2>1. status \in LineStatuses \ {"ABSENT", "RECEIVED"}
        BY DEF LineStatuses
    <2>2. interventions' \in Nat /\ asn' \in {"CREATED", "ARRIVED"}
        BY <1>2 DEF Intervene, ReceivingInv, ReceivingTypeOK
    <2> QED
        BY <1>2, <2>1, <2>2, MarkKeeps
<1>3. CASE DeleteLine(g)
    BY <1>2, <1>3 DEF DeleteLine
<1>4. ASSUME NEW status \in {"QC_PENDING", "QC_FAILED", "PUTAWAY_PENDING"}, NEW from, NEW to,
             Judge(g, status, from, to)
      PROVE  ReceivingInv'
    BY <1>2, <1>4 DEF Judge
<1>5. CASE RouteToQc(g) \/ Inspect(g) \/ ApplyDisposition(g)
    BY <1>4, <1>5 DEF RouteToQc, Inspect, ApplyDisposition
<1> QED
    BY <1>1, <1>3, <1>5 DEF WebStep

(* Packages and whatever else is put away do not enter the claims. *)
LEMMA OthersKeep ==
    ASSUME ReceivingInv, UNCHANGED paper, lotKnown' \in BOOLEAN, interventions' \in Nat
    PROVE  ReceivingInv'
<1>1. UNCHANGED <<asn, received, lineStatus, device, scans, accepted, overlapped, edited>>
    BY DEF paper
<1>2. ReceivingTypeOK'
    BY <1>1 DEF ReceivingInv, ReceivingTypeOK
<1>3. NothingClaimed' /\ ScansAddUp' /\ Untouched'
    BY <1>1 DEF ReceivingInv, NothingClaimed, ScansAddUp, Untouched
<1>4. SumsBacked' /\ SumsExact'
    BY <1>1 DEF ReceivingInv, SumsBacked, SumsExact, Busy
<1> QED
    BY <1>2, <1>3, <1>4 DEF ReceivingInv

LEMMA ReceivingStep == ReceivingInv /\ GoodsReceiptNext => ReceivingInv'
<1> SUFFICES ASSUME ReceivingInv, GoodsReceiptNext PROVE ReceivingInv'
    OBVIOUS
<1>1. CASE \E g \in Receipts : CreateFromAsn(g) \/ WebStep(g)
    BY <1>1, CreateKeeps, WebKeeps
<1>2. CASE \E d \in Devices : ReadLine(d) \/ CommitScan(d) \/ RollbackScan(d)
    BY <1>2, ReadKeeps, CommitKeeps, RollbackKeeps
<1> QED
    BY <1>1, <1>2 DEF GoodsReceiptNext

(* A step that leaves all the dock knows as it is. *)
LEMMA Unseen ==
    ASSUME ReceivingInv, UNCHANGED <<receiving, interventions>> PROVE ReceivingInv'
<1>1. UNCHANGED paper /\ UNCHANGED <<lotKnown, interventions>>
    BY DEF paper, receiving
<1>2. lotKnown \in BOOLEAN /\ interventions \in Nat
    BY DEF ReceivingInv, ReceivingTypeOK
<1> QED
    BY <1>1, <1>2, OthersKeep

LEMMA OfficeKeeps ==
    ASSUME ReceivingInv, OfficeStep PROVE ReceivingInv'
<1>1. lotKnown \in BOOLEAN /\ interventions \in Nat
    BY DEF ReceivingInv, ReceivingTypeOK
<1>2. Intervene => interventions' \in Nat
    BY <1>1 DEF Intervene
<1>3. ASSUME UNCHANGED receiving PROVE UNCHANGED paper /\ UNCHANGED lotKnown
    BY <1>3 DEF receiving, paper
<1>4. ASSUME NEW t \in TaskIds, Intervene, AssignTask(t) PROVE ReceivingInv'
    BY <1>1, <1>2, <1>3, <1>4, OthersKeep DEF AssignTask
<1>5. ASSUME NEW t \in TaskIds, NEW status, Intervene, UpdateTaskStatus(t, status)
      PROVE  ReceivingInv'
    BY <1>1, <1>2, <1>3, <1>5, OthersKeep DEF UpdateTaskStatus
<1>6. ASSUME NEW p \in Lpns, NEW package, Rewrite(p, package), interventions' \in Nat
      PROVE  ReceivingInv'
    BY <1>1, <1>6, OthersKeep DEF Rewrite
<1>7. ASSUME NEW p \in Lpns, Intervene,
             CreateLpn(p) \/ UpdateLpn(p) \/ DeleteLpn(p) \/ MoveLpn(p) \/ NestLpn(p)
      PROVE  ReceivingInv'
    BY <1>2, <1>6, <1>7 DEF CreateLpn, UpdateLpn, DeleteLpn, MoveLpn, NestLpn
<1>8. ASSUME NEW p \in Lpns, Intervene, ReceiveTransfer(p) PROVE ReceivingInv'
    BY <1>1, <1>2, <1>8, OthersKeep DEF ReceiveTransfer
<1>9. ASSUME Intervene, MoveStock PROVE ReceivingInv'
    BY <1>1, <1>2, <1>3, <1>9, OthersKeep DEF MoveStock
<1>10. ASSUME NEW t \in TaskIds, ExpireTaskLock(t) PROVE ReceivingInv'
    BY <1>10, Unseen DEF ExpireTaskLock, inbound
<1>11. ASSUME UNCHANGED interventions, CreateLot PROVE ReceivingInv'
    BY <1>1, <1>11, OthersKeep DEF CreateLot
<1>12. ASSUME NEW p \in Lpns, UNCHANGED interventions, UnnestLpn(p) PROVE ReceivingInv'
    BY <1>1, <1>6, <1>12 DEF UnnestLpn
<1> QED
    BY <1>4, <1>5, <1>7, <1>8, <1>9, <1>10, <1>11, <1>12 DEF OfficeStep

LEMMA PutawayKeepsReceiving == ReceivingInv /\ [Next]_vars => ReceivingInv'
<1> SUFFICES ASSUME ReceivingInv, [Next]_vars PROVE ReceivingInv'
    OBVIOUS
<1>1. CASE Receive
    BY <1>1, ReceivingStep DEF Receive
<1>2. ASSUME NEW w \in Workers, WorkerStep(w) PROVE UNCHANGED inbound
    BY <1>2 DEF WorkerStep, TakeJob, Retry, Generate, ReadPackages, CreateTask, EndGeneration,
                Leave, FailAttempt
<1>3. ASSUME NEW g \in Receipts, ExpireGenLock(g) PROVE UNCHANGED inbound
    BY <1>3 DEF ExpireGenLock
<1>4. ASSUME NEW o \in Operators, OperatorStep(o) PROVE ReceivingInv'
    <2>1. CASE ReadTask(o) \/ RollbackPutaway(o)
        BY <2>1, Unseen DEF ReadTask, RollbackPutaway, inbound
    <2>2. CASE ConfirmPutaway(o)
        <3>1. UNCHANGED paper /\ UNCHANGED <<lotKnown, interventions>>
            BY <2>2 DEF ConfirmPutaway
        <3>2. lotKnown \in BOOLEAN /\ interventions \in Nat
            BY DEF ReceivingInv, ReceivingTypeOK
        <3> QED
            BY <3>1, <3>2, OthersKeep
    <2> QED
        BY <1>4, <2>1, <2>2 DEF OperatorStep
<1>5. ASSUME NEW n \in Nodes, RepairStep(n) PROVE UNCHANGED inbound
    BY <1>5 DEF RepairStep, StartRepair, Repair
<1>6. CASE OfficeStep
    BY <1>6, OfficeKeeps
<1>7. CASE UNCHANGED vars
    BY <1>7, Unseen DEF vars, inbound
<1>8. ASSUME UNCHANGED inbound PROVE ReceivingInv'
    BY <1>8, Unseen DEF inbound
<1> QED
    BY <1>1, <1>2, <1>3, <1>4, <1>5, <1>6, <1>7, <1>8 DEF Next

--------------------------------------------------------------------------------
(* The types, with what they leave unsaid: a worker that is busy is so with a  *)
(* receipt, one about to try again has an attempt left, and an operator who has *)
(* no task is idle.                                                            *)
Copies == [lpn: Lpns, quantity: Nat]
Tasks == [lpn: Lpns, quantity: Nat, status: TaskStatuses]
WorkerStates ==
    [stage: Stages, receipt: Receipts \cup {NoReceipt}, attempts: 0 .. MaxAttempts,
     todo: SUBSET Copies]
RepairCopies == [lpn: Lpns, place: Places, quantity: Nat, lot: BOOLEAN]

RacksTyped ==
    /\ ReceivingTypeOK
    /\ lpn \in [Lpns -> Packages]
    /\ tasks \in Seq(Tasks)
    /\ rows \in SUBSET Places
    /\ onHand \in [Places -> Int]
    /\ corrected \in [Places -> Nat]
    /\ genLock \in SUBSET Receipts
    /\ taskLock \in SUBSET TaskIds
    /\ worker \in [Workers -> WorkerStates]
    /\ \A w \in Workers :
          /\ worker[w].stage # "idle" => worker[w].receipt \in Receipts
          /\ worker[w].stage = "retry" => worker[w].attempts < MaxAttempts
    /\ operator \in [Operators -> [task: TaskIds \cup {0}, place: Places]]
    /\ \A o \in Operators : operator[o].task = 0 => operator[o] = IdleOperator
    /\ node \in [Nodes -> SUBSET RepairCopies]
    /\ disturbed \in BOOLEAN

(* While nothing has been disturbed, a package has one task at most, which,    *)
(* like a worker about to create it, says what the package holds.              *)
OneTaskEach == \A s, t \in TaskIds : tasks[s].lpn = tasks[t].lpn => s = t

Says(copy) == lpn[copy.lpn].quantity = copy.quantity
TasksSay == \A t \in TaskIds : Says(tasks[t])
WorkersSay == \A w \in Workers : \A copy \in worker[w].todo : Says(copy)

(* What is stored has a task that is completed; what an operator is about to   *)
(* store is not stored, and no other operator is about to.                     *)
StoredIsDone ==
    \A p \in Lpns :
        lpn[p].status = "STORED" =>
            \E t \in TaskIds : tasks[t].lpn = p /\ tasks[t].status = "COMPLETED"
OperatorsApart ==
    \A o \in Operators :
        operator[o].task # 0 =>
            /\ lpn[tasks[operator[o].task].lpn].status # "STORED"
            /\ \A q \in Operators : operator[q].task = operator[o].task => q = o

(* Then there is never anything to repair. *)
NothingToRepair == \A n \in Nodes : node[n] = {}
StoredHasRow == \A p \in Lpns : lpn[p].status = "STORED" => lpn[p].place \in rows

StoredAddsUp ==
    \A place \in Places :
        /\ IsFiniteSet(StoredAt(place))
        /\ onHand[place] = Cardinality(Units(HeldBy, StoredAt(place)))
        /\ corrected[place] = 0

Undisturbed ==
    /\ OneTaskEach
    /\ TasksSay
    /\ WorkersSay
    /\ StoredIsDone
    /\ OperatorsApart
    /\ NothingToRepair
    /\ StoredHasRow
    /\ StoredAddsUp

StorageInv == RacksTyped /\ (~ disturbed => Undisturbed)

--------------------------------------------------------------------------------
(* A task at the end of the list, and a task with another status. *)
LEMMA TaskAdded ==
    ASSUME tasks \in Seq(Tasks), NEW task \in Tasks, tasks' = Append(tasks, task)
    PROVE  /\ tasks' \in Seq(Tasks)
           /\ TaskIds' = TaskIds \cup {Len(tasks) + 1} /\ Len(tasks) + 1 \notin TaskIds
           /\ tasks'[Len(tasks) + 1] = task /\ \A t \in TaskIds : tasks'[t] = tasks[t]
<1>1. /\ tasks' \in Seq(Tasks) /\ Len(tasks') = Len(tasks) + 1
      /\ \A t \in 1 .. Len(tasks) : tasks'[t] = tasks[t]
      /\ tasks'[Len(tasks) + 1] = task /\ Len(tasks) \in Nat
    BY AppendProperties, LenProperties
<1> QED
    BY <1>1 DEF TaskIds

LEMMA TaskTyped ==
    ASSUME tasks \in Seq(Tasks), NEW t \in TaskIds
    PROVE  /\ tasks[t] \in Tasks /\ tasks[t].lpn \in Lpns /\ tasks[t].quantity \in Nat
           /\ tasks[t].status \in TaskStatuses /\ t \in Nat /\ t # 0
<1>1. Len(tasks) \in Nat /\ tasks \in [1 .. Len(tasks) -> Tasks]
    BY LenProperties
<1> QED
    BY <1>1 DEF TaskIds, Tasks

StatusBecomes(t, status) == tasks' = [tasks EXCEPT ![t].status = status]

LEMMA StatusSet ==
    ASSUME tasks \in Seq(Tasks), NEW t, NEW status \in TaskStatuses, StatusBecomes(t, status)
    PROVE  /\ tasks' \in Seq(Tasks) /\ TaskIds' = TaskIds
           /\ \A u \in TaskIds : /\ tasks'[u].lpn = tasks[u].lpn
                                 /\ tasks'[u].quantity = tasks[u].quantity
                                 /\ tasks'[u].status = IF u = t THEN status ELSE tasks[u].status
<1>1. Len(tasks) \in Nat /\ tasks \in [1 .. Len(tasks) -> Tasks]
    BY LenProperties
<1>2. tasks' \in [1 .. Len(tasks) -> Tasks]
    BY <1>1 DEF StatusBecomes, Tasks
<1>3. tasks' \in Seq(Tasks) /\ Len(tasks') = Len(tasks)
    BY <1>1, <1>2, IsASeq, LenProperties
<1>4. \A u \in TaskIds : /\ tasks'[u].lpn = tasks[u].lpn
                         /\ tasks'[u].quantity = tasks[u].quantity
                         /\ tasks'[u].status = IF u = t THEN status ELSE tasks[u].status
    BY <1>1 DEF StatusBecomes, TaskIds, Tasks
<1> QED
    BY <1>3, <1>4 DEF TaskIds

(* A package is rewritten, or every package of a line gets another status or   *)
(* forgets its line.                                                           *)
LEMMA LoadTyped ==
    ASSUME RacksTyped, NEW scan \in Scans, Load(scan) PROVE lpn' \in [Lpns -> Packages]
<1>1. PICK p \in Lpns, lot \in BOOLEAN, scanned \in BOOLEAN :
         lpn' = [lpn EXCEPT ![p] =
            [status |-> "RECEIVED", quantity |-> lpn[p].quantity + scan.quantity,
             receipt |-> scan.receipt, lot |-> lot \/ scanned, place |-> Dock]]
    BY DEF Load
<1>2. PICK n, g : n = lpn[p].quantity + scan.quantity /\ g = scan.receipt
    OBVIOUS
<1> PICK b : b = (lot \/ scanned)
    OBVIOUS
<1>3. lpn \in [Lpns -> Packages] /\ lpn[p].quantity \in Nat
    BY DEF RacksTyped, Packages
<1>4. n \in Nat /\ g \in Receipts
    <2>1. scan.quantity \in Nat /\ scan.receipt \in Receipts
        BY QuantityAssumption DEF Scans
    <2> QED
        BY <1>2, <1>3, <2>1
<1>5. b \in BOOLEAN
    BY Zenon
<1>6. PICK box : box = [status |-> "RECEIVED", quantity |-> n, receipt |-> g, lot |-> b,
                        place |-> Dock]
    OBVIOUS
<1>7. box \in Packages
    BY <1>4, <1>5, <1>6 DEF Packages, LpnStatuses, Places
<1>8. lpn' = [lpn EXCEPT ![p] = box]
    BY <1>1, <1>2, <1>6
<1> QED
    BY <1>3, <1>7, <1>8

LEMMA JudgeTyped ==
    ASSUME RacksTyped, NEW g \in Receipts, NEW status, NEW from,
           NEW to \in LpnStatuses, Judge(g, status, from, to)
    PROVE  lpn' \in [Lpns -> Packages]
<1>1. ASSUME NEW p \in Lpns PROVE [lpn[p] EXCEPT !.status = to] \in Packages /\ lpn[p] \in Packages
    BY DEF RacksTyped, Packages
<1> QED
    BY <1>1 DEF Judge

LEMMA DeleteTyped ==
    ASSUME RacksTyped, NEW g \in Receipts, DeleteLine(g) PROVE lpn' \in [Lpns -> Packages]
<1>1. ASSUME NEW p \in Lpns
      PROVE  [lpn[p] EXCEPT !.receipt = NoReceipt] \in Packages /\ lpn[p] \in Packages
    BY DEF RacksTyped, Packages
<1> QED
    BY <1>1 DEF DeleteLine

LEMMA ReceiveTyped ==
    ASSUME RacksTyped, ReceivingTypeOK', Receive PROVE RacksTyped'
<1>1. lpn' \in [Lpns -> Packages]
    <2>1. CASE UNCHANGED lpn
        BY <2>1 DEF RacksTyped
    <2>2. ASSUME NEW d \in Devices, CommitScan(d) PROVE lpn' \in [Lpns -> Packages]
        <3>1. device[d] \in Scans /\ Load(device[d])
            BY <2>2 DEF CommitScan, RacksTyped, ReceivingTypeOK
        <3> QED
            BY <3>1, LoadTyped
    <2>3. ASSUME NEW g \in Receipts, RouteToQc(g) \/ Inspect(g) \/ ApplyDisposition(g)
          PROVE  lpn' \in [Lpns -> Packages]
        <3>1. {"IN_QC", "PUTAWAY_PENDING", "QUARANTINED"} \subseteq LpnStatuses
            BY DEF LpnStatuses
        <3> QED
            BY <2>3, <3>1, JudgeTyped DEF RouteToQc, Inspect, ApplyDisposition
    <2> QED
        BY <2>1, <2>2, <2>3, DeleteTyped
        DEF Receive, GoodsReceiptNext, CreateFromAsn, ReadLine, RollbackScan, WebStep,
            CreateLine, UpdateLine
<1>2. UNCHANGED <<tasks, rows, onHand, corrected, genLock, taskLock, worker, operator, node>>
    BY DEF Receive, racks
<1>3. disturbed' \in BOOLEAN
    BY Zenon DEF Receive, RacksTyped
<1> QED
    BY <1>1, <1>2, <1>3 DEF RacksTyped, TaskIds

(* What a worker does to itself and to the locks. *)
Works(w) ==
    /\ worker' \in [Workers -> WorkerStates]
    /\ \A v \in Workers \ {w} : worker'[v] = worker[v]
    /\ worker'[w].stage # "idle" => worker'[w].receipt \in Receipts
    /\ worker'[w].stage = "retry" => worker'[w].attempts < MaxAttempts
    /\ genLock' \in SUBSET Receipts

LEMMA WorkerTyped ==
    ASSUME RacksTyped, ReceivingTypeOK', NEW w \in Workers, Works(w),
           UNCHANGED <<lpn, racks, taskLock, operator, node, disturbed>>
    PROVE  RacksTyped'
    BY DEF RacksTyped, Works, racks, TaskIds

LEMMA AttemptTyped ==
    ASSUME RacksTyped, NEW w \in Workers, NEW g \in Receipts, NEW n \in 0 .. MaxAttempts,
           BeginAttempt(w, g, n)
    PROVE  Works(w) /\ worker'[w].todo = {}
<1>1. worker \in [Workers -> WorkerStates] /\ genLock \in SUBSET Receipts
    BY DEF RacksTyped
<1>2. IdleWorker \in WorkerStates /\ IdleWorker.stage = "idle" /\ IdleWorker.todo = {}
    BY PutawayBoundAssumption DEF IdleWorker, WorkerStates, Stages
<1>3. CASE g \in genLock
    <2>1. worker' = [worker EXCEPT ![w] = IdleWorker] /\ genLock' = genLock
        BY <1>3 DEF BeginAttempt
    <2> QED
        BY <1>1, <1>2, <2>1 DEF Works
<1>4. CASE g \notin genLock
    <2>1. PICK mine : mine = [stage |-> "locked", receipt |-> g, attempts |-> n, todo |-> {}]
        OBVIOUS
    <2>2. worker' = [worker EXCEPT ![w] = mine] /\ genLock' = genLock \cup {g}
        BY <1>4, <2>1 DEF BeginAttempt, IdleWorker
    <2>3. /\ mine.stage = "locked" /\ mine.todo = {} /\ mine.receipt = g
          /\ mine \in WorkerStates
        BY <2>1 DEF WorkerStates, Stages
    <2> QED
        BY <1>1, <2>2, <2>3 DEF Works
<1> QED
    BY <1>3, <1>4

LEMMA RetryAttempt ==
    ASSUME RacksTyped, NEW w \in Workers, Retry(w)
    PROVE  worker[w].receipt \in Receipts /\ worker[w].attempts + 1 \in 0 .. MaxAttempts
<1>1. /\ worker[w].receipt \in Receipts /\ worker[w].attempts \in 0 .. MaxAttempts
      /\ worker[w].attempts < MaxAttempts
    BY DEF Retry, RacksTyped, WorkerStates
<1> PICK n : n = worker[w].attempts
    OBVIOUS
<1>2. n \in 0 .. MaxAttempts /\ n < MaxAttempts
    BY <1>1
<1>3. n + 1 \in 0 .. MaxAttempts
    BY <1>2, PutawayBoundAssumption
<1> QED
    BY <1>1, <1>3

LEMMA StepsWork ==
    ASSUME RacksTyped, NEW w \in Workers,
           \/ TakeJob(w) \/ Retry(w) \/ Generate(w) \/ ReadPackages(w) \/ EndGeneration(w)
           \/ Leave(w) \/ FailAttempt(w)
    PROVE  Works(w)
<1>1. /\ worker \in [Workers -> WorkerStates] /\ worker[w] \in WorkerStates
      /\ genLock \in SUBSET Receipts
      /\ worker[w].stage # "idle" => worker[w].receipt \in Receipts
      /\ IdleWorker \in WorkerStates /\ IdleWorker.stage = "idle"
    BY PutawayBoundAssumption DEF RacksTyped, IdleWorker, WorkerStates, Stages
<1>2. CASE TakeJob(w)
    <2>1. PICK g \in Receipts : BeginAttempt(w, g, 1)
        BY <1>2 DEF TakeJob
    <2>2. 1 \in 0 .. MaxAttempts
        BY PutawayBoundAssumption
    <2> QED
        BY <2>1, <2>2, AttemptTyped
<1>3. CASE Retry(w)
    BY <1>3, RetryAttempt, AttemptTyped DEF Retry
<1>4. ASSUME NEW stage \in Stages, NEW todo \in SUBSET Copies,
             worker' = [worker EXCEPT ![w].stage = stage, ![w].todo = todo],
             worker[w].stage # "idle", stage = "retry" => worker[w].attempts < MaxAttempts,
             genLock' \in SUBSET Receipts
      PROVE  Works(w)
    BY <1>1, <1>4 DEF Works, WorkerStates
<1>5. ASSUME NEW stage \in Stages, worker' = [worker EXCEPT ![w].stage = stage],
             worker[w].stage # "idle", stage # "retry", genLock' \in SUBSET Receipts
      PROVE  Works(w)
    BY <1>1, <1>5 DEF Works, WorkerStates
<1>6. ASSUME worker' = [worker EXCEPT ![w] = IdleWorker], genLock' \in SUBSET Receipts
      PROVE  Works(w)
    BY <1>1, <1>6 DEF Works
<1>7. CASE Generate(w)
    BY <1>1, <1>5, <1>7 DEF Generate, Stages
<1>8. CASE ReadPackages(w)
    <2>1. PICK waiting, todo :
             /\ waiting = Waiting(worker[w].receipt)
             /\ todo = {[lpn |-> p, quantity |-> lpn[p].quantity] : p \in waiting}
        OBVIOUS
    <2>2. todo \in SUBSET Copies
        <3>1. \A p \in waiting : p \in Lpns /\ lpn[p].quantity \in Nat
            BY <2>1 DEF RacksTyped, Packages, Waiting
        <3> QED
            BY <2>1, <3>1 DEF Copies
    <2>3. worker' = [worker EXCEPT ![w].stage = "creating", ![w].todo = todo]
        BY <1>8, <2>1 DEF ReadPackages
    <2> QED
        BY <1>1, <1>4, <1>8, <2>2, <2>3 DEF ReadPackages, Stages
<1>9. CASE EndGeneration(w)
    BY <1>1, <1>5, <1>9 DEF EndGeneration, Stages
<1>10. CASE Leave(w)
    BY <1>1, <1>6, <1>10 DEF Leave
<1>11. CASE FailAttempt(w)
    <2>1. CASE worker[w].attempts < MaxAttempts
        <3>1. PICK stage \in Stages, todo \in SUBSET Copies : stage = "retry" /\ todo = {}
            BY DEF Stages
        <3>2. worker' = [worker EXCEPT ![w].stage = stage, ![w].todo = todo]
            BY <1>1, <1>11, <2>1, <3>1 DEF FailAttempt
        <3>3. worker[w].stage # "idle" /\ genLock' \in SUBSET Receipts
            BY <1>1, <1>11 DEF FailAttempt
        <3> QED
            BY <1>4, <2>1, <3>2, <3>3
    <2>2. CASE ~ (worker[w].attempts < MaxAttempts)
        BY <1>1, <1>6, <1>11, <2>2 DEF FailAttempt
    <2> QED
        BY <2>1, <2>2
<1> QED
    BY <1>2, <1>3, <1>7, <1>8, <1>9, <1>10, <1>11

(* What a step of the queue other than creating a task leaves as it is. *)
LEMMA QueueRest ==
    ASSUME NEW w \in Workers,
           \/ TakeJob(w) \/ Retry(w) \/ Generate(w) \/ ReadPackages(w) \/ EndGeneration(w)
           \/ Leave(w) \/ FailAttempt(w)
    PROVE  UNCHANGED <<lpn, tasks, rows, onHand, corrected, taskLock, operator, node, disturbed>>
    BY DEF TakeJob, Retry, Generate, ReadPackages, EndGeneration, Leave, FailAttempt, inbound,
           receiving, racks

LEMMA CreateTaskTyped ==
    ASSUME RacksTyped, NEW w \in Workers, CreateTask(w)
    PROVE  /\ Works(w) /\ disturbed' \in BOOLEAN
           /\ \E copy \in worker[w].todo, task \in Tasks :
                 /\ task.lpn = copy.lpn /\ task.quantity = copy.quantity
                 /\ task.status = "CREATED"
                 /\ tasks' = Append(tasks, task)
                 /\ disturbed' = (disturbed \/ HasTask(copy.lpn))
                 /\ worker'[w].todo = worker[w].todo \ {copy}
<1>1. PICK copy \in worker[w].todo :
         /\ tasks' = Append(tasks, [lpn |-> copy.lpn, quantity |-> copy.quantity,
                                    status |-> "CREATED"])
         /\ worker' = [worker EXCEPT ![w].todo = @ \ {copy}]
         /\ disturbed' = (disturbed \/ HasTask(copy.lpn))
    BY DEF CreateTask
<1>2. worker \in [Workers -> WorkerStates] /\ worker[w] \in WorkerStates /\ copy \in Copies
    BY DEF RacksTyped, WorkerStates
<1>3. /\ Works(w) /\ worker'[w].todo = worker[w].todo \ {copy}
    <2>1. /\ worker' \in [Workers -> WorkerStates]
          /\ \A v \in Workers \ {w} : worker'[v] = worker[v]
          /\ worker'[w].stage = worker[w].stage /\ worker'[w].receipt = worker[w].receipt
          /\ worker'[w].attempts = worker[w].attempts
          /\ worker'[w].todo = worker[w].todo \ {copy}
        BY <1>1, <1>2 DEF WorkerStates
    <2>2. UNCHANGED genLock /\ worker[w].stage = "creating"
        BY DEF CreateTask
    <2> QED
        BY <2>1, <2>2 DEF Works, RacksTyped
<1>4. disturbed' \in BOOLEAN
    BY <1>1, Zenon DEF RacksTyped
<1>5. PICK task : task = [lpn |-> copy.lpn, quantity |-> copy.quantity, status |-> "CREATED"]
    OBVIOUS
<1>6. task \in Tasks /\ task.lpn = copy.lpn /\ task.quantity = copy.quantity
      /\ task.status = "CREATED"
    BY <1>2, <1>5 DEF Tasks, Copies, TaskStatuses
<1> QED
    BY <1>1, <1>3, <1>4, <1>5, <1>6

LEMMA QueueTyped ==
    ASSUME RacksTyped, ReceivingTypeOK', NEW w \in Workers, WorkerStep(w)
    PROVE  RacksTyped'
<1>1. CASE \/ TakeJob(w) \/ Retry(w) \/ Generate(w) \/ ReadPackages(w) \/ EndGeneration(w)
           \/ Leave(w) \/ FailAttempt(w)
    BY <1>1, StepsWork, QueueRest, WorkerTyped DEF racks
<1>2. CASE CreateTask(w)
    <2>1. /\ Works(w) /\ disturbed' \in BOOLEAN
          /\ UNCHANGED <<lpn, rows, onHand, corrected, genLock, taskLock, operator, node>>
        BY <1>2, CreateTaskTyped DEF CreateTask, inbound, receiving
    <2>2. PICK task \in Tasks : tasks' = Append(tasks, task)
        BY <1>2, CreateTaskTyped
    <2>3. tasks' \in Seq(Tasks) /\ TaskIds \subseteq TaskIds'
        BY <2>2, TaskAdded DEF RacksTyped
    <2>4. /\ operator' \in [Operators -> [task: TaskIds' \cup {0}, place: Places]]
          /\ taskLock' \in SUBSET TaskIds'
        BY <2>1, <2>3 DEF RacksTyped
    <2> QED
        BY <2>1, <2>3, <2>4 DEF RacksTyped, Works
<1> QED
    BY <1>1, <1>2 DEF WorkerStep

(* A package is put away; what it holds stays. *)
LEMMA Placed ==
    ASSUME RacksTyped, NEW p \in Lpns, NEW place \in Places,
           lpn' = [lpn EXCEPT ![p].place = place, ![p].status = "STORED"]
    PROVE  /\ lpn' \in [Lpns -> Packages]
           /\ \A q \in Lpns \ {p} : lpn'[q] = lpn[q]
           /\ lpn'[p].status = "STORED" /\ lpn'[p].place = place
           /\ \A q \in Lpns : lpn'[q].quantity = lpn[q].quantity
<1>1. lpn \in [Lpns -> Packages] /\ lpn[p] \in Packages
    BY DEF RacksTyped
<1>2. PICK box : box = [lpn[p] EXCEPT !.place = place, !.status = "STORED"]
    OBVIOUS
<1>3. /\ box \in Packages /\ box.status = "STORED" /\ box.place = place
      /\ box.quantity = lpn[p].quantity
    BY <1>1, <1>2 DEF Packages, LpnStatuses
<1>4. lpn' = [lpn EXCEPT ![p] = box]
    BY <1>1, <1>2
<1> QED
    BY <1>1, <1>3, <1>4

LEMMA OperatorTyped ==
    ASSUME RacksTyped, ReceivingTypeOK', NEW o \in Operators, OperatorStep(o)
    PROVE  RacksTyped'
<1>1. operator \in [Operators -> [task: TaskIds \cup {0}, place: Places]]
      /\ IdleOperator \in [task: TaskIds \cup {0}, place: Places]
    BY DEF RacksTyped, IdleOperator, Places
<1>2. CASE ReadTask(o)
    <2>1. PICK t \in TaskIds, place \in Locations :
             /\ operator' = [operator EXCEPT ![o] = [task |-> t, place |-> place]]
             /\ disturbed' = (disturbed \/ Confirming(t) # {})
        BY <1>2 DEF ReadTask
    <2>2. disturbed' \in BOOLEAN
        BY <2>1, Zenon DEF RacksTyped
    <2>3. t # 0
        BY TaskTyped DEF RacksTyped
    <2>4. PICK mine : mine = [task |-> t, place |-> place]
        OBVIOUS
    <2>5. mine \in [task: TaskIds \cup {0}, place: Places] /\ mine.task # 0
        BY <2>3, <2>4 DEF Places
    <2>6. /\ operator' \in [Operators -> [task: TaskIds \cup {0}, place: Places]]
          /\ \A q \in Operators : operator'[q].task = 0 => operator'[q] = IdleOperator
        BY <1>1, <2>1, <2>4, <2>5 DEF RacksTyped
    <2>7. UNCHANGED <<lpn, tasks, rows, onHand, corrected, genLock, taskLock, worker, node>>
        BY <1>2 DEF ReadTask, inbound, receiving, racks
    <2> QED
        BY <2>2, <2>6, <2>7 DEF RacksTyped, TaskIds
<1>3. CASE ConfirmPutaway(o) \/ RollbackPutaway(o)
    <2>1. operator' = [operator EXCEPT ![o] = IdleOperator]
        BY <1>3 DEF ConfirmPutaway, RollbackPutaway
    <2>2. /\ operator' \in [Operators -> [task: TaskIds \cup {0}, place: Places]]
          /\ \A q \in Operators : operator'[q].task = 0 => operator'[q] = IdleOperator
        BY <1>1, <2>1 DEF RacksTyped
    <2>3. UNCHANGED <<corrected, genLock, taskLock, worker, node, disturbed>>
        BY <1>3 DEF ConfirmPutaway, RollbackPutaway, racks
    <2>4. CASE RollbackPutaway(o)
        BY <2>2, <2>3, <2>4 DEF RollbackPutaway, RacksTyped, TaskIds, inbound, receiving, racks
    <2>5. CASE ConfirmPutaway(o)
        <3>1. PICK t, place : t = operator[o].task /\ place = operator[o].place
            OBVIOUS
        <3>2. t \in TaskIds /\ place \in Places
            BY <1>1, <2>5, <3>1 DEF ConfirmPutaway, RacksTyped
        <3>3. PICK p, n : p = tasks[t].lpn /\ n = tasks[t].quantity
            OBVIOUS
        <3>4. p \in Lpns /\ n \in Nat
            BY <3>2, <3>3, TaskTyped DEF RacksTyped
        <3>5. /\ tasks' = [tasks EXCEPT ![t].status = "COMPLETED"]
              /\ lpn' = [lpn EXCEPT ![p].place = place, ![p].status = "STORED"]
              /\ onHand' = [onHand EXCEPT ![place] = @ + n] /\ rows' = rows \cup {place}
            BY <2>5, <3>1, <3>3 DEF ConfirmPutaway, Stock
        <3>6. tasks' \in Seq(Tasks) /\ TaskIds' = TaskIds
            <4>1. tasks \in Seq(Tasks) /\ "COMPLETED" \in TaskStatuses
                BY DEF RacksTyped, TaskStatuses
            <4>2. StatusBecomes(t, "COMPLETED")
                BY <3>5 DEF StatusBecomes
            <4> QED
                BY <4>1, <4>2, StatusSet
        <3>7. onHand' \in [Places -> Int] /\ rows' \in SUBSET Places
            BY <3>2, <3>4, <3>5 DEF RacksTyped
        <3>8. lpn' \in [Lpns -> Packages]
            BY <3>2, <3>4, <3>5, Placed
        <3> QED
            BY <2>2, <2>3, <3>6, <3>7, <3>8 DEF RacksTyped
    <2> QED
        BY <1>3, <2>4, <2>5
<1> QED
    BY <1>2, <1>3 DEF OperatorStep

LEMMA RepairTyped ==
    ASSUME RacksTyped, ReceivingTypeOK', NEW n \in Nodes, RepairStep(n)
    PROVE  RacksTyped'
<1>1. CASE StartRepair(n)
    <2>1. PICK copies :
             copies = {[lpn |-> p, place |-> lpn[p].place, quantity |-> lpn[p].quantity,
                        lot |-> lpn[p].lot] : p \in Phantoms}
        OBVIOUS
    <2>2. copies \in SUBSET RepairCopies
        <3>1. \A p \in Phantoms : /\ p \in Lpns /\ lpn[p].place \in Places
                                  /\ lpn[p].quantity \in Nat /\ lpn[p].lot \in BOOLEAN
            BY DEF Phantoms, RacksTyped, Packages
        <3> QED
            BY <2>1, <3>1 DEF RepairCopies
    <2>3. node' = [node EXCEPT ![n] = copies]
        BY <1>1, <2>1 DEF StartRepair
    <2>4. node' \in [Nodes -> SUBSET RepairCopies]
        BY <2>2, <2>3 DEF RacksTyped
    <2>5. UNCHANGED <<lpn, tasks, rows, onHand, corrected, genLock, taskLock, worker, operator,
                      disturbed>>
        BY <1>1 DEF StartRepair, inbound, receiving, racks
    <2> QED
        BY <2>4, <2>5 DEF RacksTyped, TaskIds
<1>2. ASSUME NEW copy \in node[n], Repair(n, copy) PROVE RacksTyped'
    <2>1. copy.place \in Places /\ copy.quantity \in Nat
        BY DEF RacksTyped, RepairCopies
    <2>2. /\ node' = [node EXCEPT ![n] = @ \ {copy}]
          /\ UNCHANGED <<lpn, tasks, genLock, taskLock, worker, operator, disturbed>>
        BY <1>2 DEF Repair, inbound, receiving
    <2>3. node' \in [Nodes -> SUBSET RepairCopies]
        BY <2>2 DEF RacksTyped
    <2>4. /\ onHand' \in [Places -> Int] /\ corrected' \in [Places -> Nat]
          /\ rows' \in SUBSET Places
        <3>1. CASE UNCHANGED <<rows, onHand, corrected>>
            BY <3>1 DEF RacksTyped
        <3>2. CASE /\ rows' = rows \cup {copy.place}
                   /\ onHand' = [onHand EXCEPT ![copy.place] = @ + copy.quantity]
                   /\ corrected' = [corrected EXCEPT ![copy.place] = @ + copy.quantity]
            BY <2>1, <3>2 DEF RacksTyped
        <3> QED
            BY <1>2, <3>1, <3>2 DEF Repair, Stock
    <2> QED
        BY <2>2, <2>3, <2>4 DEF RacksTyped, TaskIds
<1> QED
    BY <1>1, <1>2 DEF RepairStep

(* What the LPN services do to a package by hand. *)
LEMMA Rewritten ==
    ASSUME RacksTyped, NEW p \in Lpns,
           CreateLpn(p) \/ UpdateLpn(p) \/ DeleteLpn(p) \/ MoveLpn(p) \/ NestLpn(p) \/ UnnestLpn(p)
    PROVE  \E package \in Packages : Rewrite(p, package)
<1>1. lpn[p] \in Packages
    BY DEF RacksTyped
<1>2. CASE CreateLpn(p)
    <2>1. PICK quantity \in Typed, lot \in BOOLEAN, place \in Places :
             Rewrite(p, [status |-> "RECEIVED", quantity |-> quantity, receipt |-> NoReceipt,
                         lot |-> lot, place |-> place])
        BY <1>2 DEF CreateLpn
    <2>2. [status |-> "RECEIVED", quantity |-> quantity, receipt |-> NoReceipt,
           lot |-> lot, place |-> place] \in Packages
        BY QuantityAssumption DEF Packages, LpnStatuses
    <2> QED
        BY <2>1, <2>2
<1>3. CASE UpdateLpn(p)
    <2>1. PICK status \in LpnStatuses, quantity \in Typed \cup {lpn[p].quantity},
               lot \in BOOLEAN, place \in Places :
             Rewrite(p, [lpn[p] EXCEPT !.status = status, !.quantity = quantity, !.lot = lot,
                                       !.place = place])
        BY <1>3 DEF UpdateLpn
    <2>2. quantity \in Nat
        BY <1>1, QuantityAssumption DEF Packages
    <2>3. [lpn[p] EXCEPT !.status = status, !.quantity = quantity, !.lot = lot,
                         !.place = place] \in Packages
        BY <1>1, <2>2 DEF Packages
    <2> QED
        BY <2>1, <2>3
<1>4. CASE DeleteLpn(p)
    <2>1. [lpn[p] EXCEPT !.status = "DELETED", !.receipt = NoReceipt] \in Packages
        BY <1>1 DEF Packages
    <2> QED
        BY <1>4, <2>1 DEF DeleteLpn
<1>5. CASE MoveLpn(p)
    <2>1. PICK place \in Places : Rewrite(p, [lpn[p] EXCEPT !.place = place])
        BY <1>5 DEF MoveLpn
    <2>2. [lpn[p] EXCEPT !.place = place] \in Packages
        BY <1>1 DEF Packages
    <2> QED
        BY <2>1, <2>2
<1>6. CASE NestLpn(p)
    <2>1. PICK place \in Places :
             Rewrite(p, [lpn[p] EXCEPT !.status = "NESTED", !.place = place])
        BY <1>6 DEF NestLpn
    <2>2. [lpn[p] EXCEPT !.status = "NESTED", !.place = place] \in Packages
        BY <1>1 DEF Packages, LpnStatuses
    <2> QED
        BY <2>1, <2>2
<1>7. CASE UnnestLpn(p)
    <2>1. [lpn[p] EXCEPT !.status = "STORED"] \in Packages
        BY <1>1 DEF Packages, LpnStatuses
    <2> QED
        BY <1>7, <2>1 DEF UnnestLpn
<1> QED
    BY <1>2, <1>3, <1>4, <1>5, <1>6, <1>7

LEMMA OfficeTyped ==
    ASSUME RacksTyped, ReceivingTypeOK', OfficeStep PROVE RacksTyped'
<1>1. ASSUME NEW t \in TaskIds, AssignTask(t) PROVE RacksTyped'
    <2>1. disturbed' \in BOOLEAN
        BY <1>1, Zenon DEF AssignTask, RacksTyped
    <2>2. tasks' \in Seq(Tasks) /\ TaskIds' = TaskIds
        <3>1. CASE UNCHANGED tasks
            BY <3>1 DEF RacksTyped, TaskIds
        <3>2. CASE tasks' = [tasks EXCEPT ![t].status = "ASSIGNED"]
            <4>1. tasks \in Seq(Tasks) /\ "ASSIGNED" \in TaskStatuses
                BY DEF RacksTyped, TaskStatuses
            <4>2. StatusBecomes(t, "ASSIGNED")
                BY <3>2 DEF StatusBecomes
            <4> QED
                BY <4>1, <4>2, StatusSet
        <3> QED
            BY <1>1, <3>1, <3>2 DEF AssignTask
    <2>3. /\ taskLock' = taskLock \cup {t}
          /\ UNCHANGED <<lpn, rows, onHand, corrected, genLock, worker, operator, node>>
        BY <1>1 DEF AssignTask, receiving
    <2> QED
        BY <2>1, <2>2, <2>3 DEF RacksTyped
<1>2. ASSUME NEW t \in TaskIds, ExpireTaskLock(t) PROVE RacksTyped'
    BY <1>2 DEF ExpireTaskLock, RacksTyped, TaskIds, inbound, receiving, racks
<1>3. ASSUME NEW t \in TaskIds, NEW status \in TaskStatuses, UpdateTaskStatus(t, status)
      PROVE  RacksTyped'
    <2>1. disturbed' \in BOOLEAN
        BY <1>3, Zenon DEF UpdateTaskStatus, RacksTyped
    <2>2. tasks' \in Seq(Tasks) /\ TaskIds' = TaskIds
        <3>1. tasks \in Seq(Tasks)
            BY DEF RacksTyped
        <3>2. StatusBecomes(t, status)
            BY <1>3 DEF UpdateTaskStatus, StatusBecomes
        <3> QED
            BY <1>3, <3>1, <3>2, StatusSet
    <2>3. UNCHANGED <<lpn, rows, onHand, corrected, genLock, taskLock, worker, operator, node>>
        BY <1>3 DEF UpdateTaskStatus, receiving
    <2> QED
        BY <2>1, <2>2, <2>3 DEF RacksTyped
<1>4. ASSUME NEW p \in Lpns, NEW package \in Packages, Rewrite(p, package) PROVE RacksTyped'
    <2>1. lpn' \in [Lpns -> Packages]
        BY <1>4 DEF Rewrite, RacksTyped
    <2>2. disturbed' \in BOOLEAN
        BY <1>4, Zenon DEF Rewrite, RacksTyped
    <2>3. UNCHANGED <<racks, genLock, taskLock, worker, operator, node>>
        BY <1>4 DEF Rewrite
    <2> QED
        BY <2>1, <2>2, <2>3 DEF RacksTyped, racks, TaskIds
<1>5. ASSUME NEW p \in Lpns, ReceiveTransfer(p) PROVE RacksTyped'
    <2>1. PICK place \in Places, take \in 1 .. lpn[p].quantity :
             lpn' = [lpn EXCEPT ![p].place = place] /\ Stock(place, take)
        BY <1>5 DEF ReceiveTransfer
    <2>2. lpn' \in [Lpns -> Packages]
        <3>1. lpn \in [Lpns -> Packages] /\ lpn[p] \in Packages
            BY DEF RacksTyped
        <3>2. [lpn[p] EXCEPT !.place = place] \in Packages
            BY <3>1 DEF Packages
        <3> QED
            BY <2>1, <3>1, <3>2
    <2>3. rows' \in SUBSET Places /\ onHand' \in [Places -> Int]
        <3>1. take \in Int
            BY DEF RacksTyped, Packages
        <3> QED
            BY <2>1, <3>1 DEF Stock, RacksTyped
    <2>4. disturbed' /\ UNCHANGED <<tasks, corrected, genLock, taskLock, worker, operator, node>>
        BY <1>5 DEF ReceiveTransfer
    <2> QED
        BY <2>2, <2>3, <2>4 DEF RacksTyped, TaskIds
<1>6. CASE MoveStock
    <2>1. PICK where \in SUBSET Places, change \in Moves :
             /\ rows' = rows \cup where
             /\ onHand' = [place \in Places |->
                   IF place \in where THEN onHand[place] + change ELSE onHand[place]]
        BY <1>6 DEF MoveStock
    <2>2. rows' \in SUBSET Places /\ onHand' \in [Places -> Int]
        BY <2>1, MoveAssumption DEF RacksTyped
    <2>3. /\ disturbed'
          /\ UNCHANGED <<lpn, tasks, corrected, genLock, taskLock, worker, operator, node>>
        BY <1>6 DEF MoveStock, receiving
    <2> QED
        BY <2>2, <2>3 DEF RacksTyped, TaskIds
<1>7. CASE CreateLot
    BY <1>7 DEF CreateLot, RacksTyped, TaskIds, racks
<1>8. ASSUME NEW p \in Lpns,
             \/ CreateLpn(p) \/ UpdateLpn(p) \/ DeleteLpn(p) \/ MoveLpn(p) \/ NestLpn(p)
             \/ UnnestLpn(p)
      PROVE  RacksTyped'
    BY <1>4, <1>8, Rewritten
<1> QED
    BY <1>1, <1>2, <1>3, <1>5, <1>6, <1>7, <1>8 DEF OfficeStep

LEMMA RacksInitially == Init => RacksTyped
<1> SUFFICES ASSUME Init PROVE RacksTyped
    OBVIOUS
<1>1. ReceivingTypeOK
    BY ReceivingInitially DEF Init, ReceivingInv
<1>2. TaskIds = {} /\ tasks \in Seq(Tasks)
    BY EmptySeq, LenProperties DEF Init, TaskIds
<1>3. lpn \in [Lpns -> Packages] /\ \A p \in Lpns : lpn[p].status = "ABSENT"
    BY DEF Init, GoodsReceiptInit, NoPackage, Packages, LpnStatuses, Places
<1>4. rows \in SUBSET Places /\ onHand \in [Places -> Int] /\ corrected \in [Places -> Nat]
    BY DEF Init
<1>5. worker \in [Workers -> WorkerStates] /\ \A w \in Workers : worker[w].stage = "idle"
    BY PutawayBoundAssumption DEF Init, IdleWorker, WorkerStates, Stages
<1>6. /\ operator \in [Operators -> [task: TaskIds \cup {0}, place: Places]]
      /\ \A o \in Operators : operator[o] = IdleOperator
    BY DEF Init, IdleOperator, Places
<1>7. node \in [Nodes -> SUBSET RepairCopies]
    BY DEF Init
<1>8. genLock = {} /\ taskLock = {} /\ disturbed \in BOOLEAN
    BY DEF Init
<1> QED
    BY <1>1, <1>2, <1>3, <1>4, <1>5, <1>6, <1>7, <1>8 DEF RacksTyped

LEMMA RacksStep == RacksTyped /\ ReceivingTypeOK' /\ [Next]_vars => RacksTyped'
<1> SUFFICES ASSUME RacksTyped, ReceivingTypeOK', [Next]_vars PROVE RacksTyped'
    OBVIOUS
<1>1. CASE Receive
    BY <1>1, ReceiveTyped
<1>2. ASSUME NEW w \in Workers, WorkerStep(w) PROVE RacksTyped'
    BY <1>2, QueueTyped
<1>3. ASSUME NEW g \in Receipts, ExpireGenLock(g) PROVE RacksTyped'
    BY <1>3 DEF ExpireGenLock, RacksTyped, TaskIds, inbound, receiving, racks
<1>4. ASSUME NEW o \in Operators, OperatorStep(o) PROVE RacksTyped'
    BY <1>4, OperatorTyped
<1>5. ASSUME NEW n \in Nodes, RepairStep(n) PROVE RacksTyped'
    BY <1>5, RepairTyped
<1>6. CASE OfficeStep
    BY <1>6, OfficeTyped
<1>7. CASE UNCHANGED vars
    BY <1>7 DEF vars, RacksTyped, TaskIds, inbound, receiving, racks
<1> QED
    BY <1>1, <1>2, <1>3, <1>4, <1>5, <1>6, <1>7 DEF Next
--------------------------------------------------------------------------------
(* Sums, as the number of units of a table. *)
LEMMA UpTo ==
    ASSUME NEW n \in Nat
    PROVE  IsFiniteSet(1 .. n) /\ Cardinality(1 .. n) = n
<1>1. IsFiniteSet(1 .. n) /\ Cardinality(1 .. n) = IF 1 > n THEN 0 ELSE n - 1 + 1
    BY FS_Interval
<1> QED
    BY <1>1

LEMMA UnitsFinite ==
    ASSUME NEW q, NEW S, IsFiniteSet(S), \A x \in S : q[x] \in Nat
    PROVE  IsFiniteSet(Units(q, S)) /\ Cardinality(Units(q, S)) \in Nat
<1>1. PICK T : T = {{x} \X (1 .. q[x]) : x \in S}
    OBVIOUS
<1>2. PICK f : f = [x \in S |-> {x} \X (1 .. q[x])]
    OBVIOUS
<1>3. f \in Surjection(S, T)
    BY <1>1, <1>2 DEF Surjection
<1>4. IsFiniteSet(T)
    BY <1>3, FS_Surjection
<1>5. ASSUME NEW t \in T PROVE IsFiniteSet(t)
    <2>1. PICK x \in S : t = {x} \X (1 .. q[x])
        BY <1>1, <1>5
    <2>2. IsFiniteSet({x}) /\ IsFiniteSet(1 .. q[x])
        BY UpTo, FS_Singleton
    <2>3. IsFiniteSet({x} \X (1 .. q[x]))
        BY <2>2, FS_Product
    <2> QED
        BY <2>1, <2>3
<1>6. Units(q, S) = UNION T
    BY <1>1 DEF Units
<1> QED
    BY <1>4, <1>5, <1>6, FS_UNION, FS_CardinalityType

LEMMA UnitsAdded ==
    ASSUME NEW q, NEW S, IsFiniteSet(S), NEW x, x \notin S, q[x] \in Nat,
           \A y \in S : q[y] \in Nat
    PROVE  Cardinality(Units(q, S \cup {x})) = Cardinality(Units(q, S)) + q[x]
<1>1. PICK n \in Nat : n = q[x]
    OBVIOUS
<1>2. PICK U : U = {x} \X (1 .. n)
    OBVIOUS
<1>3. IsFiniteSet(U) /\ Cardinality(U) = n
    <2>1. IsFiniteSet({x}) /\ Cardinality({x}) = 1
        BY FS_Singleton
    <2>2. IsFiniteSet(1 .. n) /\ Cardinality(1 .. n) = n
        BY UpTo
    <2>3. IsFiniteSet(U) /\ Cardinality(U) = Cardinality({x}) * Cardinality(1 .. n)
        BY <1>2, <2>1, <2>2, FS_Product
    <2> QED
        BY <2>1, <2>2, <2>3
<1>4. Units(q, S \cup {x}) = Units(q, S) \cup U
    BY <1>1, <1>2 DEF Units
<1>5. Units(q, S) \cap U = {}
    BY <1>2 DEF Units
<1>6. IsFiniteSet(Units(q, S)) /\ Cardinality(Units(q, S)) \in Nat
    BY UnitsFinite
<1>7. Cardinality(Units(q, S) \cup U) = Cardinality(Units(q, S)) + Cardinality(U) - 0
    BY <1>3, <1>5, <1>6, FS_Union, FS_EmptySet
<1>8. Cardinality(Units(q, S \cup {x})) = Cardinality(Units(q, S) \cup U)
    BY <1>4
<1> QED
    BY <1>1, <1>3, <1>6, <1>7, <1>8

LEMMA SameUnits ==
    ASSUME NEW q, NEW u, NEW S, \A x \in S : u[x] = q[x]
    PROVE  Units(u, S) = Units(q, S)
    BY DEF Units

--------------------------------------------------------------------------------
(* The books of the places stay right as long as what is stored stays. *)
LEMMA StoredStay ==
    ASSUME StoredAddsUp, UNCHANGED <<onHand, corrected>>,
           \A p \in Lpns : /\ (lpn'[p].status = "STORED") = (lpn[p].status = "STORED")
                           /\ lpn'[p].quantity = lpn[p].quantity \/ lpn[p].status # "STORED"
                           /\ lpn'[p].place = lpn[p].place \/ lpn[p].status # "STORED"
    PROVE  StoredAddsUp'
<1> SUFFICES ASSUME NEW place \in Places
             PROVE  /\ IsFiniteSet(StoredAt(place)')
                    /\ onHand'[place] = Cardinality(Units(HeldBy', StoredAt(place)'))
                    /\ corrected'[place] = 0
    BY DEF StoredAddsUp
<1> PICK S, q, u : S = StoredAt(place) /\ q = HeldBy /\ u = HeldBy'
    OBVIOUS
<1>1. StoredAt(place)' = S
    BY DEF StoredAt
<1>2. \A p \in S : u[p] = q[p]
    BY DEF StoredAt, HeldBy
<1>3. Units(u, S) = Units(q, S)
    BY <1>2, SameUnits
<1> QED
    BY <1>1, <1>3 DEF StoredAddsUp

LEMMA NothingStored ==
    ASSUME Undisturbed, WorkersSay',
           UNCHANGED <<lpn, tasks, rows, onHand, corrected, operator, node>>
    PROVE  Undisturbed'
<1>1. StoredAddsUp'
    BY StoredStay DEF Undisturbed
<1>2. /\ OneTaskEach' /\ TasksSay' /\ StoredIsDone' /\ OperatorsApart' /\ NothingToRepair'
      /\ StoredHasRow'
    BY DEF Undisturbed, OneTaskEach, TasksSay, Says, StoredIsDone, OperatorsApart,
           NothingToRepair, StoredHasRow, TaskIds
<1> QED
    BY <1>1, <1>2 DEF Undisturbed

LEMMA StepsSay ==
    ASSUME RacksTyped, NEW w \in Workers,
           \/ TakeJob(w) \/ Retry(w) \/ Generate(w) \/ ReadPackages(w) \/ EndGeneration(w)
           \/ Leave(w) \/ FailAttempt(w)
    PROVE  \A copy \in worker'[w].todo : copy \in worker[w].todo \/ Says(copy)
<1>1. worker \in [Workers -> WorkerStates] /\ worker[w] \in WorkerStates
    BY DEF RacksTyped
<1>2. CASE TakeJob(w)
    <2>1. PICK g \in Receipts : BeginAttempt(w, g, 1)
        BY <1>2 DEF TakeJob
    <2>2. 1 \in 0 .. MaxAttempts
        BY PutawayBoundAssumption
    <2> QED
        BY <2>1, <2>2, AttemptTyped
<1>3. CASE Retry(w)
    BY <1>3, RetryAttempt, AttemptTyped DEF Retry
<1>4. CASE Generate(w) \/ EndGeneration(w)
    BY <1>1, <1>4 DEF Generate, EndGeneration, WorkerStates
<1>5. CASE ReadPackages(w)
    <2>1. PICK waiting, todo :
             /\ waiting \subseteq Lpns
             /\ todo \subseteq {[lpn |-> p, quantity |-> lpn[p].quantity] : p \in waiting}
             /\ worker' = [worker EXCEPT ![w].stage = "creating", ![w].todo = todo]
        <3>1. PICK waiting, todo :
                 /\ waiting = Waiting(worker[w].receipt)
                 /\ todo = {[lpn |-> p, quantity |-> lpn[p].quantity] : p \in waiting}
            OBVIOUS
        <3>2. worker' = [worker EXCEPT ![w].stage = "creating", ![w].todo = todo]
            BY <1>5, <3>1 DEF ReadPackages
        <3> QED
            BY <3>1, <3>2 DEF Waiting
    <2>2. worker'[w].todo = todo
        BY <1>1, <2>1 DEF WorkerStates
    <2>3. \A copy \in todo : Says(copy)
        BY <2>1 DEF Says
    <2> QED
        BY <2>2, <2>3
<1>6. CASE Leave(w)
    BY <1>1, <1>6 DEF Leave, IdleWorker
<1>7. CASE FailAttempt(w)
    BY <1>1, <1>7 DEF FailAttempt, IdleWorker, WorkerStates
<1> QED
    BY <1>2, <1>3, <1>4, <1>5, <1>6, <1>7

(* Packages change that are not stored, and what nobody has counted yet. *)
LEMMA PackagesSettle ==
    ASSUME RacksTyped, Undisturbed, \A p \in Lpns : ~ Upsets(p, lpn'[p]),
           UNCHANGED <<tasks, rows, onHand, corrected, worker, operator, node>>
    PROVE  Undisturbed'
<1>1. \A p \in Lpns : /\ lpn[p].status = "STORED" => lpn'[p] = lpn[p]
                      /\ lpn'[p].status = "STORED" => lpn'[p] = lpn[p]
                      /\ Handled(p) => lpn'[p].quantity = lpn[p].quantity
    BY DEF Upsets
<1>2. \A t \in TaskIds : /\ tasks[t].lpn \in Lpns
                         /\ lpn'[tasks[t].lpn].quantity = lpn[tasks[t].lpn].quantity
    BY <1>1, TaskTyped DEF RacksTyped, Handled, HasTask
<1>3. \A w \in Workers : \A copy \in worker[w].todo :
         copy.lpn \in Lpns /\ lpn'[copy.lpn].quantity = lpn[copy.lpn].quantity
    <2>1. \A w \in Workers : \A copy \in worker[w].todo : copy.lpn \in Lpns
        BY DEF RacksTyped, WorkerStates, Copies
    <2> QED
        BY <1>1, <2>1 DEF Handled
<1>4. StoredAddsUp'
    <2>1. ASSUME NEW p \in Lpns
          PROVE  /\ (lpn'[p].status = "STORED") = (lpn[p].status = "STORED")
                 /\ lpn'[p].quantity = lpn[p].quantity \/ lpn[p].status # "STORED"
                 /\ lpn'[p].place = lpn[p].place \/ lpn[p].status # "STORED"
        BY <1>1
    <2> QED
        BY <2>1, StoredStay DEF Undisturbed
<1>5. TaskIds' = TaskIds
    BY DEF TaskIds
<1>6. TasksSay' /\ WorkersSay'
    BY <1>2, <1>3, <1>5 DEF Undisturbed, TasksSay, WorkersSay, Says
<1>7. StoredIsDone' /\ StoredHasRow'
    BY <1>1, <1>5 DEF Undisturbed, StoredIsDone, StoredHasRow
<1>8. OperatorsApart'
    <2>1. \A o \in Operators : operator[o].task # 0 => tasks[operator[o].task].lpn \in Lpns
        BY <1>2 DEF RacksTyped
    <2>2. ASSUME NEW o \in Operators, operator[o].task # 0
          PROVE  lpn'[tasks[operator[o].task].lpn].status # "STORED"
        BY <1>1, <2>1, <2>2 DEF Undisturbed, OperatorsApart
    <2> QED
        BY <2>2 DEF Undisturbed, OperatorsApart
<1>9. OneTaskEach' /\ NothingToRepair'
    BY <1>5 DEF Undisturbed, OneTaskEach, NothingToRepair
<1> QED
    BY <1>4, <1>6, <1>7, <1>8, <1>9 DEF Undisturbed

LEMMA ReceiveSettles ==
    ASSUME RacksTyped, Undisturbed, Receive, ~ disturbed' PROVE Undisturbed'
    BY PackagesSettle DEF Receive, racks

LEMMA QueueSettles ==
    ASSUME RacksTyped, Undisturbed, NEW w \in Workers, WorkerStep(w), ~ disturbed'
    PROVE  Undisturbed'
<1>1. CASE \/ TakeJob(w) \/ Retry(w) \/ Generate(w) \/ ReadPackages(w) \/ EndGeneration(w)
           \/ Leave(w) \/ FailAttempt(w)
    <2>1. /\ UNCHANGED <<lpn, tasks, rows, onHand, corrected, operator, node>>
          /\ \A v \in Workers \ {w} : worker'[v] = worker[v]
          /\ \A copy \in worker'[w].todo : copy \in worker[w].todo \/ Says(copy)
        BY <1>1, QueueRest, StepsWork, StepsSay DEF Works
    <2>2. WorkersSay'
        BY <2>1 DEF Undisturbed, WorkersSay, Says
    <2> QED
        BY <2>1, <2>2, NothingStored
<1>2. CASE CreateTask(w)
    <2>1. PICK copy \in worker[w].todo, task \in Tasks :
             /\ task.lpn = copy.lpn /\ task.quantity = copy.quantity
             /\ tasks' = Append(tasks, task)
             /\ ~ HasTask(copy.lpn)
             /\ worker'[w].todo = worker[w].todo \ {copy}
        BY <1>2, CreateTaskTyped
    <2>2. /\ UNCHANGED <<lpn, rows, onHand, corrected, operator, node>>
          /\ \A v \in Workers \ {w} : worker'[v] = worker[v]
        BY <1>2, CreateTaskTyped DEF CreateTask, Works, inbound, receiving
    <2>3. PICK k : k = Len(tasks) + 1
        OBVIOUS
    <2>4. /\ TaskIds' = TaskIds \cup {k} /\ k \notin TaskIds
          /\ tasks'[k] = task /\ \A t \in TaskIds : tasks'[t] = tasks[t]
        BY <2>1, <2>3, TaskAdded DEF RacksTyped
    <2>5. OneTaskEach'
        <3>1. \A t \in TaskIds : tasks'[t].lpn # tasks'[k].lpn
            BY <2>1, <2>4 DEF HasTask
        <3>2. \A s, t \in TaskIds : tasks'[s].lpn = tasks'[t].lpn => s = t
            BY <2>4 DEF Undisturbed, OneTaskEach
        <3> QED
            BY <2>4, <3>1, <3>2 DEF OneTaskEach
    <2>6. TasksSay'
        <3>1. Says(copy)
            BY <2>1 DEF Undisturbed, WorkersSay
        <3>2. lpn'[tasks'[k].lpn].quantity = tasks'[k].quantity
            BY <2>1, <2>2, <2>4, <3>1 DEF Says
        <3>3. \A t \in TaskIds : lpn'[tasks'[t].lpn].quantity = tasks'[t].quantity
            BY <2>2, <2>4 DEF Undisturbed, TasksSay, Says
        <3> QED
            BY <2>4, <3>2, <3>3 DEF TasksSay, Says
    <2>7. WorkersSay'
        BY <2>1, <2>2 DEF Undisturbed, WorkersSay, Says
    <2>8. StoredIsDone'
        BY <2>2, <2>4 DEF Undisturbed, StoredIsDone
    <2>9. OperatorsApart'
        BY <2>2, <2>4 DEF Undisturbed, OperatorsApart, RacksTyped
    <2>10. StoredAddsUp' /\ NothingToRepair' /\ StoredHasRow'
        BY <2>2, StoredStay DEF Undisturbed, NothingToRepair, StoredHasRow
    <2> QED
        BY <2>5, <2>6, <2>7, <2>8, <2>9, <2>10 DEF Undisturbed
<1> QED
    BY <1>1, <1>2 DEF WorkerStep

--------------------------------------------------------------------------------
(* A task that is open has a package that is not stored. *)
LEMMA OpenIsOut ==
    ASSUME RacksTyped, Undisturbed, NEW t \in TaskIds, tasks[t].status # "COMPLETED"
    PROVE  lpn[tasks[t].lpn].status # "STORED"
<1>1. tasks[t].lpn \in Lpns
    BY TaskTyped DEF RacksTyped
<1> QED
    BY <1>1 DEF Undisturbed, StoredIsDone, OneTaskEach

(* The books after a package that was not stored is, and its goods are booked. *)
LEMMA StoredOne ==
    ASSUME RacksTyped, StoredAddsUp, NEW p \in Lpns, NEW place \in Places,
           lpn[p].status # "STORED",
           lpn' = [lpn EXCEPT ![p].place = place, ![p].status = "STORED"],
           onHand' = [onHand EXCEPT ![place] = @ + lpn[p].quantity], UNCHANGED corrected
    PROVE  StoredAddsUp'
<1>1. /\ \A x \in Lpns \ {p} : lpn'[x] = lpn[x]
      /\ lpn'[p].status = "STORED" /\ lpn'[p].place = place
      /\ \A x \in Lpns : lpn'[x].quantity = lpn[x].quantity
    BY Placed
<1> SUFFICES ASSUME NEW other \in Places
             PROVE  /\ IsFiniteSet(StoredAt(other)')
                    /\ onHand'[other] = Cardinality(Units(HeldBy', StoredAt(other)'))
                    /\ corrected'[other] = 0
    BY DEF StoredAddsUp
<1> PICK S, T, q, u : /\ S = StoredAt(other) /\ T = StoredAt(other)'
                      /\ q = HeldBy /\ u = HeldBy'
    OBVIOUS
<1>2. /\ IsFiniteSet(S) /\ onHand[other] = Cardinality(Units(q, S)) /\ corrected'[other] = 0
      /\ p \notin S /\ S \subseteq Lpns
    BY DEF StoredAddsUp, StoredAt
<1>3. u = q /\ \A x \in Lpns : q[x] \in Nat /\ q[x] = lpn[x].quantity
    BY <1>1 DEF HeldBy, RacksTyped, Packages
<1>4. CASE other = place
    <2>1. T = S \cup {p}
        BY <1>1, <1>4 DEF StoredAt
    <2>2. IsFiniteSet(T)
        BY <1>2, <2>1, FS_AddElement
    <2>3. Cardinality(Units(q, S \cup {p})) = Cardinality(Units(q, S)) + q[p]
        BY <1>2, <1>3, UnitsAdded
    <2>4. onHand'[other] = onHand[other] + q[p]
        BY <1>3, <1>4 DEF RacksTyped
    <2>5. Cardinality(Units(u, T)) = Cardinality(Units(q, S \cup {p}))
        BY <1>3, <2>1
    <2> QED
        BY <1>2, <2>2, <2>3, <2>4, <2>5
<1>5. CASE other # place
    <2>1. T = S
        BY <1>1, <1>5 DEF StoredAt
    <2>2. onHand'[other] = onHand[other]
        BY <1>5 DEF RacksTyped
    <2>3. Units(u, T) = Units(q, S)
        BY <1>3, <2>1
    <2> QED
        BY <1>2, <2>1, <2>2, <2>3
<1> QED
    BY <1>4, <1>5

LEMMA OperatorSettles ==
    ASSUME RacksTyped, Undisturbed, NEW o \in Operators, OperatorStep(o), ~ disturbed'
    PROVE  Undisturbed'
<1>1. operator \in [Operators -> [task: TaskIds \cup {0}, place: Places]]
    BY DEF RacksTyped
<1>2. CASE ReadTask(o)
    <2>1. PICK t \in TaskIds, place \in Locations :
             /\ tasks[t].status # "COMPLETED"
             /\ operator' = [operator EXCEPT ![o] = [task |-> t, place |-> place]]
             /\ Confirming(t) = {}
        BY <1>2 DEF ReadTask
    <2>2. UNCHANGED <<lpn, tasks, rows, onHand, corrected, worker, node>>
        BY <1>2 DEF ReadTask, inbound, receiving, racks
    <2>3. operator'[o].task = t /\ \A q \in Operators \ {o} : operator'[q] = operator[q]
        BY <1>1, <2>1
    <2>4. \A q \in Operators : operator[q].task # t
        BY <2>1 DEF Confirming
    <2>5. OperatorsApart'
        <3>1. lpn'[tasks'[t].lpn].status # "STORED"
            BY <2>1, <2>2, OpenIsOut
        <3> QED
            BY <2>2, <2>3, <2>4, <3>1 DEF Undisturbed, OperatorsApart
    <2>6. StoredAddsUp'
        BY <2>2, StoredStay DEF Undisturbed
    <2>7. /\ OneTaskEach' /\ TasksSay' /\ WorkersSay' /\ StoredIsDone' /\ NothingToRepair'
          /\ StoredHasRow'
        BY <2>2 DEF Undisturbed, OneTaskEach, TasksSay, WorkersSay, Says, StoredIsDone,
                    NothingToRepair, StoredHasRow, TaskIds
    <2> QED
        BY <2>5, <2>6, <2>7 DEF Undisturbed
<1>3. CASE ConfirmPutaway(o)
    <2>1. PICK t, place : t = operator[o].task /\ place = operator[o].place
        OBVIOUS
    <2>2. t \in TaskIds /\ place \in Places
        BY <1>1, <1>3, <2>1 DEF ConfirmPutaway, RacksTyped
    <2>3. PICK p, n : p = tasks[t].lpn /\ n = tasks[t].quantity
        OBVIOUS
    <2>4. p \in Lpns /\ n = lpn[p].quantity /\ t # 0
        BY <2>2, <2>3, TaskTyped DEF RacksTyped, Undisturbed, TasksSay, Says
    <2>5. /\ tasks' = [tasks EXCEPT ![t].status = "COMPLETED"]
          /\ lpn' = [lpn EXCEPT ![p].place = place, ![p].status = "STORED"]
          /\ rows' = rows \cup {place} /\ onHand' = [onHand EXCEPT ![place] = @ + n]
          /\ operator' = [operator EXCEPT ![o] = IdleOperator]
          /\ UNCHANGED <<corrected, worker, node>>
        BY <1>3, <2>1, <2>3 DEF ConfirmPutaway, Stock
    <2>6. lpn[p].status # "STORED"
        BY <2>1, <2>3, <2>4 DEF Undisturbed, OperatorsApart
    <2>7. /\ \A x \in Lpns \ {p} : lpn'[x] = lpn[x]
          /\ \A x \in Lpns : lpn'[x].quantity = lpn[x].quantity
          /\ lpn'[p].place = place
        BY <2>2, <2>4, <2>5, Placed
    <2>8. /\ TaskIds' = TaskIds
          /\ \A u \in TaskIds : /\ tasks'[u].lpn = tasks[u].lpn
                                /\ tasks'[u].quantity = tasks[u].quantity
                                /\ tasks[u].status = "COMPLETED" => tasks'[u].status = "COMPLETED"
          /\ tasks'[t].status = "COMPLETED"
        <3>1. "COMPLETED" \in TaskStatuses
            BY DEF TaskStatuses
        <3>2. /\ TaskIds' = TaskIds
              /\ \A u \in TaskIds :
                    /\ tasks'[u].lpn = tasks[u].lpn /\ tasks'[u].quantity = tasks[u].quantity
                    /\ tasks'[u].status = IF u = t THEN "COMPLETED" ELSE tasks[u].status
            <4>1. tasks \in Seq(Tasks)
                BY DEF RacksTyped
            <4>2. StatusBecomes(t, "COMPLETED")
                BY <2>5 DEF StatusBecomes
            <4> QED
                BY <3>1, <4>1, <4>2, StatusSet
        <3> QED
            BY <2>2, <3>2
    <2>9. OneTaskEach'
        BY <2>8 DEF Undisturbed, OneTaskEach
    <2>10. TasksSay' /\ WorkersSay'
        <3>1. \A u \in TaskIds : tasks[u].lpn \in Lpns
            BY TaskTyped DEF RacksTyped
        <3>2. \A w \in Workers : \A copy \in worker[w].todo : copy.lpn \in Lpns
            BY DEF RacksTyped, WorkerStates, Copies
        <3>3. TasksSay'
            BY <2>7, <2>8, <3>1 DEF Undisturbed, TasksSay, Says
        <3>4. WorkersSay'
            BY <2>5, <2>7, <3>2 DEF Undisturbed, WorkersSay, Says
        <3> QED
            BY <3>3, <3>4
    <2>11. StoredIsDone'
        <3>1. tasks'[t].lpn = p /\ tasks'[t].status = "COMPLETED" /\ t \in TaskIds'
            BY <2>2, <2>3, <2>8
        <3>2. ASSUME NEW x \in Lpns \ {p}, lpn'[x].status = "STORED"
              PROVE  \E u \in TaskIds' : tasks'[u].lpn = x /\ tasks'[u].status = "COMPLETED"
            <4>1. PICK u \in TaskIds : tasks[u].lpn = x /\ tasks[u].status = "COMPLETED"
                BY <2>7, <3>2 DEF Undisturbed, StoredIsDone
            <4> QED
                BY <2>8, <4>1
        <3> QED
            BY <3>1, <3>2 DEF StoredIsDone
    <2>12. OperatorsApart'
        <3>1. operator'[o].task = 0 /\ \A q \in Operators \ {o} : operator'[q] = operator[q]
            BY <1>1, <2>5 DEF IdleOperator
        <3>2. ASSUME NEW q \in Operators, operator'[q].task # 0
              PROVE  /\ lpn'[tasks'[operator'[q].task].lpn].status # "STORED"
                     /\ \A r \in Operators : operator'[r].task = operator'[q].task => r = q
            <4>1. PICK u : u = operator[q].task
                OBVIOUS
            <4>2. q # o /\ operator'[q].task = u /\ u \in TaskIds /\ u # 0
                BY <1>1, <3>1, <3>2, <4>1
            <4>3. u # t
                BY <2>1, <2>4, <4>1, <4>2 DEF Undisturbed, OperatorsApart
            <4>4. tasks[u].lpn # p /\ tasks[u].lpn \in Lpns
                BY <2>2, <2>3, <4>2, <4>3, TaskTyped DEF RacksTyped, Undisturbed, OneTaskEach
            <4>5. lpn'[tasks'[u].lpn].status # "STORED"
                BY <2>7, <2>8, <4>1, <4>2, <4>4 DEF Undisturbed, OperatorsApart
            <4>6. \A r \in Operators : operator'[r].task = u => r = q
                BY <3>1, <4>1, <4>2 DEF Undisturbed, OperatorsApart
            <4> QED
                BY <4>2, <4>5, <4>6
        <3> QED
            BY <3>2 DEF OperatorsApart
    <2>13. StoredAddsUp'
        BY <2>2, <2>4, <2>5, <2>6, StoredOne DEF Undisturbed
    <2>14. NothingToRepair' /\ StoredHasRow'
        <3>1. rows' = rows \cup {place} /\ UNCHANGED node
            BY <2>5
        <3>2. \A x \in Lpns : lpn'[x].status = "STORED" => lpn'[x].place \in rows'
            BY <2>7, <3>1 DEF Undisturbed, StoredHasRow
        <3> QED
            BY <3>1, <3>2 DEF Undisturbed, NothingToRepair, StoredHasRow
    <2> QED
        BY <2>9, <2>10, <2>11, <2>12, <2>13, <2>14 DEF Undisturbed
<1>4. CASE RollbackPutaway(o)
    <2>1. /\ operator' = [operator EXCEPT ![o] = IdleOperator]
          /\ UNCHANGED <<lpn, tasks, rows, onHand, corrected, worker, node>>
        BY <1>4 DEF RollbackPutaway, inbound, receiving, racks
    <2>2. operator'[o].task = 0 /\ \A q \in Operators \ {o} : operator'[q] = operator[q]
        BY <1>1, <2>1 DEF IdleOperator
    <2>3. OperatorsApart'
        BY <2>1, <2>2 DEF Undisturbed, OperatorsApart
    <2>4. StoredAddsUp'
        BY <2>1, StoredStay DEF Undisturbed
    <2>5. /\ OneTaskEach' /\ TasksSay' /\ WorkersSay' /\ StoredIsDone' /\ NothingToRepair'
          /\ StoredHasRow'
        BY <2>1 DEF Undisturbed, OneTaskEach, TasksSay, WorkersSay, Says, StoredIsDone,
                    NothingToRepair, StoredHasRow, TaskIds
    <2> QED
        BY <2>3, <2>4, <2>5 DEF Undisturbed
<1> QED
    BY <1>2, <1>3, <1>4 DEF OperatorStep

(* What is stored has a row, which holds what is stored and so is not below zero. *)
LEMMA RepairSettles ==
    ASSUME RacksTyped, Undisturbed, NEW n \in Nodes PROVE ~ RepairStep(n)
<1>1. Phantoms = {}
    <2>1. SUFFICES ASSUME NEW p \in Lpns, lpn[p].status = "STORED"
                   PROVE  lpn[p].place \in rows /\ onHand[lpn[p].place] >= 0
        BY DEF Phantoms
    <2> PICK place, S, q : place = lpn[p].place /\ S = StoredAt(place) /\ q = HeldBy
        OBVIOUS
    <2>2. place \in Places /\ place \in rows
        BY <2>1 DEF RacksTyped, Packages, Undisturbed, StoredHasRow
    <2>3. \A x \in S : q[x] \in Nat
        BY DEF StoredAt, HeldBy, RacksTyped, Packages
    <2>4. IsFiniteSet(S) /\ onHand[place] = Cardinality(Units(q, S))
        BY <2>2 DEF Undisturbed, StoredAddsUp
    <2>5. Cardinality(Units(q, S)) \in Nat
        BY <2>3, <2>4, UnitsFinite
    <2> QED
        BY <2>2, <2>4, <2>5
<1>2. node[n] = {}
    BY DEF Undisturbed, NothingToRepair
<1> QED
    BY <1>1, <1>2 DEF RepairStep, StartRepair

LEMMA OfficeSettles ==
    ASSUME RacksTyped, Undisturbed, OfficeStep, ~ disturbed' PROVE Undisturbed'
<1>1. ASSUME NEW t \in TaskIds, NEW status \in TaskStatuses,
             tasks[t].status # "COMPLETED",
             tasks' = [tasks EXCEPT ![t].status = status],
             UNCHANGED <<lpn, rows, onHand, corrected, worker, operator, node>>
      PROVE  Undisturbed'
    <2>1. /\ TaskIds' = TaskIds
          /\ \A u \in TaskIds :
                /\ tasks'[u].lpn = tasks[u].lpn /\ tasks'[u].quantity = tasks[u].quantity
                /\ tasks[u].status = "COMPLETED" => tasks'[u].status = "COMPLETED"
        <3>1. /\ TaskIds' = TaskIds
              /\ \A u \in TaskIds :
                    /\ tasks'[u].lpn = tasks[u].lpn /\ tasks'[u].quantity = tasks[u].quantity
                    /\ tasks'[u].status = IF u = t THEN status ELSE tasks[u].status
            <4>1. tasks \in Seq(Tasks)
                BY DEF RacksTyped
            <4>2. StatusBecomes(t, status)
                BY <1>1 DEF StatusBecomes
            <4> QED
                BY <1>1, <4>1, <4>2, StatusSet
        <3> QED
            BY <1>1, <3>1
    <2>2. StoredAddsUp'
        BY <1>1, StoredStay DEF Undisturbed
    <2>3. OneTaskEach' /\ NothingToRepair' /\ StoredHasRow'
        BY <1>1, <2>1 DEF Undisturbed, OneTaskEach, NothingToRepair, StoredHasRow
    <2>4. TasksSay' /\ WorkersSay'
        BY <1>1, <2>1 DEF Undisturbed, TasksSay, WorkersSay, Says
    <2>5. StoredIsDone'
        BY <1>1, <2>1 DEF Undisturbed, StoredIsDone
    <2>6. OperatorsApart'
        BY <1>1, <2>1 DEF Undisturbed, OperatorsApart, RacksTyped
    <2> QED
        BY <2>2, <2>3, <2>4, <2>5, <2>6 DEF Undisturbed
<1>2. ASSUME UNCHANGED <<lpn, tasks, rows, onHand, corrected, worker, operator, node>>
      PROVE  Undisturbed'
    <2>1. WorkersSay'
        BY <1>2 DEF Undisturbed, WorkersSay, Says
    <2> QED
        BY <1>2, <2>1, NothingStored
<1>3. ASSUME NEW t \in TaskIds, AssignTask(t) PROVE Undisturbed'
    <2>1. UNCHANGED <<lpn, rows, onHand, corrected, worker, operator, node>>
        BY <1>3 DEF AssignTask, receiving
    <2>2. CASE UNCHANGED tasks
        BY <1>2, <2>1, <2>2
    <2>3. CASE tasks' = [tasks EXCEPT ![t].status = "ASSIGNED"] /\ tasks[t].status # "COMPLETED"
        <3>1. "ASSIGNED" \in TaskStatuses
            BY DEF TaskStatuses
        <3> QED
            BY <1>1, <2>1, <2>3, <3>1
    <2> QED
        BY <1>3, <2>2, <2>3 DEF AssignTask
<1>4. ASSUME NEW t \in TaskIds, ExpireTaskLock(t) PROVE Undisturbed'
    BY <1>2, <1>4 DEF ExpireTaskLock, inbound, receiving, racks
<1>5. ASSUME NEW t \in TaskIds, NEW status \in TaskStatuses, UpdateTaskStatus(t, status)
      PROVE  Undisturbed'
    BY <1>1, <1>5 DEF UpdateTaskStatus, receiving
<1>6. ASSUME NEW p \in Lpns, NEW package \in Packages, Rewrite(p, package) PROVE Undisturbed'
    <2>1. /\ lpn' = [lpn EXCEPT ![p] = package] /\ disturbed' = (disturbed \/ Upsets(p, package))
          /\ UNCHANGED <<tasks, rows, onHand, corrected, worker, operator, node>>
        BY <1>6 DEF Rewrite, racks
    <2>2. lpn'[p] = package /\ \A q \in Lpns \ {p} : lpn'[q] = lpn[q]
        BY <2>1 DEF RacksTyped
    <2>3. ~ Upsets(p, package)
        BY <2>1
    <2>4. \A q \in Lpns : ~ Upsets(q, lpn'[q])
        BY <2>2, <2>3 DEF Upsets
    <2> QED
        BY <2>1, <2>4, PackagesSettle
<1>7. ASSUME NEW p \in Lpns,
             \/ CreateLpn(p) \/ UpdateLpn(p) \/ DeleteLpn(p) \/ MoveLpn(p) \/ NestLpn(p)
             \/ UnnestLpn(p)
      PROVE  Undisturbed'
    BY <1>6, <1>7, Rewritten
<1>8. MoveStock \/ (\E p \in Lpns : ReceiveTransfer(p)) => disturbed'
    BY DEF MoveStock, ReceiveTransfer
<1>9. CASE CreateLot
    BY <1>2, <1>9 DEF CreateLot, racks
<1> QED
    BY <1>3, <1>4, <1>5, <1>7, <1>8, <1>9 DEF OfficeStep

--------------------------------------------------------------------------------
LEMMA StorageInitially == Init => StorageInv
<1> SUFFICES ASSUME Init PROVE StorageInv
    OBVIOUS
<1>1. RacksTyped /\ TaskIds = {}
    BY RacksInitially, EmptySeq, LenProperties DEF Init, TaskIds
<1>2. OneTaskEach /\ TasksSay /\ NothingToRepair
    BY <1>1 DEF OneTaskEach, TasksSay, NothingToRepair, Init
<1>3. WorkersSay /\ OperatorsApart
    BY DEF WorkersSay, OperatorsApart, Init, IdleWorker, IdleOperator
<1>4. \A p \in Lpns : lpn[p].status = "ABSENT"
    BY DEF Init, GoodsReceiptInit, NoPackage
<1>5. StoredIsDone /\ StoredHasRow
    BY <1>4 DEF StoredIsDone, StoredHasRow
<1>6. StoredAddsUp
    <2> SUFFICES ASSUME NEW place \in Places
                 PROVE  /\ IsFiniteSet(StoredAt(place))
                        /\ onHand[place] = Cardinality(Units(HeldBy, StoredAt(place)))
                        /\ corrected[place] = 0
        BY DEF StoredAddsUp
    <2>1. StoredAt(place) = {}
        BY <1>4 DEF StoredAt
    <2>2. Units(HeldBy, StoredAt(place)) = {}
        BY <2>1 DEF Units
    <2> QED
        BY <2>1, <2>2, FS_EmptySet DEF Init
<1> QED
    BY <1>1, <1>2, <1>3, <1>5, <1>6 DEF StorageInv, Undisturbed

(* What has been disturbed stays so. *)
LEMMA Remembered ==
    ASSUME RacksTyped, [Next]_vars, disturbed PROVE disturbed'
<1>1. CASE Receive \/ UNCHANGED vars
    BY <1>1 DEF Receive, vars
<1>2. ASSUME NEW w \in Workers, WorkerStep(w) PROVE disturbed'
    BY <1>2, QueueRest, CreateTaskTyped DEF WorkerStep
<1>3. ASSUME NEW g \in Receipts, ExpireGenLock(g) PROVE disturbed'
    BY <1>3 DEF ExpireGenLock
<1>4. ASSUME NEW o \in Operators, OperatorStep(o) PROVE disturbed'
    BY <1>4 DEF OperatorStep, ReadTask, ConfirmPutaway, RollbackPutaway
<1>5. ASSUME NEW n \in Nodes, RepairStep(n) PROVE disturbed'
    BY <1>5 DEF RepairStep, StartRepair, Repair
<1>6. CASE OfficeStep
    <2>1. ASSUME NEW t \in TaskIds, AssignTask(t) \/ ExpireTaskLock(t) PROVE disturbed'
        BY <2>1 DEF AssignTask, ExpireTaskLock
    <2>2. ASSUME NEW t \in TaskIds, NEW status \in TaskStatuses, UpdateTaskStatus(t, status)
          PROVE  disturbed'
        BY <2>2 DEF UpdateTaskStatus
    <2>3. ASSUME NEW p \in Lpns,
                 \/ CreateLpn(p) \/ UpdateLpn(p) \/ DeleteLpn(p) \/ MoveLpn(p) \/ NestLpn(p)
                 \/ UnnestLpn(p)
          PROVE  disturbed'
        BY <2>3, Rewritten DEF Rewrite
    <2> QED
        BY <1>6, <2>1, <2>2, <2>3 DEF OfficeStep, ReceiveTransfer, MoveStock, CreateLot
<1> QED
    BY <1>1, <1>2, <1>3, <1>4, <1>5, <1>6 DEF Next

LEMMA StorageInductive == StorageInv /\ ReceivingTypeOK' /\ [Next]_vars => StorageInv'
<1> SUFFICES ASSUME StorageInv, ReceivingTypeOK', [Next]_vars PROVE StorageInv'
    OBVIOUS
<1>1. RacksTyped'
    BY RacksStep DEF StorageInv
<1>2. ASSUME ~ disturbed' PROVE Undisturbed'
    <2>1. RacksTyped /\ Undisturbed
        BY <1>2, Remembered DEF StorageInv
    <2>2. CASE Receive
        BY <1>2, <2>1, <2>2, ReceiveSettles
    <2>3. ASSUME NEW w \in Workers, WorkerStep(w) PROVE Undisturbed'
        BY <1>2, <2>1, <2>3, QueueSettles
    <2>4. ASSUME UNCHANGED <<lpn, tasks, rows, onHand, corrected, worker, operator, node>>
          PROVE  Undisturbed'
        <3>1. WorkersSay'
            BY <2>1, <2>4 DEF Undisturbed, WorkersSay, Says
        <3> QED
            BY <2>1, <2>4, <3>1, NothingStored
    <2>5. ASSUME NEW g \in Receipts, ExpireGenLock(g) PROVE Undisturbed'
        BY <2>4, <2>5 DEF ExpireGenLock, inbound, receiving, racks
    <2>6. ASSUME NEW o \in Operators, OperatorStep(o) PROVE Undisturbed'
        BY <1>2, <2>1, <2>6, OperatorSettles
    <2>7. ASSUME NEW n \in Nodes, RepairStep(n) PROVE Undisturbed'
        BY <2>1, <2>7, RepairSettles
    <2>8. CASE OfficeStep
        BY <1>2, <2>1, <2>8, OfficeSettles
    <2>9. CASE UNCHANGED vars
        BY <2>4, <2>9 DEF vars, inbound, receiving, racks
    <2> QED
        BY <2>2, <2>3, <2>5, <2>6, <2>7, <2>8, <2>9 DEF Next
<1> QED
    BY <1>1, <1>2 DEF StorageInv

--------------------------------------------------------------------------------
(* Every package, task, lock, job and confirmation is one the code can write: *)
(* a job is tried no more often than it may be, and a confirmation is of a    *)
(* task that there is.                                                        *)
THEOREM TypeCorrect == Spec => []TypeOK
<1>1. Init => ReceivingInv
    BY ReceivingInitially DEF Init
<1>2. RacksTyped => TypeOK
    <2> SUFFICES ASSUME RacksTyped PROVE TypeOK
        OBVIOUS
    <2>1. \A w \in Workers : worker[w].stage \in Stages /\ worker[w].attempts \in 0 .. MaxAttempts
        BY DEF RacksTyped, WorkerStates
    <2>2. \A w \in Workers : worker[w].attempts <= MaxAttempts
        BY <2>1, PutawayBoundAssumption
    <2> QED
        BY <2>1, <2>2 DEF TypeOK, RacksTyped, Tasks
<1>3. ReceivingInv => ReceivingTypeOK
    BY DEF ReceivingInv
<1> QED
    BY <1>1, <1>2, <1>3, RacksInitially, RacksStep, PutawayKeepsReceiving, PTL DEF Spec

(* Unless one of the things StockIsStored lists has happened, the stock of every *)
(* place is what is stored there, and the repair has never added any.         *)
THEOREM StockIsWhatIsStored == Spec => []StockIsStored
<1>1. Init => ReceivingInv
    BY ReceivingInitially DEF Init
<1>2. StorageInv => StockIsStored
    BY DEF StorageInv, Undisturbed, StoredAddsUp, StockIsStored
<1>3. ReceivingInv => ReceivingTypeOK
    BY DEF ReceivingInv
<1> QED
    BY <1>1, <1>2, <1>3, StorageInitially, StorageInductive, PutawayKeepsReceiving, PTL DEF Spec

(* A receipt line whose quantity nobody typed on the web never claims more    *)
(* than was scanned, nor to be RECEIVED with less than expected, whatever     *)
(* scans, inspections and deletions interleave and whatever is put away       *)
(* meanwhile.                                                                 *)
THEOREM ClaimsAreBacked == Spec => []NothingClaimed
<1>1. Init => ReceivingInv
    BY ReceivingInitially DEF Init
<1>2. ReceivingInv => NothingClaimed
    BY DEF ReceivingInv
<1> QED
    BY <1>1, <1>2, PutawayKeepsReceiving, PTL DEF Spec

(* A line that no two devices scanned at once, and whose quantity nobody      *)
(* typed, says exactly what was scanned, and that is no more than expected.   *)
THEOREM ScansCounted == Spec => []ScansAddUp
<1>1. Init => ReceivingInv
    BY ReceivingInitially DEF Init
<1>2. ReceivingInv => ScansAddUp
    BY DEF ReceivingInv
<1> QED
    BY <1>1, <1>2, PutawayKeepsReceiving, PTL DEF Spec
================================================================================
