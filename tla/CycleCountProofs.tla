---------------------------- MODULE CycleCountProofs ----------------------------
(***************************************************************************)
(* For any number of counts, rows, lots, devices, offices and approvers.   *)
(*                                                                         *)
(* Lines go on and never back, and whoever holds a count, a line or an     *)
(* approval holds one that exists (WellFormed): so TypeOK.  On that rest   *)
(*   - LedgerKept: what offices have posted to the ledger of a row and     *)
(*     still owe its stock is what the two differ by, however many post    *)
(*     at once (LedgerAgrees);                                             *)
(*   - CountedTrue: the variance of a line is what the row holds beyond    *)
(*     its record from the snapshot to the posting, it is in one pair of   *)
(*     hands at most, and so is posted once (CountCorrects, unless counts  *)
(*     are BLIND).  A row of which that cannot be said is tainted.         *)
(***************************************************************************)
EXTENDS CycleCount, FiniteSetTheorems, SequenceTheorems, TLAPS

(* The copies an office has still to post. *)
ToPost(f) ==
    office[f].left \cup (IF office[f].stage = "posting" THEN {office[f].current} ELSE {})

LinesSound ==
    \A l \in Lines :
        /\ line[l].status # "ABSENT" => count[l[1]].status # "NONE"
        /\ begun[l[1]] > 0 => line[l].status \in {"ABSENT", "COUNTED"}

CountsSound ==
    \A c \in Counts :
        /\ begun[c] > 0 => Created(c)
        /\ begun[c] = 0 => count[c].status # "RECONCILED"

DevicesSound ==
    \A d \in Devices :
        device[d].stage # "idle" =>
            device[d].line \in Lines /\ line[device[d].line].status \in {"PENDING", "COUNTED"}

OfficeSound(f) ==
    /\ office[f].stage = "idle" => office[f].left = {}
    /\ office[f].stage # "idle" => /\ office[f].count \in Counts
                                   /\ begun[office[f].count] > 0
    /\ office[f].stage = "posting" => office[f].current \in Copies
    /\ \A copy \in ToPost(f) :
          copy.line[1] = office[f].count /\ line[copy.line].status = "COUNTED"

OfficesSound == \A f \in Offices : OfficeSound(f)

ApprovalsSound ==
    \A i \in ApprovalIds :
        /\ line[approvals[i].line].status = "COUNTED"
        /\ begun[approvals[i].line[1]] > 0

WellFormed ==
    Typed /\ LinesSound /\ CountsSound /\ DevicesSound /\ OfficesSound /\ ApprovalsSound

LEMMA WellFormedIsTyped == WellFormed => TypeOK
BY DEF WellFormed, TypeOK, CountsSound, DevicesSound, OfficesSound, OfficeSound,
   ApprovalsSound

LEMMA LinesShape == \A l \in Lines : l[1] \in Counts /\ RowOf(l) \in Rows /\ l = <<l[1], RowOf(l)>>
BY DEF Lines, RowOf

LEMMA InitiallyWellFormed == Init => WellFormed
<1> SUFFICES ASSUME Init PROVE WellFormed
    OBVIOUS
<1>1. NewCount \in CountRecords /\ NewLine \in LineRecords /\ IdleDevice \in DeviceRecords
      /\ IdleOffice \in OfficeRecords
    BY DEF NewCount, NewLine, IdleDevice, IdleOffice, CountRecords, LineRecords,
           DeviceRecords, OfficeRecords
<1>2. Typed
    <2>1. approvals \in Seq(ApprovalRecords) /\ 0 \in 0 .. Len(approvals)
        BY DEF Init
    <2>2. /\ physical \in [Rows -> Stocks] /\ onHand \in [Rows -> Recorded] /\ journal = onHand
          /\ Stocks \subseteq Nat /\ Recorded \subseteq Int
        BY StocksAssumption DEF Init
    <2>3. physical \in [Rows -> Nat] /\ onHand \in [Rows -> Int] /\ journal \in [Rows -> Int]
        BY <2>2
    <2> QED BY <1>1, <2>1, <2>3, BoundsAssumption DEF Init, Typed
<1>3. CountsSound /\ LinesSound /\ DevicesSound /\ ApprovalsSound
    BY LinesShape DEF Init, CountsSound, LinesSound, DevicesSound, ApprovalsSound, Created,
       NewLine, NewCount, IdleDevice, ApprovalIds
<1>4. OfficesSound
    BY DEF Init, OfficesSound, OfficeSound, ToPost, IdleOffice
<1> QED BY <1>2, <1>3, <1>4 DEF WellFormed

--------------------------------------------------------------------------------
(* What lines, counts and offices are like, and what an action leaves alone. *)

LEMMA LineFields ==
    ASSUME Typed, NEW l \in Lines
    PROVE  /\ line[l] \in LineRecords
           /\ line[l].status \in {"ABSENT", "SCOPED", "PENDING", "COUNTED"}
           /\ line[l].system \in Int /\ line[l].counted \in Nat
           /\ Variance(l) \in Int
           /\ CopyOf(l) \in Copies /\ CopyOf(l).line = l /\ CopyOf(l).variance = Variance(l)
<1>1. /\ line[l] \in LineRecords
      /\ line[l].status \in {"ABSENT", "SCOPED", "PENDING", "COUNTED"}
      /\ line[l].system \in Int /\ line[l].counted \in Nat
    BY DEF Typed, LineRecords
<1>2. Variance(l) \in Int
    BY <1>1 DEF Variance
<1> QED BY <1>1, <1>2 DEF CopyOf, Copies

LEMMA OfficeFields ==
    ASSUME Typed, NEW f \in Offices
    PROVE  /\ office[f] \in OfficeRecords
           /\ office[f].stage \in {"idle", "lines", "posting"}
           /\ office[f].left \subseteq Copies
           /\ office[f].current \in Copies \cup {NoLine}
           /\ \A copy \in office[f].left : copy.line \in Lines /\ copy.variance \in Int
BY DEF Typed, OfficeRecords, Copies

LEMMA PostingCopy ==
    ASSUME WellFormed, NEW f \in Offices, office[f].stage = "posting"
    PROVE  /\ office[f].current \in Copies
           /\ office[f].current.line \in Lines /\ office[f].current.variance \in Int
BY DEF WellFormed, OfficesSound, OfficeSound, Copies

LEMMA ApprovalFields ==
    ASSUME Typed, NEW i \in ApprovalIds
    PROVE  /\ approvals[i] \in ApprovalRecords
           /\ approvals[i].line \in Lines
           /\ approvals[i].status \in {"PENDING", "APPROVED", "REJECTED"}
<1>1. approvals[i] \in ApprovalRecords
    BY DEF Typed, ApprovalIds
<1> QED BY <1>1 DEF ApprovalRecords

(* Lines go on, and never back. *)
LEMMA LinesGoOn ==
    ASSUME WellFormed, UNCHANGED <<device, office, approvals, begun>>,
           \A l \in Lines : line[l].status = "COUNTED" => line'[l].status = "COUNTED",
           \A l \in Lines : line[l].status = "PENDING" => line'[l].status \in {"PENDING", "COUNTED"}
    PROVE  DevicesSound' /\ OfficesSound' /\ ApprovalsSound'
<1>1. DevicesSound'
    BY DEF WellFormed, DevicesSound
<1>2. OfficesSound'
    <2> SUFFICES ASSUME NEW f \in Offices PROVE OfficeSound(f)'
        BY DEF OfficesSound
    <2>1. ToPost(f)' = ToPost(f)
        BY DEF ToPost
    <2>2. OfficeSound(f) /\ ToPost(f) \subseteq Copies
        BY OfficeFields DEF WellFormed, OfficesSound, OfficeSound, ToPost
    <2>3. \A copy \in ToPost(f) : copy.line \in Lines
        BY <2>2 DEF Copies
    <2> QED BY <2>1, <2>2, <2>3 DEF OfficeSound
<1>3. ApprovalsSound'
    BY ApprovalFields DEF WellFormed, ApprovalsSound, ApprovalIds
<1> QED BY <1>1, <1>2, <1>3

(* Only office f has acted; lines and counts may have begun, and none has gone back. *)
LEMMA OfficeActs ==
    ASSUME WellFormed, NEW f \in Offices, NEW o \in OfficeRecords,
           office' = [office EXCEPT ![f] = o], UNCHANGED line,
           \A c \in Counts : begun'[c] >= begun[c], begun' \in [Counts -> 0 .. MaxFinalizations],
           o.stage = "idle" => o.left = {},
           o.stage # "idle" => o.count \in Counts /\ begun'[o.count] > 0,
           o.stage = "posting" =>
               /\ o.current \in Copies
               /\ o.current.line[1] = o.count /\ line[o.current.line].status = "COUNTED",
           \A copy \in o.left : copy.line[1] = o.count /\ line[copy.line].status = "COUNTED"
    PROVE  office' \in [Offices -> OfficeRecords] /\ OfficesSound'
<1>1. office' \in [Offices -> OfficeRecords]
    BY DEF WellFormed, Typed
<1> SUFFICES ASSUME NEW g \in Offices PROVE OfficeSound(g)'
    BY <1>1 DEF OfficesSound
<1>2. CASE g = f
    <2>1. office'[g] = o
        BY <1>2 DEF WellFormed, Typed
    <2>2. ToPost(g)' = o.left \cup (IF o.stage = "posting" THEN {o.current} ELSE {})
        BY <2>1 DEF ToPost
    <2> QED BY <2>1, <2>2 DEF OfficeSound
<1>3. CASE g # f
    <2>1. office'[g] = office[g] /\ ToPost(g)' = ToPost(g)
        BY <1>3 DEF WellFormed, Typed, ToPost
    <2>2. OfficeSound(g)
        BY DEF WellFormed, OfficesSound
    <2>3. \A c \in Counts : begun[c] > 0 => begun'[c] > 0
        BY BoundsAssumption DEF WellFormed, Typed
    <2> QED BY <2>1, <2>2, <2>3 DEF OfficeSound
<1> QED BY <1>2, <1>3

LEMMA MoveIsSound ==
    ASSUME WellFormed, NEW row \in Rows, NEW delta \in {-1, 1}, Move(row, delta)
    PROVE  WellFormed'
<1>1. physical' \in [Rows -> Nat] /\ onHand' \in [Rows -> Int] /\ journal' \in [Rows -> Int]
    BY DEF Move, WellFormed, Typed
<1>2. moves' \in 0 .. MaxMoves /\ moved' \in SUBSET Lines
    BY BoundsAssumption DEF Move, WellFormed, Typed
<1>3. LinesSound' /\ CountsSound' /\ DevicesSound' /\ OfficesSound' /\ ApprovalsSound'
    BY DEF Move, stock, history, WellFormed, LinesSound, CountsSound, Created, DevicesSound,
           OfficesSound, OfficeSound, ToPost, ApprovalsSound, ApprovalIds
<1>4. Typed'
    BY <1>1, <1>2, <1>3 DEF Move, stock, history, WellFormed, Typed
<1> QED BY <1>1, <1>2, <1>3, <1>4 DEF WellFormed

LEMMA ReadScopeIsSound ==
    ASSUME WellFormed, NEW c \in Counts, NEW rows \in SUBSET Rows, NEW system \in [Rows -> Int],
           ReadScope(c, rows, system)
    PROVE  WellFormed'
<1>1. count[c].status = "NONE" /\ count[c] \in CountRecords
    BY DEF ReadScope, WellFormed, Typed
<1>2. count' = [count EXCEPT ![c].status = "SCOPED"]
    BY DEF ReadScope
<1>3. \A l \in Lines : l[1] = c => line[l].status = "ABSENT"
    BY <1>1 DEF WellFormed, LinesSound
<1>4. \A l \in Lines :
        \/ line'[l] = line[l]
        \/ /\ l[1] = c /\ line[l].status = "ABSENT"
           /\ line'[l] = [status |-> "SCOPED", system |-> system[RowOf(l)], counted |-> 0]
    BY <1>3 DEF ReadScope, NewLine
<1>5. line' \in [Lines -> LineRecords]
    <2>1. \A l \in Lines : system[RowOf(l)] \in Int
        BY LinesShape
    <2>2. \A l \in Lines : line'[l] \in LineRecords
        <3> SUFFICES ASSUME NEW l \in Lines PROVE line'[l] \in LineRecords
            OBVIOUS
        <3>1. [status |-> "SCOPED", system |-> system[RowOf(l)], counted |-> 0] \in LineRecords
            BY <2>1 DEF LineRecords
        <3>2. line[l] \in LineRecords
            BY LineFields DEF WellFormed
        <3> QED BY <1>4, <3>1, <3>2
    <2>3. DOMAIN line' = Lines /\ line' = [l \in Lines |-> line'[l]]
        BY DEF ReadScope
    <2> QED BY <2>2, <2>3
<1>6. count' \in [Counts -> CountRecords]
    BY <1>2 DEF WellFormed, Typed, CountRecords
<1>7. CountsSound'
    <2>1. count'[c].status = "SCOPED" /\ \A k \in Counts \ {c} : count'[k] = count[k]
        BY <1>1, <1>2 DEF WellFormed, Typed
    <2>2. ~(begun[c] > 0)
        BY <1>1 DEF WellFormed, Typed, CountsSound, Created
    <2>3. UNCHANGED begun
        BY DEF ReadScope, history
    <2> QED BY <2>1, <2>2, <2>3 DEF WellFormed, CountsSound, Created
<1>8. LinesSound'
    <2>1. begun[c] = 0
        BY <1>1 DEF WellFormed, CountsSound, Created, Typed
    <2>2. UNCHANGED begun
        BY DEF ReadScope, history
    <2>3. \A k \in Counts : count[k].status # "NONE" => count'[k].status # "NONE"
        BY <1>2 DEF WellFormed, Typed
    <2>4. count'[c].status # "NONE"
        BY <1>2 DEF WellFormed, Typed
    <2>5. \A l \in Lines : line'[l].status # line[l].status => l[1] = c
        BY <1>4
    <2>6. \A l \in Lines : l[1] \in Counts
        BY LinesShape
    <2> QED BY <2>1, <2>2, <2>3, <2>4, <2>5, <2>6 DEF WellFormed, LinesSound
<1>9. DevicesSound' /\ OfficesSound' /\ ApprovalsSound'
    BY <1>4, LinesGoOn DEF ReadScope, history
<1>10. Typed'
    BY <1>5, <1>6, <1>7, <1>8, <1>9 DEF ReadScope, stock, history, WellFormed, Typed
<1> QED BY <1>5, <1>6, <1>7, <1>8, <1>9, <1>10 DEF WellFormed

LEMMA CreateIsSound ==
    ASSUME WellFormed, NEW c \in Counts, Create(c)
    PROVE  WellFormed'
<1>1. /\ count[c].status = "SCOPED" /\ count[c] \in CountRecords
      /\ count' = [count EXCEPT ![c].status = "SCHEDULED"]
    BY DEF Create, WellFormed, Typed
<1>2. \A l \in Lines :
        \/ line'[l] = line[l]
        \/ /\ l[1] = c /\ line[l].status = "SCOPED"
           /\ line'[l] = [line[l] EXCEPT !.status = "PENDING"]
    BY DEF Create
<1>3. \A l \in Lines : line[l] \in LineRecords
    BY LineFields DEF WellFormed
<1>4. line' \in [Lines -> LineRecords]
    <2>1. \A l \in Lines : line'[l] \in LineRecords
        BY <1>2, <1>3 DEF LineRecords
    <2>2. DOMAIN line' = Lines /\ line' = [l \in Lines |-> line'[l]]
        BY DEF Create
    <2> QED BY <2>1, <2>2
<1>5. count' \in [Counts -> CountRecords]
    BY <1>1 DEF WellFormed, Typed, CountRecords
<1>6. CountsSound'
    BY <1>1 DEF Create, history, WellFormed, Typed, CountsSound, Created
<1>7. LinesSound'
    <2>1. begun[c] = 0
        BY <1>1 DEF WellFormed, CountsSound, Created, Typed
    <2>2. UNCHANGED begun
        BY DEF Create, history
    <2>3. \A k \in Counts : count[k].status # "NONE" => count'[k].status # "NONE"
        BY <1>1 DEF WellFormed, Typed
    <2>4. \A l \in Lines : line'[l].status # line[l].status =>
                l[1] = c /\ line[l].status = "SCOPED" /\ line'[l].status = "PENDING"
        BY <1>2, <1>3 DEF LineRecords
    <2> QED BY <2>1, <2>2, <2>3, <2>4, LinesShape DEF WellFormed, LinesSound
<1>8. DevicesSound' /\ OfficesSound' /\ ApprovalsSound'
    <2>1. \A l \in Lines : line[l].status \in {"PENDING", "COUNTED"} => line'[l] = line[l]
        BY <1>2
    <2> QED BY <2>1, LinesGoOn DEF Create, history
<1>9. Typed'
    BY <1>4, <1>5, <1>6, <1>7, <1>8 DEF Create, stock, history, WellFormed, Typed
<1> QED BY <1>4, <1>5, <1>6, <1>7, <1>8, <1>9 DEF WellFormed

LEMMA AssignIsSound ==
    ASSUME WellFormed, NEW c \in Counts, Assign(c)
    PROVE  WellFormed'
<1>1. count' = [count EXCEPT ![c] = [status |-> "ASSIGNED", assigned |-> TRUE]] /\ Created(c)
    BY DEF Assign
<1>2. count' \in [Counts -> CountRecords]
    BY <1>1 DEF WellFormed, Typed, CountRecords
<1>3. CountsSound'
    BY <1>1 DEF Assign, history, WellFormed, Typed, CountsSound, Created
<1>4. LinesSound'
    <2>1. \A k \in Counts : count[k].status # "NONE" => count'[k].status # "NONE"
        BY <1>1 DEF WellFormed, Typed
    <2> QED BY <2>1, LinesShape DEF Assign, history, WellFormed, LinesSound
<1>5. DevicesSound' /\ OfficesSound' /\ ApprovalsSound'
    BY DEF Assign, stock, history, WellFormed, DevicesSound, OfficesSound, OfficeSound, ToPost,
           ApprovalsSound, ApprovalIds
<1>6. Typed'
    BY <1>2, <1>3, <1>4, <1>5 DEF Assign, stock, history, WellFormed, Typed
<1> QED BY <1>2, <1>3, <1>4, <1>5, <1>6 DEF WellFormed

LEMMA CountGoodsIsSound ==
    ASSUME WellFormed, NEW d \in Devices, NEW l \in Lines, CountGoods(d, l)
    PROVE  WellFormed'
<1>1. physical[RowOf(l)] \in Nat
    BY LinesShape DEF WellFormed, Typed
<1>2. device' \in [Devices -> DeviceRecords]
    BY <1>1 DEF CountGoods, WellFormed, Typed, DeviceRecords
<1>3. DevicesSound'
    BY DEF CountGoods, WellFormed, Typed, DevicesSound
<1>4. LinesSound' /\ CountsSound' /\ OfficesSound' /\ ApprovalsSound'
    BY DEF CountGoods, stock, history, WellFormed, LinesSound, CountsSound, Created,
           OfficesSound, OfficeSound, ToPost, ApprovalsSound, ApprovalIds
<1>5. Typed'
    BY <1>2, <1>3, <1>4 DEF CountGoods, stock, history, WellFormed, Typed
<1> QED BY <1>2, <1>3, <1>4, <1>5 DEF WellFormed

LEMMA ReadLineIsSound ==
    ASSUME WellFormed, NEW d \in Devices, ReadLine(d)
    PROVE  WellFormed'
<1>1. device' \in [Devices -> DeviceRecords]
    BY DEF ReadLine, WellFormed, Typed, DeviceRecords, IdleDevice
<1>2. DevicesSound'
    BY DEF ReadLine, WellFormed, Typed, DevicesSound, IdleDevice
<1>3. LinesSound' /\ CountsSound' /\ OfficesSound' /\ ApprovalsSound'
    BY DEF ReadLine, stock, history, WellFormed, LinesSound, CountsSound, Created, OfficesSound,
           OfficeSound, ToPost, ApprovalsSound, ApprovalIds
<1>4. Typed'
    BY <1>1, <1>2, <1>3 DEF ReadLine, stock, history, WellFormed, Typed
<1> QED BY <1>1, <1>2, <1>3, <1>4 DEF WellFormed

LEMMA LockLineIsSound ==
    ASSUME WellFormed, NEW d \in Devices, LockLine(d)
    PROVE  WellFormed'
<1>1. device' \in [Devices -> DeviceRecords]
    BY DEF LockLine, WellFormed, Typed, DeviceRecords, IdleDevice
<1>2. DevicesSound'
    BY DEF LockLine, WellFormed, Typed, DevicesSound, IdleDevice
<1>3. lineLock' \in [Lines -> Devices \cup {Nobody}]
    BY DEF LockLine, WellFormed, Typed
<1>4. LinesSound' /\ CountsSound' /\ OfficesSound' /\ ApprovalsSound'
    BY DEF LockLine, stock, history, WellFormed, LinesSound, CountsSound, Created, OfficesSound,
           OfficeSound, ToPost, ApprovalsSound, ApprovalIds
<1>5. Typed'
    BY <1>1, <1>2, <1>3, <1>4 DEF LockLine, stock, history, WellFormed, Typed
<1> QED BY <1>1, <1>2, <1>3, <1>4, <1>5 DEF WellFormed

LEMMA UnlockLineIsSound ==
    ASSUME WellFormed, NEW d \in Devices, UnlockLine(d)
    PROVE  WellFormed'
<1>1. device' \in [Devices -> DeviceRecords]
    BY DEF UnlockLine, WellFormed, Typed, DeviceRecords, IdleDevice
<1>2. DevicesSound'
    BY DEF UnlockLine, WellFormed, Typed, DevicesSound, IdleDevice
<1>3. lineLock' \in [Lines -> Devices \cup {Nobody}]
    BY DEF UnlockLine, WellFormed, Typed
<1>4. LinesSound' /\ CountsSound' /\ OfficesSound' /\ ApprovalsSound'
    BY DEF UnlockLine, stock, history, WellFormed, LinesSound, CountsSound, Created,
           OfficesSound, OfficeSound, ToPost, ApprovalsSound, ApprovalIds
<1>5. Typed'
    BY <1>1, <1>2, <1>3, <1>4 DEF UnlockLine, stock, history, WellFormed, Typed
<1> QED BY <1>1, <1>2, <1>3, <1>4, <1>5 DEF WellFormed

LEMMA GiveUpIsSound ==
    ASSUME WellFormed, NEW d \in Devices, GiveUp(d)
    PROVE  WellFormed'
<1>1. device' \in [Devices -> DeviceRecords]
    BY DEF GiveUp, WellFormed, Typed, DeviceRecords, IdleDevice
<1>2. DevicesSound'
    BY DEF GiveUp, WellFormed, Typed, DevicesSound, IdleDevice
<1>3. LinesSound' /\ CountsSound' /\ OfficesSound' /\ ApprovalsSound'
    BY DEF GiveUp, stock, history, WellFormed, LinesSound, CountsSound, Created, OfficesSound,
           OfficeSound, ToPost, ApprovalsSound, ApprovalIds
<1>4. Typed'
    BY <1>1, <1>2, <1>3 DEF GiveUp, stock, history, WellFormed, Typed
<1> QED BY <1>1, <1>2, <1>3, <1>4 DEF WellFormed

LEMMA ExpireLineLockIsSound ==
    ASSUME WellFormed, NEW l \in Lines, ExpireLineLock(l)
    PROVE  WellFormed'
<1>1. lineLock' \in [Lines -> Devices \cup {Nobody}]
    BY DEF ExpireLineLock, WellFormed, Typed
<1>2. LinesSound' /\ CountsSound' /\ DevicesSound' /\ OfficesSound' /\ ApprovalsSound'
    BY DEF ExpireLineLock, stock, history, WellFormed, LinesSound, CountsSound, Created,
           DevicesSound, OfficesSound, OfficeSound, ToPost, ApprovalsSound, ApprovalIds
<1>3. Typed'
    BY <1>1, <1>2 DEF ExpireLineLock, stock, history, WellFormed, Typed
<1> QED BY <1>1, <1>2, <1>3 DEF WellFormed

LEMMA RecordCountIsSound ==
    ASSUME WellFormed, NEW d \in Devices, RecordCount(d)
    PROVE  WellFormed'
<1> PICK l \in Lines : l = device[d].line /\ line[l].status \in {"PENDING", "COUNTED"}
    BY DEF RecordCount, WellFormed, DevicesSound
<1> PICK q \in Nat : q = device[d].quantity
    BY DEF WellFormed, Typed, DeviceRecords
<1>1. line' = [line EXCEPT ![l] = [line[l] EXCEPT !.status = "COUNTED", !.counted = q]]
    BY DEF RecordCount
<1>2. line[l] \in LineRecords
    BY LineFields DEF WellFormed
<1>3. /\ line' \in [Lines -> LineRecords]
      /\ line'[l].status = "COUNTED" /\ \A m \in Lines \ {l} : line'[m] = line[m]
    BY <1>1, <1>2 DEF WellFormed, Typed, LineRecords
<1>4. line' \in [Lines -> LineRecords]
    BY <1>3
<1>5. device' \in [Devices -> DeviceRecords]
    BY DEF RecordCount, WellFormed, Typed, DeviceRecords
<1>6. tainted' \in SUBSET Rows
    BY LinesShape DEF RecordCount, WellFormed, Typed
<1>7. LinesSound'
    BY <1>3 DEF RecordCount, WellFormed, LinesSound
<1>8. DevicesSound'
    BY <1>3 DEF RecordCount, WellFormed, Typed, DevicesSound
<1>9. OfficesSound'
    <2>1. \A g \in Offices : ToPost(g)' = ToPost(g) /\ OfficeSound(g)
        BY DEF RecordCount, ToPost, WellFormed, OfficesSound
    <2>2. \A m : line[m].status = "COUNTED" /\ m \in Lines => line'[m].status = "COUNTED"
        BY <1>3
    <2>3. \A g \in Offices : \A copy \in ToPost(g) : copy.line \in Lines
        BY OfficeFields, PostingCopy DEF ToPost, WellFormed
    <2>4. UNCHANGED <<office, begun>>
        BY DEF RecordCount
    <2> QED BY <2>1, <2>2, <2>3, <2>4 DEF OfficesSound, OfficeSound
<1>10. ApprovalsSound'
    <2>1. UNCHANGED <<approvals, begun>>
        BY DEF RecordCount
    <2> QED BY <1>3, <2>1, ApprovalFields DEF WellFormed, ApprovalsSound, ApprovalIds
<1>11. CountsSound'
    BY DEF RecordCount, stock, history, WellFormed, CountsSound, Created
<1>12. Typed'
    BY <1>4, <1>5, <1>6, <1>7, <1>8, <1>9, <1>10, <1>11
       DEF RecordCount, stock, history, WellFormed, Typed
<1> QED BY <1>4, <1>5, <1>6, <1>7, <1>8, <1>9, <1>10, <1>11, <1>12 DEF WellFormed

LEMMA StartFinalizeIsSound ==
    ASSUME WellFormed, NEW f \in Offices, NEW c \in Counts, StartFinalize(f, c)
    PROVE  WellFormed'
<1> PICK o : o = [stage |-> "lines", count |-> c, assigned |-> count[c].assigned,
                  left |-> {CopyOf(l) : l \in LinesOf(c)}, current |-> NoLine]
    OBVIOUS
<1>1. /\ office' = [office EXCEPT ![f] = o] /\ begun' = [begun EXCEPT ![c] = @ + 1]
      /\ UNCHANGED <<line, count, approvals>> /\ Created(c)
    BY DEF StartFinalize
<1>2. \A l \in LinesOf(c) : /\ l \in Lines /\ l[1] = c /\ line[l].status = "COUNTED"
                            /\ CopyOf(l) \in Copies /\ CopyOf(l).line = l
    BY LineFields DEF StartFinalize, LinesOf, WellFormed
<1>3. o \in OfficeRecords
    <2>1. count[c].assigned \in BOOLEAN
        BY DEF WellFormed, Typed, CountRecords
    <2>2. {CopyOf(l) : l \in LinesOf(c)} \subseteq Copies
        BY <1>2
    <2> QED BY <2>1, <2>2 DEF OfficeRecords
<1>4. begun[c] \in Nat /\ begun[c] < MaxFinalizations
    BY BoundsAssumption DEF StartFinalize, WellFormed, Typed
<1>5. begun' \in [Counts -> 0 .. MaxFinalizations]
    BY <1>1, <1>4, BoundsAssumption DEF WellFormed, Typed
<1>6. office' \in [Offices -> OfficeRecords] /\ OfficesSound'
    <2>1. /\ begun' \in [Counts -> 0 .. MaxFinalizations]
          /\ begun'[c] > 0 /\ \A k \in Counts : begun'[k] >= begun[k]
        BY <1>1, <1>4, <1>5, BoundsAssumption DEF WellFormed, Typed
    <2>2. /\ o.stage = "lines" /\ o.count = c
          /\ \A copy \in o.left : copy.line[1] = o.count /\ line[copy.line].status = "COUNTED"
        BY <1>2
    <2> HIDE DEF Typed
    <2> QED BY <1>1, <1>3, <2>1, <2>2, OfficeActs
<1>7. tainted' \in SUBSET Rows
    BY DEF StartFinalize, WellFormed, Typed
<1>8. CountsSound'
    BY <1>1 DEF WellFormed, Typed, CountsSound, Created
<1>9. LinesSound'
    <2>1. \A l \in Lines : l[1] # c => begun'[l[1]] = begun[l[1]]
        BY <1>1, LinesShape DEF WellFormed, Typed
    <2>2. \A l \in Lines : l[1] = c => line[l].status \in {"ABSENT", "COUNTED"}
        BY DEF StartFinalize, LinesOf
    <2> QED BY <1>1, <2>1, <2>2 DEF WellFormed, LinesSound
<1>10. ApprovalsSound'
    <2>1. \A k \in Counts : begun[k] > 0 => begun'[k] > 0
        BY <1>1, <1>4, BoundsAssumption DEF WellFormed, Typed
    <2> QED BY <1>1, <2>1, ApprovalFields, LinesShape DEF WellFormed, ApprovalsSound, ApprovalIds
<1>11. DevicesSound'
    BY DEF StartFinalize, stock, history, WellFormed, DevicesSound
<1>12. Typed'
    BY <1>5, <1>6, <1>7, <1>8, <1>9, <1>10, <1>11
       DEF StartFinalize, stock, history, WellFormed, Typed
<1> QED BY <1>5, <1>6, <1>7, <1>8, <1>9, <1>10, <1>11, <1>12 DEF WellFormed

LEMMA PassLineIsSound ==
    ASSUME WellFormed, NEW f \in Offices, PassLine(f)
    PROVE  WellFormed'
<1> PICK copy \in office[f].left : office' = [office EXCEPT ![f].left = @ \ {copy}]
    BY DEF PassLine
<1> PICK o : o = [office[f] EXCEPT !.left = @ \ {copy}]
    OBVIOUS
<1>1. office' = [office EXCEPT ![f] = o] /\ UNCHANGED <<line, begun>>
    BY DEF PassLine, history
<1>2. office[f].stage = "lines" /\ OfficeSound(f) /\ office[f] \in OfficeRecords
    BY OfficeFields DEF PassLine, WellFormed, OfficesSound
<1>3. /\ o \in OfficeRecords /\ o.stage = "lines" /\ o.count = office[f].count
      /\ o.left \subseteq ToPost(f)
    BY <1>2 DEF OfficeRecords, ToPost
<1>4. office' \in [Offices -> OfficeRecords] /\ OfficesSound'
    <2>1. begun' \in [Counts -> 0 .. MaxFinalizations] /\ \A c \in Counts : begun'[c] >= begun[c]
        BY <1>1, BoundsAssumption DEF WellFormed, Typed
    <2>2. /\ o.count \in Counts /\ begun'[o.count] > 0
          /\ \A k \in o.left : k.line[1] = o.count /\ line[k.line].status = "COUNTED"
        BY <1>1, <1>2, <1>3 DEF OfficeSound
    <2> QED BY <1>1, <1>3, <2>1, <2>2, OfficeActs
<1>5. LinesSound' /\ CountsSound' /\ DevicesSound' /\ ApprovalsSound'
    BY DEF PassLine, stock, history, WellFormed, LinesSound, CountsSound, Created, DevicesSound,
           ApprovalsSound, ApprovalIds
<1>6. Typed'
    BY <1>4, <1>5 DEF PassLine, stock, history, WellFormed, Typed
<1> QED BY <1>4, <1>5, <1>6 DEF WellFormed

LEMMA PostLedgerIsSound ==
    ASSUME WellFormed, NEW f \in Offices, PostLedger(f)
    PROVE  WellFormed'
<1> PICK copy \in office[f].left :
        /\ office' = [office EXCEPT ![f].stage = "posting", ![f].current = copy,
                                    ![f].left = @ \ {copy}]
        /\ journal' = [journal EXCEPT ![RowOf(copy.line)] = @ + copy.variance]
    BY DEF PostLedger
<1> PICK o : o = [office[f] EXCEPT !.stage = "posting", !.current = copy, !.left = @ \ {copy}]
    OBVIOUS
<1>1. office' = [office EXCEPT ![f] = o] /\ UNCHANGED <<line, begun>>
    BY DEF PostLedger, history
<1>2. office[f].stage = "lines" /\ OfficeSound(f) /\ office[f] \in OfficeRecords
    BY OfficeFields DEF PostLedger, WellFormed, OfficesSound
<1>3. copy \in Copies /\ copy.line \in Lines /\ copy.variance \in Int /\ copy \in ToPost(f)
    BY OfficeFields DEF WellFormed, ToPost
<1>4. /\ o \in OfficeRecords /\ o.stage = "posting" /\ o.count = office[f].count
      /\ o.left \subseteq ToPost(f) /\ o.current = copy
    BY <1>2, <1>3 DEF OfficeRecords, ToPost
<1>5. office' \in [Offices -> OfficeRecords] /\ OfficesSound'
    <2>1. begun' \in [Counts -> 0 .. MaxFinalizations] /\ \A c \in Counts : begun'[c] >= begun[c]
        BY <1>1, BoundsAssumption DEF WellFormed, Typed
    <2>2. /\ o.count \in Counts /\ begun'[o.count] > 0
          /\ \A k \in ToPost(f) : k.line[1] = o.count /\ line[k.line].status = "COUNTED"
        BY <1>1, <1>2, <1>4 DEF OfficeSound
    <2>3. /\ o.current.line[1] = o.count /\ line[o.current.line].status = "COUNTED"
          /\ \A k \in o.left : k.line[1] = o.count /\ line[k.line].status = "COUNTED"
        BY <1>3, <1>4, <2>2
    <2>4. /\ o.stage = "idle" => o.left = {}
          /\ o.stage # "idle" => o.count \in Counts /\ begun'[o.count] > 0
          /\ o.stage = "posting" =>
               /\ o.current \in Copies
               /\ o.current.line[1] = o.count /\ line[o.current.line].status = "COUNTED"
        BY <1>3, <1>4, <2>2, <2>3
    <2>5. o \in OfficeRecords /\ office' = [office EXCEPT ![f] = o] /\ UNCHANGED line
        BY <1>1, <1>4
    <2> QED BY <2>1, <2>3, <2>4, <2>5, OfficeActs
<1>6. journal' \in [Rows -> Int]
    BY <1>3, LinesShape DEF WellFormed, Typed
<1>7. LinesSound' /\ CountsSound' /\ DevicesSound' /\ ApprovalsSound'
    BY DEF PostLedger, stock, history, WellFormed, LinesSound, CountsSound, Created,
           DevicesSound, ApprovalsSound, ApprovalIds
<1>8. Typed'
    BY <1>5, <1>6, <1>7 DEF PostLedger, stock, history, WellFormed, Typed
<1> QED BY <1>5, <1>6, <1>7, <1>8 DEF WellFormed

LEMMA PostStockIsSound ==
    ASSUME WellFormed, NEW f \in Offices, PostStock(f)
    PROVE  WellFormed'
<1> PICK copy : copy = office[f].current
    OBVIOUS
<1> PICK o : o = [office[f] EXCEPT !.stage = "lines", !.current = NoLine]
    OBVIOUS
<1>1. /\ office' = [office EXCEPT ![f] = o] /\ UNCHANGED <<line, begun>>
      /\ onHand' = Adjusted(copy.line, copy.variance)
    BY DEF PostStock
<1>2. office[f].stage = "posting" /\ OfficeSound(f) /\ office[f] \in OfficeRecords
    BY OfficeFields DEF PostStock, WellFormed, OfficesSound
<1>3. copy.line \in Lines /\ copy.variance \in Int
    BY <1>2, PostingCopy
<1>4. /\ o \in OfficeRecords /\ o.stage = "lines" /\ o.count = office[f].count
      /\ o.left \subseteq ToPost(f)
    BY <1>2 DEF OfficeRecords, ToPost
<1>5. office' \in [Offices -> OfficeRecords] /\ OfficesSound'
    <2>1. begun' \in [Counts -> 0 .. MaxFinalizations] /\ \A c \in Counts : begun'[c] >= begun[c]
        BY <1>1, BoundsAssumption DEF WellFormed, Typed
    <2>2. /\ o.count \in Counts /\ begun'[o.count] > 0
          /\ \A k \in o.left : k.line[1] = o.count /\ line[k.line].status = "COUNTED"
        BY <1>1, <1>2, <1>4 DEF OfficeSound
    <2> QED BY <1>1, <1>4, <2>1, <2>2, OfficeActs
<1>6. onHand' \in [Rows -> Int]
    BY <1>1, <1>3 DEF WellFormed, Typed, Adjusted
<1>7. tainted' \in SUBSET Rows /\ torn' \in SUBSET Rows
    BY <1>3, LinesShape DEF PostStock, WellFormed, Typed, TaintedBy, OtherLots
<1>8. LinesSound' /\ CountsSound' /\ DevicesSound' /\ ApprovalsSound'
    BY DEF PostStock, stock, history, WellFormed, LinesSound, CountsSound, Created,
           DevicesSound, ApprovalsSound, ApprovalIds
<1>9. Typed'
    BY <1>5, <1>6, <1>7, <1>8 DEF PostStock, stock, history, WellFormed, Typed
<1> QED BY <1>5, <1>6, <1>7, <1>8, <1>9 DEF WellFormed

LEMMA RequestApprovalIsSound ==
    ASSUME WellFormed, NEW f \in Offices, RequestApproval(f)
    PROVE  WellFormed'
<1> PICK copy \in office[f].left :
        /\ approvals' = Append(approvals, [line |-> copy.line, status |-> "PENDING"])
        /\ office' = [office EXCEPT ![f].left = @ \ {copy}]
    BY DEF RequestApproval
<1> PICK o : o = [office[f] EXCEPT !.left = @ \ {copy}]
    OBVIOUS
<1>1. office' = [office EXCEPT ![f] = o] /\ UNCHANGED <<line, begun, approver>>
    BY DEF RequestApproval, history
<1>2. office[f].stage = "lines" /\ OfficeSound(f) /\ office[f] \in OfficeRecords
    BY OfficeFields DEF RequestApproval, WellFormed, OfficesSound
<1>3. /\ o \in OfficeRecords /\ o.stage = "lines" /\ o.count = office[f].count
      /\ o.left \subseteq ToPost(f)
    BY <1>2 DEF OfficeRecords, ToPost
<1>4. /\ copy.line \in Lines /\ copy.line[1] = office[f].count
      /\ line[copy.line].status = "COUNTED" /\ begun[copy.line[1]] > 0
    BY <1>2, OfficeFields DEF WellFormed, OfficeSound, ToPost
<1>5. PICK new \in ApprovalRecords : new = [line |-> copy.line, status |-> "PENDING"]
    BY <1>4 DEF ApprovalRecords
<1>6. /\ approvals \in Seq(ApprovalRecords) /\ approvals' = Append(approvals, new)
      /\ approvals' \in Seq(ApprovalRecords) /\ Len(approvals') = Len(approvals) + 1
      /\ \A i \in 1 .. Len(approvals) : approvals'[i] = approvals[i]
      /\ approvals'[Len(approvals) + 1] = new /\ Len(approvals) \in Nat
    BY <1>5 DEF WellFormed, Typed
<1>7. office' \in [Offices -> OfficeRecords] /\ OfficesSound'
    <2>1. begun' \in [Counts -> 0 .. MaxFinalizations] /\ \A c \in Counts : begun'[c] >= begun[c]
        BY <1>1, BoundsAssumption DEF WellFormed, Typed
    <2>2. /\ o.count \in Counts /\ begun'[o.count] > 0
          /\ \A k \in o.left : k.line[1] = o.count /\ line[k.line].status = "COUNTED"
        BY <1>1, <1>2, <1>3 DEF OfficeSound
    <2> QED BY <1>1, <1>3, <2>1, <2>2, OfficeActs
<1>8. approvals' \in Seq(ApprovalRecords)
    BY <1>6
<1>9. approver' \in [Approvers -> 0 .. Len(approvals)]'
    BY <1>1, <1>6 DEF WellFormed, Typed
<1>10. ApprovalsSound'
    <2>1. \A i \in ApprovalIds' : i \in ApprovalIds \/ i = Len(approvals) + 1
        BY <1>6 DEF ApprovalIds
    <2> QED BY <1>1, <1>4, <1>5, <1>6, <2>1 DEF WellFormed, ApprovalsSound, ApprovalIds
<1>11. LinesSound' /\ CountsSound' /\ DevicesSound'
    BY DEF RequestApproval, stock, history, WellFormed, LinesSound, CountsSound, Created,
           DevicesSound
<1>12. Typed'
    BY <1>7, <1>8, <1>9, <1>10, <1>11 DEF RequestApproval, stock, history, WellFormed, Typed
<1> QED BY <1>7, <1>8, <1>9, <1>10, <1>11, <1>12 DEF WellFormed

LEMMA ReconcileIsSound ==
    ASSUME WellFormed, NEW f \in Offices, Reconcile(f)
    PROVE  WellFormed'
<1>1. /\ office' = [office EXCEPT ![f] = IdleOffice] /\ UNCHANGED <<line, begun>>
      /\ count' = [count EXCEPT ![office[f].count].status = "RECONCILED"]
    BY DEF Reconcile, history
<1>2. office[f].count \in Counts /\ begun[office[f].count] > 0
    BY DEF Reconcile, WellFormed, OfficesSound, OfficeSound
<1>3. IdleOffice \in OfficeRecords /\ IdleOffice.stage = "idle" /\ IdleOffice.left = {}
    BY DEF IdleOffice, OfficeRecords
<1>4. office' \in [Offices -> OfficeRecords] /\ OfficesSound'
    <2>1. begun' \in [Counts -> 0 .. MaxFinalizations] /\ \A c \in Counts : begun'[c] >= begun[c]
        BY <1>1, BoundsAssumption DEF WellFormed, Typed
    <2> QED BY <1>1, <1>3, <2>1, OfficeActs
<1>5. count' \in [Counts -> CountRecords]
    BY <1>1 DEF WellFormed, Typed, CountRecords
<1>6. CountsSound'
    <2>1. \A c \in Counts :
            \/ count'[c] = count[c]
            \/ c = office[f].count /\ count'[c].status = "RECONCILED"
        BY <1>1, <1>2 DEF WellFormed, Typed
    <2> QED BY <1>1, <1>2, <2>1 DEF WellFormed, Typed, CountsSound, Created
<1>7. LinesSound'
    <2>1. \A c \in Counts : count[c].status # "NONE" => count'[c].status # "NONE"
        BY <1>1, <1>2 DEF WellFormed, Typed
    <2> QED BY <1>1, <2>1, LinesShape DEF WellFormed, LinesSound
<1>8. DevicesSound' /\ ApprovalsSound'
    BY DEF Reconcile, stock, history, WellFormed, DevicesSound, ApprovalsSound, ApprovalIds
<1>9. Typed'
    BY <1>4, <1>5, <1>6, <1>7, <1>8 DEF Reconcile, stock, history, WellFormed, Typed
<1> QED BY <1>4, <1>5, <1>6, <1>7, <1>8, <1>9 DEF WellFormed

LEMMA AbortIsSound ==
    ASSUME WellFormed, NEW f \in Offices, Abort(f)
    PROVE  WellFormed'
<1>1. office' = [office EXCEPT ![f] = IdleOffice] /\ UNCHANGED <<line, begun>>
    BY DEF Abort
<1>2. IdleOffice \in OfficeRecords /\ IdleOffice.stage = "idle" /\ IdleOffice.left = {}
    BY DEF IdleOffice, OfficeRecords
<1>3. office' \in [Offices -> OfficeRecords] /\ OfficesSound'
    <2>1. begun' \in [Counts -> 0 .. MaxFinalizations] /\ \A c \in Counts : begun'[c] >= begun[c]
        BY <1>1, BoundsAssumption DEF WellFormed, Typed
    <2> QED BY <1>1, <1>2, <2>1, OfficeActs
<1>4. torn' \in SUBSET Rows
    BY DEF Abort, WellFormed, Typed
<1>5. LinesSound' /\ CountsSound' /\ DevicesSound' /\ ApprovalsSound'
    BY DEF Abort, stock, history, WellFormed, LinesSound, CountsSound, Created, DevicesSound,
           ApprovalsSound, ApprovalIds
<1>6. Typed'
    BY <1>3, <1>4, <1>5 DEF Abort, stock, history, WellFormed, Typed
<1> QED BY <1>3, <1>4, <1>5, <1>6 DEF WellFormed

LEMMA ReadApprovalIsSound ==
    ASSUME WellFormed, NEW p \in Approvers, NEW i \in ApprovalIds, ReadApproval(p, i)
    PROVE  WellFormed'
<1>1. approver' \in [Approvers -> 0 .. Len(approvals)]'
    BY DEF ReadApproval, ApprovalIds, WellFormed, Typed
<1>2. tainted' \in SUBSET Rows
    BY ApprovalFields, LinesShape DEF ReadApproval, WellFormed, Typed
<1>3. LinesSound' /\ CountsSound' /\ DevicesSound' /\ OfficesSound' /\ ApprovalsSound'
    BY DEF ReadApproval, stock, history, WellFormed, LinesSound, CountsSound, Created,
           DevicesSound, OfficesSound, OfficeSound, ToPost, ApprovalsSound, ApprovalIds
<1>4. Typed'
    BY <1>1, <1>2, <1>3 DEF ReadApproval, stock, history, WellFormed, Typed
<1> QED BY <1>1, <1>2, <1>3, <1>4 DEF WellFormed

LEMMA ApproveIsSound ==
    ASSUME WellFormed, NEW p \in Approvers, Approve(p)
    PROVE  WellFormed'
<1> PICK i : i = approver[p]
    OBVIOUS
<1> PICK l : l = approvals[i].line
    OBVIOUS
<1>1. /\ i \in ApprovalIds /\ approvals' = [approvals EXCEPT ![i].status = "APPROVED"]
      /\ journal' = [journal EXCEPT ![RowOf(l)] = @ + Variance(l)]
      /\ onHand' = Adjusted(l, Variance(l)) /\ approver' = [approver EXCEPT ![p] = 0]
    BY DEF Approve, WellFormed, Typed, ApprovalIds
<1>2. approvals[i] \in ApprovalRecords /\ approvals[i].line \in Lines
    BY <1>1, ApprovalFields DEF WellFormed
<1>3. /\ approvals' \in Seq(ApprovalRecords) /\ Len(approvals') = Len(approvals)
      /\ \A j \in ApprovalIds : approvals'[j].line = approvals[j].line
    <2>1. [approvals[i] EXCEPT !.status = "APPROVED"] \in ApprovalRecords
        BY <1>2 DEF ApprovalRecords
    <2>2. approvals \in Seq(ApprovalRecords)
        BY DEF WellFormed, Typed
    <2> QED BY <1>1, <1>2, <2>1, <2>2 DEF ApprovalIds, ApprovalRecords
<1>4. Variance(l) \in Int /\ RowOf(l) \in Rows
    BY <1>2, LineFields, LinesShape DEF WellFormed
<1>5. approvals' \in Seq(ApprovalRecords)
    BY <1>3
<1>6. journal' \in [Rows -> Int] /\ onHand' \in [Rows -> Int]
    BY <1>1, <1>4 DEF WellFormed, Typed, Adjusted
<1>7. approver' \in [Approvers -> 0 .. Len(approvals)]'
    BY <1>1, <1>3 DEF WellFormed, Typed
<1>8. tainted' \in SUBSET Rows /\ torn' \in SUBSET Rows
    BY <1>2, LinesShape DEF Approve, WellFormed, Typed, TaintedBy, OtherLots
<1>9. ApprovalsSound'
    BY <1>3 DEF Approve, WellFormed, ApprovalsSound, ApprovalIds
<1>10. LinesSound' /\ CountsSound' /\ DevicesSound' /\ OfficesSound'
    BY DEF Approve, stock, history, WellFormed, LinesSound, CountsSound, Created, DevicesSound,
           OfficesSound, OfficeSound, ToPost
<1>11. Typed'
    BY <1>5, <1>6, <1>7, <1>8, <1>9, <1>10 DEF Approve, stock, history, WellFormed, Typed
<1> QED BY <1>5, <1>6, <1>7, <1>8, <1>9, <1>10, <1>11 DEF WellFormed

LEMMA FailToApproveIsSound ==
    ASSUME WellFormed, NEW p \in Approvers, FailToApprove(p)
    PROVE  WellFormed'
<1>1. approver' \in [Approvers -> 0 .. Len(approvals)]'
    BY DEF FailToApprove, WellFormed, Typed
<1>2. LinesSound' /\ CountsSound' /\ DevicesSound' /\ OfficesSound' /\ ApprovalsSound'
    BY DEF FailToApprove, stock, history, WellFormed, LinesSound, CountsSound, Created,
           DevicesSound, OfficesSound, OfficeSound, ToPost, ApprovalsSound, ApprovalIds
<1>3. Typed'
    BY <1>1, <1>2 DEF FailToApprove, stock, history, WellFormed, Typed
<1> QED BY <1>1, <1>2, <1>3 DEF WellFormed

LEMMA RejectIsSound ==
    ASSUME WellFormed, NEW i \in ApprovalIds, Reject(i)
    PROVE  WellFormed'
<1>1. approvals' = [approvals EXCEPT ![i].status = "REJECTED"]
    BY DEF Reject
<1>2. approvals[i] \in ApprovalRecords /\ approvals[i].line \in Lines
    BY <1>1, ApprovalFields DEF WellFormed
<1>3. /\ approvals' \in Seq(ApprovalRecords) /\ Len(approvals') = Len(approvals)
      /\ \A j \in ApprovalIds : approvals'[j].line = approvals[j].line
    <2>1. [approvals[i] EXCEPT !.status = "REJECTED"] \in ApprovalRecords
        BY <1>2 DEF ApprovalRecords
    <2>2. approvals \in Seq(ApprovalRecords)
        BY DEF WellFormed, Typed
    <2> QED BY <1>1, <1>2, <2>1, <2>2 DEF ApprovalIds, ApprovalRecords
<1>4. approvals' \in Seq(ApprovalRecords)
    BY <1>3
<1>5. approver' \in [Approvers -> 0 .. Len(approvals)]'
    BY <1>3 DEF Reject, WellFormed, Typed
<1>6. ApprovalsSound'
    BY <1>3 DEF Reject, history, WellFormed, ApprovalsSound, ApprovalIds
<1>7. LinesSound' /\ CountsSound' /\ DevicesSound' /\ OfficesSound'
    BY DEF Reject, stock, history, WellFormed, LinesSound, CountsSound, Created, DevicesSound,
           OfficesSound, OfficeSound, ToPost
<1>8. Typed'
    BY <1>4, <1>5, <1>6, <1>7 DEF Reject, stock, history, WellFormed, Typed
<1> QED BY <1>4, <1>5, <1>6, <1>7, <1>8 DEF WellFormed

--------------------------------------------------------------------------------
(* A count is read with a system quantity for every row. *)
LEMMA SnapshotTaken ==
    ASSUME Typed, NEW c \in Counts, Schedule(c) \/ Adhoc(c)
    PROVE  \E rows \in SUBSET Rows, system \in [Rows -> Int] : ReadScope(c, rows, system)
<1>1. onHand \in [Rows -> Int] /\ [r \in Rows |-> 0] \in [Rows -> Int]
    BY DEF Typed
<1>2. Rows \in SUBSET Rows /\ Stocked \in SUBSET Rows
    BY DEF Stocked
<1>3. CASE Schedule(c)
    BY <1>1, <1>2, <1>3 DEF Schedule
<1>4. CASE Adhoc(c)
    <2>1. PICK rows \in SUBSET Stocked, method \in AdhocMethods :
              ReadScope(c, rows, IF method = "BLIND" THEN [r \in Rows |-> 0] ELSE onHand)
        BY <1>4 DEF Adhoc
    <2>2. rows \in SUBSET Rows
        BY <1>2
    <2>3. CASE method = "BLIND"
        BY <1>1, <2>1, <2>2, <2>3
    <2>4. CASE method # "BLIND"
        BY <1>1, <2>1, <2>2, <2>4
    <2> QED BY <2>3, <2>4
<1> QED BY <1>3, <1>4

LEMMA EveryStepIsSound == ASSUME WellFormed, Next PROVE WellFormed'
<1>1. ASSUME NEW row \in Rows, NEW delta \in {-1, 1}, Move(row, delta) PROVE WellFormed'
    BY <1>1, MoveIsSound
<1>2. ASSUME NEW c \in Counts, Schedule(c) \/ Adhoc(c) \/ Create(c) \/ Assign(c) PROVE WellFormed'
    BY <1>2, SnapshotTaken, ReadScopeIsSound, CreateIsSound, AssignIsSound
       DEF WellFormed
<1>3. ASSUME NEW d \in Devices, DeviceStep(d) PROVE WellFormed'
    BY <1>3, CountGoodsIsSound, ReadLineIsSound, LockLineIsSound, RecordCountIsSound,
       UnlockLineIsSound, GiveUpIsSound DEF DeviceStep
<1>4. ASSUME NEW f \in Offices, OfficeStep(f) PROVE WellFormed'
    BY <1>4, StartFinalizeIsSound, PassLineIsSound, PostLedgerIsSound, PostStockIsSound,
       RequestApprovalIsSound, ReconcileIsSound, AbortIsSound DEF OfficeStep
<1>5. ASSUME NEW p \in Approvers, ApproverStep(p) PROVE WellFormed'
    BY <1>5, ReadApprovalIsSound, ApproveIsSound, FailToApproveIsSound DEF ApproverStep
<1>6. ASSUME NEW i \in ApprovalIds, Reject(i) PROVE WellFormed'
    BY <1>6, RejectIsSound
<1>7. ASSUME NEW l \in Lines, ExpireLineLock(l) PROVE WellFormed'
    BY <1>7, ExpireLineLockIsSound
<1> QED BY <1>1, <1>2, <1>3, <1>4, <1>5, <1>6, <1>7 DEF Next

LEMMA StutteringIsSound == ASSUME WellFormed, UNCHANGED vars PROVE WellFormed'
BY DEF vars, WellFormed, Typed, LinesSound, CountsSound, Created, DevicesSound, OfficesSound,
   OfficeSound, ToPost, ApprovalsSound, ApprovalIds

LEMMA AlwaysWellFormed == Spec => []WellFormed
<1>1. WellFormed /\ [Next]_vars => WellFormed'
    BY EveryStepIsSound, StutteringIsSound
<1> QED BY InitiallyWellFormed, <1>1, PTL DEF Spec

(* Counted quantities are quantities, and whoever works on a line, a count or an *)
(* approval works on one that exists: a line never goes back, a count that was   *)
(* begun was created, an approval is of a line that is COUNTED                   *)
(* (cycle-count.service.ts, adjustment-approval.service.ts).                     *)
THEOREM TypeCorrect == Spec => []TypeOK
BY AlwaysWellFormed, WellFormedIsTyped, PTL

--------------------------------------------------------------------------------
(* The ledger.  Several offices may have posted to the ledger for a row, and not *)
(* yet to the stock: what they owe the stock is the sum of their variances.  It  *)
(* is stated as the number of units to add less those to take away, a unit being *)
(* an office and a number.                                                       *)
Units(v, S) == UNION {{f} \X (1 .. v[f]) : f \in S}
PostingIn(table, row) ==
    {f \in Offices : table[f].stage = "posting" /\ RowOf(table[f].current.line) = row}
Gains(table) == [f \in Offices |-> table[f].current.variance]
Losses(table) == [f \in Offices |-> -table[f].current.variance]
Owed(table, row) ==
    Cardinality(Units(Gains(table), PostingIn(table, row)))
        - Cardinality(Units(Losses(table), PostingIn(table, row)))

LedgerKept ==
    \A r \in Rows :
        /\ IsFiniteSet(PostingIn(office, r))
        /\ r \notin torn => journal[r] - onHand[r] = Owed(office, r)

LEMMA UpTo ==
    ASSUME NEW n \in Int
    PROVE  /\ IsFiniteSet(1 .. n) /\ Cardinality(1 .. n) \in Nat
           /\ Cardinality(1 .. n) - Cardinality(1 .. -n) = n
<1>1. \A m \in Int : IsFiniteSet(1 .. m) /\ Cardinality(1 .. m) = IF m > 0 THEN m ELSE 0
    <2> SUFFICES ASSUME NEW m \in Int
                 PROVE  IsFiniteSet(1 .. m) /\ Cardinality(1 .. m) = IF m > 0 THEN m ELSE 0
        OBVIOUS
    <2>1. IsFiniteSet(1 .. m) /\ Cardinality(1 .. m) = IF 1 > m THEN 0 ELSE m - 1 + 1
        BY FS_Interval
    <2> QED BY <2>1
<1>2. -n \in Int
    OBVIOUS
<1> QED BY <1>1, <1>2

LEMMA UnitsFinite ==
    ASSUME NEW v, NEW S, IsFiniteSet(S), \A f \in S : v[f] \in Int
    PROVE  IsFiniteSet(Units(v, S)) /\ Cardinality(Units(v, S)) \in Nat
<1>1. PICK T : T = {{f} \X (1 .. v[f]) : f \in S}
    OBVIOUS
<1>2. PICK g : g = [f \in S |-> {f} \X (1 .. v[f])]
    OBVIOUS
<1>3. g \in Surjection(S, T)
    BY <1>1, <1>2 DEF Surjection
<1>4. IsFiniteSet(T)
    BY <1>3, FS_Surjection
<1>5. ASSUME NEW t \in T PROVE IsFiniteSet(t)
    <2>1. PICK f \in S : t = {f} \X (1 .. v[f])
        BY <1>1, <1>5
    <2>2. IsFiniteSet({f}) /\ IsFiniteSet(1 .. v[f])
        BY UpTo, FS_Singleton
    <2> QED BY <2>1, <2>2, FS_Product
<1>6. Units(v, S) = UNION T
    BY <1>1 DEF Units
<1> QED BY <1>4, <1>5, <1>6, FS_UNION, FS_CardinalityType

LEMMA UnitsAdded ==
    ASSUME NEW v, NEW w, NEW S, NEW f, f \notin S, IsFiniteSet(S),
           \A g \in S : v[g] \in Int /\ w[g] = v[g], w[f] \in Int
    PROVE  Cardinality(Units(w, S \cup {f}))
               = Cardinality(Units(v, S)) + Cardinality(1 .. w[f])
<1>1. PICK n \in Int : n = w[f]
    OBVIOUS
<1>2. PICK U : U = {f} \X (1 .. n)
    OBVIOUS
<1>3. IsFiniteSet(U) /\ Cardinality(U) = Cardinality(1 .. n) /\ Cardinality(1 .. n) \in Nat
    <2>1. IsFiniteSet({f}) /\ Cardinality({f}) = 1
        BY FS_Singleton
    <2>2. IsFiniteSet(1 .. n) /\ Cardinality(1 .. n) \in Nat
        BY UpTo
    <2>3. IsFiniteSet(U) /\ Cardinality(U) = 1 * Cardinality(1 .. n)
        BY <1>2, <2>1, <2>2, FS_Product
    <2> QED BY <2>2, <2>3
<1>4. Units(w, S \cup {f}) = Units(v, S) \cup U
    BY <1>1, <1>2 DEF Units
<1>5. Units(v, S) \cap U = {}
    BY <1>2 DEF Units
<1>6. IsFiniteSet(Units(v, S)) /\ Cardinality(Units(v, S)) \in Nat
    BY UnitsFinite
<1>7. Cardinality(Units(v, S) \cup U) = Cardinality(Units(v, S)) + Cardinality(U) - 0
    BY <1>3, <1>5, <1>6, FS_Union, FS_EmptySet
<1>8. Cardinality(Units(w, S \cup {f})) = Cardinality(Units(v, S) \cup U)
    BY <1>4
<1>9. Cardinality(1 .. n) = Cardinality(1 .. w[f])
    BY <1>1
<1> QED BY <1>3, <1>6, <1>7, <1>8, <1>9

(* An office takes a posting on itself: what is owed for its row grows by it. *)
LEMMA PostingBegins ==
    ASSUME NEW table, NEW next, NEW f \in Offices, NEW row,
           \A g \in Offices \ {f} : next[g] = table[g],
           IsFiniteSet(PostingIn(table, row)),
           \A g \in PostingIn(table, row) : table[g].current.variance \in Int,
           f \notin PostingIn(table, row), f \in PostingIn(next, row),
           next[f].current.variance \in Int
    PROVE  /\ IsFiniteSet(PostingIn(next, row))
           /\ Owed(table, row) \in Int
           /\ Owed(next, row) = Owed(table, row) + next[f].current.variance
<1> PICK S : S = PostingIn(table, row)
    OBVIOUS
<1> PICK n \in Int : n = next[f].current.variance
    OBVIOUS
<1>1. PostingIn(next, row) = S \cup {f} /\ S \subseteq Offices
    BY DEF PostingIn
<1>2. /\ \A g \in S : Gains(table)[g] \in Int /\ Gains(next)[g] = Gains(table)[g]
      /\ \A g \in S : Losses(table)[g] \in Int /\ Losses(next)[g] = Losses(table)[g]
      /\ Gains(next)[f] = n /\ Losses(next)[f] = -n
    BY <1>1 DEF Gains, Losses
<1>3. /\ Cardinality(Units(Gains(next), S \cup {f}))
             = Cardinality(Units(Gains(table), S)) + Cardinality(1 .. n)
      /\ Cardinality(Units(Losses(next), S \cup {f}))
             = Cardinality(Units(Losses(table), S)) + Cardinality(1 .. -n)
    <2>1. f \notin S /\ IsFiniteSet(S) /\ n \in Int /\ -n \in Int
        OBVIOUS
    <2> QED BY <1>2, <2>1, UnitsAdded
<1>4. /\ Cardinality(Units(Gains(table), S)) \in Nat
      /\ Cardinality(Units(Losses(table), S)) \in Nat
    BY <1>2, UnitsFinite
<1>5. /\ Cardinality(1 .. n) \in Nat /\ Cardinality(1 .. -n) \in Nat
      /\ Cardinality(1 .. n) - Cardinality(1 .. -n) = n
    <2>1. -n \in Int
        OBVIOUS
    <2> QED BY <2>1, UpTo
<1>6. IsFiniteSet(S \cup {f})
    BY FS_AddElement
<1> QED BY <1>1, <1>3, <1>4, <1>5, <1>6 DEF Owed

LEMMA PostingStays ==
    ASSUME NEW table, NEW next, NEW f \in Offices, NEW row,
           \A g \in Offices \ {f} : next[g] = table[g],
           f \notin PostingIn(table, row), f \notin PostingIn(next, row)
    PROVE  PostingIn(next, row) = PostingIn(table, row) /\ Owed(next, row) = Owed(table, row)
<1> PICK S : S = PostingIn(table, row)
    OBVIOUS
<1>1. PostingIn(next, row) = S /\ \A g \in S : g \in Offices /\ next[g] = table[g]
    BY DEF PostingIn
<1>2. /\ Units(Gains(next), S) = Units(Gains(table), S)
      /\ Units(Losses(next), S) = Units(Losses(table), S)
    BY <1>1 DEF Units, Gains, Losses
<1> QED BY <1>1, <1>2 DEF Owed

LEMMA PostingVariances ==
    ASSUME WellFormed, NEW r, NEW g \in PostingIn(office, r)
    PROVE  office[g].current.variance \in Int
BY PostingCopy DEF PostingIn

(* An office that begins or ends no posting owes nothing else than before. *)
LEMMA OwedAsBefore ==
    ASSUME LedgerKept, NEW f \in Offices, UNCHANGED <<journal, onHand, torn>>,
           \A g \in Offices \ {f} : office'[g] = office[g],
           office[f].stage # "posting", office'[f].stage # "posting"
    PROVE  LedgerKept'
<1> SUFFICES ASSUME NEW r \in Rows
             PROVE  (/\ IsFiniteSet(PostingIn(office, r))
                     /\ r \notin torn => journal[r] - onHand[r] = Owed(office, r))'
    BY DEF LedgerKept
<1>1. f \notin PostingIn(office, r) /\ f \notin PostingIn(office', r)
    BY DEF PostingIn
<1>2. /\ PostingIn(office', r) = PostingIn(office, r)
      /\ Owed(office', r) = Owed(office, r)
    BY <1>1, PostingStays
<1> QED BY <1>2 DEF LedgerKept

LEMMA InitiallyKept == Init => LedgerKept
<1> SUFFICES ASSUME Init, NEW r \in Rows
             PROVE  IsFiniteSet(PostingIn(office, r)) /\ journal[r] - onHand[r] = Owed(office, r)
    BY DEF LedgerKept
<1>1. PostingIn(office, r) = {}
    BY DEF Init, PostingIn, IdleOffice
<1>2. Units(Gains(office), {}) = {} /\ Units(Losses(office), {}) = {}
    BY DEF Units
<1>3. Owed(office, r) = 0
    BY <1>1, <1>2, FS_EmptySet DEF Owed
<1>4. journal[r] = onHand[r] /\ onHand[r] \in Int
    BY InitiallyWellFormed DEF Init, WellFormed, Typed
<1> QED BY <1>1, <1>3, <1>4, FS_EmptySet

LEMMA MoveKeepsLedger ==
    ASSUME WellFormed, LedgerKept, NEW row \in Rows, NEW delta \in {-1, 1}, Move(row, delta)
    PROVE  LedgerKept'
<1>1. \A r \in Rows : /\ journal[r] \in Int /\ onHand[r] \in Int
                      /\ journal'[r] \in Int /\ onHand'[r] \in Int
                      /\ journal'[r] - onHand'[r] = journal[r] - onHand[r]
    BY DEF Move, WellFormed, Typed
<1>2. UNCHANGED <<office, torn>>
    BY DEF Move
<1> QED BY <1>1, <1>2 DEF LedgerKept

LEMMA PostLedgerKeepsLedger ==
    ASSUME WellFormed, LedgerKept, NEW f \in Offices, PostLedger(f)
    PROVE  LedgerKept'
<1>1. PICK copy \in office[f].left :
        /\ office' = [office EXCEPT ![f].stage = "posting", ![f].current = copy,
                                    ![f].left = @ \ {copy}]
        /\ journal' = [journal EXCEPT ![RowOf(copy.line)] = @ + copy.variance]
    BY DEF PostLedger
<1>2. copy.line \in Lines /\ copy.variance \in Int /\ office[f].stage = "lines"
    BY OfficeFields DEF PostLedger, WellFormed
<1>3. PICK next : next = office'
    OBVIOUS
<1>4. next[f].stage = "posting" /\ next[f].current = copy
    BY <1>1, <1>3 DEF WellFormed, Typed, OfficeRecords
<1>5. \A g \in Offices \ {f} : next[g] = office[g]
    BY <1>1, <1>3 DEF WellFormed, Typed
<1>6. UNCHANGED <<onHand, torn>>
    BY DEF PostLedger, history
<1> SUFFICES ASSUME NEW r \in Rows
             PROVE  (/\ IsFiniteSet(PostingIn(office, r))
                     /\ r \notin torn => journal[r] - onHand[r] = Owed(office, r))'
    BY DEF LedgerKept
<1>7. f \notin PostingIn(office, r) /\ journal[r] \in Int /\ onHand[r] \in Int
    BY <1>2 DEF PostingIn, WellFormed, Typed
<1>8. CASE r = RowOf(copy.line)
    <2>1. f \in PostingIn(next, r)
        BY <1>4, <1>8 DEF PostingIn
    <2>2. \A g \in PostingIn(office, r) : office[g].current.variance \in Int
        BY PostingVariances
    <2>3. /\ IsFiniteSet(PostingIn(next, r)) /\ Owed(office, r) \in Int
          /\ Owed(next, r) = Owed(office, r) + copy.variance
        <3>1. IsFiniteSet(PostingIn(office, r)) /\ next[f].current.variance = copy.variance
            BY <1>4 DEF LedgerKept
        <3> QED BY <1>2, <1>7, <1>5, <2>1, <2>2, <3>1, PostingBegins
    <2>4. journal'[r] = journal[r] + copy.variance
        BY <1>1, <1>8 DEF WellFormed, Typed
    <2> QED BY <1>2, <1>3, <1>6, <1>7, <2>3, <2>4 DEF LedgerKept
<1>9. CASE r # RowOf(copy.line)
    <2>1. f \notin PostingIn(next, r)
        BY <1>4, <1>9 DEF PostingIn
    <2>2. PostingIn(next, r) = PostingIn(office, r) /\ Owed(next, r) = Owed(office, r)
        BY <1>7, <1>5, <2>1, PostingStays
    <2>3. journal'[r] = journal[r]
        BY <1>1, <1>9 DEF WellFormed, Typed
    <2> QED BY <1>3, <1>6, <2>2, <2>3 DEF LedgerKept
<1> QED BY <1>8, <1>9

LEMMA PostStockKeepsLedger ==
    ASSUME WellFormed, LedgerKept, NEW f \in Offices, PostStock(f)
    PROVE  LedgerKept'
<1> PICK copy : copy = office[f].current
    OBVIOUS
<1>1. /\ copy.line \in Lines /\ copy.variance \in Int /\ office[f].stage = "posting"
      /\ RowOf(copy.line) \in Rows
    BY PostingCopy, LinesShape DEF PostStock
<1>2. office'[f].stage = "lines" /\ \A g \in Offices \ {f} : office'[g] = office[g]
    BY DEF PostStock, WellFormed, Typed, OfficeRecords
<1>3. /\ onHand' = Adjusted(copy.line, copy.variance) /\ UNCHANGED journal
      /\ torn' = torn \cup OtherLots(copy.line)
    BY DEF PostStock
<1> SUFFICES ASSUME NEW r \in Rows
             PROVE  (/\ IsFiniteSet(PostingIn(office, r))
                     /\ r \notin torn => journal[r] - onHand[r] = Owed(office, r))'
    BY DEF LedgerKept
<1>4. f \notin PostingIn(office', r) /\ journal[r] \in Int /\ onHand[r] \in Int
    BY <1>2 DEF PostingIn, WellFormed, Typed
<1>5. CASE r = RowOf(copy.line)
    <2>1. f \in PostingIn(office, r) /\ IsFiniteSet(PostingIn(office, r))
        BY <1>1, <1>5 DEF PostingIn, LedgerKept
    <2>2. PostingIn(office', r) \subseteq PostingIn(office, r) /\ IsFiniteSet(PostingIn(office', r))
        <3>1. PostingIn(office', r) \subseteq PostingIn(office, r)
            BY <1>2 DEF PostingIn
        <3> QED BY <2>1, <3>1, FS_Subset
    <2>3. \A g \in PostingIn(office', r) : office'[g].current.variance \in Int
        <3>1. \A g \in PostingIn(office, r) : office[g].current.variance \in Int
            BY PostingVariances
        <3>2. \A g \in PostingIn(office', r) : g \in Offices \ {f}
            BY <1>4 DEF PostingIn
        <3> QED BY <1>2, <2>2, <3>1, <3>2
    <2>4. /\ Owed(office', r) \in Int
          /\ Owed(office, r) = Owed(office', r) + copy.variance
        BY <1>1, <1>2, <1>4, <2>1, <2>2, <2>3, PostingBegins
    <2>5. onHand'[r] = onHand[r] + copy.variance
        BY <1>3, <1>5 DEF Adjusted
    <2>6. r \notin torn => journal[r] - onHand[r] = Owed(office, r)
        BY DEF LedgerKept
    <2> QED BY <1>1, <1>3, <1>4, <2>2, <2>4, <2>5, <2>6
<1>6. CASE r # RowOf(copy.line)
    <2>1. f \notin PostingIn(office, r)
        BY <1>6 DEF PostingIn
    <2>2. PostingIn(office', r) = PostingIn(office, r) /\ Owed(office', r) = Owed(office, r)
        BY <1>2, <1>4, <2>1, PostingStays
    <2>3. r \notin torn' => onHand'[r] = onHand[r]
        BY <1>3, <1>6 DEF Adjusted, OtherLots
    <2> QED BY <1>3, <2>2, <2>3 DEF LedgerKept
<1> QED BY <1>5, <1>6

LEMMA AbortKeepsLedger ==
    ASSUME WellFormed, LedgerKept, NEW f \in Offices, Abort(f)
    PROVE  LedgerKept'
<1>1. office'[f].stage = "idle" /\ \A g \in Offices \ {f} : office'[g] = office[g]
    BY DEF Abort, IdleOffice, WellFormed, Typed
<1>2. UNCHANGED <<journal, onHand>>
    BY DEF Abort, stock
<1> SUFFICES ASSUME NEW r \in Rows
             PROVE  (/\ IsFiniteSet(PostingIn(office, r))
                     /\ r \notin torn => journal[r] - onHand[r] = Owed(office, r))'
    BY DEF LedgerKept
<1>3. f \notin PostingIn(office', r)
    BY <1>1 DEF PostingIn
<1>4. CASE f \in PostingIn(office, r)
    <2>1. r \in torn'
        BY <1>4 DEF Abort, PostingIn
    <2>2. PostingIn(office', r) \subseteq PostingIn(office, r)
        BY <1>1, <1>3 DEF PostingIn
    <2> QED BY <2>1, <2>2, FS_Subset DEF LedgerKept
<1>5. CASE f \notin PostingIn(office, r)
    <2>1. PostingIn(office', r) = PostingIn(office, r) /\ Owed(office', r) = Owed(office, r)
        BY <1>1, <1>3, <1>5, PostingStays
    <2>2. r \notin torn' => r \notin torn
        BY DEF Abort
    <2> QED BY <1>2, <2>1, <2>2 DEF LedgerKept
<1> QED BY <1>4, <1>5

LEMMA ApproveKeepsLedger ==
    ASSUME WellFormed, LedgerKept, NEW p \in Approvers, Approve(p)
    PROVE  LedgerKept'
<1> PICK l : l = approvals[approver[p]].line
    OBVIOUS
<1> PICK v : v = Variance(l)
    OBVIOUS
<1>1. l \in Lines /\ v \in Int /\ RowOf(l) \in Rows
    <2>1. approver[p] \in ApprovalIds
        BY DEF Approve, WellFormed, Typed, ApprovalIds
    <2>2. l \in Lines
        BY <2>1, ApprovalFields DEF WellFormed
    <2> QED BY <2>2, LineFields, LinesShape DEF WellFormed
<1>2. /\ journal' = [journal EXCEPT ![RowOf(l)] = @ + v] /\ onHand' = Adjusted(l, v)
      /\ torn' = torn \cup OtherLots(l) /\ UNCHANGED office
    BY DEF Approve
<1>3. \A r \in Rows \ torn' : /\ journal[r] \in Int /\ onHand[r] \in Int
                              /\ journal'[r] \in Int /\ onHand'[r] \in Int
                              /\ journal'[r] - onHand'[r] = journal[r] - onHand[r]
    <2> SUFFICES ASSUME NEW r \in Rows \ torn'
                 PROVE  /\ journal[r] \in Int /\ onHand[r] \in Int
                        /\ journal'[r] \in Int /\ onHand'[r] \in Int
                        /\ journal'[r] - onHand'[r] = journal[r] - onHand[r]
        OBVIOUS
    <2>1. journal[r] \in Int /\ onHand[r] \in Int
        BY DEF WellFormed, Typed
    <2>2. CASE r = RowOf(l)
        <3>1. journal'[r] = journal[r] + v /\ onHand'[r] = onHand[r] + v
            BY <1>1, <1>2, <2>2 DEF WellFormed, Typed, Adjusted
        <3> QED BY <1>1, <2>1, <3>1
    <2>3. CASE r # RowOf(l)
        <3>1. journal'[r] = journal[r] /\ onHand'[r] = onHand[r]
            BY <1>1, <1>2, <2>3 DEF WellFormed, Typed, Adjusted, OtherLots
        <3> QED BY <2>1, <3>1
    <2> QED BY <2>2, <2>3
<1> QED BY <1>2, <1>3 DEF LedgerKept

LEMMA NothingPosted ==
    ASSUME LedgerKept, UNCHANGED <<journal, onHand, office, torn>>
    PROVE  LedgerKept'
BY DEF LedgerKept

LEMMA OfficeStepKeepsLedger ==
    ASSUME WellFormed, LedgerKept, NEW f \in Offices, OfficeStep(f)
    PROVE  LedgerKept'
<1>1. ASSUME NEW c \in Counts, StartFinalize(f, c) PROVE LedgerKept'
    <2>1. /\ office[f].stage # "posting" /\ office'[f].stage # "posting"
          /\ \A g \in Offices \ {f} : office'[g] = office[g]
        BY <1>1 DEF StartFinalize, WellFormed, Typed
    <2>2. UNCHANGED <<journal, onHand, torn>>
        BY <1>1 DEF StartFinalize, stock
    <2> QED BY <2>1, <2>2, OwedAsBefore
<1>2. CASE PassLine(f) \/ RequestApproval(f)
    <2>1. /\ office[f].stage # "posting" /\ office'[f].stage # "posting"
          /\ \A g \in Offices \ {f} : office'[g] = office[g]
        BY <1>2 DEF PassLine, RequestApproval, WellFormed, Typed, OfficeRecords
    <2>2. UNCHANGED <<journal, onHand, torn>>
        BY <1>2 DEF PassLine, RequestApproval, stock, history
    <2> QED BY <2>1, <2>2, OwedAsBefore
<1>3. CASE Reconcile(f)
    <2>1. /\ office[f].stage # "posting" /\ office'[f].stage # "posting"
          /\ \A g \in Offices \ {f} : office'[g] = office[g]
        BY <1>3 DEF Reconcile, IdleOffice, WellFormed, Typed
    <2>2. UNCHANGED <<journal, onHand, torn>>
        BY <1>3 DEF Reconcile, stock, history
    <2> QED BY <2>1, <2>2, OwedAsBefore
<1> QED BY <1>1, <1>2, <1>3, PostLedgerKeepsLedger, PostStockKeepsLedger, AbortKeepsLedger
        DEF OfficeStep

LEMMA LedgerStaysKept == ASSUME WellFormed, LedgerKept, [Next]_vars PROVE LedgerKept'
<1>1. ASSUME NEW row \in Rows, NEW delta \in {-1, 1}, Move(row, delta) PROVE LedgerKept'
    BY <1>1, MoveKeepsLedger
<1>2. ASSUME NEW c \in Counts, Schedule(c) \/ Adhoc(c) \/ Create(c) \/ Assign(c)
      PROVE  LedgerKept'
    <2>1. ASSUME NEW rows, NEW system, ReadScope(c, rows, system) PROVE LedgerKept'
        BY <2>1, NothingPosted DEF ReadScope, stock, history
    <2>2. CASE Create(c) \/ Assign(c)
        BY <2>2, NothingPosted DEF Create, Assign, stock, history
    <2> QED BY <1>2, <2>1, <2>2, SnapshotTaken DEF WellFormed
<1>3. ASSUME NEW d \in Devices, DeviceStep(d) PROVE LedgerKept'
    <2>1. UNCHANGED <<journal, onHand, office, torn>>
        BY <1>3 DEF DeviceStep, CountGoods, ReadLine, LockLine, RecordCount, UnlockLine,
                    GiveUp, stock, history
    <2> QED BY <2>1, NothingPosted
<1>4. ASSUME NEW f \in Offices, OfficeStep(f) PROVE LedgerKept'
    BY <1>4, OfficeStepKeepsLedger
<1>5. ASSUME NEW p \in Approvers, ApproverStep(p) PROVE LedgerKept'
    <2>1. CASE Approve(p)
        BY <2>1, ApproveKeepsLedger
    <2>2. CASE (\E i \in ApprovalIds : ReadApproval(p, i)) \/ FailToApprove(p)
        BY <2>2, NothingPosted DEF ReadApproval, FailToApprove, stock, history
    <2> QED BY <1>5, <2>1, <2>2 DEF ApproverStep
<1>6. ASSUME NEW i \in ApprovalIds, Reject(i) PROVE LedgerKept'
    BY <1>6, NothingPosted DEF Reject, stock, history
<1>7. ASSUME NEW l \in Lines, ExpireLineLock(l) PROVE LedgerKept'
    BY <1>7, NothingPosted DEF ExpireLineLock, stock, history
<1>8. CASE UNCHANGED vars
    BY <1>8, NothingPosted DEF vars
<1> QED BY <1>1, <1>2, <1>3, <1>4, <1>5, <1>6, <1>7, <1>8 DEF Next

LEMMA KeptLedgerAgrees == WellFormed /\ LedgerKept => LedgerAgrees
<1> SUFFICES ASSUME WellFormed, LedgerKept, NEW r \in Rows \ (torn \cup BeingPosted)
             PROVE  journal[r] = onHand[r]
    BY DEF LedgerAgrees
<1>1. PostingIn(office, r) = {}
    BY DEF PostingIn, BeingPosted
<1>2. Units(Gains(office), {}) = {} /\ Units(Losses(office), {}) = {}
    BY DEF Units
<1>3. Owed(office, r) = 0
    BY <1>1, <1>2, FS_EmptySet DEF Owed
<1> QED BY <1>3 DEF LedgerKept, WellFormed, Typed

(* Whatever is posted at once, and whoever moves goods meanwhile, the journal of a *)
(* row is what is on hand there, unless the row is torn: an automatic adjustment   *)
(* of it has written the one and not the other, or has died between the two, or it *)
(* is another lot of a location that was adjusted, by finalizeCount or by approve, *)
(* whose updateMany names no lot (cycle-count.service.ts, postAdjustment;          *)
(* adjustment-approval.service.ts).                                                *)
THEOREM LedgerAlwaysAgrees == Spec => []LedgerAgrees
<1>1. LedgerKept /\ WellFormed /\ [Next]_vars => LedgerKept'
    BY LedgerStaysKept
<1> QED BY AlwaysWellFormed, InitiallyKept, <1>1, KeptLedgerAgrees, PTL DEF Spec

--------------------------------------------------------------------------------
(* The counting.  A count that is not BLIND snapshots what is on hand, so that what *)
(* a line will be found to vary by is what the row really holds beyond its record,  *)
(* and stays so until that is posted, once.                                         *)
Live(l) == line[l].status # "ABSENT" /\ RowOf(l) \notin tainted
Surplus(r) == physical[r] - onHand[r]

Holds(f, c) == office[f].stage # "idle" /\ office[f].count = c
InHand(f, l) == \E copy \in ToPost(f) : copy.line = l
Awaits(i, l) ==
    /\ approvals[i].line = l
    /\ approvals[i].status = "PENDING" \/ \E p \in Approvers : approver[p] = i

(* The variance of a line is still to be posted. *)
Outstanding(l) ==
    \/ begun[l[1]] = 0
    \/ \E f \in Offices : InHand(f, l)
    \/ \E i \in ApprovalIds : Awaits(i, l)

(* Nobody has refused it, and its count is, or may yet be, RECONCILED. *)
Hopeful(l) ==
    /\ count[l[1]].status = "RECONCILED" \/ \E f \in Offices : Holds(f, l[1])
    /\ \A i \in ApprovalIds : approvals[i].line = l => approvals[i].status = "APPROVED"

(* It is in one pair of hands at most, and what they know of it is true. *)
InOneHand(l) ==
    /\ begun[l[1]] <= 1
    /\ \A f, g \in Offices : Holds(f, l[1]) /\ Holds(g, l[1]) => f = g
    /\ \A f \in Offices : Holds(f, l[1]) => count[l[1]].status # "RECONCILED"
    /\ \A f \in Offices :
          office[f].stage = "posting" /\ office[f].current.line = l =>
              \A copy \in office[f].left : copy.line # l
    /\ \A f \in Offices : \A copy \in ToPost(f) :
          copy.line = l => /\ copy.variance = Variance(l)
                           /\ \A i \in ApprovalIds : approvals[i].line # l
    /\ \A i, j \in ApprovalIds : approvals[i].line = l /\ approvals[j].line = l => i = j
    /\ \A i \in ApprovalIds : \A p \in Approvers :
          approvals[i].line = l /\ approver[p] = i =>
              /\ approvals[i].status # "APPROVED"
              /\ \A q \in Approvers : approver[q] = i => p = q

SnapshotTrue(l) ==
    line[l].status \in {"SCOPED", "PENDING"} /\ l \notin moved =>
        line[l].system = onHand[RowOf(l)]

DevicesTrue(l) ==
    \A d \in Devices :
        device[d].stage # "idle" /\ device[d].line = l /\ ~device[d].stale =>
            /\ line[l].status = "PENDING" =>
                   device[d].quantity - line[l].system = Surplus(RowOf(l))
            /\ line[l].status = "COUNTED" => device[d].quantity = line[l].counted

VarianceTrue(l) ==
    line[l].status = "COUNTED" =>
        /\ Outstanding(l) => Variance(l) = Surplus(RowOf(l))
        /\ ~Outstanding(l) /\ Hopeful(l) => Surplus(RowOf(l)) = 0

CountedTrue ==
    \A l \in Lines :
        Live(l) => InOneHand(l) /\ SnapshotTrue(l) /\ DevicesTrue(l) /\ VarianceTrue(l)

LEMMA InitiallyTrue == Init => CountedTrue
BY DEF Init, CountedTrue, Live, NewLine

LEMMA StaysLive ==
    ASSUME CountedTrue, NEW l \in Lines, Live(l)', tainted \subseteq tainted',
           line[l].status # "ABSENT"
    PROVE  InOneHand(l) /\ SnapshotTrue(l) /\ DevicesTrue(l) /\ VarianceTrue(l) /\ Live(l)
BY DEF CountedTrue, Live

(* What an office has to post is of the count it holds. *)
LEMMA InHandIsHeld ==
    ASSUME WellFormed, NEW f \in Offices, NEW l \in Lines, InHand(f, l)
    PROVE  Holds(f, l[1]) /\ begun[l[1]] > 0 /\ line[l].status = "COUNTED"
<1>1. OfficeSound(f)
    BY DEF WellFormed, OfficesSound
<1>2. PICK copy \in ToPost(f) : copy.line = l
    BY DEF InHand
<1>3. office[f].stage # "idle"
    BY <1>1, <1>2 DEF OfficeSound, ToPost
<1> QED BY <1>1, <1>2, <1>3 DEF OfficeSound, Holds

LEMMA NotBegun ==
    ASSUME WellFormed, NEW l \in Lines, begun[l[1]] = 0
    PROVE  /\ \A f \in Offices : ~Holds(f, l[1]) /\ ~InHand(f, l)
           /\ \A i \in ApprovalIds : approvals[i].line # l
           /\ count[l[1]].status # "RECONCILED"
<1>1. \A f \in Offices : ~Holds(f, l[1])
    BY DEF WellFormed, OfficesSound, OfficeSound, Holds
<1>2. \A f \in Offices : ~InHand(f, l)
    BY <1>1, InHandIsHeld
<1>3. \A i \in ApprovalIds : approvals[i].line # l
    BY DEF WellFormed, ApprovalsSound
<1>4. count[l[1]].status # "RECONCILED"
    BY LinesShape DEF WellFormed, CountsSound
<1> QED BY <1>1, <1>2, <1>3, <1>4

(* Whatever becomes of a line whose count has not begun, nobody has it in hand. *)
LEMMA NobodysLine ==
    ASSUME WellFormed, NEW l \in Lines, begun[l[1]] = 0, UNCHANGED <<begun, office, approvals>>
    PROVE  InOneHand(l)'
<1>1. /\ \A f \in Offices : ~Holds(f, l[1]) /\ ~InHand(f, l)
      /\ \A i \in ApprovalIds : approvals[i].line # l
    BY NotBegun
<1>2. /\ \A f \in Offices : ~Holds(f, l[1])' /\ ToPost(f)' = ToPost(f)
      /\ \A i \in ApprovalIds' : approvals'[i].line # l
      /\ begun'[l[1]] = 0
    BY <1>1 DEF Holds, ToPost, ApprovalIds
<1>3. \A f \in Offices : \A copy \in ToPost(f)' : copy.line # l
    BY <1>1, <1>2 DEF InHand
<1>4. \A f \in Offices : ~(office'[f].stage = "posting" /\ office'[f].current.line = l)
    BY <1>3 DEF ToPost
<1> QED BY <1>2, <1>3, <1>4 DEF InOneHand

LEMMA BegunLines ==
    ASSUME WellFormed, NEW l \in Lines, line[l].status # "ABSENT"
    PROVE  /\ begun[l[1]] \in Nat
           /\ begun[l[1]] # 0 => line[l].status = "COUNTED"
<1>1. begun[l[1]] \in Nat
    BY LinesShape, BoundsAssumption DEF WellFormed, Typed
<1>2. begun[l[1]] > 0 => line[l].status \in {"ABSENT", "COUNTED"}
    BY DEF WellFormed, LinesSound
<1> QED BY <1>1, <1>2

LEMMA Surpluses ==
    ASSUME Typed, NEW r \in Rows
    PROVE  physical[r] \in Int /\ onHand[r] \in Int /\ Surplus(r) \in Int
<1>1. physical[r] \in Nat /\ onHand[r] \in Int
    BY DEF Typed
<1> QED BY <1>1 DEF Surplus

--------------------------------------------------------------------------------
(* What an action leaves as it was. *)

LEMMA HandsStay ==
    ASSUME NEW l \in Lines, line'[l] = line[l], count'[l[1]] = count[l[1]],
           UNCHANGED <<begun, office, approvals, approver>>
    PROVE  /\ InOneHand(l) => InOneHand(l)'
           /\ Outstanding(l)' <=> Outstanding(l)
           /\ Hopeful(l)' <=> Hopeful(l)
<1>1. \A f \in Offices : ToPost(f)' = ToPost(f)
    BY DEF ToPost
<1>2. \A f \in Offices : Holds(f, l[1])' <=> Holds(f, l[1])
    BY DEF Holds
<1>3. Variance(l)' = Variance(l) /\ ApprovalIds' = ApprovalIds
    BY DEF Variance, ApprovalIds
<1>4. InOneHand(l) => InOneHand(l)'
    BY <1>1, <1>2, <1>3 DEF InOneHand
<1>5. Outstanding(l)' <=> Outstanding(l)
    BY <1>1, <1>3 DEF Outstanding, InHand, Awaits
<1>6. Hopeful(l)' <=> Hopeful(l)
    BY <1>2, <1>3 DEF Hopeful
<1> QED BY <1>4, <1>5, <1>6

LEMMA FrontStays ==
    ASSUME NEW l \in Lines, line'[l] = line[l], UNCHANGED device, moved \subseteq moved',
           physical'[RowOf(l)] = physical[RowOf(l)], onHand'[RowOf(l)] = onHand[RowOf(l)],
           SnapshotTrue(l), DevicesTrue(l)
    PROVE  /\ SnapshotTrue(l)' /\ DevicesTrue(l)'
           /\ Surplus(RowOf(l))' = Surplus(RowOf(l)) /\ Variance(l)' = Variance(l)
<1>1. Surplus(RowOf(l))' = Surplus(RowOf(l)) /\ Variance(l)' = Variance(l)
    BY DEF Surplus, Variance
<1>2. SnapshotTrue(l)'
    BY DEF SnapshotTrue
<1>3. DevicesTrue(l)'
    BY <1>1 DEF DevicesTrue
<1> QED BY <1>1, <1>2, <1>3

(* Once counted, a line has neither a snapshot to keep nor a variance to be found. *)
LEMMA CountedStays ==
    ASSUME NEW l \in Lines, line'[l] = line[l], UNCHANGED device, line[l].status = "COUNTED",
           DevicesTrue(l)
    PROVE  SnapshotTrue(l)' /\ DevicesTrue(l)' /\ Variance(l)' = Variance(l)
BY DEF SnapshotTrue, DevicesTrue, Variance

(* A line that nothing has happened to. *)
LEMMA LineStays ==
    ASSUME CountedTrue, NEW l \in Lines, Live(l)', tainted \subseteq tainted',
           line'[l] = line[l], count'[l[1]] = count[l[1]], UNCHANGED device,
           UNCHANGED <<begun, office, approvals, approver>>, moved \subseteq moved',
           physical'[RowOf(l)] = physical[RowOf(l)], onHand'[RowOf(l)] = onHand[RowOf(l)]
    PROVE  (InOneHand(l) /\ SnapshotTrue(l) /\ DevicesTrue(l) /\ VarianceTrue(l))'
<1>1. line[l].status # "ABSENT"
    BY DEF Live
<1>2. InOneHand(l) /\ SnapshotTrue(l) /\ DevicesTrue(l) /\ VarianceTrue(l)
    BY <1>1, StaysLive
<1>3. /\ InOneHand(l)'
      /\ Outstanding(l)' <=> Outstanding(l)
      /\ Hopeful(l)' <=> Hopeful(l)
    BY <1>2, HandsStay
<1>4. /\ SnapshotTrue(l)' /\ DevicesTrue(l)'
      /\ Surplus(RowOf(l))' = Surplus(RowOf(l)) /\ Variance(l)' = Variance(l)
    BY <1>2, FrontStays
<1>5. VarianceTrue(l)'
    BY <1>2, <1>3, <1>4 DEF VarianceTrue
<1> QED BY <1>3, <1>4, <1>5

(* A device that goes on, or gives up, submits what it was going to. *)
LEMMA DevicesGoOn ==
    ASSUME CountedTrue, UNCHANGED <<line, count, begun, office, approvals, approver>>,
           UNCHANGED <<moved, physical, onHand, tainted>>,
           \A e \in Devices :
               device'[e].stage # "idle" =>
                   /\ device[e].stage # "idle" /\ device'[e].line = device[e].line
                   /\ device'[e].quantity = device[e].quantity
                   /\ device'[e].stale = device[e].stale
    PROVE  CountedTrue'
<1> SUFFICES ASSUME NEW l \in Lines, Live(l)'
             PROVE  (InOneHand(l) /\ SnapshotTrue(l) /\ DevicesTrue(l) /\ VarianceTrue(l))'
    BY DEF CountedTrue
<1>1. InOneHand(l) /\ SnapshotTrue(l) /\ DevicesTrue(l) /\ VarianceTrue(l)
    BY DEF CountedTrue, Live
<1>2. /\ InOneHand(l)'
      /\ Outstanding(l)' <=> Outstanding(l)
      /\ Hopeful(l)' <=> Hopeful(l)
    BY <1>1, HandsStay
<1>3. Surplus(RowOf(l))' = Surplus(RowOf(l)) /\ Variance(l)' = Variance(l)
    BY DEF Surplus, Variance
<1>4. SnapshotTrue(l)'
    BY <1>1 DEF SnapshotTrue
<1>5. DevicesTrue(l)'
    BY <1>1, <1>3 DEF DevicesTrue
<1>6. VarianceTrue(l)'
    BY <1>1, <1>2, <1>3 DEF VarianceTrue
<1> QED BY <1>2, <1>4, <1>5, <1>6

--------------------------------------------------------------------------------
(* Goods move, counts are made. *)

LEMMA MoveKeepsTrue ==
    ASSUME WellFormed, CountedTrue, NEW row \in Rows, NEW delta \in {-1, 1}, Move(row, delta)
    PROVE  CountedTrue'
<1>1. UNCHANGED <<line, count, begun, office, approvals, approver, device, tainted>>
    BY DEF Move
<1>2. \A r \in Rows : Surplus(r)' = Surplus(r) /\ (r # row => onHand'[r] = onHand[r])
    BY Surpluses DEF Move, Surplus, WellFormed, Typed
<1>3. \A l \in Lines : /\ l \in moved => l \in moved'
                       /\ RowOf(l) = row /\ line[l].status \in {"SCOPED", "PENDING"}
                              => l \in moved'
    BY DEF Move
<1> SUFFICES ASSUME NEW l \in Lines, Live(l)'
             PROVE  (InOneHand(l) /\ SnapshotTrue(l) /\ DevicesTrue(l) /\ VarianceTrue(l))'
    BY DEF CountedTrue
<1>4. InOneHand(l) /\ SnapshotTrue(l) /\ DevicesTrue(l) /\ VarianceTrue(l)
    BY <1>1 DEF CountedTrue, Live
<1>5. /\ InOneHand(l)'
      /\ Outstanding(l)' <=> Outstanding(l)
      /\ Hopeful(l)' <=> Hopeful(l)
    BY <1>1, <1>4, HandsStay
<1>6. Surplus(RowOf(l))' = Surplus(RowOf(l)) /\ Variance(l)' = Variance(l)
    BY <1>1, <1>2, LinesShape DEF Variance
<1>7. SnapshotTrue(l)'
    BY <1>1, <1>2, <1>3, <1>4, LinesShape DEF SnapshotTrue
<1>8. DevicesTrue(l)'
    BY <1>1, <1>4, <1>6 DEF DevicesTrue
<1>9. VarianceTrue(l)'
    BY <1>1, <1>4, <1>5, <1>6 DEF VarianceTrue
<1> QED BY <1>5, <1>7, <1>8, <1>9

LEMMA ReadScopeKeepsTrue ==
    ASSUME WellFormed, CountedTrue, NEW c \in Counts, NEW rows, ReadScope(c, rows, onHand)
    PROVE  CountedTrue'
<1>1. /\ count[c].status = "NONE" /\ \A k \in Counts \ {c} : count'[k] = count[k]
      /\ UNCHANGED <<begun, office, approvals, approver, device, tainted, moved, physical, onHand>>
    BY DEF ReadScope, stock, history, WellFormed, Typed
<1>2. \A l \in Lines :
        \/ line'[l] = line[l]
        \/ /\ l[1] = c /\ line'[l].status = "SCOPED" /\ line'[l].system = onHand[RowOf(l)]
    BY DEF ReadScope, NewLine
<1> SUFFICES ASSUME NEW l \in Lines, Live(l)'
             PROVE  (InOneHand(l) /\ SnapshotTrue(l) /\ DevicesTrue(l) /\ VarianceTrue(l))'
    BY DEF CountedTrue
<1>3. CASE l[1] # c
    <2>1. line'[l] = line[l] /\ count'[l[1]] = count[l[1]]
        BY <1>1, <1>2, <1>3, LinesShape
    <2> QED BY <1>1, <2>1, LineStays
<1>4. CASE l[1] = c
    <2>1. line[l].status = "ABSENT" /\ begun[l[1]] = 0
        <3>1. line[l].status = "ABSENT"
            BY <1>1, <1>4 DEF WellFormed, LinesSound
        <3>2. ~(begun[c] > 0) /\ begun[c] \in Nat
            BY <1>1, BoundsAssumption DEF WellFormed, CountsSound, Created, Typed
        <3> QED BY <1>4, <3>1, <3>2
    <2>2. line'[l].status = "SCOPED" /\ line'[l].system = onHand[RowOf(l)]
        BY <1>2, <2>1 DEF Live
    <2>3. InOneHand(l)'
        BY <1>1, <2>1, NobodysLine
    <2>4. SnapshotTrue(l)'
        BY <1>1, <2>2 DEF SnapshotTrue
    <2>5. DevicesTrue(l)' /\ VarianceTrue(l)'
        BY <2>2 DEF DevicesTrue, VarianceTrue
    <2> QED BY <2>3, <2>4, <2>5
<1> QED BY <1>3, <1>4

LEMMA CreateKeepsTrue ==
    ASSUME WellFormed, CountedTrue, NEW c \in Counts, Create(c)
    PROVE  CountedTrue'
<1>1. /\ count[c].status = "SCOPED" /\ \A k \in Counts \ {c} : count'[k] = count[k]
      /\ UNCHANGED <<begun, office, approvals, approver, device, tainted, moved, physical, onHand>>
    BY DEF Create, stock, history, WellFormed, Typed
<1>2. \A l \in Lines :
        \/ line'[l] = line[l] /\ (l[1] = c => line[l].status # "SCOPED")
        \/ /\ l[1] = c /\ line[l].status = "SCOPED"
           /\ line'[l].status = "PENDING" /\ line'[l].system = line[l].system
    BY LineFields DEF Create, LineRecords, WellFormed
<1> SUFFICES ASSUME NEW l \in Lines, Live(l)'
             PROVE  (InOneHand(l) /\ SnapshotTrue(l) /\ DevicesTrue(l) /\ VarianceTrue(l))'
    BY DEF CountedTrue
<1>3. CASE l[1] # c
    <2>1. line'[l] = line[l] /\ count'[l[1]] = count[l[1]]
        BY <1>1, <1>2, <1>3, LinesShape
    <2> QED BY <1>1, <2>1, LineStays
<1>4. CASE l[1] = c
    <2>1. line[l].status # "ABSENT"
        BY <1>2 DEF Live
    <2>2. InOneHand(l) /\ SnapshotTrue(l) /\ DevicesTrue(l) /\ VarianceTrue(l)
        BY <1>1, <2>1 DEF CountedTrue, Live
    <2>3. begun[l[1]] = 0 /\ begun'[l[1]] = 0
        <3>1. ~(begun[c] > 0) /\ begun[c] \in Nat
            BY <1>1, BoundsAssumption DEF WellFormed, CountsSound, Created, Typed
        <3> QED BY <1>1, <1>4, <3>1
    <2>4. InOneHand(l)'
        BY <1>1, <2>3, NobodysLine
    <2>5. Outstanding(l) /\ Outstanding(l)'
        BY <2>3 DEF Outstanding
    <2>6. CASE line'[l] = line[l]
        <3>1. /\ SnapshotTrue(l)' /\ DevicesTrue(l)'
              /\ Surplus(RowOf(l))' = Surplus(RowOf(l)) /\ Variance(l)' = Variance(l)
            BY <1>1, <2>2, <2>6, FrontStays
        <3>2. VarianceTrue(l)'
            BY <2>2, <2>5, <2>6, <3>1 DEF VarianceTrue
        <3> QED BY <2>4, <3>1, <3>2
    <2>7. CASE line'[l] # line[l]
        <3>1. /\ line[l].status = "SCOPED" /\ line'[l].status = "PENDING"
              /\ line'[l].system = line[l].system
            BY <1>2, <2>7
        <3>2. SnapshotTrue(l)'
            BY <1>1, <2>2, <3>1 DEF SnapshotTrue
        <3>3. DevicesTrue(l)'
            BY <1>1, <3>1 DEF DevicesTrue, WellFormed, DevicesSound
        <3>4. VarianceTrue(l)'
            BY <3>1 DEF VarianceTrue
        <3> QED BY <2>4, <3>2, <3>3, <3>4
    <2> QED BY <2>6, <2>7
<1> QED BY <1>3, <1>4

LEMMA AssignKeepsTrue ==
    ASSUME WellFormed, CountedTrue, NEW c \in Counts, Assign(c)
    PROVE  CountedTrue'
<1>1. /\ \A k \in Counts \ {c} : count'[k] = count[k]
      /\ count'[c].status = "ASSIGNED"
      /\ UNCHANGED <<line, begun, office, approvals, approver, device, tainted, moved,
                     physical, onHand>>
    BY DEF Assign, stock, history, WellFormed, Typed
<1> SUFFICES ASSUME NEW l \in Lines, Live(l)'
             PROVE  (InOneHand(l) /\ SnapshotTrue(l) /\ DevicesTrue(l) /\ VarianceTrue(l))'
    BY DEF CountedTrue
<1>2. CASE l[1] # c
    <2>1. count'[l[1]] = count[l[1]]
        BY <1>1, <1>2, LinesShape
    <2> QED BY <1>1, <2>1, LineStays
<1>3. CASE l[1] = c
    <2>1. InOneHand(l) /\ SnapshotTrue(l) /\ DevicesTrue(l) /\ VarianceTrue(l)
        BY <1>1 DEF CountedTrue, Live
    <2>2. /\ \A f \in Offices : ToPost(f)' = ToPost(f) /\ (Holds(f, c)' <=> Holds(f, c))
          /\ ApprovalIds' = ApprovalIds
        BY <1>1 DEF ToPost, Holds, ApprovalIds
    <2>3. /\ SnapshotTrue(l)' /\ DevicesTrue(l)'
          /\ Surplus(RowOf(l))' = Surplus(RowOf(l)) /\ Variance(l)' = Variance(l)
        BY <1>1, <2>1, FrontStays
    <2>4. InOneHand(l)'
        BY <1>1, <1>3, <2>1, <2>2, <2>3 DEF InOneHand
    <2>5. /\ Outstanding(l)' <=> Outstanding(l)
          /\ Hopeful(l)' => Hopeful(l)
        BY <1>1, <1>3, <2>2 DEF Outstanding, InHand, Awaits, Hopeful
    <2>6. VarianceTrue(l)'
        BY <1>1, <2>1, <2>3, <2>5 DEF VarianceTrue
    <2> QED BY <2>3, <2>4, <2>6
<1> QED BY <1>2, <1>3

--------------------------------------------------------------------------------
(* Lines are submitted. *)

LEMMA CountGoodsKeepsTrue ==
    ASSUME WellFormed, CountedTrue, NEW d \in Devices, NEW m \in Lines, CountGoods(d, m)
    PROVE  CountedTrue'
<1>1. /\ UNCHANGED <<line, count, begun, office, approvals, approver, tainted, moved,
                     physical, onHand>>
      /\ line[m].status = "PENDING"
      /\ \A e \in Devices \ {d} : device'[e] = device[e]
      /\ device'[d].line = m /\ device'[d].quantity = physical[RowOf(m)]
      /\ device'[d].stale = (m \in moved)
    BY DEF CountGoods, stock, history, WellFormed, Typed
<1> SUFFICES ASSUME NEW l \in Lines, Live(l)'
             PROVE  (InOneHand(l) /\ SnapshotTrue(l) /\ DevicesTrue(l) /\ VarianceTrue(l))'
    BY DEF CountedTrue
<1>2. InOneHand(l) /\ SnapshotTrue(l) /\ DevicesTrue(l) /\ VarianceTrue(l)
    BY <1>1 DEF CountedTrue, Live
<1>3. /\ InOneHand(l)'
      /\ Outstanding(l)' <=> Outstanding(l)
      /\ Hopeful(l)' <=> Hopeful(l)
    BY <1>1, <1>2, HandsStay
<1>4. Surplus(RowOf(l))' = Surplus(RowOf(l)) /\ Variance(l)' = Variance(l)
    BY <1>1 DEF Surplus, Variance
<1>5. SnapshotTrue(l)'
    BY <1>1, <1>2 DEF SnapshotTrue
<1>6. DevicesTrue(l)'
    <2>1. m = l /\ l \notin moved =>
              physical[RowOf(l)] - line[l].system = Surplus(RowOf(l))
        BY <1>1, <1>2 DEF SnapshotTrue, Surplus
    <2> QED BY <1>1, <1>2, <1>4, <2>1 DEF DevicesTrue
<1>7. VarianceTrue(l)'
    BY <1>1, <1>2, <1>3, <1>4 DEF VarianceTrue
<1> QED BY <1>3, <1>5, <1>6, <1>7

LEMMA RecordCountKeepsTrue ==
    ASSUME WellFormed, CountedTrue, NEW d \in Devices, RecordCount(d)
    PROVE  CountedTrue'
<1>1. PICK m \in Lines : m = device[d].line /\ line[m].status \in {"PENDING", "COUNTED"}
    BY DEF RecordCount, WellFormed, DevicesSound
<1>2. PICK q \in Nat : q = device[d].quantity
    BY DEF WellFormed, Typed, DeviceRecords
<1>3. /\ UNCHANGED <<count, begun, office, approvals, approver, moved, physical, onHand>>
      /\ \A l \in Lines \ {m} : line'[l] = line[l]
      /\ line'[m] = [line[m] EXCEPT !.status = "COUNTED", !.counted = q]
      /\ tainted \subseteq tainted'
      /\ device[d].stage = "locked"
      /\ device[d].stale => RowOf(m) \in tainted'
    BY <1>1, <1>2 DEF RecordCount, stock, WellFormed, Typed
<1>4. \A e \in Devices : /\ device'[e].line = device[e].line
                         /\ device'[e].quantity = device[e].quantity
                         /\ device'[e].stale = device[e].stale
                         /\ device'[e].stage # "idle" => device[e].stage # "idle"
    BY <1>3 DEF RecordCount, WellFormed, Typed, DeviceRecords
<1>5. line[m] \in LineRecords
    BY LineFields DEF WellFormed
<1>6. /\ line'[m].status = "COUNTED" /\ line'[m].counted = q /\ line'[m].system = line[m].system
    BY <1>3, <1>5 DEF LineRecords
<1> SUFFICES ASSUME NEW l \in Lines, Live(l)'
             PROVE  (InOneHand(l) /\ SnapshotTrue(l) /\ DevicesTrue(l) /\ VarianceTrue(l))'
    BY DEF CountedTrue
<1>7. InOneHand(l) /\ SnapshotTrue(l) /\ DevicesTrue(l) /\ VarianceTrue(l)
    <2>1. line[l].status # "ABSENT"
        BY <1>1, <1>3 DEF Live
    <2> QED BY <1>3, <2>1, StaysLive
<1>8. Surplus(RowOf(l))' = Surplus(RowOf(l))
    BY <1>3 DEF Surplus
<1>9. CASE line'[l] = line[l]
    <2>1. /\ InOneHand(l)'
          /\ Outstanding(l)' <=> Outstanding(l)
          /\ Hopeful(l)' <=> Hopeful(l)
        BY <1>3, <1>7, <1>9, HandsStay
    <2>2. Variance(l)' = Variance(l)
        BY <1>9 DEF Variance
    <2>3. SnapshotTrue(l)'
        BY <1>3, <1>7, <1>9 DEF SnapshotTrue
    <2>4. DevicesTrue(l)'
        BY <1>4, <1>7, <1>8, <1>9 DEF DevicesTrue
    <2>5. VarianceTrue(l)'
        BY <1>7, <1>8, <1>9, <2>1, <2>2 DEF VarianceTrue
    <2> QED BY <2>1, <2>3, <2>4, <2>5
<1>10. CASE line'[l] # line[l]
    <2>1. l = m /\ ~device[d].stale
        BY <1>3, <1>10 DEF Live
    <2>2. line[l].status = "PENDING"
        <3>1. SUFFICES ASSUME line[l].status = "COUNTED" PROVE line'[l] = line[l]
            BY <1>1, <1>10, <2>1
        <3>2. q = line[l].counted
            BY <1>1, <1>2, <1>3, <1>7, <2>1, <3>1 DEF DevicesTrue
        <3> QED BY <1>3, <1>5, <2>1, <3>1, <3>2 DEF LineRecords
    <2>3. q - line[l].system = Surplus(RowOf(l))
        BY <1>1, <1>2, <1>3, <1>7, <2>1, <2>2 DEF DevicesTrue
    <2>4. begun[l[1]] = 0 /\ begun'[l[1]] = 0
        BY <1>3, <2>2, BegunLines
    <2>5. InOneHand(l)'
        BY <1>3, <2>4, NobodysLine
    <2>6. SnapshotTrue(l)'
        BY <1>6, <2>1 DEF SnapshotTrue
    <2>7. DevicesTrue(l)'
        <3> SUFFICES ASSUME NEW e \in Devices, device'[e].stage # "idle", device'[e].line = l,
                            ~device'[e].stale
                     PROVE  device'[e].quantity = line'[l].counted
            BY <1>6, <2>1 DEF DevicesTrue
        <3>1. device[e].quantity - line[l].system = Surplus(RowOf(l))
            BY <1>4, <1>7, <2>2 DEF DevicesTrue
        <3>2. device[e].quantity \in Nat /\ line[l].system \in Int
            BY <1>5, <2>1 DEF WellFormed, Typed, DeviceRecords, LineRecords
        <3> QED BY <1>4, <1>6, <2>1, <2>3, <3>1, <3>2
    <2>8. Variance(l)' = q - line[l].system
        BY <1>6, <2>1 DEF Variance
    <2>9. Outstanding(l)'
        BY <2>4 DEF Outstanding
    <2>10. VarianceTrue(l)'
        BY <1>8, <2>3, <2>8, <2>9 DEF VarianceTrue
    <2> QED BY <2>5, <2>6, <2>7, <2>10
<1> QED BY <1>9, <1>10

LEMMA DeviceStepKeepsTrue ==
    ASSUME WellFormed, CountedTrue, NEW d \in Devices, DeviceStep(d)
    PROVE  CountedTrue'
<1>1. CASE ReadLine(d) \/ LockLine(d) \/ UnlockLine(d) \/ GiveUp(d)
    <2>1. UNCHANGED <<line, count, begun, office, approvals, approver, moved, physical,
                      onHand, tainted>>
        BY <1>1 DEF ReadLine, LockLine, UnlockLine, GiveUp, stock, history
    <2>2. \A e \in Devices :
               device'[e].stage # "idle" =>
                   /\ device[e].stage # "idle" /\ device'[e].line = device[e].line
                   /\ device'[e].quantity = device[e].quantity
                   /\ device'[e].stale = device[e].stale
        <3>1. CASE ReadLine(d)
            BY <3>1 DEF ReadLine, WellFormed, Typed, DeviceRecords
        <3>2. CASE LockLine(d)
            BY <3>2 DEF LockLine, WellFormed, Typed, DeviceRecords
        <3>3. CASE UnlockLine(d) \/ GiveUp(d)
            <4>1. device' = [device EXCEPT ![d] = IdleDevice]
                BY <3>3 DEF UnlockLine, GiveUp
            <4>2. device'[d].stage = "idle" /\ \A e \in Devices \ {d} : device'[e] = device[e]
                BY <4>1 DEF IdleDevice, WellFormed, Typed
            <4> QED BY <4>2
        <3> QED BY <1>1, <3>1, <3>2, <3>3
    <2> QED BY <2>1, <2>2, DevicesGoOn
<1> QED BY <1>1, CountGoodsKeepsTrue, RecordCountKeepsTrue DEF DeviceStep

--------------------------------------------------------------------------------
(* Counts are finalised. *)

(* A line nobody acts on, whatever offices do to others. *)
LEMMA LineStands ==
    ASSUME NEW l \in Lines, UNCHANGED <<line, device, approvals, approver, physical, moved>>,
           InOneHand(l), SnapshotTrue(l), DevicesTrue(l), VarianceTrue(l),
           begun'[l[1]] = begun[l[1]], count'[l[1]] = count[l[1]],
           onHand'[RowOf(l)] = onHand[RowOf(l)],
           \A g \in Offices : Holds(g, l[1])' <=> Holds(g, l[1]),
           \A g \in Offices : Holds(g, l[1]) => office'[g] = office[g],
           \A g \in Offices : ~Holds(g, l[1])' => ~InHand(g, l)',
           \A g \in Offices : ~Holds(g, l[1]) => ~InHand(g, l)
    PROVE  (InOneHand(l) /\ SnapshotTrue(l) /\ DevicesTrue(l) /\ VarianceTrue(l))'
<1>1. \A g \in Offices : Holds(g, l[1]) => ToPost(g)' = ToPost(g)
    BY DEF ToPost
<1>2. \A g \in Offices : InHand(g, l)' <=> InHand(g, l)
    BY <1>1 DEF InHand
<1>3. ApprovalIds' = ApprovalIds /\ Variance(l)' = Variance(l)
      /\ Surplus(RowOf(l))' = Surplus(RowOf(l))
    BY DEF ApprovalIds, Variance, Surplus
<1>4. InOneHand(l)'
    <2>1. \A g \in Offices : office'[g].stage = "posting" /\ office'[g].current.line = l =>
              InHand(g, l)'
        BY DEF InHand, ToPost
    <2>2. \A g \in Offices : office'[g].stage = "posting" /\ office'[g].current.line = l =>
              \A copy \in office'[g].left : copy.line # l
        BY <2>1 DEF InOneHand
    <2>3. \A g \in Offices : \A copy \in ToPost(g)' :
              copy.line = l => /\ copy.variance = Variance(l)
                               /\ \A i \in ApprovalIds : approvals[i].line # l
        <3> SUFFICES ASSUME NEW g \in Offices, NEW copy \in ToPost(g)', copy.line = l
                     PROVE  /\ copy.variance = Variance(l)
                            /\ \A i \in ApprovalIds : approvals[i].line # l
            OBVIOUS
        <3>1. InHand(g, l)'
            BY DEF InHand
        <3>2. copy \in ToPost(g)
            BY <1>1, <3>1
        <3> QED BY <3>2 DEF InOneHand
    <2> QED BY <1>3, <2>2, <2>3 DEF InOneHand
<1>5. SnapshotTrue(l)' /\ DevicesTrue(l)'
    BY <1>3 DEF SnapshotTrue, DevicesTrue
<1>6. /\ Outstanding(l)' <=> Outstanding(l)
      /\ Hopeful(l)' <=> Hopeful(l)
    BY <1>2, <1>3 DEF Outstanding, Awaits, Hopeful
<1>7. VarianceTrue(l)'
    BY <1>3, <1>6 DEF VarianceTrue
<1> QED BY <1>4, <1>5, <1>7

(* An office that works on other counts. *)
LEMMA OtherCounts ==
    ASSUME WellFormed, WellFormed', CountedTrue, NEW f \in Offices, NEW l \in Lines, Live(l)',
           UNCHANGED <<line, device, approvals, approver, physical, moved>>,
           tainted \subseteq tainted', \A g \in Offices \ {f} : office'[g] = office[g],
           ~Holds(f, l[1]), ~Holds(f, l[1])',
           begun'[l[1]] = begun[l[1]], count'[l[1]] = count[l[1]],
           onHand'[RowOf(l)] = onHand[RowOf(l)]
    PROVE  (InOneHand(l) /\ SnapshotTrue(l) /\ DevicesTrue(l) /\ VarianceTrue(l))'
<1>1. InOneHand(l) /\ SnapshotTrue(l) /\ DevicesTrue(l) /\ VarianceTrue(l)
    BY DEF CountedTrue, Live
<1>2. /\ \A g \in Offices : Holds(g, l[1])' <=> Holds(g, l[1])
      /\ \A g \in Offices : Holds(g, l[1]) => office'[g] = office[g]
    BY DEF Holds
<1>3. \A g \in Offices : ~Holds(g, l[1]) => ~InHand(g, l)
    BY InHandIsHeld
<1>4. \A g \in Offices : ~Holds(g, l[1])' => ~InHand(g, l)'
    <2> SUFFICES ASSUME NEW g \in Offices, InHand(g, l)' PROVE Holds(g, l[1])'
        OBVIOUS
    <2>1. PICK copy \in ToPost(g)' : copy.line = l
        BY DEF InHand
    <2>2. OfficeSound(g)'
        BY DEF WellFormed, OfficesSound
    <2>3. office'[g].stage # "idle"
        BY <2>1, <2>2 DEF OfficeSound, ToPost
    <2> QED BY <2>1, <2>2, <2>3 DEF OfficeSound, Holds
<1> QED BY <1>1, <1>2, <1>3, <1>4, LineStands

LEMMA StartFinalizeKeepsTrue ==
    ASSUME WellFormed, WellFormed', CountedTrue, NEW f \in Offices, NEW c \in Counts,
           StartFinalize(f, c)
    PROVE  CountedTrue'
<1> PICK copies : copies = {CopyOf(l) : l \in LinesOf(c)}
    OBVIOUS
<1>1. /\ UNCHANGED <<line, count, device, approvals, approver, physical, onHand, moved>>
      /\ tainted \subseteq tainted' /\ \A g \in Offices \ {f} : office'[g] = office[g]
      /\ office'[f].stage = "lines" /\ office'[f].count = c /\ office'[f].left = copies
      /\ office[f].stage = "idle"
      /\ \A k \in Counts \ {c} : begun'[k] = begun[k]
      /\ begun'[c] = begun[c] + 1
    BY DEF StartFinalize, stock, WellFormed, Typed
<1> SUFFICES ASSUME NEW l \in Lines, Live(l)'
             PROVE  (InOneHand(l) /\ SnapshotTrue(l) /\ DevicesTrue(l) /\ VarianceTrue(l))'
    BY DEF CountedTrue
<1>2. CASE l[1] # c
    <2>1. ~Holds(f, l[1]) /\ ~Holds(f, l[1])' /\ begun'[l[1]] = begun[l[1]]
        BY <1>1, <1>2, LinesShape DEF Holds
    <2> QED BY <1>1, <2>1, OtherCounts
<1>3. CASE l[1] = c
    <2>1. InOneHand(l) /\ SnapshotTrue(l) /\ DevicesTrue(l) /\ VarianceTrue(l)
        BY <1>1 DEF CountedTrue, Live
    <2>2. l \in LinesOf(c) /\ line[l].status = "COUNTED"
        BY <1>1, <1>3 DEF LinesOf, Live, StartFinalize
    <2>3. begun[l[1]] = 0 /\ begun'[l[1]] = 1
        <3>1. ~(begun[c] > 0)
            <4>1. <<c, RowOf(l)>> = l /\ RowOf(l) \in Rows
                BY <1>3, LinesShape
            <4> QED BY <2>2, <4>1 DEF StartFinalize, Live
        <3>2. begun[c] \in Nat
            BY BoundsAssumption DEF WellFormed, Typed
        <3> QED BY <1>1, <1>3, <3>1, <3>2
    <2>4. /\ \A g \in Offices : ~Holds(g, c) /\ ~InHand(g, l)
          /\ \A i \in ApprovalIds : approvals[i].line # l
          /\ count[c].status # "RECONCILED"
        BY <1>3, <2>3, NotBegun
    <2>5. ToPost(f)' = copies
        BY <1>1 DEF ToPost
    <2>6. \A g \in Offices : Holds(g, c)' => g = f
        BY <1>1, <2>4 DEF Holds
    <2>7. \A g \in Offices \ {f} : ToPost(g)' = ToPost(g)
        BY <1>1 DEF ToPost
    <2>8. \A g \in Offices : \A copy \in ToPost(g)' : copy.line = l =>
              copy.variance = Variance(l)
        <3> SUFFICES ASSUME NEW g \in Offices, NEW copy \in ToPost(g)', copy.line = l
                     PROVE  copy.variance = Variance(l)
            OBVIOUS
        <3>1. g = f
            BY <2>4, <2>7 DEF InHand
        <3>2. PICK m \in LinesOf(c) : copy = CopyOf(m)
            BY <2>5, <3>1
        <3> QED BY <3>2 DEF CopyOf
    <2>9. \A g \in Offices : ~(office'[g].stage = "posting" /\ office'[g].current.line = l)
        <3>1. \A g \in Offices : ~(office[g].stage = "posting" /\ office[g].current.line = l)
            BY <2>4 DEF InHand, ToPost
        <3> QED BY <1>1, <3>1
    <2>10. Variance(l)' = Variance(l) /\ Surplus(RowOf(l))' = Surplus(RowOf(l))
           /\ ApprovalIds' = ApprovalIds
        BY <1>1 DEF Variance, Surplus, ApprovalIds
    <2>11. InOneHand(l)'
        BY <1>1, <1>3, <2>3, <2>4, <2>6, <2>8, <2>9, <2>10 DEF InOneHand
    <2>12. SnapshotTrue(l)' /\ DevicesTrue(l)'
        BY <1>1, <2>1, <2>10 DEF SnapshotTrue, DevicesTrue
    <2>13. Outstanding(l)'
        <3>1. CopyOf(l) \in ToPost(f)' /\ CopyOf(l).line = l
            BY <2>2, <2>5 DEF CopyOf
        <3> QED BY <3>1 DEF Outstanding, InHand
    <2>14. Variance(l) = Surplus(RowOf(l))
        BY <2>1, <2>2, <2>3 DEF VarianceTrue, Outstanding
    <2>15. VarianceTrue(l)'
        BY <2>10, <2>13, <2>14 DEF VarianceTrue
    <2> QED BY <2>11, <2>12, <2>15
<1> QED BY <1>2, <1>3

(* An office that has dealt with one of its lines, or with none. *)
LEMMA HandsLetGo ==
    ASSUME WellFormed, NEW f \in Offices, NEW l \in Lines,
           UNCHANGED <<line, approvals, approver, begun>>,
           count'[l[1]].status = "RECONCILED" => \A g \in Offices : ~Holds(g, l[1])',
           \A g \in Offices \ {f} : office'[g] = office[g],
           office'[f].stage # "posting",
           office'[f].stage # "idle" => Holds(f, l[1])' /\ Holds(f, l[1]),
           ToPost(f)' \subseteq ToPost(f), InOneHand(l)
    PROVE  InOneHand(l)'
<1>1. \A g \in Offices : Holds(g, l[1])' => Holds(g, l[1])
    BY DEF Holds
<1>2. \A g \in Offices : ToPost(g)' \subseteq ToPost(g)
    BY DEF ToPost
<1>3. \A g \in Offices : office'[g].stage = "posting" => office'[g] = office[g]
    OBVIOUS
<1>4. ApprovalIds' = ApprovalIds /\ Variance(l)' = Variance(l)
    BY DEF ApprovalIds, Variance
<1> QED BY <1>1, <1>2, <1>3, <1>4 DEF InOneHand

(* The one copy an office has of a line. *)
LEMMA OneCopy ==
    ASSUME WellFormed, NEW f \in Offices, NEW l \in Lines, InOneHand(l),
           NEW copy \in office[f].left, NEW other \in office[f].left,
           copy.line = l, other.line = l
    PROVE  other = copy
<1>1. copy.variance = Variance(l) /\ other.variance = Variance(l)
    BY DEF InOneHand, ToPost
<1>2. copy \in Copies /\ other \in Copies
    BY OfficeFields DEF WellFormed
<1> QED BY <1>1, <1>2 DEF Copies

LEMMA PassLineKeepsTrue ==
    ASSUME WellFormed, WellFormed', CountedTrue, NEW f \in Offices, PassLine(f)
    PROVE  CountedTrue'
<1>1. PICK copy \in office[f].left :
          /\ copy.variance = 0 /\ office' = [office EXCEPT ![f].left = @ \ {copy}]
    BY DEF PassLine
<1>2. /\ UNCHANGED <<line, count, begun, device, approvals, approver, physical, onHand, moved,
                     tainted>>
      /\ office[f].stage = "lines"
    BY DEF PassLine, stock, history
<1>3. /\ office'[f].stage = "lines" /\ office'[f].count = office[f].count
      /\ office'[f].left = office[f].left \ {copy}
      /\ \A g \in Offices \ {f} : office'[g] = office[g]
    BY <1>1, <1>2 DEF WellFormed, Typed, OfficeRecords
<1>4. ToPost(f) = office[f].left /\ ToPost(f)' = office[f].left \ {copy}
    BY <1>2, <1>3 DEF ToPost
<1> SUFFICES ASSUME NEW l \in Lines, Live(l)'
             PROVE  (InOneHand(l) /\ SnapshotTrue(l) /\ DevicesTrue(l) /\ VarianceTrue(l))'
    BY DEF CountedTrue
<1>5. CASE ~Holds(f, l[1])
    <2>1. ~Holds(f, l[1])'
        BY <1>2, <1>3, <1>5 DEF Holds
    <2> QED BY <1>2, <1>3, <1>5, <2>1, OtherCounts
<1>6. CASE Holds(f, l[1])
    <2>1. InOneHand(l) /\ SnapshotTrue(l) /\ DevicesTrue(l) /\ VarianceTrue(l)
        BY <1>2 DEF CountedTrue, Live
    <2>2. Holds(f, l[1])' /\ \A g \in Offices : Holds(g, l[1])' => Holds(g, l[1])
        BY <1>2, <1>3, <1>6 DEF Holds
    <2>3. InOneHand(l)'
        <3>1. count[l[1]].status # "RECONCILED"
            BY <1>6, <2>1 DEF InOneHand
        <3> QED BY <1>2, <1>3, <1>4, <1>6, <2>1, <2>2, <3>1, HandsLetGo
    <2>4. Variance(l)' = Variance(l) /\ Surplus(RowOf(l))' = Surplus(RowOf(l))
          /\ ApprovalIds' = ApprovalIds
        BY <1>2 DEF Variance, Surplus, ApprovalIds
    <2>5. SnapshotTrue(l)' /\ DevicesTrue(l)'
        BY <1>2, <2>1, <2>4 DEF SnapshotTrue, DevicesTrue
    <2>6. Outstanding(l)' => Outstanding(l)
        <3>1. \A g \in Offices : InHand(g, l)' => InHand(g, l)
            BY <1>3, <1>4 DEF InHand, ToPost
        <3> QED BY <1>2, <2>4, <3>1 DEF Outstanding, Awaits
    <2>7. CASE copy.line = l
        <3>1. Variance(l) = 0
            BY <1>1, <1>4, <2>1, <2>7 DEF InOneHand
        <3>2. Outstanding(l)
            BY <1>4, <2>7 DEF Outstanding, InHand
        <3>3. line[l].status = "COUNTED" => Surplus(RowOf(l)) = 0
            BY <2>1, <3>1, <3>2 DEF VarianceTrue
        <3>4. VarianceTrue(l)'
            BY <1>2, <2>4, <3>1, <3>3 DEF VarianceTrue
        <3> QED BY <2>3, <2>5, <3>4
    <2>8. CASE copy.line # l
        <3>1. Outstanding(l) => Outstanding(l)'
            <4>1. \A g \in Offices : InHand(g, l) => InHand(g, l)'
                BY <1>3, <1>4, <2>8 DEF InHand, ToPost
            <4> QED BY <1>2, <2>4, <4>1 DEF Outstanding, Awaits
        <3>2. Hopeful(l)' => Hopeful(l)
            BY <1>2, <2>2, <2>4 DEF Hopeful
        <3>3. VarianceTrue(l)'
            BY <1>2, <2>1, <2>4, <2>6, <3>1, <3>2 DEF VarianceTrue
        <3> QED BY <2>3, <2>5, <3>3
    <2> QED BY <2>7, <2>8
<1> QED BY <1>5, <1>6

LEMMA PostLedgerKeepsTrue ==
    ASSUME WellFormed, WellFormed', CountedTrue, NEW f \in Offices, PostLedger(f)
    PROVE  CountedTrue'
<1>1. PICK copy \in office[f].left :
          office' = [office EXCEPT ![f].stage = "posting", ![f].current = copy,
                                   ![f].left = @ \ {copy}]
    BY DEF PostLedger
<1>2. /\ UNCHANGED <<line, count, begun, device, approvals, approver, physical, onHand, moved,
                     tainted>>
      /\ office[f].stage = "lines"
    BY DEF PostLedger, history
<1>3. /\ office'[f].stage = "posting" /\ office'[f].count = office[f].count
      /\ office'[f].left = office[f].left \ {copy} /\ office'[f].current = copy
      /\ \A g \in Offices \ {f} : office'[g] = office[g]
    BY <1>1, <1>2 DEF WellFormed, Typed, OfficeRecords
<1>4. \A g \in Offices : ToPost(g)' = ToPost(g)
    <2>1. ToPost(f)' = ToPost(f)
        BY <1>2, <1>3 DEF ToPost
    <2> QED BY <1>3, <2>1 DEF ToPost
<1> SUFFICES ASSUME NEW l \in Lines, Live(l)'
             PROVE  (InOneHand(l) /\ SnapshotTrue(l) /\ DevicesTrue(l) /\ VarianceTrue(l))'
    BY DEF CountedTrue
<1>5. CASE ~Holds(f, l[1])
    <2>1. ~Holds(f, l[1])'
        BY <1>2, <1>3, <1>5 DEF Holds
    <2> QED BY <1>2, <1>3, <1>5, <2>1, OtherCounts
<1>6. CASE Holds(f, l[1])
    <2>1. InOneHand(l) /\ SnapshotTrue(l) /\ DevicesTrue(l) /\ VarianceTrue(l)
        BY <1>2 DEF CountedTrue, Live
    <2>2. \A g \in Offices : Holds(g, l[1])' <=> Holds(g, l[1])
        BY <1>2, <1>3 DEF Holds
    <2>3. Variance(l)' = Variance(l) /\ Surplus(RowOf(l))' = Surplus(RowOf(l))
          /\ ApprovalIds' = ApprovalIds
        BY <1>2 DEF Variance, Surplus, ApprovalIds
    <2>4. \A g \in Offices :
              office'[g].stage = "posting" /\ office'[g].current.line = l =>
                  \A other \in office'[g].left : other.line # l
        <3>1. copy.line = l => \A other \in office[f].left \ {copy} : other.line # l
            BY <2>1, OneCopy
        <3> QED BY <1>3, <2>1, <3>1 DEF InOneHand
    <2>5. InOneHand(l)'
        BY <1>2, <1>4, <2>1, <2>2, <2>3, <2>4 DEF InOneHand
    <2>6. SnapshotTrue(l)' /\ DevicesTrue(l)'
        BY <1>2, <2>1, <2>3 DEF SnapshotTrue, DevicesTrue
    <2>7. /\ Outstanding(l)' <=> Outstanding(l)
          /\ Hopeful(l)' <=> Hopeful(l)
        BY <1>2, <1>4, <2>2, <2>3 DEF Outstanding, InHand, Awaits, Hopeful
    <2>8. VarianceTrue(l)'
        BY <1>2, <2>1, <2>3, <2>7 DEF VarianceTrue
    <2> QED BY <2>5, <2>6, <2>8
<1> QED BY <1>5, <1>6

(* A posting of line m changes the stock of its location.  The other rows there are *)
(* tainted; so is the row itself when another line of it is open; what remains is a *)
(* line that has been dealt with.                                                   *)
LEMMA PostingSpares ==
    ASSUME WellFormed, CountedTrue, NEW m \in Lines, NEW v \in Int, NEW l \in Lines \ {m}, Live(l)',
           UNCHANGED <<line, physical>>,
           onHand' = Adjusted(m, v), tainted' = tainted \cup TaintedBy(m)
    PROVE  /\ Live(l)
           /\ \/ onHand'[RowOf(l)] = onHand[RowOf(l)]
              \/ /\ RowOf(l) = RowOf(m) /\ line[l].status = "COUNTED" /\ ~Outstanding(l)
                 /\ Surplus(RowOf(l))' = Surplus(RowOf(l)) - v
<1>1. Live(l) /\ RowOf(l) \in Rows
    BY LinesShape DEF Live
<1>2. RowOf(l) \notin OtherLots(m)
    BY DEF Live, TaintedBy
<1>3. CASE RowOf(l)[1] # RowOf(m)[1]
    <2>1. onHand'[RowOf(l)] = onHand[RowOf(l)]
        BY <1>1, <1>3 DEF Adjusted
    <2> QED BY <1>1, <2>1
<1>4. CASE RowOf(l)[1] = RowOf(m)[1]
    <2>1. RowOf(l) = RowOf(m)
        BY <1>1, <1>2, <1>4 DEF OtherLots
    <2>2. ~Open(l)
        BY <2>1 DEF Live, TaintedBy
    <2>3. count[l[1]].status = "RECONCILED"
        BY <1>1, <2>2 DEF Open, Live
    <2>4. begun[l[1]] # 0
        BY <2>3, NotBegun
    <2>5. line[l].status = "COUNTED"
        BY <1>1, <2>4, BegunLines DEF Live
    <2>6. InOneHand(l)
        BY <1>1 DEF CountedTrue
    <2>7. \A f \in Offices : ~InHand(f, l)
        BY <2>3, <2>6, InHandIsHeld DEF InOneHand
    <2>8. \A i \in ApprovalIds : ~Awaits(i, l)
        BY <2>2 DEF Open, Awaits, ApprovalIds
    <2>9. ~Outstanding(l)
        BY <2>4, <2>7, <2>8 DEF Outstanding
    <2>10. Surplus(RowOf(l))' = Surplus(RowOf(l)) - v
        <3>1. onHand'[RowOf(l)] = onHand[RowOf(l)] + v
            BY <1>1, <2>1 DEF Adjusted
        <3>2. physical[RowOf(l)] \in Int /\ onHand[RowOf(l)] \in Int
            BY <1>1, Surpluses DEF WellFormed
        <3> QED BY <3>1, <3>2 DEF Surplus
    <2> QED BY <1>1, <2>1, <2>5, <2>9, <2>10
<1> QED BY <1>3, <1>4

(* What it says of the line of the posting itself. *)
LEMMA PostingSettles ==
    ASSUME WellFormed, NEW m \in Lines, NEW v \in Int, UNCHANGED physical,
           onHand' = Adjusted(m, v), v = Surplus(RowOf(m))
    PROVE  Surplus(RowOf(m))' = 0
<1>1. onHand'[RowOf(m)] = onHand[RowOf(m)] + v
    BY LinesShape DEF Adjusted
<1>2. physical[RowOf(m)] \in Int /\ onHand[RowOf(m)] \in Int
    BY LinesShape, Surpluses DEF WellFormed
<1> QED BY <1>1, <1>2 DEF Surplus

LEMMA PostStockKeepsTrue ==
    ASSUME WellFormed, WellFormed', CountedTrue, NEW f \in Offices, PostStock(f)
    PROVE  CountedTrue'
<1>1. PICK copy \in Copies : copy = office[f].current
    BY PostingCopy DEF PostStock
<1>2. PICK m \in Lines : m = copy.line
    BY <1>1 DEF Copies
<1>3. PICK v \in Int : v = copy.variance
    BY <1>1 DEF Copies
<1>4. /\ UNCHANGED <<line, count, begun, device, approvals, approver, physical, moved>>
      /\ onHand' = Adjusted(m, v) /\ tainted' = tainted \cup TaintedBy(m)
      /\ office[f].stage = "posting"
      /\ office' = [office EXCEPT ![f].stage = "lines", ![f].current = NoLine]
    BY <1>1, <1>2, <1>3 DEF PostStock
<1>5. /\ office'[f].stage = "lines" /\ office'[f].count = office[f].count
      /\ office'[f].left = office[f].left
      /\ \A g \in Offices \ {f} : office'[g] = office[g]
    BY <1>4 DEF WellFormed, Typed, OfficeRecords
<1>6. /\ ToPost(f) = office[f].left \cup {copy} /\ ToPost(f)' = office[f].left
      /\ \A g \in Offices \ {f} : ToPost(g)' = ToPost(g)
    BY <1>1, <1>4, <1>5 DEF ToPost
<1>7. \A g \in Offices, c \in Counts : Holds(g, c)' <=> Holds(g, c)
    BY <1>4, <1>5 DEF Holds
<1>8. InHand(f, m)
    BY <1>2, <1>6 DEF InHand
<1>9. Holds(f, m[1]) /\ begun[m[1]] > 0 /\ line[m].status = "COUNTED"
    BY <1>8, InHandIsHeld
<1>10. Live(m) => InOneHand(m) /\ v = Surplus(RowOf(m))
    <2> SUFFICES ASSUME Live(m) PROVE InOneHand(m) /\ v = Surplus(RowOf(m))
        OBVIOUS
    <2>1. InOneHand(m) /\ VarianceTrue(m)
        BY DEF CountedTrue
    <2>2. Variance(m) = v
        BY <1>2, <1>3, <1>6, <2>1 DEF InOneHand
    <2>3. Outstanding(m)
        BY <1>8 DEF Outstanding
    <2> QED BY <1>9, <2>1, <2>2, <2>3 DEF VarianceTrue
<1> SUFFICES ASSUME NEW l \in Lines, Live(l)'
             PROVE  (InOneHand(l) /\ SnapshotTrue(l) /\ DevicesTrue(l) /\ VarianceTrue(l))'
    BY DEF CountedTrue
<1>11. Live(l)
    BY <1>4 DEF Live
<1>12. InOneHand(l) /\ SnapshotTrue(l) /\ DevicesTrue(l) /\ VarianceTrue(l)
    BY <1>11 DEF CountedTrue
<1>13. l[1] \in Counts /\ Variance(l)' = Variance(l) /\ ApprovalIds' = ApprovalIds
    BY <1>4, LinesShape DEF Variance, ApprovalIds
<1>14. InOneHand(l)'
    <2>1. \A g \in Offices : ToPost(g)' \subseteq ToPost(g)
        BY <1>6
    <2>2. \A g \in Offices : office'[g].stage = "posting" => office'[g] = office[g]
        BY <1>5
    <2>3. \A g \in Offices : Holds(g, l[1])' <=> Holds(g, l[1])
        BY <1>7, <1>13
    <2>4. UNCHANGED <<begun, count, approvals, approver>>
        BY <1>4
    <2> QED BY <1>12, <1>13, <2>1, <2>2, <2>3, <2>4 DEF InOneHand
<1>15. Hopeful(l)' <=> Hopeful(l)
    BY <1>4, <1>7, <1>13 DEF Hopeful
<1>16. CASE l = m
    <2>1. SnapshotTrue(l)' /\ DevicesTrue(l)'
        BY <1>4, <1>9, <1>12, <1>16, CountedStays
    <2>2. Surplus(RowOf(l))' = 0
        BY <1>4, <1>10, <1>11, <1>16, PostingSettles
    <2>3. ~Outstanding(l)'
        <3>1. \A g \in Offices : ~InHand(g, l)'
            <4> SUFFICES ASSUME NEW g \in Offices, NEW other \in ToPost(g)', other.line = l
                         PROVE  FALSE
                BY DEF InHand
            <4>1. CASE g = f
                BY <1>1, <1>2, <1>4, <1>6, <1>12, <1>16, <4>1 DEF InOneHand
            <4>2. CASE g # f
                <5>1. InHand(g, l)
                    BY <1>6, <4>2 DEF InHand
                <5> QED BY <1>9, <1>12, <1>16, <4>2, <5>1, InHandIsHeld DEF InOneHand
            <4> QED BY <4>1, <4>2
        <3>2. \A i \in ApprovalIds : approvals[i].line # l
            BY <1>2, <1>6, <1>12, <1>16 DEF InOneHand
        <3> QED BY <1>4, <1>9, <1>13, <1>16, <3>1, <3>2 DEF Outstanding, Awaits
    <2>4. VarianceTrue(l)'
        BY <2>2, <2>3 DEF VarianceTrue
    <2> QED BY <1>14, <2>1, <2>4
<1>17. CASE l # m
    <2>1. Outstanding(l)' <=> Outstanding(l)
        <3>1. \A g \in Offices : InHand(g, l)' <=> InHand(g, l)
            BY <1>2, <1>6, <1>17 DEF InHand
        <3> QED BY <1>4, <1>13, <3>1 DEF Outstanding, Awaits
    <2>2. CASE onHand'[RowOf(l)] = onHand[RowOf(l)]
        <3>1. SnapshotTrue(l)' /\ DevicesTrue(l)' /\ Surplus(RowOf(l))' = Surplus(RowOf(l))
            BY <1>4, <1>12, <2>2, FrontStays
        <3>2. VarianceTrue(l)'
            BY <1>4, <1>12, <1>13, <1>15, <2>1, <3>1 DEF VarianceTrue
        <3> QED BY <1>14, <3>1, <3>2
    <2>3. CASE onHand'[RowOf(l)] # onHand[RowOf(l)]
        <3>1. /\ RowOf(l) = RowOf(m) /\ line[l].status = "COUNTED" /\ ~Outstanding(l)
              /\ Surplus(RowOf(l))' = Surplus(RowOf(l)) - v
            BY <1>4, <1>17, <2>3, PostingSpares
        <3>2. SnapshotTrue(l)' /\ DevicesTrue(l)'
            BY <1>4, <1>12, <3>1, CountedStays
        <3>3. v = Surplus(RowOf(l))
            BY <1>9, <1>10, <1>11, <3>1 DEF Live
        <3>4. Surplus(RowOf(l))' = 0
            BY <3>1, <3>3
        <3>5. VarianceTrue(l)'
            BY <2>1, <3>1, <3>4 DEF VarianceTrue
        <3> QED BY <1>14, <3>2, <3>5
    <2> QED BY <2>2, <2>3
<1> QED BY <1>16, <1>17

LEMMA RequestApprovalKeepsTrue ==
    ASSUME WellFormed, WellFormed', CountedTrue, NEW f \in Offices, RequestApproval(f)
    PROVE  CountedTrue'
<1>1. PICK copy \in office[f].left :
          /\ approvals' = Append(approvals, [line |-> copy.line, status |-> "PENDING"])
          /\ office' = [office EXCEPT ![f].left = @ \ {copy}]
    BY DEF RequestApproval
<1>2. PICK m \in Lines : m = copy.line
    BY OfficeFields DEF WellFormed
<1>3. PICK n \in Nat : n = Len(approvals) + 1
    BY DEF WellFormed, Typed
<1>4. /\ UNCHANGED <<line, count, begun, device, approver, physical, onHand, moved, tainted>>
      /\ office[f].stage = "lines"
    BY DEF RequestApproval, stock, history
<1>5. /\ office'[f].stage = "lines" /\ office'[f].count = office[f].count
      /\ office'[f].left = office[f].left \ {copy}
      /\ \A g \in Offices \ {f} : office'[g] = office[g]
    BY <1>1, <1>4 DEF WellFormed, Typed, OfficeRecords
<1>6. /\ ToPost(f) = office[f].left /\ ToPost(f)' = office[f].left \ {copy}
      /\ \A g \in Offices \ {f} : ToPost(g)' = ToPost(g)
    BY <1>4, <1>5 DEF ToPost
<1>7. \A g \in Offices, c \in Counts : Holds(g, c)' <=> Holds(g, c)
    BY <1>4, <1>5 DEF Holds
<1>8. /\ n \notin ApprovalIds /\ ApprovalIds' = ApprovalIds \cup {n}
      /\ \A i \in ApprovalIds : approvals'[i] = approvals[i]
      /\ approvals'[n].line = m /\ approvals'[n].status = "PENDING"
    <2>1. PICK new : new = [line |-> copy.line, status |-> "PENDING"]
        OBVIOUS
    <2>2. new \in ApprovalRecords /\ new.line = m /\ new.status = "PENDING"
        BY <1>2, <2>1 DEF ApprovalRecords
    <2>3. approvals \in Seq(ApprovalRecords) /\ approvals' = Append(approvals, new)
        BY <1>1, <2>1 DEF WellFormed, Typed
    <2>4. /\ Len(approvals) \in Nat /\ Len(approvals') = Len(approvals) + 1
          /\ \A i \in 1 .. Len(approvals) : approvals'[i] = approvals[i]
          /\ approvals'[Len(approvals) + 1] = new
        BY <2>2, <2>3
    <2> QED BY <1>3, <2>2, <2>4 DEF ApprovalIds
<1>9. \A p \in Approvers : approver'[p] # n
    BY <1>3, <1>4 DEF WellFormed, Typed
<1>10. InHand(f, m)
    BY <1>2, <1>6 DEF InHand
<1>11. Holds(f, m[1]) /\ begun[m[1]] > 0 /\ line[m].status = "COUNTED"
    BY <1>10, InHandIsHeld
<1> SUFFICES ASSUME NEW l \in Lines, Live(l)'
             PROVE  (InOneHand(l) /\ SnapshotTrue(l) /\ DevicesTrue(l) /\ VarianceTrue(l))'
    BY DEF CountedTrue
<1>12. InOneHand(l) /\ SnapshotTrue(l) /\ DevicesTrue(l) /\ VarianceTrue(l)
    BY <1>4 DEF CountedTrue, Live
<1>13. l[1] \in Counts /\ Variance(l)' = Variance(l)
       /\ Surplus(RowOf(l))' = Surplus(RowOf(l))
    BY <1>4, LinesShape DEF Variance, Surplus
<1>14. SnapshotTrue(l)' /\ DevicesTrue(l)'
    BY <1>4, <1>12, <1>13 DEF SnapshotTrue, DevicesTrue
<1>15. \A g \in Offices : /\ ToPost(g)' \subseteq ToPost(g)
                          /\ office'[g].stage = "posting" => office'[g] = office[g]
    BY <1>5, <1>6
<1>16. CASE l = m
    <2>1. \A i \in ApprovalIds : approvals[i].line # l
        BY <1>2, <1>6, <1>12, <1>16 DEF InOneHand
    <2>2. \A g \in Offices : \A other \in ToPost(g)' : other.line # l
        <3> SUFFICES ASSUME NEW g \in Offices, NEW other \in ToPost(g)', other.line = l
                     PROVE  FALSE
            OBVIOUS
        <3>1. CASE g = f
            BY <1>2, <1>6, <1>12, <1>16, <3>1, OneCopy
        <3>2. CASE g # f
            <4>1. InHand(g, l)
                BY <1>6, <3>2 DEF InHand
            <4> QED BY <1>11, <1>12, <1>16, <3>2, <4>1, InHandIsHeld DEF InOneHand
        <3> QED BY <3>1, <3>2
    <2>3. \A i \in ApprovalIds' : approvals'[i].line = l => i = n
        BY <1>8, <2>1
    <2>4. InOneHand(l)'
        <3>1. \A i \in ApprovalIds' : \A p \in Approvers :
                  ~(approvals'[i].line = l /\ approver'[p] = i)
            BY <1>9, <2>3
        <3> QED BY <1>4, <1>7, <1>12, <1>13, <1>15, <2>2, <2>3, <3>1 DEF InOneHand
    <2>5. Outstanding(l)'
        BY <1>8, <1>16 DEF Outstanding, Awaits
    <2>6. Variance(l) = Surplus(RowOf(l))
        BY <1>10, <1>11, <1>12, <1>16 DEF VarianceTrue, Outstanding
    <2>7. VarianceTrue(l)'
        BY <1>13, <2>5, <2>6 DEF VarianceTrue
    <2> QED BY <1>14, <2>4, <2>7
<1>17. CASE l # m
    <2>1. \A i \in ApprovalIds' : approvals'[i].line = l =>
              i \in ApprovalIds /\ approvals'[i] = approvals[i]
        BY <1>8, <1>17
    <2>2. \A i \in ApprovalIds : i \in ApprovalIds' /\ approvals'[i] = approvals[i]
        BY <1>8
    <2>3. InOneHand(l)'
        BY <1>4, <1>7, <1>12, <1>13, <1>15, <2>1 DEF InOneHand
    <2>4. \A g \in Offices : InHand(g, l)' <=> InHand(g, l)
        BY <1>2, <1>6, <1>17 DEF InHand
    <2>5. Outstanding(l)' <=> Outstanding(l)
        BY <1>4, <2>1, <2>2, <2>4 DEF Outstanding, Awaits
    <2>6. Hopeful(l)' <=> Hopeful(l)
        BY <1>4, <1>7, <1>13, <2>1, <2>2 DEF Hopeful
    <2>7. VarianceTrue(l)'
        BY <1>4, <1>12, <1>13, <2>5, <2>6 DEF VarianceTrue
    <2> QED BY <1>14, <2>3, <2>7
<1> QED BY <1>16, <1>17

LEMMA ReconcileKeepsTrue ==
    ASSUME WellFormed, WellFormed', CountedTrue, NEW f \in Offices, Reconcile(f)
    PROVE  CountedTrue'
<1>1. PICK c \in Counts : c = office[f].count
    BY DEF Reconcile, WellFormed, OfficesSound, OfficeSound
<1>2. /\ UNCHANGED <<line, begun, device, approvals, approver, physical, onHand, moved, tainted>>
      /\ office[f].stage = "lines" /\ office[f].left = {}
      /\ office'[f].stage = "idle" /\ office'[f].left = {}
      /\ \A g \in Offices \ {f} : office'[g] = office[g]
    BY DEF Reconcile, stock, history, IdleOffice, WellFormed, Typed
<1>3. count'[c].status = "RECONCILED" /\ \A k \in Counts \ {c} : count'[k] = count[k]
    BY <1>1 DEF Reconcile, WellFormed, Typed, CountRecords
<1>4. /\ ToPost(f) = {} /\ ToPost(f)' = {}
      /\ \A g \in Offices \ {f} : ToPost(g)' = ToPost(g)
    BY <1>2 DEF ToPost
<1> SUFFICES ASSUME NEW l \in Lines, Live(l)'
             PROVE  (InOneHand(l) /\ SnapshotTrue(l) /\ DevicesTrue(l) /\ VarianceTrue(l))'
    BY DEF CountedTrue
<1>5. CASE l[1] # c
    <2>1. ~Holds(f, l[1]) /\ ~Holds(f, l[1])' /\ count'[l[1]] = count[l[1]]
        BY <1>1, <1>2, <1>3, <1>5, LinesShape DEF Holds
    <2> QED BY <1>2, <2>1, OtherCounts
<1>6. CASE l[1] = c
    <2>1. InOneHand(l) /\ SnapshotTrue(l) /\ DevicesTrue(l) /\ VarianceTrue(l)
        BY <1>2 DEF CountedTrue, Live
    <2>2. Holds(f, l[1])
        BY <1>1, <1>2, <1>6 DEF Holds
    <2>3. \A g \in Offices : ~Holds(g, l[1])'
        BY <1>2, <2>1, <2>2 DEF Holds, InOneHand
    <2>4. InOneHand(l)'
        BY <1>2, <1>4, <2>1, <2>3, HandsLetGo
    <2>5. SnapshotTrue(l)' /\ DevicesTrue(l)' /\ Variance(l)' = Variance(l)
          /\ Surplus(RowOf(l))' = Surplus(RowOf(l))
        BY <1>2, <2>1, FrontStays
    <2>6. /\ Outstanding(l)' <=> Outstanding(l)
          /\ Hopeful(l)' => Hopeful(l)
        <3>1. \A g \in Offices : InHand(g, l)' <=> InHand(g, l)
            BY <1>4 DEF InHand
        <3> QED BY <1>2, <2>2, <3>1 DEF Outstanding, Awaits, Hopeful, ApprovalIds
    <2>7. VarianceTrue(l)'
        BY <1>2, <2>1, <2>5, <2>6 DEF VarianceTrue
    <2> QED BY <2>4, <2>5, <2>7
<1> QED BY <1>5, <1>6

LEMMA AbortKeepsTrue ==
    ASSUME WellFormed, WellFormed', CountedTrue, NEW f \in Offices, Abort(f)
    PROVE  CountedTrue'
<1>1. /\ UNCHANGED <<line, count, begun, device, approvals, approver, physical, onHand, moved,
                     tainted>>
      /\ office[f].stage # "idle" /\ office'[f].stage = "idle" /\ office'[f].left = {}
      /\ \A g \in Offices \ {f} : office'[g] = office[g]
    BY DEF Abort, stock, IdleOffice, WellFormed, Typed
<1>2. ToPost(f)' = {} /\ \A g \in Offices \ {f} : ToPost(g)' = ToPost(g)
    BY <1>1 DEF ToPost
<1> SUFFICES ASSUME NEW l \in Lines, Live(l)'
             PROVE  (InOneHand(l) /\ SnapshotTrue(l) /\ DevicesTrue(l) /\ VarianceTrue(l))'
    BY DEF CountedTrue
<1>3. CASE ~Holds(f, l[1])
    <2>1. ~Holds(f, l[1])'
        BY <1>1 DEF Holds
    <2> QED BY <1>1, <1>3, <2>1, OtherCounts
<1>4. CASE Holds(f, l[1])
    <2>1. InOneHand(l) /\ SnapshotTrue(l) /\ DevicesTrue(l) /\ VarianceTrue(l)
        BY <1>1 DEF CountedTrue, Live
    <2>2. \A g \in Offices : ~Holds(g, l[1])'
        BY <1>1, <1>4, <2>1 DEF Holds, InOneHand
    <2>3. InOneHand(l)'
        BY <1>1, <1>2, <2>1, <2>2, HandsLetGo
    <2>4. SnapshotTrue(l)' /\ DevicesTrue(l)' /\ Variance(l)' = Variance(l)
          /\ Surplus(RowOf(l))' = Surplus(RowOf(l))
        BY <1>1, <2>1, FrontStays
    <2>5. Outstanding(l)' => Outstanding(l)
        <3>1. \A g \in Offices : InHand(g, l)' => InHand(g, l)
            BY <1>2 DEF InHand
        <3> QED BY <1>1, <3>1 DEF Outstanding, Awaits, ApprovalIds
    <2>6. ~Hopeful(l)'
        BY <1>1, <1>4, <2>1, <2>2 DEF Hopeful, InOneHand
    <2>7. VarianceTrue(l)'
        BY <1>1, <2>1, <2>4, <2>5, <2>6 DEF VarianceTrue
    <2> QED BY <2>3, <2>4, <2>7
<1> QED BY <1>3, <1>4

--------------------------------------------------------------------------------
(* Approvals are given. *)

LEMMA ReadApprovalKeepsTrue ==
    ASSUME WellFormed, CountedTrue, NEW p \in Approvers, NEW i \in ApprovalIds,
           ReadApproval(p, i)
    PROVE  CountedTrue'
<1>1. /\ UNCHANGED <<line, count, begun, office, approvals, device, physical, onHand, moved>>
      /\ approver[p] = 0 /\ approvals[i].status = "PENDING"
      /\ approver'[p] = i /\ \A q \in Approvers \ {p} : approver'[q] = approver[q]
      /\ tainted \subseteq tainted'
    BY DEF ReadApproval, stock, WellFormed, Typed
<1>2. i # 0 /\ 0 \notin ApprovalIds
    BY DEF ApprovalIds
<1> SUFFICES ASSUME NEW l \in Lines, Live(l)'
             PROVE  (InOneHand(l) /\ SnapshotTrue(l) /\ DevicesTrue(l) /\ VarianceTrue(l))'
    BY DEF CountedTrue
<1>3. InOneHand(l) /\ SnapshotTrue(l) /\ DevicesTrue(l) /\ VarianceTrue(l)
    BY <1>1 DEF CountedTrue, Live
<1>4. /\ SnapshotTrue(l)' /\ DevicesTrue(l)' /\ Variance(l)' = Variance(l)
      /\ Surplus(RowOf(l))' = Surplus(RowOf(l))
    BY <1>1, <1>3, FrontStays
<1>5. ApprovalIds' = ApprovalIds
    BY <1>1 DEF ApprovalIds
<1>6. \A g \in Offices : ToPost(g)' = ToPost(g) /\ (Holds(g, l[1])' <=> Holds(g, l[1]))
    BY <1>1 DEF ToPost, Holds
<1>7. approvals[i].line = l => \A q \in Approvers : approver[q] # i
    BY DEF ReadApproval, Live
<1>8. \A j \in ApprovalIds, q \in Approvers :
          approvals[j].line = l /\ approver'[q] = j =>
              /\ approvals[j].status # "APPROVED"
              /\ \A r \in Approvers : approver'[r] = j => q = r
    <2> SUFFICES ASSUME NEW j \in ApprovalIds, NEW q \in Approvers,
                        approvals[j].line = l, approver'[q] = j
                 PROVE  /\ approvals[j].status # "APPROVED"
                        /\ \A r \in Approvers : approver'[r] = j => q = r
        OBVIOUS
    <2>1. CASE j = i
        BY <1>1, <1>7, <2>1
    <2>2. CASE j # i
        <3>1. \A r \in Approvers : approver'[r] = j => approver[r] = j
            BY <1>1, <2>2
        <3> QED BY <1>3, <3>1 DEF InOneHand
    <2> QED BY <2>1, <2>2
<1>9. InOneHand(l)'
    <2>1. UNCHANGED <<begun, count, approvals, office>>
        BY <1>1
    <2> QED BY <1>3, <1>4, <1>5, <1>6, <1>8, <2>1 DEF InOneHand
<1>10. Outstanding(l)' <=> Outstanding(l)
    <2>1. \A j \in ApprovalIds : Awaits(j, l)' <=> Awaits(j, l)
        BY <1>1, <1>2 DEF Awaits
    <2> QED BY <1>1, <1>5, <1>6, <2>1 DEF Outstanding, InHand
<1>11. Hopeful(l)' <=> Hopeful(l)
    BY <1>1, <1>5, <1>6 DEF Hopeful
<1>12. VarianceTrue(l)'
    BY <1>1, <1>3, <1>4, <1>10, <1>11 DEF VarianceTrue
<1> QED BY <1>4, <1>9, <1>12

(* An approver lets go of what it had read; what it did to the approval, if anything, *)
(* is to APPROVE it.                                                                  *)
LEMMA ApproverFree ==
    ASSUME WellFormed, NEW p \in Approvers, NEW l \in Lines, NEW i \in ApprovalIds,
           UNCHANGED <<line, count, begun, office>>, approver[p] = i,
           approver'[p] = 0, \A q \in Approvers \ {p} : approver'[q] = approver[q],
           ApprovalIds' = ApprovalIds, \A j \in ApprovalIds \ {i} : approvals'[j] = approvals[j],
           approvals'[i].line = approvals[i].line, InOneHand(l)
    PROVE  InOneHand(l)'
<1>1. \A g \in Offices : ToPost(g)' = ToPost(g) /\ (Holds(g, l[1])' <=> Holds(g, l[1]))
    BY DEF ToPost, Holds
<1>2. 0 \notin ApprovalIds /\ Variance(l)' = Variance(l)
    BY DEF ApprovalIds, Variance
<1>3. \A j \in ApprovalIds : approvals'[j].line = approvals[j].line
    OBVIOUS
<1>4. \A j \in ApprovalIds, q \in Approvers :
          approvals'[j].line = l /\ approver'[q] = j =>
              /\ approvals'[j].status # "APPROVED"
              /\ \A r \in Approvers : approver'[r] = j => q = r
    <2> SUFFICES ASSUME NEW j \in ApprovalIds, NEW q \in Approvers,
                        approvals'[j].line = l, approver'[q] = j
                 PROVE  /\ approvals'[j].status # "APPROVED"
                        /\ \A r \in Approvers : approver'[r] = j => q = r
        OBVIOUS
    <2>1. q # p /\ approver[q] = j /\ approvals[j].line = l
        BY <1>2, <1>3
    <2>2. j # i
        BY <2>1 DEF InOneHand
    <2>3. \A r \in Approvers : approver'[r] = j => approver[r] = j
        BY <1>2
    <2> QED BY <2>1, <2>2, <2>3 DEF InOneHand
<1> QED BY <1>1, <1>2, <1>3, <1>4 DEF InOneHand

LEMMA ApproveKeepsTrue ==
    ASSUME WellFormed, WellFormed', CountedTrue, NEW p \in Approvers, Approve(p)
    PROVE  CountedTrue'
<1>1. PICK i \in ApprovalIds : i = approver[p]
    BY DEF Approve, WellFormed, Typed, ApprovalIds
<1>2. PICK m \in Lines : m = approvals[i].line
    BY ApprovalFields DEF WellFormed
<1>3. PICK v \in Int : v = Variance(m)
    BY LineFields DEF WellFormed
<1>4. /\ UNCHANGED <<line, count, begun, office, device, physical, moved>>
      /\ onHand' = Adjusted(m, v) /\ tainted' = tainted \cup TaintedBy(m)
      /\ approvals' = [approvals EXCEPT ![i].status = "APPROVED"]
      /\ approver' = [approver EXCEPT ![p] = 0]
    BY <1>1, <1>2, <1>3 DEF Approve
<1>5. approver'[p] = 0 /\ \A q \in Approvers \ {p} : approver'[q] = approver[q]
    BY <1>4 DEF WellFormed, Typed
<1>6. /\ ApprovalIds' = ApprovalIds /\ \A j \in ApprovalIds \ {i} : approvals'[j] = approvals[j]
      /\ approvals'[i].line = m /\ approvals'[i].status = "APPROVED"
    <2>1. approvals \in Seq(ApprovalRecords) /\ approvals[i] \in ApprovalRecords
        BY ApprovalFields DEF WellFormed, Typed
    <2>2. /\ Len(approvals') = Len(approvals)
          /\ \A j \in ApprovalIds \ {i} : approvals'[j] = approvals[j]
        BY <1>4, <2>1 DEF ApprovalIds
    <2>3. approvals'[i] = [approvals[i] EXCEPT !.status = "APPROVED"]
        BY <1>4, <2>1 DEF ApprovalIds
    <2> QED BY <1>2, <2>1, <2>2, <2>3 DEF ApprovalIds, ApprovalRecords
<1>7. /\ line[m].status = "COUNTED" /\ begun[m[1]] > 0 /\ Awaits(i, m)
    BY <1>1, <1>2 DEF WellFormed, ApprovalsSound, Awaits
<1>8. Live(m) => InOneHand(m) /\ v = Surplus(RowOf(m))
    BY <1>3, <1>7 DEF CountedTrue, VarianceTrue, Outstanding
<1> SUFFICES ASSUME NEW l \in Lines, Live(l)'
             PROVE  (InOneHand(l) /\ SnapshotTrue(l) /\ DevicesTrue(l) /\ VarianceTrue(l))'
    BY DEF CountedTrue
<1>9. Live(l)
    BY <1>4 DEF Live
<1>10. InOneHand(l) /\ SnapshotTrue(l) /\ DevicesTrue(l) /\ VarianceTrue(l)
    BY <1>9 DEF CountedTrue
<1>11. Variance(l)' = Variance(l)
       /\ \A g \in Offices : ToPost(g)' = ToPost(g) /\ (Holds(g, l[1])' <=> Holds(g, l[1]))
    BY <1>4 DEF Variance, ToPost, Holds
<1>12. InOneHand(l)'
    BY <1>1, <1>2, <1>4, <1>5, <1>6, <1>10, ApproverFree
<1>13. CASE l = m
    <2>1. SnapshotTrue(l)' /\ DevicesTrue(l)'
        BY <1>4, <1>7, <1>10, <1>13, CountedStays
    <2>2. Surplus(RowOf(l))' = 0
        BY <1>4, <1>8, <1>9, <1>13, PostingSettles
    <2>3. ~Outstanding(l)'
        <3>1. \A g \in Offices : ~InHand(g, l)'
            BY <1>2, <1>10, <1>11, <1>13 DEF InOneHand, InHand
        <3>2. \A j \in ApprovalIds : approvals[j].line = l => j = i
            BY <1>2, <1>10, <1>13 DEF InOneHand
        <3>3. \A q \in Approvers : approver'[q] # i
            BY <1>1, <1>2, <1>5, <1>10, <1>13 DEF InOneHand, ApprovalIds
        <3>4. \A j \in ApprovalIds' : ~Awaits(j, l)'
            BY <1>6, <3>2, <3>3 DEF Awaits
        <3> QED BY <1>4, <1>7, <1>13, <3>1, <3>4 DEF Outstanding
    <2>4. VarianceTrue(l)'
        BY <2>2, <2>3 DEF VarianceTrue
    <2> QED BY <1>12, <2>1, <2>4
<1>14. CASE l # m
    <2>1. Outstanding(l)' <=> Outstanding(l)
        <3>1. \A j \in ApprovalIds : Awaits(j, l)' <=> Awaits(j, l)
            BY <1>1, <1>2, <1>5, <1>6, <1>14 DEF Awaits, ApprovalIds
        <3> QED BY <1>4, <1>6, <1>11, <3>1 DEF Outstanding, InHand
    <2>2. Hopeful(l)' <=> Hopeful(l)
        <3>1. \A j \in ApprovalIds :
                  /\ approvals'[j].line = l <=> approvals[j].line = l
                  /\ approvals[j].line = l => approvals'[j] = approvals[j]
            BY <1>2, <1>6, <1>14
        <3> QED BY <1>4, <1>6, <1>11, <3>1 DEF Hopeful
    <2>3. CASE onHand'[RowOf(l)] = onHand[RowOf(l)]
        <3>1. SnapshotTrue(l)' /\ DevicesTrue(l)' /\ Surplus(RowOf(l))' = Surplus(RowOf(l))
            BY <1>4, <1>10, <2>3, FrontStays
        <3>2. VarianceTrue(l)'
            BY <1>4, <1>10, <1>11, <2>1, <2>2, <3>1 DEF VarianceTrue
        <3> QED BY <1>12, <3>1, <3>2
    <2>4. CASE onHand'[RowOf(l)] # onHand[RowOf(l)]
        <3>1. /\ RowOf(l) = RowOf(m) /\ line[l].status = "COUNTED" /\ ~Outstanding(l)
              /\ Surplus(RowOf(l))' = Surplus(RowOf(l)) - v
            BY <1>4, <1>14, <2>4, PostingSpares
        <3>2. SnapshotTrue(l)' /\ DevicesTrue(l)'
            BY <1>4, <1>10, <3>1, CountedStays
        <3>3. v = Surplus(RowOf(l))
            BY <1>7, <1>8, <1>9, <3>1 DEF Live
        <3>4. Surplus(RowOf(l))' = 0
            BY <3>1, <3>3
        <3>5. VarianceTrue(l)'
            BY <2>1, <3>1, <3>4 DEF VarianceTrue
        <3> QED BY <1>12, <3>2, <3>5
    <2> QED BY <2>3, <2>4
<1> QED BY <1>13, <1>14

LEMMA FailToApproveKeepsTrue ==
    ASSUME WellFormed, CountedTrue, NEW p \in Approvers, FailToApprove(p)
    PROVE  CountedTrue'
<1>1. PICK i \in ApprovalIds : i = approver[p]
    BY DEF FailToApprove, WellFormed, Typed, ApprovalIds
<1>2. /\ UNCHANGED <<line, count, begun, office, approvals, device, physical, onHand, moved,
                     tainted>>
      /\ approver'[p] = 0 /\ \A q \in Approvers \ {p} : approver'[q] = approver[q]
    BY DEF FailToApprove, stock, history, WellFormed, Typed
<1>3. ApprovalIds' = ApprovalIds /\ 0 \notin ApprovalIds
    BY <1>2 DEF ApprovalIds
<1> SUFFICES ASSUME NEW l \in Lines, Live(l)'
             PROVE  (InOneHand(l) /\ SnapshotTrue(l) /\ DevicesTrue(l) /\ VarianceTrue(l))'
    BY DEF CountedTrue
<1>4. InOneHand(l) /\ SnapshotTrue(l) /\ DevicesTrue(l) /\ VarianceTrue(l)
    BY <1>2 DEF CountedTrue, Live
<1>5. InOneHand(l)'
    BY <1>1, <1>2, <1>3, <1>4, ApproverFree
<1>6. /\ SnapshotTrue(l)' /\ DevicesTrue(l)' /\ Variance(l)' = Variance(l)
      /\ Surplus(RowOf(l))' = Surplus(RowOf(l))
    BY <1>2, <1>4, FrontStays
<1>7. \A g \in Offices : (InHand(g, l)' <=> InHand(g, l)) /\ (Holds(g, l[1])' <=> Holds(g, l[1]))
    BY <1>2 DEF InHand, ToPost, Holds
<1>8. Hopeful(l)' <=> Hopeful(l)
    BY <1>2, <1>3, <1>7 DEF Hopeful
<1>9. Outstanding(l)' => Outstanding(l)
    <2>1. \A j \in ApprovalIds : Awaits(j, l)' => Awaits(j, l)
        BY <1>2, <1>3 DEF Awaits
    <2> QED BY <1>2, <1>3, <1>7, <2>1 DEF Outstanding
<1>10. Outstanding(l) /\ Hopeful(l) => Outstanding(l)'
    <2> SUFFICES ASSUME Outstanding(l), Hopeful(l) PROVE Outstanding(l)'
        OBVIOUS
    <2>1. \A j \in ApprovalIds : Awaits(j, l) => Awaits(j, l)'
        <3> SUFFICES ASSUME NEW j \in ApprovalIds, Awaits(j, l) PROVE Awaits(j, l)'
            OBVIOUS
        <3>1. approvals[j].line = l /\ approvals[j].status = "APPROVED"
            BY DEF Awaits, Hopeful
        <3>2. \A q \in Approvers : approver[q] # j
            BY <1>4, <3>1 DEF InOneHand
        <3> QED BY <3>1, <3>2 DEF Awaits
    <2> QED BY <1>2, <1>3, <1>7, <2>1 DEF Outstanding
<1>11. VarianceTrue(l)'
    BY <1>2, <1>4, <1>6, <1>8, <1>9, <1>10 DEF VarianceTrue
<1> QED BY <1>5, <1>6, <1>11

LEMMA RejectKeepsTrue ==
    ASSUME WellFormed, CountedTrue, NEW i \in ApprovalIds, Reject(i)
    PROVE  CountedTrue'
<1>1. UNCHANGED <<line, count, begun, office, approver, device, physical, onHand, moved, tainted>>
    BY DEF Reject, stock, history
<1>2. /\ ApprovalIds' = ApprovalIds /\ \A j \in ApprovalIds \ {i} : approvals'[j] = approvals[j]
      /\ approvals'[i].line = approvals[i].line /\ approvals'[i].status = "REJECTED"
    <2>1. approvals \in Seq(ApprovalRecords) /\ approvals[i] \in ApprovalRecords
        BY ApprovalFields DEF WellFormed, Typed
    <2>2. /\ Len(approvals') = Len(approvals)
          /\ \A j \in ApprovalIds \ {i} : approvals'[j] = approvals[j]
        BY <2>1 DEF Reject, ApprovalIds
    <2>3. approvals'[i] = [approvals[i] EXCEPT !.status = "REJECTED"]
        BY <2>1 DEF Reject, ApprovalIds
    <2> QED BY <2>1, <2>2, <2>3 DEF ApprovalIds, ApprovalRecords
<1> SUFFICES ASSUME NEW l \in Lines, Live(l)'
             PROVE  (InOneHand(l) /\ SnapshotTrue(l) /\ DevicesTrue(l) /\ VarianceTrue(l))'
    BY DEF CountedTrue
<1>3. InOneHand(l) /\ SnapshotTrue(l) /\ DevicesTrue(l) /\ VarianceTrue(l)
    BY <1>1 DEF CountedTrue, Live
<1>4. /\ SnapshotTrue(l)' /\ DevicesTrue(l)' /\ Variance(l)' = Variance(l)
      /\ Surplus(RowOf(l))' = Surplus(RowOf(l))
    BY <1>1, <1>3, FrontStays
<1>5. \A g \in Offices : /\ ToPost(g)' = ToPost(g)
                         /\ InHand(g, l)' <=> InHand(g, l)
                         /\ Holds(g, l[1])' <=> Holds(g, l[1])
    BY <1>1 DEF InHand, ToPost, Holds
<1>6. \A j \in ApprovalIds :
          /\ approvals'[j].line = approvals[j].line
          /\ approvals'[j].status \in {approvals[j].status, "REJECTED"}
    BY <1>2
<1>7. InOneHand(l)'
    BY <1>1, <1>2, <1>3, <1>4, <1>5, <1>6 DEF InOneHand
<1>8. Outstanding(l)' => Outstanding(l)
    BY <1>1, <1>2, <1>5, <1>6 DEF Outstanding, Awaits
<1>9. Hopeful(l)' => Hopeful(l) /\ approvals[i].line # l
    BY <1>1, <1>2, <1>5, <1>6 DEF Hopeful
<1>10. Outstanding(l) /\ approvals[i].line # l => Outstanding(l)'
    BY <1>1, <1>2, <1>5 DEF Outstanding, Awaits
<1>11. VarianceTrue(l)'
    BY <1>1, <1>3, <1>4, <1>8, <1>9, <1>10 DEF VarianceTrue
<1> QED BY <1>4, <1>7, <1>11

--------------------------------------------------------------------------------
LEMMA NobodyActs ==
    ASSUME CountedTrue, UNCHANGED <<line, count, begun, office, approvals, approver, device>>,
           UNCHANGED <<physical, onHand, moved, tainted>>
    PROVE  CountedTrue'
<1> SUFFICES ASSUME NEW l \in Lines, Live(l)'
             PROVE  (InOneHand(l) /\ SnapshotTrue(l) /\ DevicesTrue(l) /\ VarianceTrue(l))'
    BY DEF CountedTrue
<1> QED BY LineStays

(* No count is BLIND: a BLIND one snapshots nothing, and would not be true. *)
LEMMA CountsStayTrue ==
    ASSUME "BLIND" \notin AdhocMethods, WellFormed, WellFormed', CountedTrue, [Next]_vars
    PROVE  CountedTrue'
<1>1. ASSUME NEW row \in Rows, NEW delta \in {-1, 1}, Move(row, delta) PROVE CountedTrue'
    BY <1>1, MoveKeepsTrue
<1>2. ASSUME NEW c \in Counts, Schedule(c) \/ Adhoc(c) \/ Create(c) \/ Assign(c)
      PROVE  CountedTrue'
    <2>1. Schedule(c) \/ Adhoc(c) => \E rows : ReadScope(c, rows, onHand)
        <3>1. Schedule(c) => \E rows : ReadScope(c, rows, onHand)
            BY DEF Schedule
        <3>2. ASSUME Adhoc(c) PROVE \E rows : ReadScope(c, rows, onHand)
            <4>1. PICK rows \in SUBSET Stocked, method \in AdhocMethods :
                      ReadScope(c, rows, IF method = "BLIND" THEN [r \in Rows |-> 0] ELSE onHand)
                BY <3>2 DEF Adhoc
            <4>2. method # "BLIND"
                OBVIOUS
            <4> QED BY <4>1, <4>2
        <3> QED BY <3>1, <3>2
    <2> QED BY <1>2, <2>1, ReadScopeKeepsTrue, CreateKeepsTrue, AssignKeepsTrue
<1>3. ASSUME NEW d \in Devices, DeviceStep(d) PROVE CountedTrue'
    BY <1>3, DeviceStepKeepsTrue
<1>4. ASSUME NEW f \in Offices, OfficeStep(f) PROVE CountedTrue'
    BY <1>4, StartFinalizeKeepsTrue, PassLineKeepsTrue, PostLedgerKeepsTrue, PostStockKeepsTrue,
       RequestApprovalKeepsTrue, ReconcileKeepsTrue, AbortKeepsTrue DEF OfficeStep
<1>5. ASSUME NEW p \in Approvers, ApproverStep(p) PROVE CountedTrue'
    BY <1>5, ReadApprovalKeepsTrue, ApproveKeepsTrue, FailToApproveKeepsTrue DEF ApproverStep
<1>6. ASSUME NEW i \in ApprovalIds, Reject(i) PROVE CountedTrue'
    BY <1>6, RejectKeepsTrue
<1>7. ASSUME NEW l \in Lines, ExpireLineLock(l) PROVE CountedTrue'
    BY <1>7, NobodyActs DEF ExpireLineLock, stock, history
<1>8. CASE UNCHANGED vars
    BY <1>8, NobodyActs DEF vars
<1> QED BY <1>1, <1>2, <1>3, <1>4, <1>5, <1>6, <1>7, <1>8 DEF Next

LEMMA TrueCountsCorrect == WellFormed /\ CountedTrue => CountCorrects
<1> SUFFICES ASSUME WellFormed, CountedTrue, NEW l \in Lines, Settled(l),
                    RowOf(l) \notin tainted
             PROVE  onHand[RowOf(l)] = physical[RowOf(l)]
    BY DEF CountCorrects
<1>1. InOneHand(l) /\ VarianceTrue(l) /\ count[l[1]].status = "RECONCILED"
    BY DEF Settled, CountedTrue, Live
<1>2. begun[l[1]] # 0
    BY <1>1, NotBegun
<1>3. line[l].status = "COUNTED"
    BY <1>2, BegunLines DEF Settled
<1>4. \A f \in Offices : ~InHand(f, l)
    BY <1>1, InHandIsHeld DEF InOneHand
<1>5. \A i \in ApprovalIds : ~Awaits(i, l)
    BY <1>1 DEF Awaits, Settled, InOneHand
<1>6. ~Outstanding(l) /\ Hopeful(l)
    BY <1>1, <1>2, <1>4, <1>5 DEF Outstanding, Hopeful, Settled
<1>7. Surplus(RowOf(l)) = 0
    BY <1>1, <1>3, <1>6 DEF VarianceTrue
<1> QED BY <1>7, LinesShape, Surpluses DEF Surplus, WellFormed

(* Unless counts are BLIND, a line whose count is RECONCILED and whose approvals are  *)
(* all given leaves on hand what is really there, whatever goods moved after it was   *)
(* counted, whichever devices submitted it together, and however many offices and     *)
(* approvers ran; but for rows of which no count can be trusted, listed at "tainted". *)
(* (cycle-count.service.ts; adjustment-approval.service.ts)                           *)
THEOREM CountsCorrect ==
    ASSUME "BLIND" \notin AdhocMethods
    PROVE  Spec => []CountCorrects
<1>1. WellFormed /\ WellFormed' /\ CountedTrue /\ [Next]_vars => CountedTrue'
    BY CountsStayTrue
<1> QED BY AlwaysWellFormed, InitiallyTrue, <1>1, TrueCountsCorrect, PTL DEF Spec
================================================================================
