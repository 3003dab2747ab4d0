---------------------------- MODULE AllocationProofs ----------------------------
(***************************************************************************)
(* For any number of orders, lines, rows, nodes and desks.                 *)
(*                                                                         *)
(* What every actor remembers of an allocation stays true of it, but for   *)
(* the row, which an override may change (WellFormed): so TypeOK, in which *)
(* a job never takes more of a line than remained.  On that rest           *)
(*   - LinesAccounted: what a job took of a line and may still take is     *)
(*     within its attempts (RetriesBounded, AllocatedInFull);              *)
(*   - CountsAreHeld: what a row counts, with what is about to be counted, *)
(*     is held by allocations that no desk has given back, whatever is     *)
(*     interleaved (NothingStranded);                                      *)
(*   - BooksKept: while one actor works at a time, what it has read is     *)
(*     still so when it writes, and the two are equal (BooksExact).        *)
(***************************************************************************)
EXTENDS Allocation, SequenceTheorems, FiniteSetTheorems, TLAPS

(* What somebody read of an allocation: its quantity never changes, and if it *)
(* has been moved since, then to a row an override named.                     *)
Faithful(copy) ==
    /\ copy \in Copies /\ copy.id \in Ids
    /\ copy.quantity = allocs[copy.id].quantity
    /\ copy.row = allocs[copy.id].row \/ allocs[copy.id].row \in substituted

SoundJob(o, j) ==
    /\ j \in JobRecords
    /\ j.stage = "waiting" => j.attempts < MaxAttempts
    /\ j.lines \subseteq LinesOf(o)
    /\ j.stage \in {"stock", "counting"} => j.line \in LinesOf(o)
    /\ \A offer \in j.offers : offer.available > 0
    /\ \A copy \in j.copies : Faithful(copy)
    /\ j.stage \in {"counting", "locking"} => Faithful(j.current)
    /\ j.stage = "counting" => j.current.quantity <= j.remaining

SoundDesk(k) ==
    /\ k \in DeskRecords
    /\ k.stage # "idle" => Faithful(k.copy)
    /\ k.stage \in {"override", "checked"} => k.substitute \in Rows

SoundTables ==
    /\ allocs \in Seq(AllocRecords) /\ Len(allocs) <= MaxAllocs
    /\ allocated \in [Rows -> Int]
    /\ lineStatus \in [Lines -> {"CREATED", "ALLOCATED"}]
    /\ orderStatus \in [Orders -> {"VALIDATED", "ALLOCATED"}]
    /\ posted \in [Rows -> Nat]
    /\ overdue \in SUBSET Ids
    /\ calls \in 0 .. MaxCalls
    /\ substituted \in SUBSET Rows
    /\ disturbed \in BOOLEAN

SoundJobs ==
    /\ job \in [Orders -> JobRecords]
    /\ \A o \in Orders : SoundJob(o, job[o])

(* No two jobs are about to count the same allocation. *)
CountedOnce ==
    \A o, p \in Orders :
        /\ job[o].stage = "counting" /\ job[p].stage = "counting"
        /\ job[o].current.id = job[p].current.id
        => o = p

SoundCron ==
    /\ cron \in [Nodes -> SUBSET Copies]
    /\ \A n \in Nodes : \A copy \in cron[n] : Faithful(copy)

SoundDesks ==
    /\ desk \in [Desks -> DeskRecords]
    /\ \A d \in Desks : SoundDesk(desk[d])

WellFormed == SoundTables /\ SoundJobs /\ CountedOnce /\ SoundCron /\ SoundDesks

(* No step forgets an allocation, or changes its quantity or its line; one it *)
(* moves, it moves to a row that the history notes.                           *)
Remembers ==
    /\ substituted \subseteq substituted'
    /\ Ids \subseteq Ids'
    /\ \A a \in Ids :
          /\ allocs'[a].quantity = allocs[a].quantity
          /\ allocs'[a].line = allocs[a].line
          /\ allocs'[a].row = allocs[a].row \/ allocs'[a].row \in substituted'
--------------------------------------------------------------------------------
LEMMA Appended ==
    ASSUME allocs \in Seq(AllocRecords), NEW r \in AllocRecords,
           allocs' = Append(allocs, r), substituted' = substituted
    PROVE  /\ allocs' \in Seq(AllocRecords)
           /\ Len(allocs') = Len(allocs) + 1
           /\ Ids' = Ids \cup {Len(allocs) + 1}
           /\ \A a \in Ids : allocs'[a] = allocs[a]
           /\ allocs'[Len(allocs) + 1] = r
           /\ Remembers
<1>1. allocs' \in Seq(AllocRecords) /\ Len(allocs') = Len(allocs) + 1 /\ Len(allocs) \in Nat
    OBVIOUS
<1>2. Ids' = Ids \cup {Len(allocs) + 1}
    BY <1>1 DEF Ids
<1>3. \A a \in Ids : allocs'[a] = allocs[a]
    BY <1>1 DEF Ids
<1>4. allocs'[Len(allocs) + 1] = r
    BY <1>1
<1> QED BY <1>1, <1>2, <1>3, <1>4 DEF Remembers

LEMMA Replaced ==
    ASSUME allocs \in Seq(AllocRecords), NEW i \in Ids, NEW r \in AllocRecords,
           allocs' = [allocs EXCEPT ![i] = r]
    PROVE  /\ allocs' \in Seq(AllocRecords)
           /\ Len(allocs') = Len(allocs)
           /\ Ids' = Ids
           /\ \A a \in Ids \ {i} : allocs'[a] = allocs[a]
           /\ allocs'[i] = r
<1>1. allocs \in [Ids -> AllocRecords] /\ Len(allocs) \in Nat
    BY DEF Ids
<1>2. allocs' \in [Ids -> AllocRecords] /\ DOMAIN allocs' = 1 .. Len(allocs)
    BY <1>1 DEF Ids
<1>3. allocs' \in Seq(AllocRecords) /\ Len(allocs') = Len(allocs)
    BY <1>1, <1>2 DEF Ids
<1>4. Ids' = Ids
    BY <1>3 DEF Ids
<1> QED BY <1>1, <1>3, <1>4

LEMMA StaysFaithful ==
    ASSUME Remembers, NEW copy, Faithful(copy)
    PROVE  Faithful(copy)'
BY DEF Remembers, Faithful

LEMMA StatusRemembered ==
    ASSUME allocs \in Seq(AllocRecords), NEW i \in Ids, NEW s \in Statuses,
           allocs' = [allocs EXCEPT ![i].status = s], substituted' = substituted
    PROVE  /\ allocs' \in Seq(AllocRecords)
           /\ Len(allocs') = Len(allocs)
           /\ Ids' = Ids
           /\ \A a \in Ids \ {i} : allocs'[a] = allocs[a]
           /\ allocs'[i] = [allocs[i] EXCEPT !.status = s]
           /\ Remembers
<1>1. allocs[i] \in AllocRecords /\ \A a \in Ids : allocs[a] \in AllocRecords
    BY DEF Ids
<1>2. PICK r : r = [allocs[i] EXCEPT !.status = s]
    OBVIOUS
<1>3. /\ r \in AllocRecords
      /\ r.quantity = allocs[i].quantity /\ r.line = allocs[i].line /\ r.row = allocs[i].row
    BY <1>1, <1>2 DEF AllocRecords
<1>4. allocs' = [allocs EXCEPT ![i] = r]
    BY <1>2
<1>5. /\ allocs' \in Seq(AllocRecords) /\ Len(allocs') = Len(allocs) /\ Ids' = Ids
      /\ \A a \in Ids \ {i} : allocs'[a] = allocs[a]
      /\ allocs'[i] = r
    BY <1>3, <1>4, Replaced
<1>6. Remembers
    BY <1>3, <1>5 DEF Remembers
<1> QED BY <1>2, <1>5, <1>6

LEMMA JobsStaySound ==
    ASSUME SoundJobs, Remembers, UNCHANGED job
    PROVE  SoundJobs'
<1>1. ASSUME NEW o \in Orders PROVE SoundJob(o, job[o])'
  <2>1. SoundJob(o, job[o])
      BY <1>1 DEF SoundJobs
  <2>2. \A copy : Faithful(copy) => Faithful(copy)'
      BY StaysFaithful
  <2> QED BY <2>1, <2>2 DEF SoundJob, LinesOf
<1> QED BY <1>1 DEF SoundJobs

LEMMA JobReplaced ==
    ASSUME SoundJobs, CountedOnce, Remembers, NEW o \in Orders, NEW j,
           job' = [job EXCEPT ![o] = j], SoundJob(o, j)',
           j.stage = "counting" =>
               \A p \in Orders : job[p].stage = "counting" => job[p].current.id # j.current.id
    PROVE  SoundJobs' /\ CountedOnce'
<1>1. j \in JobRecords
    BY DEF SoundJob
<1>2. job' \in [Orders -> JobRecords] /\ \A p \in Orders : job'[p] = IF p = o THEN j ELSE job[p]
    BY <1>1 DEF SoundJobs
<1>3. ASSUME NEW p \in Orders PROVE SoundJob(p, job[p])'
  <2>1. CASE p = o
      BY <1>2, <2>1
  <2>2. CASE p # o
    <3>1. SoundJob(p, job[p]) /\ job'[p] = job[p]
        BY <1>2, <1>3, <2>2 DEF SoundJobs
    <3>2. \A copy : Faithful(copy) => Faithful(copy)'
        BY StaysFaithful
    <3> QED BY <3>1, <3>2 DEF SoundJob, LinesOf
  <2> QED BY <2>1, <2>2
<1>4. CountedOnce'
    BY <1>2 DEF CountedOnce
<1> QED BY <1>2, <1>3, <1>4 DEF SoundJobs

LEMMA CronStaysSound ==
    ASSUME SoundCron, Remembers, UNCHANGED cron
    PROVE  SoundCron'
<1>1. \A copy : Faithful(copy) => Faithful(copy)'
    BY StaysFaithful
<1> QED BY <1>1 DEF SoundCron

LEMMA DesksStaySound ==
    ASSUME SoundDesks, Remembers, UNCHANGED desk
    PROVE  SoundDesks'
<1>1. \A copy : Faithful(copy) => Faithful(copy)'
    BY StaysFaithful
<1> QED BY <1>1 DEF SoundDesks, SoundDesk

LEMMA DeskReplaced ==
    ASSUME SoundDesks, Remembers, NEW d \in Desks, NEW k,
           desk' = [desk EXCEPT ![d] = k], SoundDesk(k)'
    PROVE  SoundDesks'
<1>1. k \in DeskRecords
    BY DEF SoundDesk
<1>2. desk' \in [Desks -> DeskRecords] /\ \A e \in Desks : desk'[e] = IF e = d THEN k ELSE desk[e]
    BY <1>1 DEF SoundDesks
<1>3. \A copy : Faithful(copy) => Faithful(copy)'
    BY StaysFaithful
<1>4. ASSUME NEW e \in Desks PROVE SoundDesk(desk[e])'
  <2>1. CASE e = d
      BY <1>2, <2>1
  <2>2. CASE e # d
      BY <1>2, <1>3, <1>4, <2>2 DEF SoundDesk, SoundDesks
  <2> QED BY <2>1, <2>2
<1> QED BY <1>2, <1>4 DEF SoundDesks

LEMMA NothingForgotten ==
    ASSUME UNCHANGED allocs, UNCHANGED substituted
    PROVE  Remembers
BY DEF Remembers, Ids
--------------------------------------------------------------------------------
LEMMA CopyIsFaithful ==
    ASSUME SoundTables, NEW a \in Ids
    PROVE  Faithful(CopyOf(a)) /\ CopyOf(a) \in Copies
<1>1. allocs[a] \in AllocRecords /\ a \in AllocIds
    BY BoundAssumption DEF SoundTables, Ids, AllocIds
<1>2. CopyOf(a) \in Copies
    BY <1>1 DEF CopyOf, Copies, AllocRecords
<1>3. CopyOf(a).id = a /\ CopyOf(a).row = allocs[a].row /\ CopyOf(a).quantity = allocs[a].quantity
    BY DEF CopyOf
<1> QED BY <1>2, <1>3 DEF Faithful

LEMMA JobActs ==
    ASSUME WellFormed, Remembers, NEW o \in Orders, NEW j,
           job' = [job EXCEPT ![o] = j], SoundJob(o, j)', SoundTables',
           j.stage = "counting" =>
               \A p \in Orders : job[p].stage = "counting" => job[p].current.id # j.current.id,
           UNCHANGED <<cron, desk>>
    PROVE  WellFormed'
BY JobReplaced, CronStaysSound, DesksStaySound DEF WellFormed

LEMMA StartSound ==
    ASSUME WellFormed, NEW o \in Orders, Start(o)
    PROVE  WellFormed'
<1> USE DEF WellFormed
<1>1. SoundJob(o, job[o]) /\ job[o] \in JobRecords /\ job[o].attempts < MaxAttempts
    BY DEF SoundJobs, SoundJob, Start
<1>2. PICK j : j = [NewJob EXCEPT
            !.stage = "lines", !.attempts = job[o].attempts + 1,
            !.lines = {l \in LinesOf(o) : lineStatus[l] \in {"ALLOCATED", "CREATED"}}]
    OBVIOUS
<1>3. job[o].attempts + 1 \in 0 .. MaxAttempts
    BY <1>1, BoundAssumption DEF JobRecords
<1>4. /\ j = [stage |-> "lines", attempts |-> job[o].attempts + 1,
              lines |-> {l \in LinesOf(o) : lineStatus[l] \in {"ALLOCATED", "CREATED"}},
              line |-> NoLine, remaining |-> 0, offers |-> {}, copies |-> {}, current |-> NoCopy]
    BY <1>2 DEF NewJob
<1>5. SoundJob(o, j)'
    BY <1>3, <1>4 DEF SoundJob, JobRecords, JobStages, LinesOf
<1>6. Remembers
    BY NothingForgotten DEF Start, tables
<1>7. SoundTables'
    BY DEF SoundTables, Start, tables, Overlaps, Ids
<1> QED BY <1>2, <1>4, <1>5, <1>6, <1>7, JobActs DEF Start

LEMMA ReadStockSound ==
    ASSUME WellFormed, NEW o \in Orders, ReadStock(o)
    PROVE  WellFormed'
<1> USE DEF WellFormed
<1>1. SoundJob(o, job[o]) /\ job[o] \in JobRecords /\ job[o].stage = "lines"
    BY DEF SoundJobs, SoundJob, ReadStock
<1>2. PICK l \in job[o].lines, locations \in Filters :
          job' = [job EXCEPT
            ![o].stage = "stock", ![o].lines = @ \ {l}, ![o].line = l,
            ![o].remaining = Requested[l],
            ![o].offers = {[row |-> r, available |-> Available(r)] :
                r \in {r \in Rows : LocationOf(r) \in locations /\ Available(r) > 0}}]
    BY DEF ReadStock
<1>3. PICK offers : offers = {[row |-> r, available |-> Available(r)] :
                r \in {r \in Rows : LocationOf(r) \in locations /\ Available(r) > 0}}
    OBVIOUS
<1>4. \A r \in Rows : Available(r) \in Int
    BY QuantityAssumption DEF Available, SoundTables
<1>5. offers \in SUBSET Offers /\ \A offer \in offers : offer.available > 0
    BY <1>3, <1>4 DEF Offers
<1>6. PICK j : j = [job[o] EXCEPT !.stage = "stock", !.lines = @ \ {l}, !.line = l,
                    !.remaining = Requested[l], !.offers = offers]
    OBVIOUS
<1>7. l \in LinesOf(o) /\ l \in Lines /\ Requested[l] \in Nat
    BY <1>1, <1>2, QuantityAssumption DEF SoundJob, LinesOf
<1>8. j \in JobRecords
    BY <1>1, <1>5, <1>6, <1>7 DEF JobRecords, JobStages
<1>9. /\ j.stage = "stock" /\ j.lines \subseteq job[o].lines /\ j.line = l
      /\ j.offers = offers /\ j.copies = job[o].copies
    BY <1>1, <1>6 DEF JobRecords
<1>10. Remembers
    BY NothingForgotten DEF ReadStock, tables
<1>11. SoundTables'
    BY DEF SoundTables, ReadStock, tables, Ids
<1>12. SoundJob(o, j)'
  <2>1. \A copy : Faithful(copy) => Faithful(copy)'
      BY StaysFaithful, <1>10
  <2> QED BY <2>1, <1>1, <1>5, <1>7, <1>8, <1>9 DEF SoundJob, LinesOf
<1>13. job' = [job EXCEPT ![o] = j]
    BY <1>2, <1>3, <1>6
<1> QED BY <1>9, <1>10, <1>11, <1>12, <1>13, JobActs DEF ReadStock

LEMMA CreateAllocationSound ==
    ASSUME WellFormed, NEW o \in Orders, CreateAllocation(o)
    PROVE  WellFormed'
<1> USE DEF WellFormed
<1>1. SoundJob(o, job[o]) /\ job[o] \in JobRecords
    BY DEF SoundJobs, SoundJob
<1>2. PICK offer \in job[o].offers :
          LET take == Smaller(offer.available, job[o].remaining)
          IN  /\ allocs' = Append(allocs, SoftAllocation(o, offer.row, take))
              /\ job' = [job EXCEPT
                   ![o].stage = "counting", ![o].offers = @ \ {offer},
                   ![o].current = [id |-> Len(allocs) + 1, row |-> offer.row, quantity |-> take]]
    BY DEF CreateAllocation
<1>3. PICK take : take = Smaller(offer.available, job[o].remaining)
    OBVIOUS
<1>4. /\ offer.row \in Rows /\ offer.available \in Nat /\ offer.available > 0
      /\ job[o].remaining \in Nat /\ job[o].remaining > 0
      /\ job[o].line \in Lines
    BY <1>1, <1>2 DEF SoundJob, JobRecords, Offers, CreateAllocation, LinesOf
<1>5. take \in Nat \ {0} /\ take <= job[o].remaining
    BY <1>3, <1>4 DEF Smaller
<1>6. PICK r : r = SoftAllocation(o, offer.row, take)
    OBVIOUS
<1>7. r \in AllocRecords /\ r.row = offer.row /\ r.quantity = take
    BY <1>4, <1>5, <1>6 DEF SoftAllocation, AllocRecords, Statuses
<1>8. allocs' = Append(allocs, r) /\ substituted' = substituted
    BY <1>2, <1>3, <1>6 DEF CreateAllocation
<1>9. /\ allocs' \in Seq(AllocRecords) /\ Len(allocs') = Len(allocs) + 1
      /\ Ids' = Ids \cup {Len(allocs) + 1}
      /\ allocs'[Len(allocs) + 1] = r
      /\ Remembers
    BY <1>7, <1>8, Appended DEF SoundTables
<1>10. Len(allocs) \in Nat /\ Len(allocs) + 1 \in AllocIds /\ Len(allocs) + 1 \notin Ids
    BY BoundAssumption DEF CreateAllocation, SoundTables, AllocIds, Ids
<1>11. PICK c : c = [id |-> Len(allocs) + 1, row |-> offer.row, quantity |-> take]
    OBVIOUS
<1>12. c \in Copies /\ c.id = Len(allocs) + 1 /\ c.quantity = take /\ Faithful(c)'
    BY <1>4, <1>5, <1>7, <1>9, <1>10, <1>11 DEF Copies, Faithful
<1>13. PICK j : j = [job[o] EXCEPT !.stage = "counting", !.offers = @ \ {offer}, !.current = c]
    OBVIOUS
<1>14. j \in JobRecords
    BY <1>1, <1>12, <1>13 DEF JobRecords, JobStages
<1>15. /\ j.stage = "counting" /\ j.lines = job[o].lines /\ j.line = job[o].line
       /\ j.offers \subseteq job[o].offers /\ j.copies = job[o].copies /\ j.current = c
       /\ j.remaining = job[o].remaining
    BY <1>1, <1>13 DEF JobRecords
<1>16. SoundTables'
    BY <1>9, <1>10 DEF SoundTables, CreateAllocation, AllocIds
<1>17. SoundJob(o, j)'
  <2>1. \A copy : Faithful(copy) => Faithful(copy)'
      BY StaysFaithful, <1>9
  <2>2. job[o].line \in LinesOf(o)
      BY <1>1 DEF SoundJob, CreateAllocation
  <2> QED BY <2>1, <2>2, <1>1, <1>5, <1>12, <1>14, <1>15 DEF SoundJob, LinesOf
<1>18. job' = [job EXCEPT ![o] = j]
    BY <1>2, <1>3, <1>11, <1>13
<1>19. ASSUME NEW p \in Orders, job[p].stage = "counting"
       PROVE  job[p].current.id # j.current.id
    BY <1>10, <1>12, <1>15, <1>19 DEF SoundJobs, SoundJob, Faithful
<1> QED BY <1>9, <1>16, <1>17, <1>18, <1>19, JobActs DEF CreateAllocation

LEMMA CountAllocationSound ==
    ASSUME WellFormed, NEW o \in Orders, CountAllocation(o)
    PROVE  WellFormed'
<1> USE DEF WellFormed
<1>1. SoundJob(o, job[o]) /\ job[o] \in JobRecords /\ job[o].stage = "counting"
    BY DEF SoundJobs, SoundJob, CountAllocation
<1>2. /\ job[o].current \in Copies
      /\ job[o].current.row \in Rows
      /\ job[o].current.quantity \in Nat
      /\ job[o].remaining \in Nat
      /\ job[o].remaining - job[o].current.quantity \in Nat
    BY <1>1 DEF SoundJob, Faithful, Copies, JobRecords
<1>3. PICK j : j = [job[o] EXCEPT !.stage = "stock", !.current = NoCopy,
                                  !.remaining = @ - job[o].current.quantity]
    OBVIOUS
<1>4. j \in JobRecords
    BY <1>1, <1>2, <1>3 DEF JobRecords, JobStages
<1>5. /\ j.stage = "stock" /\ j.lines = job[o].lines /\ j.line = job[o].line
      /\ j.offers = job[o].offers /\ j.copies = job[o].copies
    BY <1>1, <1>3 DEF JobRecords
<1>6. Remembers
    BY NothingForgotten DEF CountAllocation
<1>7. SoundTables'
    BY <1>2 DEF SoundTables, CountAllocation, Ids
<1>8. SoundJob(o, j)'
  <2>1. \A copy : Faithful(copy) => Faithful(copy)'
      BY StaysFaithful, <1>6
  <2> QED BY <2>1, <1>1, <1>4, <1>5 DEF SoundJob, LinesOf
<1>9. job' = [job EXCEPT ![o] = j]
    BY <1>3 DEF CountAllocation
<1> QED BY <1>5, <1>6, <1>7, <1>8, <1>9, JobActs DEF CountAllocation

LEMMA FinishLineSound ==
    ASSUME WellFormed, NEW o \in Orders, FinishLine(o)
    PROVE  WellFormed'
<1> USE DEF WellFormed
<1>1. SoundJob(o, job[o]) /\ job[o] \in JobRecords
    BY DEF SoundJobs, SoundJob
<1>2. PICK j : j = [job[o] EXCEPT !.stage = "lines", !.offers = {}, !.line = NoLine,
                                  !.remaining = 0]
    OBVIOUS
<1>3. j \in JobRecords
    BY <1>1, <1>2 DEF JobRecords, JobStages
<1>4. /\ j.stage = "lines" /\ j.lines = job[o].lines /\ j.offers = {}
      /\ j.copies = job[o].copies
    BY <1>1, <1>2 DEF JobRecords
<1>5. Remembers
    BY NothingForgotten DEF FinishLine
<1>6. SoundTables'
    BY DEF SoundTables, FinishLine, Ids
<1>7. SoundJob(o, j)'
  <2>1. \A copy : Faithful(copy) => Faithful(copy)'
      BY StaysFaithful, <1>5
  <2> QED BY <2>1, <1>1, <1>3, <1>4 DEF SoundJob, LinesOf
<1>8. job' = [job EXCEPT ![o] = j]
    BY <1>2 DEF FinishLine
<1> QED BY <1>4, <1>5, <1>6, <1>7, <1>8, JobActs DEF FinishLine

LEMMA SyncOrderStatusSound ==
    ASSUME WellFormed, NEW o \in Orders, SyncOrderStatus(o)
    PROVE  WellFormed'
<1> USE DEF WellFormed
<1>1. SoundJob(o, job[o]) /\ job[o] \in JobRecords
    BY DEF SoundJobs, SoundJob
<1>2. PICK s : s = IF o \in HardOrders THEN "soft_done" ELSE "done"
    OBVIOUS
<1>3. PICK j : j = [job[o] EXCEPT !.stage = s]
    OBVIOUS
<1>4. j \in JobRecords
    BY <1>1, <1>2, <1>3 DEF JobRecords, JobStages
<1>5. /\ j.stage \in {"soft_done", "done"} /\ j.lines = job[o].lines /\ j.offers = job[o].offers
      /\ j.copies = job[o].copies
    BY <1>1, <1>2, <1>3 DEF JobRecords
<1>6. Remembers
    BY NothingForgotten DEF SyncOrderStatus
<1>7. SoundTables'
    BY DEF SoundTables, SyncOrderStatus, Ids
<1>8. SoundJob(o, j)'
  <2>1. \A copy : Faithful(copy) => Faithful(copy)'
      BY StaysFaithful, <1>6
  <2> QED BY <2>1, <1>1, <1>4, <1>5 DEF SoundJob, LinesOf
<1>9. job' = [job EXCEPT ![o] = j]
    BY <1>2, <1>3 DEF SyncOrderStatus
<1> QED BY <1>5, <1>6, <1>7, <1>8, <1>9, JobActs DEF SyncOrderStatus

LEMMA ReadSoftSound ==
    ASSUME WellFormed, NEW o \in Orders, ReadSoft(o)
    PROVE  WellFormed'
<1> USE DEF WellFormed
<1>1. SoundJob(o, job[o]) /\ job[o] \in JobRecords
    BY DEF SoundJobs, SoundJob
<1>2. PICK copies : copies = {CopyOf(a) : a \in SoftOf(o)}
    OBVIOUS
<1>3. \A copy \in copies : copy \in Copies /\ Faithful(copy)
    BY <1>2, CopyIsFaithful DEF SoftOf
<1>4. PICK j : j = [job[o] EXCEPT !.stage = "hard", !.copies = copies]
    OBVIOUS
<1>5. j \in JobRecords
    BY <1>1, <1>3, <1>4 DEF JobRecords, JobStages
<1>6. /\ j.stage = "hard" /\ j.lines = job[o].lines /\ j.offers = job[o].offers
      /\ j.copies = copies
    BY <1>1, <1>4 DEF JobRecords
<1>7. Remembers
    BY NothingForgotten DEF ReadSoft, tables
<1>8. SoundTables'
    BY DEF SoundTables, ReadSoft, tables, Ids
<1>9. SoundJob(o, j)'
  <2>1. \A copy : Faithful(copy) => Faithful(copy)'
      BY StaysFaithful, <1>7
  <2> QED BY <2>1, <1>1, <1>3, <1>5, <1>6 DEF SoundJob, LinesOf
<1>10. job' = [job EXCEPT ![o] = j]
    BY <1>2, <1>4 DEF ReadSoft
<1> QED BY <1>6, <1>7, <1>8, <1>9, <1>10, JobActs DEF ReadSoft

LEMMA CheckStockSound ==
    ASSUME WellFormed, NEW o \in Orders, CheckStock(o)
    PROVE  WellFormed'
<1> USE DEF WellFormed
<1>1. SoundJob(o, job[o]) /\ job[o] \in JobRecords
    BY DEF SoundJobs, SoundJob
<1>2. PICK copy \in job[o].copies :
          job' = [job EXCEPT ![o].stage = "locking", ![o].current = copy,
                             ![o].copies = @ \ {copy}]
    BY DEF CheckStock
<1>3. copy \in Copies /\ Faithful(copy)
    BY <1>1, <1>2 DEF SoundJob, JobRecords
<1>4. PICK j : j = [job[o] EXCEPT !.stage = "locking", !.current = copy, !.copies = @ \ {copy}]
    OBVIOUS
<1>5. j \in JobRecords
    BY <1>1, <1>3, <1>4 DEF JobRecords, JobStages
<1>6. /\ j.stage = "locking" /\ j.lines = job[o].lines /\ j.offers = job[o].offers
      /\ j.copies \subseteq job[o].copies /\ j.current = copy
    BY <1>1, <1>4 DEF JobRecords
<1>7. Remembers
    BY NothingForgotten DEF CheckStock, tables
<1>8. SoundTables'
    BY DEF SoundTables, CheckStock, tables, Ids
<1>9. SoundJob(o, j)'
  <2>1. \A c : Faithful(c) => Faithful(c)'
      BY StaysFaithful, <1>7
  <2> QED BY <2>1, <1>1, <1>3, <1>5, <1>6 DEF SoundJob, LinesOf
<1>10. job' = [job EXCEPT ![o] = j]
    BY <1>2, <1>4
<1> QED BY <1>6, <1>7, <1>8, <1>9, <1>10, JobActs DEF CheckStock

LEMMA HardLockSound ==
    ASSUME WellFormed, NEW o \in Orders, HardLock(o)
    PROVE  WellFormed'
<1> USE DEF WellFormed
<1>1. SoundJob(o, job[o]) /\ job[o] \in JobRecords /\ job[o].current.id \in Ids
    BY DEF SoundJobs, SoundJob, HardLock, Faithful
<1>2. /\ allocs' \in Seq(AllocRecords) /\ Len(allocs') = Len(allocs) /\ Ids' = Ids
      /\ Remembers
    BY <1>1, StatusRemembered DEF HardLock, Statuses, SoundTables
<1>3. PICK j : j = [job[o] EXCEPT !.stage = "hard", !.current = NoCopy]
    OBVIOUS
<1>4. j \in JobRecords
    BY <1>1, <1>3 DEF JobRecords, JobStages
<1>5. /\ j.stage = "hard" /\ j.lines = job[o].lines /\ j.offers = job[o].offers
      /\ j.copies = job[o].copies
    BY <1>1, <1>3 DEF JobRecords
<1>6. SoundTables'
    BY <1>2 DEF SoundTables, HardLock
<1>7. SoundJob(o, j)'
  <2>1. \A copy : Faithful(copy) => Faithful(copy)'
      BY StaysFaithful, <1>2
  <2> QED BY <2>1, <1>1, <1>4, <1>5 DEF SoundJob, LinesOf
<1>8. job' = [job EXCEPT ![o] = j]
    BY <1>3 DEF HardLock
<1> QED BY <1>2, <1>5, <1>6, <1>7, <1>8, JobActs DEF HardLock

LEMMA FinishSound ==
    ASSUME WellFormed, NEW o \in Orders, Finish(o)
    PROVE  WellFormed'
<1> USE DEF WellFormed
<1>1. SoundJob(o, job[o]) /\ job[o] \in JobRecords
    BY DEF SoundJobs, SoundJob
<1>2. PICK j : j = [job[o] EXCEPT !.stage = "done"]
    OBVIOUS
<1>3. j \in JobRecords
    BY <1>1, <1>2 DEF JobRecords, JobStages
<1>4. /\ j.stage = "done" /\ j.lines = job[o].lines /\ j.offers = job[o].offers
      /\ j.copies = job[o].copies
    BY <1>1, <1>2 DEF JobRecords
<1>5. Remembers
    BY NothingForgotten DEF Finish, tables
<1>6. SoundTables'
    BY DEF SoundTables, Finish, tables, Ids
<1>7. SoundJob(o, j)'
  <2>1. \A copy : Faithful(copy) => Faithful(copy)'
      BY StaysFaithful, <1>5
  <2> QED BY <2>1, <1>1, <1>3, <1>4 DEF SoundJob, LinesOf
<1>8. job' = [job EXCEPT ![o] = j]
    BY <1>2 DEF Finish
<1> QED BY <1>4, <1>5, <1>6, <1>7, <1>8, JobActs DEF Finish

LEMMA EndAttemptSound ==
    ASSUME WellFormed, NEW o \in Orders, EndAttempt(o), disturbed' \in BOOLEAN,
           UNCHANGED <<tables, overdue, cron, desk, calls, substituted>>
    PROVE  WellFormed'
<1> USE DEF WellFormed
<1>1. SoundJob(o, job[o]) /\ job[o] \in JobRecords /\ job[o].attempts \in 0 .. MaxAttempts
    BY DEF SoundJobs, SoundJob, JobRecords
<1>2. PICK j : j = [NewJob EXCEPT
              !.attempts = job[o].attempts,
              !.stage = IF job[o].attempts < MaxAttempts THEN "waiting" ELSE "failed"]
    OBVIOUS
<1>3. j = [stage |-> IF job[o].attempts < MaxAttempts THEN "waiting" ELSE "failed",
           attempts |-> job[o].attempts, lines |-> {}, line |-> NoLine, remaining |-> 0,
           offers |-> {}, copies |-> {}, current |-> NoCopy]
    BY <1>2 DEF NewJob
<1>4. SoundJob(o, j)' /\ j.stage # "counting"
    BY <1>1, <1>3 DEF SoundJob, JobRecords, JobStages
<1>5. Remembers
    BY NothingForgotten DEF tables
<1>6. SoundTables'
    BY DEF SoundTables, tables, Ids
<1>7. job' = [job EXCEPT ![o] = j]
    BY <1>2 DEF EndAttempt
<1> QED BY <1>4, <1>5, <1>6, <1>7, JobActs

LEMMA JobStepSound ==
    ASSUME WellFormed, NEW o \in Orders, JobStep(o)
    PROVE  WellFormed'
<1>1. CASE InsufficientStock(o)
  <2>1. disturbed' \in BOOLEAN
      BY <1>1 DEF InsufficientStock, WellFormed, SoundTables
  <2> QED BY <2>1, <1>1, EndAttemptSound DEF InsufficientStock
<1>2. CASE Interrupt(o)
  <2>1. disturbed' \in BOOLEAN
      BY <1>2 DEF Interrupt, WellFormed, SoundTables
  <2> QED BY <2>1, <1>2, EndAttemptSound DEF Interrupt
<1> QED
  BY <1>1, <1>2, StartSound, ReadStockSound, CreateAllocationSound, CountAllocationSound,
     FinishLineSound, SyncOrderStatusSound, ReadSoftSound, CheckStockSound, HardLockSound,
     FinishSound DEF JobStep
--------------------------------------------------------------------------------
LEMMA CronActs ==
    ASSUME WellFormed, Remembers, NEW n \in Nodes, NEW copies \in SUBSET Copies,
           cron' = [cron EXCEPT ![n] = copies],
           \A copy \in copies : Faithful(copy), SoundTables', UNCHANGED <<job, desk>>
    PROVE  WellFormed'
<1>1. \A copy : Faithful(copy) => Faithful(copy)'
    BY StaysFaithful
<1>2. SoundCron'
    BY <1>1 DEF SoundCron, WellFormed
<1>3. CountedOnce'
    BY DEF WellFormed, CountedOnce
<1> QED BY <1>2, <1>3, JobsStaySound, DesksStaySound DEF WellFormed

LEMMA CronStepSound ==
    ASSUME WellFormed, NEW n \in Nodes, CronStep(n)
    PROVE  WellFormed'
<1>1. /\ SoundTables /\ cron \in [Nodes -> SUBSET Copies]
      /\ \A copy \in cron[n] : copy \in Copies /\ Faithful(copy) /\ copy.id \in Ids
    BY DEF WellFormed, SoundCron, Faithful
<1>2. CASE StartReconciliation(n)
  <2>1. \A a \in Expired : CopyOf(a) \in Copies /\ Faithful(CopyOf(a))
      BY <1>1, CopyIsFaithful DEF Expired
  <2>2. PICK copies : copies = {CopyOf(a) : a \in Expired}
      OBVIOUS
  <2>3. copies \in SUBSET Copies /\ \A copy \in copies : Faithful(copy)
      BY <2>1, <2>2
  <2>4. Remembers
      BY <1>2, NothingForgotten DEF StartReconciliation, tables
  <2>5. SoundTables'
      BY <1>1, <1>2 DEF SoundTables, StartReconciliation, tables, Overlaps, Ids
  <2> QED BY <1>2, <2>2, <2>3, <2>4, <2>5, CronActs DEF StartReconciliation
<1>3. ASSUME NEW copy \in cron[n], CancelExpired(n, copy)
      PROVE  WellFormed'
  <2>1. copy \in Copies /\ copy.id \in Ids /\ copy.row \in Rows /\ copy.quantity \in Nat
      BY <1>1, <1>3 DEF Copies
  <2>2. /\ allocs' \in Seq(AllocRecords) /\ Len(allocs') = Len(allocs) /\ Ids' = Ids
        /\ Remembers
      BY <1>1, <1>3, <2>1, StatusRemembered DEF CancelExpired, Statuses, SoundTables
  <2>3. allocated' \in [Rows -> Int] /\ posted' \in [Rows -> Nat]
      BY <1>1, <1>3, <2>1 DEF CancelExpired, Decremented, SoundTables
  <2>4. SoundTables'
      BY <1>1, <1>3, <2>2, <2>3 DEF SoundTables, CancelExpired
  <2>5. PICK copies : copies = cron[n] \ {copy}
      OBVIOUS
  <2>6. copies \in SUBSET Copies /\ \A c \in copies : Faithful(c)
      BY <1>1, <2>5
  <2> QED BY <1>3, <2>2, <2>4, <2>5, <2>6, CronActs DEF CancelExpired
<1>4. ASSUME NEW copy \in cron[n], SkipExpired(n, copy)
      PROVE  WellFormed'
  <2>1. Remembers
      BY <1>4, NothingForgotten DEF SkipExpired, tables
  <2>2. SoundTables'
      BY <1>1, <1>4 DEF SoundTables, SkipExpired, tables, Ids
  <2>3. PICK copies : copies = cron[n] \ {copy}
      OBVIOUS
  <2>4. copies \in SUBSET Copies /\ \A c \in copies : Faithful(c)
      BY <1>1, <2>3
  <2> QED BY <1>4, <2>1, <2>2, <2>3, <2>4, CronActs DEF SkipExpired
<1> QED BY <1>2, <1>3, <1>4 DEF CronStep
--------------------------------------------------------------------------------
LEMMA DeskActs ==
    ASSUME WellFormed, Remembers, NEW d \in Desks, NEW k,
           desk' = [desk EXCEPT ![d] = k], SoundDesk(k)', SoundTables', UNCHANGED <<job, cron>>
    PROVE  WellFormed'
<1>1. CountedOnce'
    BY DEF WellFormed, CountedOnce
<1> QED BY <1>1, DeskReplaced, JobsStaySound, CronStaysSound DEF WellFormed

LEMMA IdleDeskSound == SoundDesk(IdleDesk)'
BY DEF SoundDesk, IdleDesk, DeskRecords

LEMMA CallSound ==
    ASSUME WellFormed, NEW d \in Desks, NEW a \in Ids, NEW stage \in {"override", "release"},
           NEW row \in Rows \cup {NoRow}, stage = "override" => row \in Rows,
           Call(d, stage, a, row)
    PROVE  WellFormed'
<1>1. SoundTables /\ CopyOf(a) \in Copies /\ Faithful(CopyOf(a))
    BY CopyIsFaithful DEF WellFormed
<1>2. PICK k : k = [stage |-> stage, copy |-> CopyOf(a), substitute |-> row]
    OBVIOUS
<1>3. Remembers
    BY NothingForgotten DEF Call, tables
<1>4. Faithful(CopyOf(a)) => Faithful(CopyOf(a))'
  <2>1. CopyOf(a)' = CopyOf(a)
      BY DEF Call, tables, CopyOf
  <2> QED BY DEF Faithful, Call, tables, Ids, CopyOf
<1>5. SoundDesk(k)'
  <2>1. k \in DeskRecords /\ k.stage = stage /\ k.substitute = row /\ k.copy = CopyOf(a)
      BY <1>1, <1>2 DEF DeskRecords
  <2>2. Faithful(k.copy)
      BY <1>1, <2>1
  <2>3. Faithful(k.copy)'
      BY <1>3, <2>2, StaysFaithful
  <2> QED BY <2>1, <2>3 DEF SoundDesk
<1>6. SoundTables'
    BY <1>1, BoundAssumption DEF SoundTables, Call, tables, Ids
<1>7. desk' = [desk EXCEPT ![d] = k]
    BY <1>2 DEF Call
<1> QED BY <1>3, <1>5, <1>6, <1>7, DeskActs DEF Call

LEMMA CommitOverrideSound ==
    ASSUME WellFormed, NEW d \in Desks, CommitOverride(d)
    PROVE  WellFormed'
<1>1. PICK copy, row : copy = desk[d].copy /\ row = desk[d].substitute
    OBVIOUS
<1>2. /\ SoundTables /\ Faithful(copy) /\ copy \in Copies /\ copy.id \in Ids
      /\ copy.row \in Rows /\ copy.quantity \in Nat /\ row \in Rows
    BY <1>1 DEF WellFormed, SoundDesks, SoundDesk, CommitOverride, Faithful, Copies
<1>3. allocs[copy.id] \in AllocRecords
    BY <1>2 DEF SoundTables, Ids
<1>4. PICK r : r = [allocs[copy.id] EXCEPT !.row = row, !.status = "HARD_ALLOCATED"]
    OBVIOUS
<1>5. /\ r \in AllocRecords /\ r.row = row /\ r.quantity = allocs[copy.id].quantity
      /\ r.line = allocs[copy.id].line
    BY <1>2, <1>3, <1>4 DEF AllocRecords, Statuses
<1>6. allocs' = [allocs EXCEPT ![copy.id] = r]
    BY <1>1, <1>4 DEF CommitOverride
<1>7. /\ allocs' \in Seq(AllocRecords) /\ Len(allocs') = Len(allocs) /\ Ids' = Ids
      /\ \A a \in Ids \ {copy.id} : allocs'[a] = allocs[a]
      /\ allocs'[copy.id] = r
    BY <1>2, <1>5, <1>6, Replaced DEF SoundTables
<1>8. substituted' = substituted \cup {row}
    BY <1>1 DEF CommitOverride
<1>9. Remembers
    BY <1>5, <1>7, <1>8 DEF Remembers
<1>10. allocated' \in [Rows -> Int] /\ posted' \in [Rows -> Nat]
    BY <1>1, <1>2 DEF CommitOverride, Decremented, SoundTables
<1>11. SoundTables'
    BY <1>2, <1>7, <1>8, <1>10 DEF SoundTables, CommitOverride
<1> QED BY <1>9, <1>11, IdleDeskSound, DeskActs DEF CommitOverride

LEMMA MarkReleasedSound ==
    ASSUME WellFormed, NEW d \in Desks, MarkReleased(d)
    PROVE  WellFormed'
<1>1. SoundTables /\ desk[d].copy.id \in Ids
    BY DEF WellFormed, SoundDesks, SoundDesk, MarkReleased, Faithful
<1>2. /\ allocs' \in Seq(AllocRecords) /\ Len(allocs') = Len(allocs) /\ Ids' = Ids
      /\ Remembers
    BY <1>1, StatusRemembered DEF MarkReleased, Statuses, SoundTables
<1>3. SoundTables'
    BY <1>1, <1>2 DEF SoundTables, MarkReleased
<1> QED BY <1>2, <1>3, IdleDeskSound, DeskActs DEF MarkReleased

LEMMA DeskStepSound ==
    ASSUME WellFormed, NEW d \in Desks, DeskStep(d)
    PROVE  WellFormed'
<1>1. /\ SoundTables /\ desk \in [Desks -> DeskRecords]
      /\ SoundDesk(desk[d]) /\ desk[d] \in DeskRecords
    BY DEF WellFormed, SoundDesks
<1>2. CASE StartOverride(d)
    BY <1>2, CallSound DEF StartOverride
<1>3. CASE StartRelease(d)
    BY <1>3, CallSound DEF StartRelease
<1>4. CASE CheckSubstitute(d)
  <2>1. PICK k : k = [desk[d] EXCEPT !.stage = "checked"]
      OBVIOUS
  <2>2. /\ k \in DeskRecords /\ k.copy = desk[d].copy /\ k.substitute = desk[d].substitute
        /\ Faithful(k.copy) /\ k.substitute \in Rows
      BY <1>1, <1>4, <2>1 DEF DeskRecords, SoundDesk, CheckSubstitute
  <2>3. Remembers
      BY <1>4, NothingForgotten DEF CheckSubstitute, tables
  <2>4. SoundDesk(k)'
      BY <2>2, <2>3, StaysFaithful DEF SoundDesk
  <2>5. SoundTables'
      BY <1>1, <1>4 DEF SoundTables, CheckSubstitute, tables, Ids
  <2>6. desk' = [desk EXCEPT ![d] = k]
      BY <1>4, <2>1 DEF CheckSubstitute
  <2> QED BY <1>4, <2>3, <2>4, <2>5, <2>6, DeskActs DEF CheckSubstitute
<1>5. CASE CommitOverride(d)
    BY <1>5, CommitOverrideSound
<1>6. CASE GiveBack(d)
  <2>1. PICK k : k = [desk[d] EXCEPT !.stage = "given_back"]
      OBVIOUS
  <2>2. /\ k \in DeskRecords /\ k.copy = desk[d].copy /\ k.stage = "given_back"
        /\ Faithful(k.copy) /\ desk[d].copy \in Copies
      BY <1>1, <1>6, <2>1 DEF DeskRecords, SoundDesk, GiveBack, Faithful
  <2>3. Remembers
      BY <1>6, NothingForgotten DEF GiveBack
  <2>4. SoundDesk(k)'
      BY <2>2, <2>3, StaysFaithful DEF SoundDesk
  <2>5. desk[d].copy.quantity \in Nat
      BY <2>2 DEF Copies
  <2>6. allocated' \in [Rows -> Int]
      BY <1>1, <1>6, <2>5 DEF GiveBack, Decremented, SoundTables
  <2>7. SoundTables'
      BY <1>1, <1>6, <2>6 DEF SoundTables, GiveBack, Ids
  <2>8. desk' = [desk EXCEPT ![d] = k]
      BY <1>6, <2>1 DEF GiveBack
  <2> QED BY <1>6, <2>3, <2>4, <2>7, <2>8, DeskActs DEF GiveBack
<1>7. CASE MarkReleased(d)
    BY <1>7, MarkReleasedSound
<1>8. CASE Hangup(d)
  <2>1. Remembers
      BY <1>8, NothingForgotten DEF Hangup, tables
  <2>2. SoundTables'
      BY <1>1, <1>8 DEF SoundTables, Hangup, tables, Ids
  <2> QED BY <1>8, <2>1, <2>2, IdleDeskSound, DeskActs DEF Hangup
<1> QED BY <1>2, <1>3, <1>4, <1>5, <1>6, <1>7, <1>8 DEF DeskStep
--------------------------------------------------------------------------------
LEMMA InitSound == Init => WellFormed
<1> SUFFICES ASSUME Init PROVE WellFormed
    OBVIOUS
<1>1. SoundTables
  <2>1. allocs \in Seq(AllocRecords) /\ Len(allocs) = 0
      BY DEF Init
  <2>2. /\ allocated \in [Rows -> Int] /\ posted \in [Rows -> Nat]
        /\ lineStatus \in [Lines -> {"CREATED", "ALLOCATED"}]
        /\ orderStatus \in [Orders -> {"VALIDATED", "ALLOCATED"}]
      BY DEF Init
  <2>3. 0 <= MaxAllocs /\ calls \in 0 .. MaxCalls
      BY BoundAssumption DEF Init
  <2>4. /\ overdue \in SUBSET Ids /\ substituted \in SUBSET Rows /\ disturbed \in BOOLEAN
      BY DEF Init
  <2> QED BY <2>1, <2>2, <2>3, <2>4 DEF SoundTables
<1>2. ASSUME NEW o \in Orders PROVE SoundJob(o, job[o]) /\ job[o].stage = "waiting"
    BY BoundAssumption DEF Init, SoundJob, NewJob, JobRecords, JobStages
<1>3. SoundJobs /\ CountedOnce
  <2>1. \A o \in Orders : job[o] \in JobRecords
      BY <1>2 DEF SoundJob
  <2> QED BY <1>2, <2>1 DEF Init, SoundJobs, CountedOnce
<1>4. SoundCron
    BY DEF Init, SoundCron
<1>5. SoundDesks
    BY DEF Init, SoundDesks, SoundDesk, IdleDesk, DeskRecords
<1> QED BY <1>1, <1>3, <1>4, <1>5 DEF WellFormed

LEMMA StutterSound ==
    ASSUME WellFormed, UNCHANGED vars
    PROVE  WellFormed'
<1>1. Remembers
    BY NothingForgotten DEF vars
<1>2. SoundTables' /\ CountedOnce'
    BY DEF WellFormed, SoundTables, CountedOnce, vars, Ids
<1> QED BY <1>1, <1>2, JobsStaySound, CronStaysSound, DesksStaySound DEF WellFormed, vars

LEMMA ElapseSound ==
    ASSUME WellFormed, NEW a \in AllocIds, Elapse(a)
    PROVE  WellFormed'
<1>1. Remembers
    BY NothingForgotten DEF Elapse, tables
<1>2. SoundTables' /\ CountedOnce'
    BY DEF WellFormed, SoundTables, CountedOnce, Elapse, tables, Ids
<1> QED BY <1>1, <1>2, JobsStaySound, CronStaysSound, DesksStaySound DEF WellFormed, Elapse

LEMMA StepSound == WellFormed /\ [Next]_vars => WellFormed'
BY JobStepSound, CronStepSound, DeskStepSound, ElapseSound, StutterSound DEF Next

(* Whatever is interleaved, retried or cut short, the tables and what every   *)
(* actor remembers keep their types: above all, no job takes more of a line   *)
(* than remained of it.                                                       *)
THEOREM TypeCorrect == Spec => []TypeOK
<1>1. WellFormed => TypeOK
    BY DEF WellFormed, SoundTables, SoundJobs, SoundCron, SoundDesks, TypeOK
<1> QED BY <1>1, InitSound, StepSound, PTL DEF Spec
--------------------------------------------------------------------------------
(* The units of the allocations S of a table.                                 *)
UnitsIn(table, S) == UNION {{a} \X (1 .. table[a].quantity) : a \in S}

LEMMA UpTo ==
    ASSUME NEW n \in Nat
    PROVE  IsFiniteSet(1 .. n) /\ Cardinality(1 .. n) = n
<1>1. IsFiniteSet(1 .. n) /\ Cardinality(1 .. n) = IF 1 > n THEN 0 ELSE n - 1 + 1
    BY FS_Interval
<1> QED BY <1>1

LEMMA TableUnitsFinite ==
    ASSUME NEW table \in Seq(AllocRecords), NEW S \in SUBSET (1 .. Len(table))
    PROVE  IsFiniteSet(UnitsIn(table, S)) /\ Cardinality(UnitsIn(table, S)) \in Nat
<1>1. IsFiniteSet(S)
  <2>1. IsFiniteSet(1 .. Len(table))
      BY UpTo
  <2> QED BY <2>1, FS_Subset
<1>2. \A a \in S : table[a].quantity \in Nat
  <2>1. \A a \in S : table[a] \in AllocRecords
      OBVIOUS
  <2> QED BY <2>1 DEF AllocRecords
<1>3. PICK T : T = {{a} \X (1 .. table[a].quantity) : a \in S}
    OBVIOUS
<1>4. PICK f : f = [a \in S |-> {a} \X (1 .. table[a].quantity)]
    OBVIOUS
<1>5. f \in Surjection(S, T)
    BY <1>3, <1>4 DEF Surjection
<1>6. IsFiniteSet(T)
    BY <1>1, <1>5, FS_Surjection
<1>7. ASSUME NEW t \in T PROVE IsFiniteSet(t)
  <2>1. PICK a \in S : t = {a} \X (1 .. table[a].quantity)
      BY <1>3, <1>7
  <2>2. IsFiniteSet({a}) /\ IsFiniteSet(1 .. table[a].quantity)
      BY <1>2, UpTo, FS_Singleton
  <2> QED BY <2>1, <2>2, FS_Product
<1>8. UnitsIn(table, S) = UNION T
    BY <1>3 DEF UnitsIn
<1> QED BY <1>6, <1>7, <1>8, FS_UNION, FS_CardinalityType

LEMMA TableUnitsAdded ==
    ASSUME NEW table \in Seq(AllocRecords), NEW S \in SUBSET (1 .. Len(table)),
           NEW i \in (1 .. Len(table)) \ S
    PROVE  Cardinality(UnitsIn(table, S \cup {i})) =
               Cardinality(UnitsIn(table, S)) + table[i].quantity
<1>1. PICK q : q = table[i].quantity
    OBVIOUS
<1>2. q \in Nat
  <2>1. table[i] \in AllocRecords
      OBVIOUS
  <2> QED BY <1>1, <2>1 DEF AllocRecords
<1>3. PICK U : U = {i} \X (1 .. q)
    OBVIOUS
<1>4. IsFiniteSet(U) /\ Cardinality(U) = q
  <2>1. IsFiniteSet({i}) /\ Cardinality({i}) = 1
      BY FS_Singleton
  <2>2. IsFiniteSet(1 .. q) /\ Cardinality(1 .. q) = q
      BY <1>2, UpTo
  <2>3. IsFiniteSet(U) /\ Cardinality(U) = 1 * q
      BY <1>3, <2>1, <2>2, FS_Product
  <2> QED BY <1>2, <2>3
<1>5. UnitsIn(table, S \cup {i}) = UnitsIn(table, S) \cup U
    BY <1>1, <1>3 DEF UnitsIn
<1>6. UnitsIn(table, S) \cap U = {}
    BY <1>3 DEF UnitsIn
<1>7. IsFiniteSet(UnitsIn(table, S)) /\ Cardinality(UnitsIn(table, S)) \in Nat
    BY TableUnitsFinite
<1>8. Cardinality(UnitsIn(table, S) \cup U) =
          Cardinality(UnitsIn(table, S)) + Cardinality(U) - 0
    BY <1>4, <1>6, <1>7, FS_Union, FS_EmptySet
<1>9. Cardinality(UnitsIn(table, S \cup {i})) = Cardinality(UnitsIn(table, S) \cup U)
    BY <1>5
<1> QED BY <1>1, <1>2, <1>4, <1>7, <1>8, <1>9

LEMMA Quantities ==
    ASSUME SoundTables
    PROVE  \A a \in Ids : allocs[a] \in AllocRecords /\ allocs[a].quantity \in Nat \ {0}
<1>1. \A a \in Ids : allocs[a] \in AllocRecords
    BY DEF SoundTables, Ids
<1> QED BY <1>1 DEF AllocRecords

LEMMA UnitsFinite ==
    ASSUME SoundTables, NEW S \in SUBSET Ids
    PROVE  IsFiniteSet(Units(S)) /\ Cardinality(Units(S)) \in Nat
<1>1. Units(S) = UnitsIn(allocs, S)
    BY DEF Units, UnitsIn
<1> QED BY <1>1, TableUnitsFinite DEF SoundTables, Ids

LEMMA UnitsAdded ==
    ASSUME SoundTables, NEW S \in SUBSET Ids, NEW i \in Ids \ S
    PROVE  Cardinality(Units(S \cup {i})) = Cardinality(Units(S)) + allocs[i].quantity
<1>1. Units(S) = UnitsIn(allocs, S) /\ Units(S \cup {i}) = UnitsIn(allocs, S \cup {i})
    BY DEF Units, UnitsIn
<1> QED BY <1>1, TableUnitsAdded DEF SoundTables, Ids

LEMMA UnitsRemoved ==
    ASSUME SoundTables, NEW S \in SUBSET Ids, NEW i \in S
    PROVE  Cardinality(Units(S \ {i})) = Cardinality(Units(S)) - allocs[i].quantity
<1>1. S = (S \ {i}) \cup {i} /\ S \ {i} \in SUBSET Ids /\ i \in Ids \ (S \ {i})
    OBVIOUS
<1>2. Cardinality(Units(S)) = Cardinality(Units(S \ {i})) + allocs[i].quantity
    BY <1>1, UnitsAdded
<1>3. Cardinality(Units(S \ {i})) \in Nat /\ allocs[i].quantity \in Nat
    BY UnitsFinite, Quantities
<1> QED BY <1>2, <1>3

LEMMA UnitsMonotone ==
    ASSUME SoundTables, NEW T \in SUBSET Ids, NEW S \in SUBSET T
    PROVE  Cardinality(Units(S)) <= Cardinality(Units(T))
<1>1. IsFiniteSet(Units(T))
    BY UnitsFinite
<1>2. Units(S) \in SUBSET Units(T)
    BY DEF Units
<1> QED BY <1>1, <1>2, FS_Subset

LEMMA UnitsAppended ==
    ASSUME SoundTables', Remembers, NEW S \in SUBSET Ids, NEW i \in Ids' \ Ids
    PROVE  Cardinality(Units(S \cup {i}))' = Cardinality(Units(S)) + allocs'[i].quantity
<1>1. PICK table : table = allocs'
    OBVIOUS
<1>2. table \in Seq(AllocRecords) /\ Ids' = 1 .. Len(table) /\ Ids \subseteq Ids'
    BY <1>1 DEF SoundTables, Ids, Remembers
<1>3. Cardinality(UnitsIn(table, S \cup {i})) =
          Cardinality(UnitsIn(table, S)) + table[i].quantity
    BY <1>2, TableUnitsAdded
<1>4. Units(S \cup {i})' = UnitsIn(table, S \cup {i})
    BY <1>1 DEF Units, UnitsIn
<1>5. UnitsIn(table, S) = Units(S)
    BY <1>1 DEF Units, UnitsIn, Remembers
<1> QED BY <1>1, <1>3, <1>4, <1>5

(* Allocations keep their units. *)
LEMMA UnitsRemembered ==
    ASSUME Remembers, NEW S \in SUBSET Ids
    PROVE  Units(S)' = Units(S)
<1>1. \A a \in S : allocs'[a].quantity = allocs[a].quantity
    BY DEF Remembers
<1> QED BY <1>1 DEF Units
--------------------------------------------------------------------------------
(* What the attempts of a job have taken of a line, and may still take.       *)
Accounted(l, j, taken) ==
    LET limit == Requested[l] * j.attempts
    IN  /\ taken <= limit
        /\ l \in j.lines => taken + Requested[l] <= limit
        /\ l = j.line => l \notin j.lines
        /\ j.stage = "stock" /\ j.line = l =>
              /\ taken + j.remaining <= limit
              /\ taken + j.remaining >= Requested[l]
        /\ j.stage = "counting" /\ j.line = l =>
              /\ taken + j.remaining <= limit + j.current.quantity
              /\ taken + j.remaining >= Requested[l] + j.current.quantity

LinesAccounted ==
    \A l \in Lines :
        /\ Accounted(l, job[OrderOf[l]], Taken(l))
        /\ lineStatus[l] = "ALLOCATED" => Taken(l) >= Requested[l]

LEMMA TakenTyped ==
    ASSUME SoundTables, NEW l \in Lines
    PROVE  Taken(l) \in Nat
BY UnitsFinite DEF Taken, AllocsOf

LEMMA TakenKept ==
    ASSUME Remembers, Ids' = Ids, NEW l \in Lines
    PROVE  Taken(l)' = Taken(l)
<1>1. AllocsOf(l)' = AllocsOf(l)
    BY DEF AllocsOf, Remembers
<1>2. PICK S \in SUBSET Ids : S = AllocsOf(l)
    BY DEF AllocsOf
<1>3. Units(S)' = Units(S)
    BY UnitsRemembered
<1> QED BY <1>1, <1>2, <1>3 DEF Taken, Units

LEMMA Attempted ==
    ASSUME NEW r \in Nat, NEW k \in Nat
    PROVE  r * k \in Nat /\ r * (k + 1) = r * k + r
OBVIOUS

(* A job that does not turn to another line accounts for its lines as before. *)
LEMMA JobAccounts ==
    ASSUME SoundJobs, LinesAccounted, NEW o \in Orders, NEW j \in JobRecords,
           job' = [job EXCEPT ![o] = j],
           \A l \in LinesOf(o) : Accounted(l, job[o], Taken(l)) => Accounted(l, j, Taken(l)'),
           \A l \in Lines \ LinesOf(o) : Taken(l)' = Taken(l),
           \A l \in Lines : lineStatus'[l] = "ALLOCATED" => Taken(l)' >= Requested[l]
    PROVE  LinesAccounted'
<1>1. \A p \in Orders : job'[p] = IF p = o THEN j ELSE job[p]
    BY DEF SoundJobs
<1>2. ASSUME NEW l \in Lines PROVE Accounted(l, job'[OrderOf[l]], Taken(l)')
  <2>1. OrderOf[l] \in Orders /\ (OrderOf[l] = o <=> l \in LinesOf(o))
      BY OrderAssumption DEF LinesOf
  <2>2. Accounted(l, job[OrderOf[l]], Taken(l))
      BY DEF LinesAccounted
  <2>3. CASE OrderOf[l] = o
      BY <1>1, <2>1, <2>2, <2>3
  <2>4. CASE OrderOf[l] # o
      BY <1>1, <2>1, <2>2, <2>4
  <2> QED BY <2>3, <2>4
<1> QED BY <1>2 DEF LinesAccounted, Accounted

LEMMA AccountsKept ==
    ASSUME SoundTables, LinesAccounted, Remembers, Ids' = Ids, UNCHANGED <<job, lineStatus>>
    PROVE  LinesAccounted'
<1>1. \A l \in Lines : Taken(l)' = Taken(l)
    BY TakenKept
<1> QED BY <1>1 DEF LinesAccounted, Accounted

LEMMA StartAccounts ==
    ASSUME WellFormed, LinesAccounted, NEW o \in Orders, Start(o)
    PROVE  LinesAccounted'
<1>1. SoundTables /\ SoundJobs /\ job[o] \in JobRecords /\ job[o].attempts \in Nat
    BY DEF WellFormed, SoundJobs, JobRecords
<1>2. PICK lines : lines = {l \in LinesOf(o) : lineStatus[l] \in {"ALLOCATED", "CREATED"}}
    OBVIOUS
<1>3. PICK j : j = [NewJob EXCEPT !.stage = "lines", !.attempts = job[o].attempts + 1,
                                  !.lines = lines]
    OBVIOUS
<1>4. /\ job' = [job EXCEPT ![o] = j] /\ j.stage = "lines" /\ j.line = NoLine
      /\ j.lines = lines /\ j.attempts = job[o].attempts + 1
    BY <1>2, <1>3 DEF Start, NewJob
<1>5. j \in JobRecords
  <2>1. SoundJobs'
      BY StartSound DEF WellFormed
  <2> QED BY <1>1, <1>4, <2>1 DEF SoundJobs
<1>6. \A l \in Lines : Taken(l)' = Taken(l)
    BY NothingForgotten, TakenKept DEF Start, tables, Ids
<1>7. ASSUME NEW l \in LinesOf(o), Accounted(l, job[o], Taken(l)) PROVE Accounted(l, j, Taken(l))
  <2>1. Taken(l) \in Nat /\ Requested[l] \in Nat /\ l # NoLine
      BY <1>1, TakenTyped, QuantityAssumption, NothingAssumption DEF LinesOf
  <2>2. /\ Requested[l] * job[o].attempts \in Nat
        /\ Requested[l] * j.attempts = Requested[l] * job[o].attempts + Requested[l]
      BY <1>1, <1>4, <2>1, Attempted
  <2>3. Taken(l) <= Requested[l] * job[o].attempts
      BY <1>7 DEF Accounted
  <2>4. Taken(l) + Requested[l] <= Requested[l] * j.attempts
      BY <2>1, <2>2, <2>3
  <2>5. Taken(l) <= Requested[l] * j.attempts
      BY <2>1, <2>2, <2>3
  <2> QED BY <1>4, <2>1, <2>4, <2>5 DEF Accounted
<1>8. lineStatus' = lineStatus
    BY DEF Start, tables
<1> QED BY <1>1, <1>4, <1>5, <1>6, <1>7, <1>8, JobAccounts DEF LinesAccounted, LinesOf

LEMMA ReadStockAccounts ==
    ASSUME WellFormed, LinesAccounted, NEW o \in Orders, ReadStock(o)
    PROVE  LinesAccounted'
<1>1. /\ SoundTables /\ SoundJobs /\ job[o] \in JobRecords /\ job[o].attempts \in Nat
      /\ job[o].lines \subseteq LinesOf(o)
    BY DEF WellFormed, SoundJobs, SoundJob, JobRecords
<1>2. PICK m, offers :
          /\ m \in job[o].lines
          /\ job' = [job EXCEPT
               ![o].stage = "stock", ![o].lines = @ \ {m}, ![o].line = m,
               ![o].remaining = Requested[m], ![o].offers = offers]
    BY DEF ReadStock
<1>3. PICK j : j = [job[o] EXCEPT !.stage = "stock", !.lines = @ \ {m}, !.line = m,
                    !.remaining = Requested[m], !.offers = offers]
    OBVIOUS
<1>4. job' = [job EXCEPT ![o] = j]
    BY <1>2, <1>3
<1>5. j \in JobRecords
  <2>1. SoundJobs'
      BY ReadStockSound DEF WellFormed
  <2> QED BY <1>1, <1>4, <2>1 DEF SoundJobs
<1>6. /\ j.stage = "stock" /\ j.lines = job[o].lines \ {m} /\ j.line = m
      /\ j.remaining = Requested[m] /\ j.attempts = job[o].attempts
    BY <1>1, <1>3 DEF JobRecords
<1>7. \A l \in Lines : Taken(l)' = Taken(l)
    BY NothingForgotten, TakenKept DEF ReadStock, tables, Ids
<1>8. ASSUME NEW l \in LinesOf(o), Accounted(l, job[o], Taken(l)) PROVE Accounted(l, j, Taken(l))
  <2>1. Taken(l) \in Nat /\ Requested[l] \in Nat
      BY <1>1, TakenTyped, QuantityAssumption DEF LinesOf
  <2> QED BY <1>2, <1>6, <1>8, <2>1 DEF Accounted
<1>9. lineStatus' = lineStatus
    BY DEF ReadStock, tables
<1> QED BY <1>1, <1>4, <1>5, <1>7, <1>8, <1>9, JobAccounts DEF LinesAccounted, LinesOf

LEMMA CreateAllocationAccounts ==
    ASSUME WellFormed, LinesAccounted, NEW o \in Orders, CreateAllocation(o)
    PROVE  LinesAccounted'
<1>1. /\ SoundTables /\ SoundJobs /\ SoundJob(o, job[o]) /\ job[o] \in JobRecords
      /\ job[o].stage = "stock" /\ job[o].line \in LinesOf(o) /\ job[o].remaining \in Nat
    BY DEF WellFormed, SoundJobs, SoundJob, JobRecords, CreateAllocation
<1>2. PICK offer, take :
          /\ offer \in job[o].offers
          /\ take = Smaller(offer.available, job[o].remaining)
          /\ allocs' = Append(allocs, SoftAllocation(o, offer.row, take))
          /\ job' = [job EXCEPT
               ![o].stage = "counting", ![o].offers = @ \ {offer},
               ![o].current = [id |-> Len(allocs) + 1, row |-> offer.row, quantity |-> take]]
    BY DEF CreateAllocation
<1>3. /\ offer.row \in Rows /\ offer.available \in Nat \ {0} /\ job[o].remaining > 0
      /\ job[o].line \in Lines
    BY <1>1, <1>2 DEF SoundJob, JobRecords, Offers, CreateAllocation, LinesOf
<1>4. take \in Nat \ {0} /\ take <= job[o].remaining
    BY <1>1, <1>2, <1>3 DEF Smaller
<1>5. PICK r : r = SoftAllocation(o, offer.row, take)
    OBVIOUS
<1>6. r \in AllocRecords /\ r.line = job[o].line /\ r.quantity = take
    BY <1>3, <1>4, <1>5 DEF SoftAllocation, AllocRecords, Statuses
<1>7. PICK i : i = Len(allocs) + 1
    OBVIOUS
<1>8. i \notin Ids
    BY <1>1, <1>7 DEF SoundTables, Ids
<1>9. /\ Ids' = Ids \cup {i} /\ \A a \in Ids : allocs'[a] = allocs[a]
      /\ allocs'[i] = r /\ Remembers
    BY <1>1, <1>2, <1>5, <1>6, <1>7, Appended DEF CreateAllocation, SoundTables
<1>10. SoundTables' /\ SoundJobs'
    BY CreateAllocationSound DEF WellFormed
<1>11. ASSUME NEW l \in Lines
       PROVE  Taken(l)' = IF l = job[o].line THEN Taken(l) + take ELSE Taken(l)
  <2>1. PICK S \in SUBSET Ids : S = AllocsOf(l)
      BY DEF AllocsOf
  <2>2. Units(S)' = Units(S)
      BY <1>9, UnitsRemembered
  <2>3. CASE l # job[o].line
    <3>1. AllocsOf(l)' = AllocsOf(l)
        BY <1>6, <1>8, <1>9, <2>3 DEF AllocsOf
    <3> QED BY <2>1, <2>2, <2>3, <3>1 DEF Taken, Units
  <2>4. CASE l = job[o].line
    <3>1. AllocsOf(l)' = S \cup {i}
        BY <1>6, <1>8, <1>9, <2>1, <2>4 DEF AllocsOf
    <3>2. Cardinality(Units(S \cup {i}))' = Cardinality(Units(S)) + take
        BY <1>6, <1>8, <1>9, <1>10, UnitsAppended
    <3>3. Taken(l)' = Cardinality(Units(S \cup {i}))'
        BY <3>1 DEF Taken, Units
    <3>4. Taken(l) = Cardinality(Units(S))
        BY <2>1 DEF Taken
    <3> QED BY <2>4, <3>2, <3>3, <3>4
  <2> QED BY <2>3, <2>4
<1>12. PICK c : c = [id |-> i, row |-> offer.row, quantity |-> take]
    OBVIOUS
<1>13. PICK j : j = [job[o] EXCEPT !.stage = "counting", !.offers = @ \ {offer}, !.current = c]
    OBVIOUS
<1>14. job' = [job EXCEPT ![o] = j]
    BY <1>2, <1>7, <1>12, <1>13
<1>15. j \in JobRecords
    BY <1>1, <1>10, <1>14 DEF SoundJobs
<1>16. /\ j.stage = "counting" /\ j.lines = job[o].lines /\ j.line = job[o].line
       /\ j.attempts = job[o].attempts /\ j.remaining = job[o].remaining
       /\ j.current.quantity = take
    BY <1>1, <1>12, <1>13 DEF JobRecords
<1>17. ASSUME NEW l \in LinesOf(o), Accounted(l, job[o], Taken(l))
       PROVE  Accounted(l, j, Taken(l)')
  <2>1. Taken(l) \in Nat /\ Requested[l] \in Nat /\ l \in Lines
      BY <1>1, TakenTyped, QuantityAssumption DEF LinesOf
  <2>2. PICK limit : limit = Requested[l] * job[o].attempts
      OBVIOUS
  <2>3. limit \in Nat
    <3>1. job[o].attempts \in Nat
        BY <1>1 DEF JobRecords
    <3> QED BY <2>1, <2>2, <3>1, Attempted
  <2>4. CASE l # job[o].line
      BY <1>11, <1>16, <1>17, <2>1, <2>4 DEF Accounted
  <2>5. CASE l = job[o].line
    <3>1. /\ Taken(l)' = Taken(l) + take
          /\ Taken(l) + job[o].remaining <= limit
          /\ Taken(l) + job[o].remaining >= Requested[l]
          /\ l \notin job[o].lines
        BY <1>1, <1>11, <1>17, <2>1, <2>2, <2>5 DEF Accounted
    <3>2. /\ Taken(l)' <= limit
          /\ Taken(l)' + job[o].remaining <= limit + take
          /\ Taken(l)' + job[o].remaining >= Requested[l] + take
        BY <1>1, <1>4, <2>1, <2>3, <3>1
    <3> QED BY <1>16, <2>2, <2>5, <3>1, <3>2 DEF Accounted
  <2> QED BY <2>4, <2>5
<1>18. ASSUME NEW l \in Lines, lineStatus'[l] = "ALLOCATED" PROVE Taken(l)' >= Requested[l]
  <2>1. Taken(l) >= Requested[l] /\ Taken(l) \in Nat /\ Requested[l] \in Nat
      BY <1>1, <1>18, TakenTyped, QuantityAssumption DEF LinesAccounted, CreateAllocation
  <2>2. Taken(l)' = Taken(l) + take \/ Taken(l)' = Taken(l)
      BY <1>11
  <2> QED BY <1>4, <2>1, <2>2
<1>19. \A l \in Lines \ LinesOf(o) : Taken(l)' = Taken(l)
    BY <1>1, <1>11
<1> QED BY <1>1, <1>14, <1>15, <1>17, <1>18, <1>19, JobAccounts

LEMMA CountAllocationAccounts ==
    ASSUME WellFormed, LinesAccounted, NEW o \in Orders, CountAllocation(o)
    PROVE  LinesAccounted'
<1>1. /\ SoundTables /\ SoundJobs /\ SoundJob(o, job[o]) /\ job[o] \in JobRecords
      /\ job[o].stage = "counting"
    BY DEF WellFormed, SoundJobs, CountAllocation
<1>2. /\ job[o].current.quantity \in Nat /\ job[o].remaining \in Nat
      /\ job[o].attempts \in Nat
    BY <1>1 DEF SoundJob, Faithful, Copies, JobRecords
<1>3. PICK j : j = [job[o] EXCEPT !.stage = "stock", !.current = NoCopy,
                                  !.remaining = @ - job[o].current.quantity]
    OBVIOUS
<1>4. job' = [job EXCEPT ![o] = j]
    BY <1>3 DEF CountAllocation
<1>5. j \in JobRecords
  <2>1. SoundJobs'
      BY CountAllocationSound DEF WellFormed
  <2> QED BY <1>1, <1>4, <2>1 DEF SoundJobs
<1>6. /\ j.stage = "stock" /\ j.lines = job[o].lines /\ j.line = job[o].line
      /\ j.remaining = job[o].remaining - job[o].current.quantity
      /\ j.attempts = job[o].attempts
    BY <1>1, <1>3 DEF JobRecords
<1>7. \A l \in Lines : Taken(l)' = Taken(l)
    BY NothingForgotten, TakenKept DEF CountAllocation, Ids
<1>8. ASSUME NEW l \in LinesOf(o), Accounted(l, job[o], Taken(l)) PROVE Accounted(l, j, Taken(l))
  <2>1. Taken(l) \in Nat /\ Requested[l] \in Nat /\ Requested[l] * job[o].attempts \in Nat
      BY <1>1, <1>2, TakenTyped, QuantityAssumption, Attempted DEF LinesOf
  <2> QED BY <1>1, <1>2, <1>6, <1>8, <2>1 DEF Accounted
<1>9. lineStatus' = lineStatus
    BY DEF CountAllocation
<1> QED BY <1>1, <1>4, <1>5, <1>7, <1>8, <1>9, JobAccounts DEF LinesAccounted, LinesOf

LEMMA FinishLineAccounts ==
    ASSUME WellFormed, LinesAccounted, NEW o \in Orders, FinishLine(o)
    PROVE  LinesAccounted'
<1>1. /\ SoundTables /\ SoundJobs /\ SoundJob(o, job[o]) /\ job[o] \in JobRecords
      /\ job[o].stage = "stock" /\ job[o].line \in LinesOf(o) /\ job[o].remaining \in Nat
    BY DEF WellFormed, SoundJobs, SoundJob, FinishLine, JobRecords
<1>2. PICK j : j = [job[o] EXCEPT !.stage = "lines", !.offers = {}, !.line = NoLine,
                                  !.remaining = 0]
    OBVIOUS
<1>3. job' = [job EXCEPT ![o] = j]
    BY <1>2 DEF FinishLine
<1>4. j \in JobRecords
  <2>1. SoundJobs'
      BY FinishLineSound DEF WellFormed
  <2> QED BY <1>1, <1>3, <2>1 DEF SoundJobs
<1>5. /\ j.stage = "lines" /\ j.lines = job[o].lines /\ j.line = NoLine
      /\ j.attempts = job[o].attempts
    BY <1>1, <1>2 DEF JobRecords
<1>6. \A l \in Lines : Taken(l)' = Taken(l)
    BY NothingForgotten, TakenKept DEF FinishLine, Ids
<1>7. \A l \in LinesOf(o) : Accounted(l, job[o], Taken(l)) => Accounted(l, j, Taken(l))
    BY <1>5, NothingAssumption DEF Accounted, LinesOf
<1>8. ASSUME NEW l \in Lines, lineStatus'[l] = "ALLOCATED" PROVE Taken(l) >= Requested[l]
  <2>1. CASE lineStatus[l] = "ALLOCATED"
      BY <2>1 DEF LinesAccounted
  <2>2. CASE l = job[o].line /\ job[o].remaining <= 0
    <3>1. Taken(l) + job[o].remaining >= Requested[l]
        BY <1>1, <2>2, OrderAssumption DEF LinesAccounted, Accounted, LinesOf
    <3> QED BY <1>1, <2>2, <3>1, TakenTyped, QuantityAssumption
  <2> QED BY <1>1, <1>8, <2>1, <2>2 DEF FinishLine, SoundTables
<1>9. /\ \A l \in LinesOf(o) : Accounted(l, job[o], Taken(l)) => Accounted(l, j, Taken(l)')
      /\ \A l \in Lines : lineStatus'[l] = "ALLOCATED" => Taken(l)' >= Requested[l]
    BY <1>6, <1>7, <1>8 DEF LinesOf
<1> QED BY <1>1, <1>3, <1>4, <1>6, <1>9, JobAccounts

(* A step of a job that leaves its line alone. *)
LEMMA JobAccountsAlike ==
    ASSUME WellFormed, WellFormed', LinesAccounted, NEW o \in Orders, NEW j,
           job' = [job EXCEPT ![o] = j], j.stage \notin {"stock", "counting"},
           j.attempts = job[o].attempts, j.lines \subseteq job[o].lines,
           j.line \in {job[o].line, NoLine},
           Remembers, Ids' = Ids, UNCHANGED lineStatus
    PROVE  LinesAccounted'
<1>1. /\ SoundTables /\ SoundJobs /\ SoundJobs'
    BY DEF WellFormed
<1>2. j \in JobRecords
    BY <1>1 DEF SoundJobs
<1>3. \A l \in Lines : Taken(l)' = Taken(l)
    BY TakenKept
<1>4. \A l \in LinesOf(o) : Accounted(l, job[o], Taken(l)) => Accounted(l, j, Taken(l))
    BY NothingAssumption DEF Accounted, LinesOf
<1>5. \A l \in Lines : lineStatus'[l] = "ALLOCATED" => Taken(l) >= Requested[l]
    BY DEF LinesAccounted
<1>6. /\ \A l \in LinesOf(o) : Accounted(l, job[o], Taken(l)) => Accounted(l, j, Taken(l)')
      /\ \A l \in Lines : lineStatus'[l] = "ALLOCATED" => Taken(l)' >= Requested[l]
    BY <1>3, <1>4, <1>5 DEF LinesOf
<1> QED BY <1>1, <1>2, <1>3, <1>6, JobAccounts

LEMMA JobStepAccounts ==
    ASSUME WellFormed, LinesAccounted, NEW o \in Orders, JobStep(o)
    PROVE  LinesAccounted'
<1>1. /\ WellFormed' /\ job[o] \in JobRecords /\ SoundTables /\ SoundJob(o, job[o])
    BY JobStepSound DEF WellFormed, SoundJobs
<1>2. CASE SyncOrderStatus(o)
  <2>1. PICK s : s = IF o \in HardOrders THEN "soft_done" ELSE "done"
      OBVIOUS
  <2>2. PICK j : j = [job[o] EXCEPT !.stage = s]
      OBVIOUS
  <2>3. /\ j.stage \notin {"stock", "counting"} /\ j.attempts = job[o].attempts
        /\ j.lines = job[o].lines /\ j.line = job[o].line
      BY <1>1, <2>1, <2>2 DEF JobRecords
  <2>4. Remembers /\ Ids' = Ids
      BY <1>2, NothingForgotten DEF SyncOrderStatus, Ids
  <2>5. job' = [job EXCEPT ![o] = j] /\ lineStatus' = lineStatus
      BY <1>2, <2>1, <2>2 DEF SyncOrderStatus
  <2> QED BY <1>1, <2>3, <2>4, <2>5, JobAccountsAlike
<1>3. CASE ReadSoft(o)
  <2>1. PICK copies : copies = {CopyOf(a) : a \in SoftOf(o)}
      OBVIOUS
  <2>2. PICK j : j = [job[o] EXCEPT !.stage = "hard", !.copies = copies]
      OBVIOUS
  <2>3. /\ j.stage = "hard" /\ j.attempts = job[o].attempts
        /\ j.lines = job[o].lines /\ j.line = job[o].line
      BY <1>1, <2>2 DEF JobRecords
  <2>4. Remembers /\ Ids' = Ids
      BY <1>3, NothingForgotten DEF ReadSoft, tables, Ids
  <2>5. job' = [job EXCEPT ![o] = j] /\ lineStatus' = lineStatus
      BY <1>3, <2>1, <2>2 DEF ReadSoft, tables
  <2> QED BY <1>1, <2>3, <2>4, <2>5, JobAccountsAlike
<1>4. CASE CheckStock(o)
  <2>1. PICK copy \in job[o].copies :
            job' = [job EXCEPT ![o].stage = "locking", ![o].current = copy,
                               ![o].copies = @ \ {copy}]
      BY <1>4 DEF CheckStock
  <2>2. PICK j : j = [job[o] EXCEPT !.stage = "locking", !.current = copy, !.copies = @ \ {copy}]
      OBVIOUS
  <2>3. /\ j.stage = "locking" /\ j.attempts = job[o].attempts
        /\ j.lines = job[o].lines /\ j.line = job[o].line
      BY <1>1, <2>2 DEF JobRecords
  <2>4. Remembers /\ Ids' = Ids
      BY <1>4, NothingForgotten DEF CheckStock, tables, Ids
  <2>5. job' = [job EXCEPT ![o] = j] /\ lineStatus' = lineStatus
      BY <1>4, <2>1, <2>2 DEF CheckStock, tables
  <2> QED BY <1>1, <2>3, <2>4, <2>5, JobAccountsAlike
<1>5. CASE HardLock(o)
  <2>1. PICK j : j = [job[o] EXCEPT !.stage = "hard", !.current = NoCopy]
      OBVIOUS
  <2>2. /\ j.stage = "hard" /\ j.attempts = job[o].attempts
        /\ j.lines = job[o].lines /\ j.line = job[o].line
      BY <1>1, <2>1 DEF JobRecords
  <2>3. job[o].current.id \in Ids
      BY <1>1, <1>5 DEF HardLock, SoundJob, Faithful
  <2>4. Remembers /\ Ids' = Ids
      BY <1>1, <1>5, <2>3, StatusRemembered DEF HardLock, Statuses, SoundTables
  <2>5. job' = [job EXCEPT ![o] = j] /\ lineStatus' = lineStatus
      BY <1>5, <2>1 DEF HardLock
  <2> QED BY <1>1, <2>2, <2>4, <2>5, JobAccountsAlike
<1>6. CASE Finish(o)
  <2>1. PICK j : j = [job[o] EXCEPT !.stage = "done"]
      OBVIOUS
  <2>2. /\ j.stage = "done" /\ j.attempts = job[o].attempts
        /\ j.lines = job[o].lines /\ j.line = job[o].line
      BY <1>1, <2>1 DEF JobRecords
  <2>3. Remembers /\ Ids' = Ids
      BY <1>6, NothingForgotten DEF Finish, tables, Ids
  <2>4. job' = [job EXCEPT ![o] = j] /\ lineStatus' = lineStatus
      BY <1>6, <2>1 DEF Finish, tables
  <2> QED BY <1>1, <2>2, <2>3, <2>4, JobAccountsAlike
<1>7. CASE EndAttempt(o) /\ UNCHANGED <<tables, substituted>>
  <2>1. PICK j : j = [NewJob EXCEPT
              !.attempts = job[o].attempts,
              !.stage = IF job[o].attempts < MaxAttempts THEN "waiting" ELSE "failed"]
      OBVIOUS
  <2>2. /\ j.stage \in {"waiting", "failed"} /\ j.attempts = job[o].attempts
        /\ j.lines = {} /\ j.line = NoLine
      BY <2>1 DEF NewJob
  <2>3. Remembers /\ Ids' = Ids
      BY <1>7, NothingForgotten DEF tables, Ids
  <2>4. job' = [job EXCEPT ![o] = j] /\ lineStatus' = lineStatus
      BY <1>7, <2>1 DEF EndAttempt, tables
  <2> QED BY <1>1, <2>2, <2>3, <2>4, JobAccountsAlike
<1>8. CASE InsufficientStock(o) \/ Interrupt(o)
    BY <1>7, <1>8 DEF InsufficientStock, Interrupt
<1> QED
  BY <1>2, <1>3, <1>4, <1>5, <1>6, <1>8, StartAccounts, ReadStockAccounts,
     CreateAllocationAccounts, CountAllocationAccounts, FinishLineAccounts DEF JobStep

LEMMA OtherStepAccounts ==
    ASSUME WellFormed, LinesAccounted,
           \/ \E n \in Nodes : CronStep(n)
           \/ \E d \in Desks : DeskStep(d)
           \/ \E a \in AllocIds : Elapse(a)
           \/ UNCHANGED vars
    PROVE  LinesAccounted'
<1>1. SoundTables
    BY DEF WellFormed
<1>2. CASE UNCHANGED <<allocs, job, lineStatus, substituted>>
    BY <1>1, <1>2, NothingForgotten, AccountsKept DEF Ids
<1>3. ASSUME NEW i \in Ids, NEW s \in Statuses, allocs' = [allocs EXCEPT ![i].status = s],
             UNCHANGED <<job, lineStatus, substituted>>
      PROVE  LinesAccounted'
  <2>1. Remembers /\ Ids' = Ids
      BY <1>1, <1>3, StatusRemembered DEF SoundTables
  <2> QED BY <1>1, <1>3, <2>1, AccountsKept
<1>4. ASSUME NEW n \in Nodes, CronStep(n) PROVE LinesAccounted'
  <2>1. ASSUME NEW copy \in cron[n], CancelExpired(n, copy) PROVE LinesAccounted'
    <3>1. copy.id \in Ids
        BY DEF WellFormed, SoundCron, Faithful
    <3> QED BY <1>3, <2>1, <3>1 DEF CancelExpired, Statuses
  <2> QED BY <1>2, <1>4, <2>1 DEF CronStep, StartReconciliation, SkipExpired, tables
<1>5. ASSUME NEW d \in Desks, CommitOverride(d) PROVE LinesAccounted'
  <2>1. PICK copy, row : copy = desk[d].copy /\ row = desk[d].substitute
      OBVIOUS
  <2>2. copy.id \in Ids /\ row \in Rows
      BY <1>5, <2>1 DEF WellFormed, SoundDesks, SoundDesk, CommitOverride, Faithful
  <2>3. PICK r : r = [allocs[copy.id] EXCEPT !.row = row, !.status = "HARD_ALLOCATED"]
      OBVIOUS
  <2>4. /\ r \in AllocRecords /\ r.row = row /\ r.quantity = allocs[copy.id].quantity
        /\ r.line = allocs[copy.id].line
    <3>1. allocs[copy.id] \in AllocRecords
        BY <1>1, <2>2, Quantities
    <3> QED BY <2>2, <2>3, <3>1 DEF AllocRecords, Statuses
  <2>5. allocs' = [allocs EXCEPT ![copy.id] = r]
      BY <1>5, <2>1, <2>3 DEF CommitOverride
  <2>6. /\ Ids' = Ids /\ \A a \in Ids \ {copy.id} : allocs'[a] = allocs[a]
        /\ allocs'[copy.id] = r
      BY <1>1, <2>2, <2>4, <2>5, Replaced DEF SoundTables
  <2>7. Remembers
    <3>1. substituted' = substituted \cup {row}
        BY <1>5, <2>1 DEF CommitOverride
    <3> QED BY <2>4, <2>6, <3>1 DEF Remembers
  <2>8. UNCHANGED <<job, lineStatus>>
      BY <1>5 DEF CommitOverride
  <2> QED BY <1>1, <2>6, <2>7, <2>8, AccountsKept
<1>6. ASSUME NEW d \in Desks, MarkReleased(d) PROVE LinesAccounted'
  <2>1. desk[d].copy.id \in Ids
      BY <1>6 DEF WellFormed, SoundDesks, SoundDesk, MarkReleased, Faithful
  <2> QED BY <1>3, <1>6, <2>1 DEF MarkReleased, Statuses
<1>7. ASSUME NEW d \in Desks, DeskStep(d) PROVE LinesAccounted'
  <2>1. CASE StartOverride(d) \/ StartRelease(d)
      BY <1>2, <2>1 DEF StartOverride, StartRelease, Call, tables
  <2>2. CASE CheckSubstitute(d) \/ GiveBack(d) \/ Hangup(d)
      BY <1>2, <2>2 DEF CheckSubstitute, GiveBack, Hangup, tables
  <2> QED BY <1>5, <1>6, <1>7, <2>1, <2>2 DEF DeskStep
<1>8. CASE UNCHANGED vars \/ \E a \in AllocIds : Elapse(a)
    BY <1>2, <1>8 DEF vars, Elapse, tables
<1> QED BY <1>4, <1>7, <1>8

LEMMA InitAccounts == Init => LinesAccounted
<1> SUFFICES ASSUME Init PROVE LinesAccounted
    OBVIOUS
<1>1. ASSUME NEW l \in Lines PROVE Taken(l) = 0
  <2>1. Ids = {}
      BY DEF Init, Ids
  <2>2. Units(AllocsOf(l)) = {}
      BY <2>1 DEF AllocsOf, Units
  <2> QED BY <2>2, FS_EmptySet DEF Taken
<1>2. ASSUME NEW l \in Lines PROVE Accounted(l, job[OrderOf[l]], 0)
  <2>1. job[OrderOf[l]] = NewJob
      BY OrderAssumption DEF Init
  <2>2. Requested[l] \in Nat /\ Requested[l] * 0 = 0
      BY QuantityAssumption
  <2> QED BY <2>1, <2>2, NothingAssumption DEF Accounted, NewJob
<1>3. \A l \in Lines : lineStatus[l] # "ALLOCATED"
    BY DEF Init
<1> QED BY <1>1, <1>2, <1>3 DEF LinesAccounted

LEMMA StepAccounts == WellFormed /\ LinesAccounted /\ [Next]_vars => LinesAccounted'
BY JobStepAccounts, OtherStepAccounts DEF Next

(* However often an attempt is repeated, it takes at most what the line asks  *)
(* for: orders never hold more than their attempts account for.               *)
THEOREM RetriesAreBounded == Spec => []RetriesBounded
<1>1. LinesAccounted => RetriesBounded
    BY DEF LinesAccounted, Accounted, RetriesBounded
<1> QED BY <1>1, InitSound, StepSound, InitAccounts, StepAccounts, PTL DEF Spec

(* A line never says ALLOCATED before its allocations cover all of it.        *)
THEOREM AllocatedLinesAreCovered == Spec => []AllocatedInFull
<1>1. LinesAccounted => AllocatedInFull
    BY DEF LinesAccounted, AllocatedInFull
<1> QED BY <1>1, InitSound, StepSound, InitAccounts, StepAccounts, PTL DEF Spec
--------------------------------------------------------------------------------
(* Allocations created and not yet counted, on the row they will be counted.  *)
Counting(row) == {o \in Orders : job[o].stage = "counting" /\ job[o].current.row = row}
Uncounted(row) == {job[o].current.id : o \in Counting(row)}

(* Allocations a desk has given back and not yet marked. *)
GivenBack == {desk[d].copy.id : d \in {d \in Desks : desk[d].stage = "given_back"}}
Kept(row) == HoldersOf(row) \ GivenBack

(* What is counted, or will be, is held by allocations that stay. *)
CountsAreHeld ==
    \A row \in Rows \ substituted :
        allocated[row] + Cardinality(Units(Uncounted(row))) <= Cardinality(Units(Kept(row)))

LEMMA CountsTyped ==
    ASSUME WellFormed, NEW row \in Rows
    PROVE  /\ Uncounted(row) \in SUBSET Ids /\ Kept(row) \in SUBSET Ids
           /\ GivenBack \in SUBSET Ids /\ HoldersOf(row) \in SUBSET Ids
           /\ Cardinality(Units(Uncounted(row))) \in Nat
           /\ Cardinality(Units(Kept(row))) \in Nat
           /\ allocated[row] \in Int
<1>1. Uncounted(row) \in SUBSET Ids
    BY DEF WellFormed, SoundJobs, SoundJob, Uncounted, Counting, Faithful
<1>2. Kept(row) \in SUBSET Ids /\ HoldersOf(row) \in SUBSET Ids
    BY DEF Kept, HoldersOf
<1>3. GivenBack \in SUBSET Ids
    BY DEF WellFormed, SoundDesks, SoundDesk, GivenBack, Faithful
<1>4. SoundTables /\ allocated[row] \in Int
    BY DEF WellFormed, SoundTables
<1> QED BY <1>1, <1>2, <1>3, <1>4, UnitsFinite

(* A step after which no row counts more, and all that was kept is kept.      *)
LEMMA CountsGrow ==
    ASSUME WellFormed, CountsAreHeld, Remembers,
           Ids' = Ids, SoundTables',
           \A row \in Rows \ substituted' :
               /\ allocated'[row] <= allocated[row]
               /\ Uncounted(row)' \subseteq Uncounted(row)
               /\ Kept(row) \subseteq Kept(row)'
    PROVE  CountsAreHeld'
<1> SUFFICES ASSUME NEW row \in Rows \ substituted'
             PROVE  allocated'[row] + Cardinality(Units(Uncounted(row)))'
                        <= Cardinality(Units(Kept(row)))'
    BY DEF CountsAreHeld
<1>1. PICK U, K : U = Uncounted(row)' /\ K = Kept(row)'
    OBVIOUS
<1>2. U \in SUBSET Uncounted(row) /\ Kept(row) \in SUBSET K /\ K \in SUBSET Ids
    BY <1>1 DEF Kept, HoldersOf
<1>3. U \in SUBSET Ids /\ SoundTables
    BY <1>2, CountsTyped DEF WellFormed
<1>4. Cardinality(Units(U)) <= Cardinality(Units(Uncounted(row)))
    BY <1>2, <1>3, CountsTyped, UnitsMonotone
<1>5. Cardinality(Units(Kept(row))) <= Cardinality(Units(K))
    BY <1>2, <1>3, UnitsMonotone
<1>6. Units(Uncounted(row))' = Units(U) /\ Units(Kept(row))' = Units(K)
  <2>1. Units(U)' = Units(U) /\ Units(K)' = Units(K)
      BY <1>2, <1>3, UnitsRemembered
  <2> QED BY <1>1, <2>1 DEF Units
<1>7. allocated[row] + Cardinality(Units(Uncounted(row))) <= Cardinality(Units(Kept(row)))
    BY DEF CountsAreHeld, Remembers
<1>8. /\ Cardinality(Units(U)) \in Nat /\ Cardinality(Units(K)) \in Nat
      /\ Cardinality(Units(Uncounted(row))) \in Nat
      /\ Cardinality(Units(Kept(row))) \in Nat
      /\ allocated[row] \in Int /\ allocated'[row] \in Int
    BY <1>2, <1>3, CountsTyped, UnitsFinite DEF SoundTables
<1>9. allocated'[row] <= allocated[row]
    OBVIOUS
<1> QED BY <1>4, <1>5, <1>6, <1>7, <1>8, <1>9

(* A step that gives up one allocation: where it is held, its quantity is no  *)
(* longer counted.                                                            *)
LEMMA CountsDrop ==
    ASSUME WellFormed, CountsAreHeld, Remembers, Ids' = Ids, SoundTables', NEW i \in Ids,
           \A row \in Rows \ substituted' :
               /\ allocated'[row] <= allocated[row]
               /\ allocs[i].row = row => allocated'[row] = allocated[row] - allocs[i].quantity
               /\ Uncounted(row)' \subseteq Uncounted(row)
               /\ Kept(row) \ {i} \subseteq Kept(row)'
    PROVE  CountsAreHeld'
<1> SUFFICES ASSUME NEW row \in Rows \ substituted'
             PROVE  allocated'[row] + Cardinality(Units(Uncounted(row)))'
                        <= Cardinality(Units(Kept(row)))'
    BY DEF CountsAreHeld
<1>1. PICK U, K : U = Uncounted(row)' /\ K = Kept(row)'
    OBVIOUS
<1>2. /\ U \in SUBSET Uncounted(row) /\ Kept(row) \ {i} \in SUBSET K /\ K \in SUBSET Ids
      /\ Kept(row) \in SUBSET Ids
    BY <1>1 DEF Kept, HoldersOf
<1>3. U \in SUBSET Ids /\ SoundTables
    BY <1>2, CountsTyped DEF WellFormed
<1>4. Cardinality(Units(U)) <= Cardinality(Units(Uncounted(row)))
    BY <1>2, <1>3, CountsTyped, UnitsMonotone
<1>5. Cardinality(Units(Kept(row) \ {i})) <= Cardinality(Units(K))
    BY <1>2, <1>3, UnitsMonotone
<1>6. Units(Uncounted(row))' = Units(U) /\ Units(Kept(row))' = Units(K)
  <2>1. Units(U)' = Units(U) /\ Units(K)' = Units(K)
      BY <1>2, <1>3, UnitsRemembered
  <2> QED BY <1>1, <2>1 DEF Units
<1>7. allocated[row] + Cardinality(Units(Uncounted(row))) <= Cardinality(Units(Kept(row)))
    BY DEF CountsAreHeld, Remembers
<1>8. /\ Cardinality(Units(U)) \in Nat /\ Cardinality(Units(K)) \in Nat
      /\ Cardinality(Units(Uncounted(row))) \in Nat
      /\ Cardinality(Units(Kept(row))) \in Nat
      /\ allocated[row] \in Int /\ allocated'[row] \in Int
      /\ allocs[i].quantity \in Nat
    BY <1>2, <1>3, CountsTyped, UnitsFinite, Quantities DEF SoundTables
<1>9. CASE i \in Kept(row)
  <2>1. allocated'[row] = allocated[row] - allocs[i].quantity
      BY <1>9 DEF Kept, HoldersOf
  <2>2. Cardinality(Units(Kept(row) \ {i})) =
            Cardinality(Units(Kept(row))) - allocs[i].quantity
      BY <1>2, <1>3, <1>9, UnitsRemoved
  <2> QED BY <1>4, <1>5, <1>6, <1>7, <1>8, <2>1, <2>2
<1>10. CASE i \notin Kept(row)
  <2>1. Kept(row) \ {i} = Kept(row)
      BY <1>10
  <2>2. Cardinality(Units(Kept(row) \ {i})) = Cardinality(Units(Kept(row)))
      BY <2>1
  <2>3. allocated'[row] <= allocated[row]
      OBVIOUS
  <2> QED BY <1>4, <1>5, <1>6, <1>7, <1>8, <2>2, <2>3
<1> QED BY <1>9, <1>10

(* Where a copy and its allocation are on a row no override named, the        *)
(* decrement of the copy takes the quantity off that row.                     *)
LEMMA DecrementedAtLeast ==
    ASSUME SoundTables, NEW copy, Faithful(copy), NEW row \in Rows
    PROVE  /\ Decremented(copy.row, copy.quantity)[row] <= allocated[row]
           /\ row \notin substituted /\ allocs[copy.id].row = row =>
                Decremented(copy.row, copy.quantity)[row]
                    = allocated[row] - allocs[copy.id].quantity
<1>1. copy.quantity \in Nat /\ allocated[row] \in Int
    BY DEF Faithful, Copies, SoundTables
<1> QED BY <1>1 DEF Decremented, Faithful

LEMMA CreateAllocationCounts ==
    ASSUME WellFormed, NEW o \in Orders, CreateAllocation(o)
    PROVE  \E offer \in job[o].offers, take \in Nat :
             /\ take <= offer.available
             /\ job'[o].stage = "counting" /\ job'[o].offers = job[o].offers \ {offer}
             /\ \A p \in Orders \ {o} : job'[p] = job[p]
             /\ \A row \in Rows :
                   LET added == IF row = offer.row THEN take ELSE 0
                   IN  /\ Cardinality(Units(Uncounted(row)))' =
                              Cardinality(Units(Uncounted(row))) + added
                       /\ Cardinality(Units(Kept(row)))' = Cardinality(Units(Kept(row))) + added
                       /\ Cardinality(Units(HoldersOf(row)))' =
                              Cardinality(Units(HoldersOf(row))) + added
<1>1. /\ SoundTables /\ SoundJobs /\ SoundJob(o, job[o]) /\ job[o] \in JobRecords
      /\ job[o].stage = "stock" /\ job[o].line \in LinesOf(o) /\ job[o].remaining \in Nat
    BY DEF WellFormed, SoundJobs, SoundJob, JobRecords, CreateAllocation
<1>2. PICK offer, take :
          /\ offer \in job[o].offers
          /\ take = Smaller(offer.available, job[o].remaining)
          /\ allocs' = Append(allocs, SoftAllocation(o, offer.row, take))
          /\ job' = [job EXCEPT
               ![o].stage = "counting", ![o].offers = @ \ {offer},
               ![o].current = [id |-> Len(allocs) + 1, row |-> offer.row, quantity |-> take]]
    BY DEF CreateAllocation
<1>3. /\ offer.row \in Rows /\ offer.available \in Nat \ {0} /\ job[o].remaining > 0
      /\ job[o].line \in Lines
    BY <1>1, <1>2 DEF SoundJob, JobRecords, Offers, CreateAllocation, LinesOf
<1>4. take \in Nat \ {0} /\ take <= offer.available
    BY <1>1, <1>2, <1>3 DEF Smaller
<1>5. PICK r : r = SoftAllocation(o, offer.row, take)
    OBVIOUS
<1>6. r \in AllocRecords /\ r.row = offer.row /\ r.quantity = take /\ r.status = "SOFT"
    BY <1>3, <1>4, <1>5 DEF SoftAllocation, AllocRecords, Statuses
<1>7. PICK i : i = Len(allocs) + 1
    OBVIOUS
<1>8. i \notin Ids
    BY <1>1, <1>7 DEF SoundTables, Ids
<1>9. /\ Ids' = Ids \cup {i} /\ \A a \in Ids : allocs'[a] = allocs[a]
      /\ allocs'[i] = r /\ Remembers
    BY <1>1, <1>2, <1>5, <1>6, <1>7, Appended DEF CreateAllocation, SoundTables
<1>10. SoundTables'
    BY CreateAllocationSound DEF WellFormed
<1>11. PICK c : c = [id |-> i, row |-> offer.row, quantity |-> take]
    OBVIOUS
<1>12. /\ job'[o].stage = "counting" /\ job'[o].current = c
       /\ job'[o].offers = job[o].offers \ {offer}
       /\ \A p \in Orders \ {o} : job'[p] = job[p]
    BY <1>1, <1>2, <1>7, <1>11 DEF SoundJobs, JobRecords
<1>13. ASSUME NEW S \in SUBSET Ids, NEW T, T = S \cup {i}
       PROVE  Cardinality(Units(T))' = Cardinality(Units(S)) + take
    BY <1>6, <1>8, <1>9, <1>10, <1>13, UnitsAppended
<1>14. ASSUME NEW S \in SUBSET Ids
       PROVE  Cardinality(Units(S))' = Cardinality(Units(S))
    BY <1>9, UnitsRemembered
<1>15. ASSUME NEW row \in Rows
       PROVE  LET added == IF row = offer.row THEN take ELSE 0
              IN  /\ Cardinality(Units(Uncounted(row)))' =
                         Cardinality(Units(Uncounted(row))) + added
                  /\ Cardinality(Units(Kept(row)))' = Cardinality(Units(Kept(row))) + added
                  /\ Cardinality(Units(HoldersOf(row)))' =
                         Cardinality(Units(HoldersOf(row))) + added
  <2>1. PICK U \in SUBSET Ids, K \in SUBSET Ids, H \in SUBSET Ids :
            U = Uncounted(row) /\ K = Kept(row) /\ H = HoldersOf(row)
      BY CountsTyped
  <2>2. /\ Cardinality(Units(U)) \in Nat /\ Cardinality(Units(K)) \in Nat
        /\ Cardinality(Units(H)) \in Nat
      BY <1>1, UnitsFinite
  <2>3. GivenBack' = GivenBack /\ i \notin GivenBack
      BY <1>8, <1>15, CountsTyped DEF GivenBack, CreateAllocation
  <2>4. CASE row = offer.row
    <3>1. Uncounted(row)' = U \cup {i}
        BY <1>1, <1>11, <1>12, <2>1, <2>4 DEF Uncounted, Counting
    <3>2. HoldersOf(row)' = H \cup {i}
        BY <1>6, <1>9, <2>1, <2>4 DEF HoldersOf, Active
    <3>3. Kept(row)' = K \cup {i}
        BY <2>1, <2>3, <3>2 DEF Kept
    <3>4. /\ Cardinality(Units(Uncounted(row)))' = Cardinality(Units(U \cup {i}))'
          /\ Cardinality(Units(Kept(row)))' = Cardinality(Units(K \cup {i}))'
          /\ Cardinality(Units(HoldersOf(row)))' = Cardinality(Units(H \cup {i}))'
        BY <3>1, <3>2, <3>3 DEF Units
    <3> QED BY <1>13, <2>1, <2>4, <3>4
  <2>5. CASE row # offer.row
    <3>1. Uncounted(row)' = U
        BY <1>1, <1>11, <1>12, <2>1, <2>5 DEF Uncounted, Counting
    <3>2. HoldersOf(row)' = H
        BY <1>6, <1>8, <1>9, <2>1, <2>5 DEF HoldersOf
    <3>3. Kept(row)' = K
        BY <2>1, <2>3, <3>2 DEF Kept
    <3>4. /\ Cardinality(Units(Uncounted(row)))' = Cardinality(Units(U))'
          /\ Cardinality(Units(Kept(row)))' = Cardinality(Units(K))'
          /\ Cardinality(Units(HoldersOf(row)))' = Cardinality(Units(H))'
        BY <3>1, <3>2, <3>3 DEF Units
    <3> QED BY <1>14, <2>1, <2>2, <2>5, <3>4
  <2> QED BY <2>4, <2>5
<1> QED BY <1>2, <1>4, <1>12, <1>15

LEMMA CreateAllocationHeld ==
    ASSUME WellFormed, CountsAreHeld, NEW o \in Orders, CreateAllocation(o)
    PROVE  CountsAreHeld'
<1>1. PICK offer \in job[o].offers, take \in Nat :
          \A row \in Rows :
             LET added == IF row = offer.row THEN take ELSE 0
             IN  /\ Cardinality(Units(Uncounted(row)))' =
                        Cardinality(Units(Uncounted(row))) + added
                 /\ Cardinality(Units(Kept(row)))' = Cardinality(Units(Kept(row))) + added
    BY CreateAllocationCounts
<1>2. substituted' = substituted /\ allocated' = allocated
    BY DEF CreateAllocation
<1>3. ASSUME NEW row \in Rows \ substituted
      PROVE  allocated[row] + Cardinality(Units(Uncounted(row)))'
                  <= Cardinality(Units(Kept(row)))'
  <2>1. allocated[row] + Cardinality(Units(Uncounted(row))) <= Cardinality(Units(Kept(row)))
      BY DEF CountsAreHeld
  <2> QED BY <1>1, <2>1, CountsTyped
<1> QED BY <1>2, <1>3 DEF CountsAreHeld

LEMMA CountAllocationCounts ==
    ASSUME WellFormed, NEW o \in Orders, CountAllocation(o), NEW row \in Rows
    PROVE  /\ allocated'[row] + Cardinality(Units(Uncounted(row)))' =
                  allocated[row] + Cardinality(Units(Uncounted(row)))
           /\ Cardinality(Units(Kept(row)))' = Cardinality(Units(Kept(row)))
<1>1. /\ SoundTables /\ SoundJobs /\ SoundJob(o, job[o]) /\ job[o] \in JobRecords
      /\ job[o].stage = "counting" /\ CountedOnce
    BY DEF WellFormed, SoundJobs, CountAllocation
<1>2. PICK c : c = job[o].current
    OBVIOUS
<1>3. /\ c.id \in Ids /\ c.row \in Rows /\ c.quantity \in Nat
      /\ c.quantity = allocs[c.id].quantity
    BY <1>1, <1>2 DEF SoundJob, Faithful, Copies
<1>4. /\ job'[o].stage = "stock" /\ \A p \in Orders \ {o} : job'[p] = job[p]
      /\ allocated'[row] =
             IF row = c.row THEN allocated[row] + c.quantity ELSE allocated[row]
    BY <1>1, <1>2 DEF CountAllocation, SoundJobs, SoundTables, JobRecords
<1>5. PICK U \in SUBSET Ids, K \in SUBSET Ids : U = Uncounted(row) /\ K = Kept(row)
    BY CountsTyped
<1>6. Cardinality(Units(U)) \in Nat /\ allocated[row] \in Int
    BY <1>5, CountsTyped
<1>7. Kept(row)' = K
    BY <1>5 DEF Kept, HoldersOf, Ids, GivenBack, CountAllocation
<1>8. CASE row = c.row
  <2>1. Uncounted(row)' = U \ {c.id}
      BY <1>1, <1>2, <1>4, <1>5, <1>8 DEF Uncounted, Counting, CountedOnce
  <2>2. c.id \in U
      BY <1>1, <1>2, <1>5, <1>8 DEF Uncounted, Counting
  <2>3. Cardinality(Units(U \ {c.id})) = Cardinality(Units(U)) - c.quantity
      BY <1>1, <1>3, <2>2, UnitsRemoved
  <2>4. Units(Uncounted(row))' = Units(U \ {c.id}) /\ Units(Kept(row))' = Units(K)
      BY <1>7, <2>1 DEF Units, CountAllocation
  <2>5. allocated'[row] = allocated[row] + c.quantity
      BY <1>4, <1>8
  <2> QED BY <1>3, <1>5, <1>6, <2>3, <2>4, <2>5
<1>9. CASE row # c.row
  <2>1. Uncounted(row)' = U
      BY <1>1, <1>2, <1>4, <1>5, <1>9 DEF Uncounted, Counting
  <2>2. Units(Uncounted(row))' = Units(U) /\ Units(Kept(row))' = Units(K)
      BY <1>7, <2>1 DEF Units, CountAllocation
  <2>3. allocated'[row] = allocated[row]
      BY <1>4, <1>9
  <2> QED BY <1>5, <1>6, <2>2, <2>3
<1> QED BY <1>8, <1>9

LEMMA CountAllocationHeld ==
    ASSUME WellFormed, CountsAreHeld, NEW o \in Orders, CountAllocation(o)
    PROVE  CountsAreHeld'
<1>1. substituted' = substituted
    BY DEF CountAllocation
<1>2. ASSUME NEW row \in Rows \ substituted
      PROVE  allocated'[row] + Cardinality(Units(Uncounted(row)))'
                  <= Cardinality(Units(Kept(row)))'
  <2>1. allocated[row] + Cardinality(Units(Uncounted(row))) <= Cardinality(Units(Kept(row)))
      BY DEF CountsAreHeld
  <2> QED BY <2>1, CountAllocationCounts
<1> QED BY <1>1, <1>2 DEF CountsAreHeld

(* A step of a job that counts nothing and creates nothing.                   *)
LEMMA JobHeldAlike ==
    ASSUME WellFormed, WellFormed', CountsAreHeld, NEW o \in Orders, job'[o].stage # "counting",
           \A p \in Orders \ {o} : job'[p] = job[p],
           UNCHANGED <<allocs, allocated, desk, substituted>>
    PROVE  CountsAreHeld'
<1>1. \A row \in Rows : Uncounted(row)' \subseteq Uncounted(row)
    BY DEF Uncounted, Counting
<1>2. \A row \in Rows : Kept(row)' = Kept(row)
    BY DEF Kept, HoldersOf, Ids, GivenBack
<1>3. Remembers /\ Ids' = Ids
    BY NothingForgotten DEF Ids
<1>4. \A row \in Rows : allocated'[row] <= allocated[row]
    BY CountsTyped
<1> QED BY <1>1, <1>2, <1>3, <1>4, CountsGrow DEF WellFormed

LEMMA JobStepHeld ==
    ASSUME WellFormed, CountsAreHeld, NEW o \in Orders, JobStep(o)
    PROVE  CountsAreHeld'
<1>1. /\ WellFormed' /\ job[o] \in JobRecords /\ SoundTables /\ SoundJob(o, job[o])
      /\ SoundTables' /\ job \in [Orders -> JobRecords]
    BY JobStepSound DEF WellFormed, SoundJobs
<1>2. CASE \/ Start(o) \/ ReadStock(o) \/ FinishLine(o) \/ SyncOrderStatus(o)
           \/ ReadSoft(o) \/ CheckStock(o) \/ Finish(o)
  <2>1. job'[o].stage # "counting" /\ \A p \in Orders \ {o} : job'[p] = job[p]
    <3>1. CASE Start(o)
        BY <1>1, <3>1 DEF Start, JobRecords, NewJob
    <3>2. CASE ReadStock(o)
        BY <1>1, <3>2 DEF ReadStock, JobRecords
    <3>3. CASE FinishLine(o)
        BY <1>1, <3>3 DEF FinishLine, JobRecords
    <3>4. CASE SyncOrderStatus(o)
        BY <1>1, <3>4 DEF SyncOrderStatus, JobRecords
    <3>5. CASE ReadSoft(o)
        BY <1>1, <3>5 DEF ReadSoft, JobRecords
    <3>6. CASE CheckStock(o)
        BY <1>1, <3>6 DEF CheckStock, JobRecords
    <3>7. CASE Finish(o)
        BY <1>1, <3>7 DEF Finish, JobRecords
    <3> QED BY <1>2, <3>1, <3>2, <3>3, <3>4, <3>5, <3>6, <3>7
  <2>2. UNCHANGED <<allocs, allocated, desk, substituted>>
      BY <1>2 DEF Start, ReadStock, FinishLine, SyncOrderStatus, ReadSoft, CheckStock, Finish,
                  tables
  <2> QED BY <1>1, <2>1, <2>2, JobHeldAlike
<1>3. CASE InsufficientStock(o) \/ Interrupt(o)
  <2>1. EndAttempt(o) /\ UNCHANGED <<allocs, allocated, desk, substituted>>
      BY <1>3 DEF InsufficientStock, Interrupt, tables
  <2>2. job'[o].stage # "counting" /\ \A p \in Orders \ {o} : job'[p] = job[p]
      BY <1>1, <2>1 DEF EndAttempt, NewJob
  <2> QED BY <1>1, <2>1, <2>2, JobHeldAlike
<1>4. CASE HardLock(o)
  <2>1. PICK i \in Ids : i = job[o].current.id
      BY <1>1, <1>4 DEF HardLock, SoundJob, Faithful
  <2>2. /\ Remembers /\ Ids' = Ids /\ \A a \in Ids \ {i} : allocs'[a] = allocs[a]
        /\ allocs'[i] = [allocs[i] EXCEPT !.status = "HARD_ALLOCATED"]
      BY <1>1, <1>4, <2>1, StatusRemembered DEF HardLock, Statuses, SoundTables
  <2>3. allocs'[i].row = allocs[i].row /\ allocs'[i].status = "HARD_ALLOCATED"
    <3>1. allocs[i] \in AllocRecords
        BY <1>1, Quantities
    <3> QED BY <2>2, <3>1 DEF AllocRecords
  <2>4. \A row \in Rows : Kept(row) \subseteq Kept(row)'
    <3>1. \A row \in Rows : HoldersOf(row) \subseteq HoldersOf(row)'
        BY <2>2, <2>3 DEF HoldersOf, Active
    <3>2. GivenBack' = GivenBack
        BY <1>4 DEF GivenBack, HardLock
    <3> QED BY <3>1, <3>2 DEF Kept
  <2>5. \A row \in Rows : Uncounted(row)' \subseteq Uncounted(row)
    <3>1. job'[o].stage = "hard" /\ \A p \in Orders \ {o} : job'[p] = job[p]
        BY <1>1, <1>4 DEF HardLock, JobRecords
    <3> QED BY <3>1 DEF Uncounted, Counting
  <2>6. \A row \in Rows : allocated'[row] <= allocated[row]
      BY <1>4, CountsTyped DEF HardLock
  <2> QED BY <1>1, <2>2, <2>4, <2>5, <2>6, CountsGrow
<1> QED BY <1>2, <1>3, <1>4, CreateAllocationHeld, CountAllocationHeld DEF JobStep

LEMMA CronStepHeld ==
    ASSUME WellFormed, CountsAreHeld, NEW n \in Nodes, CronStep(n)
    PROVE  CountsAreHeld'
<1>1. WellFormed' /\ SoundTables /\ SoundTables'
    BY CronStepSound DEF WellFormed
<1>2. ASSUME NEW copy \in cron[n], CancelExpired(n, copy)
      PROVE  CountsAreHeld'
  <2>1. Faithful(copy) /\ copy.id \in Ids
      BY DEF WellFormed, SoundCron, Faithful
  <2>2. /\ Remembers /\ Ids' = Ids /\ \A a \in Ids \ {copy.id} : allocs'[a] = allocs[a]
      BY <1>1, <1>2, <2>1, StatusRemembered DEF CancelExpired, Statuses, SoundTables
  <2>3. \A row \in Rows \ substituted' :
             /\ allocated'[row] <= allocated[row]
             /\ allocs[copy.id].row = row =>
                    allocated'[row] = allocated[row] - allocs[copy.id].quantity
      BY <1>1, <1>2, <2>1, DecrementedAtLeast DEF CancelExpired
  <2>4. \A row \in Rows : Uncounted(row)' \subseteq Uncounted(row)
      BY <1>2 DEF CancelExpired, Uncounted, Counting
  <2>5. \A row \in Rows : Kept(row) \ {copy.id} \subseteq Kept(row)'
    <3>1. GivenBack' = GivenBack
        BY <1>2 DEF GivenBack, CancelExpired
    <3> QED BY <2>2, <3>1 DEF Kept, HoldersOf
  <2> QED BY <1>1, <2>1, <2>2, <2>3, <2>4, <2>5, CountsDrop
<1>3. CASE UNCHANGED <<allocs, allocated, desk, job, substituted>>
  <2>1. Remembers /\ Ids' = Ids
      BY <1>3, NothingForgotten DEF Ids
  <2>2. \A row \in Rows : allocated'[row] <= allocated[row]
      BY <1>3, CountsTyped
  <2>3. \A row \in Rows : Uncounted(row)' = Uncounted(row) /\ Kept(row)' = Kept(row)
      BY <1>3 DEF Uncounted, Counting, Kept, HoldersOf, Ids, GivenBack
  <2> QED BY <1>1, <2>1, <2>2, <2>3, CountsGrow
<1> QED BY <1>2, <1>3 DEF CronStep, StartReconciliation, SkipExpired, tables

LEMMA DeskStepHeld ==
    ASSUME WellFormed, CountsAreHeld, NEW d \in Desks, DeskStep(d)
    PROVE  CountsAreHeld'
<1>1. /\ WellFormed' /\ SoundTables /\ SoundTables' /\ desk \in [Desks -> DeskRecords]
      /\ desk[d] \in DeskRecords /\ SoundDesk(desk[d])
    BY DeskStepSound DEF WellFormed, SoundDesks
<1>2. CASE UNCHANGED <<job, allocs, allocated, substituted>> /\ GivenBack' \subseteq GivenBack
  <2>1. Remembers /\ Ids' = Ids
      BY <1>2, NothingForgotten DEF Ids
  <2>2. \A row \in Rows : allocated'[row] <= allocated[row]
      BY <1>2, CountsTyped
  <2>3. \A row \in Rows : Uncounted(row)' = Uncounted(row) /\ Kept(row) \subseteq Kept(row)'
      BY <1>2 DEF Uncounted, Counting, Kept, HoldersOf, Ids
  <2> QED BY <1>1, <2>1, <2>2, <2>3, CountsGrow
<1>3. ASSUME NEW a \in Ids, NEW stage \in {"override", "release"}, NEW row,
             Call(d, stage, a, row)
      PROVE  CountsAreHeld'
  <2>1. desk'[d].stage # "given_back" /\ \A e \in Desks \ {d} : desk'[e] = desk[e]
      BY <1>1, <1>3 DEF Call
  <2>2. GivenBack' \subseteq GivenBack
      BY <2>1 DEF GivenBack
  <2> QED BY <1>2, <1>3, <2>2 DEF Call, tables
<1>4. CASE CheckSubstitute(d)
  <2>1. desk'[d].stage = "checked" /\ \A e \in Desks \ {d} : desk'[e] = desk[e]
      BY <1>1, <1>4 DEF CheckSubstitute, DeskRecords
  <2>2. GivenBack' \subseteq GivenBack
      BY <2>1 DEF GivenBack
  <2> QED BY <1>2, <1>4, <2>2 DEF CheckSubstitute, tables
<1>5. CASE Hangup(d)
  <2>1. desk'[d].stage = "idle" /\ \A e \in Desks \ {d} : desk'[e] = desk[e]
      BY <1>1, <1>5 DEF Hangup, IdleDesk
  <2>2. GivenBack' \subseteq GivenBack
      BY <2>1 DEF GivenBack
  <2> QED BY <1>2, <1>5, <2>2 DEF Hangup, tables
<1>6. CASE CommitOverride(d)
  <2>1. PICK copy, row : copy = desk[d].copy /\ row = desk[d].substitute
      OBVIOUS
  <2>2. Faithful(copy) /\ copy.id \in Ids /\ row \in Rows
      BY <1>1, <1>6, <2>1 DEF SoundDesk, CommitOverride, Faithful
  <2>3. PICK r : r = [allocs[copy.id] EXCEPT !.row = row, !.status = "HARD_ALLOCATED"]
      OBVIOUS
  <2>4. /\ r \in AllocRecords /\ r.row = row /\ r.quantity = allocs[copy.id].quantity
        /\ r.line = allocs[copy.id].line
    <3>1. allocs[copy.id] \in AllocRecords
        BY <1>1, <2>2, Quantities
    <3> QED BY <2>2, <2>3, <3>1 DEF AllocRecords, Statuses
  <2>5. allocs' = [allocs EXCEPT ![copy.id] = r]
      BY <1>6, <2>1, <2>3 DEF CommitOverride
  <2>6. /\ Ids' = Ids /\ \A a \in Ids \ {copy.id} : allocs'[a] = allocs[a]
        /\ allocs'[copy.id] = r
      BY <1>1, <2>2, <2>4, <2>5, Replaced DEF SoundTables
  <2>7. substituted' = substituted \cup {row} /\ job' = job
      BY <1>6, <2>1 DEF CommitOverride
  <2>8. Remembers
      BY <2>4, <2>6, <2>7 DEF Remembers
  <2>9. \A s \in Rows \ substituted' : allocated'[s] = Decremented(copy.row, copy.quantity)[s]
      BY <1>6, <2>1, <2>7 DEF CommitOverride, Decremented
  <2>10. \A s \in Rows \ substituted' :
             /\ allocated'[s] <= allocated[s]
             /\ allocs[copy.id].row = s =>
                    allocated'[s] = allocated[s] - allocs[copy.id].quantity
      BY <1>1, <2>2, <2>7, <2>9, DecrementedAtLeast
  <2>11. \A s \in Rows : Uncounted(s)' \subseteq Uncounted(s)
      BY <2>7 DEF Uncounted, Counting
  <2>12. \A s \in Rows : Kept(s) \ {copy.id} \subseteq Kept(s)'
    <3>1. desk'[d].stage = "idle" /\ \A e \in Desks \ {d} : desk'[e] = desk[e]
        BY <1>1, <1>6 DEF CommitOverride, IdleDesk
    <3>2. GivenBack' \subseteq GivenBack
        BY <3>1 DEF GivenBack
    <3> QED BY <2>6, <3>2 DEF Kept, HoldersOf
  <2> QED BY <1>1, <2>2, <2>6, <2>8, <2>10, <2>11, <2>12, CountsDrop
<1>7. CASE GiveBack(d)
  <2>1. PICK copy : copy = desk[d].copy
      OBVIOUS
  <2>2. Faithful(copy) /\ copy.id \in Ids
      BY <1>1, <1>7, <2>1 DEF SoundDesk, GiveBack, Faithful
  <2>3. Remembers /\ Ids' = Ids
      BY <1>7, NothingForgotten DEF GiveBack, Ids
  <2>4. \A row \in Rows \ substituted' :
             /\ allocated'[row] <= allocated[row]
             /\ allocs[copy.id].row = row =>
                    allocated'[row] = allocated[row] - allocs[copy.id].quantity
      BY <1>1, <1>7, <2>1, <2>2, DecrementedAtLeast DEF GiveBack
  <2>5. \A row \in Rows : Uncounted(row)' \subseteq Uncounted(row)
      BY <1>7 DEF GiveBack, Uncounted, Counting
  <2>6. \A row \in Rows : Kept(row) \ {copy.id} \subseteq Kept(row)'
    <3>1. /\ desk'[d].stage = "given_back" /\ desk'[d].copy = copy
          /\ \A e \in Desks \ {d} : desk'[e] = desk[e]
        BY <1>1, <1>7, <2>1 DEF GiveBack, DeskRecords
    <3>2. GivenBack' \subseteq GivenBack \cup {copy.id}
        BY <3>1 DEF GivenBack
    <3> QED BY <1>7, <3>2 DEF Kept, HoldersOf, Ids, GiveBack
  <2> QED BY <1>1, <2>2, <2>3, <2>4, <2>5, <2>6, CountsDrop
<1>8. CASE MarkReleased(d)
  <2>1. PICK i \in Ids : i = desk[d].copy.id
      BY <1>1, <1>8 DEF SoundDesk, MarkReleased, Faithful
  <2>2. /\ Remembers /\ Ids' = Ids /\ \A a \in Ids \ {i} : allocs'[a] = allocs[a]
      BY <1>1, <1>8, <2>1, StatusRemembered DEF MarkReleased, Statuses, SoundTables
  <2>3. desk'[d].stage = "idle" /\ \A e \in Desks \ {d} : desk'[e] = desk[e]
      BY <1>1, <1>8 DEF MarkReleased, IdleDesk
  <2>4. GivenBack' \subseteq GivenBack /\ i \in GivenBack
      BY <1>8, <2>1, <2>3 DEF GivenBack, MarkReleased
  <2>5. \A row \in Rows : Kept(row) \subseteq Kept(row)'
      BY <2>2, <2>4 DEF Kept, HoldersOf
  <2>6. \A row \in Rows : Uncounted(row)' \subseteq Uncounted(row)
      BY <1>8 DEF MarkReleased, Uncounted, Counting
  <2>7. \A row \in Rows : allocated'[row] <= allocated[row]
      BY <1>8, CountsTyped DEF MarkReleased
  <2> QED BY <1>1, <2>2, <2>5, <2>6, <2>7, CountsGrow
<1>9. CASE StartOverride(d) \/ StartRelease(d)
    BY <1>3, <1>9 DEF StartOverride, StartRelease
<1> QED BY <1>4, <1>5, <1>6, <1>7, <1>8, <1>9 DEF DeskStep

LEMMA InitHeld == Init => CountsAreHeld
<1> SUFFICES ASSUME Init, NEW row \in Rows
             PROVE  allocated[row] + Cardinality(Units(Uncounted(row)))
                        <= Cardinality(Units(Kept(row)))
    BY DEF CountsAreHeld
<1>1. Uncounted(row) = {} /\ Kept(row) = {}
    BY DEF Init, Uncounted, Counting, NewJob, Kept, HoldersOf, Ids
<1>2. Units(Uncounted(row)) = {} /\ Units(Kept(row)) = {}
    BY <1>1 DEF Units
<1>3. allocated[row] = 0
    BY DEF Init
<1> QED BY <1>2, <1>3, FS_EmptySet

LEMMA StepHeld == WellFormed /\ CountsAreHeld /\ [Next]_vars => CountsAreHeld'
<1> SUFFICES ASSUME WellFormed, CountsAreHeld, [Next]_vars PROVE CountsAreHeld'
    OBVIOUS
<1>1. WellFormed' /\ SoundTables'
    BY StepSound DEF WellFormed
<1>2. CASE UNCHANGED vars \/ \E a \in AllocIds : Elapse(a)
  <2>1. UNCHANGED <<allocs, allocated, desk, job, substituted>>
      BY <1>2 DEF vars, Elapse, tables
  <2>2. Remembers /\ Ids' = Ids
      BY <2>1, NothingForgotten DEF Ids
  <2>3. \A row \in Rows : allocated'[row] <= allocated[row]
      BY <2>1, CountsTyped
  <2>4. \A row \in Rows : Uncounted(row)' = Uncounted(row) /\ Kept(row)' = Kept(row)
      BY <2>1 DEF Uncounted, Counting, Kept, HoldersOf, Ids, GivenBack
  <2> QED BY <1>1, <2>2, <2>3, <2>4, CountsGrow
<1> QED BY <1>2, JobStepHeld, CronStepHeld, DeskStepHeld DEF Next

(* No stock is stranded: whatever jobs, crons and desks do to the same rows,  *)
(* what a row counts as allocated is held by allocations that are active,     *)
(* but for rows to which an override moved one.                               *)
THEOREM NoStockIsStranded == Spec => []NothingStranded
<1>1. WellFormed /\ CountsAreHeld => NothingStranded
  <2> SUFFICES ASSUME WellFormed, CountsAreHeld, NEW row \in Rows \ substituted
               PROVE  allocated[row] <= Held(row)
      BY DEF NothingStranded
  <2>1. allocated[row] + Cardinality(Units(Uncounted(row))) <= Cardinality(Units(Kept(row)))
      BY DEF CountsAreHeld
  <2>2. Cardinality(Units(Kept(row))) <= Held(row)
      BY CountsTyped, UnitsMonotone DEF Held, Kept, WellFormed
  <2>3. Held(row) \in Nat
      BY CountsTyped, UnitsFinite DEF Held, WellFormed
  <2> QED BY <2>1, <2>2, <2>3, CountsTyped
<1> QED BY <1>1, InitSound, StepSound, InitHeld, StepHeld, PTL DEF Spec
--------------------------------------------------------------------------------
(* Who is at work. *)
Busy ==
    ({"job"} \X {o \in Orders : job[o].stage \in Working})
        \cup ({"cron"} \X {n \in Nodes : cron[n] # {}})
        \cup ({"desk"} \X {d \in Desks : desk[d].stage # "idle"})

Alone == \A x, y \in Busy : x = y

(* What is counted, or will be, is exactly what is held and stays. *)
CountsExact ==
    \A row \in Rows :
        allocated[row] + Cardinality(Units(Uncounted(row))) = Cardinality(Units(Kept(row)))

HeldFits == \A row \in Rows : Cardinality(Units(HoldersOf(row))) <= OnHand[row]

(* What an actor has read is still so: nobody else has written since. *)
Claimed(copy) == allocs[copy.id].status \in Active
Current(copy) == copy = CopyOf(copy.id) /\ Claimed(copy)

OffersFit ==
    \A o \in Orders :
        job[o].stage \in {"stock", "counting"} =>
            /\ \A offer \in job[o].offers :
                  Cardinality(Units(HoldersOf(offer.row))) + offer.available <= OnHand[offer.row]
            /\ \A e, f \in job[o].offers : e.row = f.row => e = f

JobCopiesClaimed ==
    \A o \in Orders :
        /\ job[o].stage \in {"hard", "locking"} => \A copy \in job[o].copies : Claimed(copy)
        /\ job[o].stage = "locking" => Claimed(job[o].current)

CronCopiesCurrent == \A n \in Nodes : \A copy \in cron[n] : Current(copy)

DeskCopiesCurrent ==
    \A d \in Desks :
        /\ desk[d].stage # "idle" => Current(desk[d].copy)
        /\ desk[d].stage = "checked" => SubstituteSuffices(d)

Books ==
    /\ Alone
    /\ CountsExact
    /\ HeldFits
    /\ OffersFit
    /\ JobCopiesClaimed
    /\ CronCopiesCurrent
    /\ DeskCopiesCurrent

BooksKept == ~disturbed => Books

LEMMA JobAlone ==
    ASSUME Alone, NEW o \in Orders, job[o].stage \in Working
    PROVE  /\ \A p \in Orders \ {o} : job[p].stage \notin Working
           /\ \A n \in Nodes : cron[n] = {}
           /\ \A d \in Desks : desk[d].stage = "idle"
<1>1. <<"job", o>> \in Busy
    BY DEF Busy
<1>2. \A p \in Orders \ {o} : <<"job", p>> \notin Busy
    BY <1>1 DEF Alone
<1>3. \A n \in Nodes : <<"cron", n>> \notin Busy
    BY <1>1 DEF Alone
<1>4. \A d \in Desks : <<"desk", d>> \notin Busy
    BY <1>1 DEF Alone
<1> QED BY <1>2, <1>3, <1>4 DEF Busy

LEMMA CronAlone ==
    ASSUME Alone, NEW n \in Nodes, cron[n] # {}
    PROVE  /\ \A o \in Orders : job[o].stage \notin Working
           /\ \A m \in Nodes \ {n} : cron[m] = {}
           /\ \A d \in Desks : desk[d].stage = "idle"
<1>1. <<"cron", n>> \in Busy
    BY DEF Busy
<1>2. \A o \in Orders : <<"job", o>> \notin Busy
    BY <1>1 DEF Alone
<1>3. \A m \in Nodes \ {n} : <<"cron", m>> \notin Busy
    BY <1>1 DEF Alone
<1>4. \A d \in Desks : <<"desk", d>> \notin Busy
    BY <1>1 DEF Alone
<1> QED BY <1>2, <1>3, <1>4 DEF Busy

LEMMA DeskAlone ==
    ASSUME Alone, NEW d \in Desks, desk[d].stage # "idle"
    PROVE  /\ \A o \in Orders : job[o].stage \notin Working
           /\ \A n \in Nodes : cron[n] = {}
           /\ \A e \in Desks \ {d} : desk[e].stage = "idle"
<1>1. <<"desk", d>> \in Busy
    BY DEF Busy
<1>2. \A o \in Orders : <<"job", o>> \notin Busy
    BY <1>1 DEF Alone
<1>3. \A n \in Nodes : <<"cron", n>> \notin Busy
    BY <1>1 DEF Alone
<1>4. \A e \in Desks \ {d} : <<"desk", e>> \notin Busy
    BY <1>1 DEF Alone
<1> QED BY <1>2, <1>3, <1>4 DEF Busy

(* Nobody but the actor of a step is at work, before it and after it.         *)
LEMMA JobStaysAlone ==
    ASSUME Alone, NEW o \in Orders, job[o].stage \in Working \/ Quiet,
           \A p \in Orders \ {o} : job'[p] = job[p], UNCHANGED <<cron, desk>>
    PROVE  /\ Alone'
           /\ \A p \in Orders \ {o} : job[p].stage \notin Working
           /\ \A n \in Nodes : cron[n] = {}
           /\ \A d \in Desks : desk[d].stage = "idle"
<1>1. /\ \A p \in Orders \ {o} : job[p].stage \notin Working
      /\ \A n \in Nodes : cron[n] = {}
      /\ \A d \in Desks : desk[d].stage = "idle"
    BY JobAlone DEF Quiet
<1>2. Busy' \subseteq {<<"job", o>>}
    BY <1>1 DEF Busy
<1> QED BY <1>1, <1>2 DEF Alone

LEMMA CronStaysAlone ==
    ASSUME Alone, NEW n \in Nodes, cron[n] # {} \/ Quiet,
           \A m \in Nodes \ {n} : cron'[m] = cron[m], UNCHANGED <<job, desk>>
    PROVE  /\ Alone'
           /\ \A o \in Orders : job[o].stage \notin Working
           /\ \A m \in Nodes \ {n} : cron[m] = {}
           /\ \A d \in Desks : desk[d].stage = "idle"
<1>1. /\ \A o \in Orders : job[o].stage \notin Working
      /\ \A m \in Nodes \ {n} : cron[m] = {}
      /\ \A d \in Desks : desk[d].stage = "idle"
    BY CronAlone DEF Quiet
<1>2. Busy' \subseteq {<<"cron", n>>}
    BY <1>1 DEF Busy
<1> QED BY <1>1, <1>2 DEF Alone

LEMMA DeskStaysAlone ==
    ASSUME Alone, NEW d \in Desks, desk[d].stage # "idle" \/ Quiet,
           \A e \in Desks \ {d} : desk'[e] = desk[e], UNCHANGED <<job, cron>>
    PROVE  /\ Alone'
           /\ \A o \in Orders : job[o].stage \notin Working
           /\ \A n \in Nodes : cron[n] = {}
           /\ \A e \in Desks \ {d} : desk[e].stage = "idle"
<1>1. /\ \A o \in Orders : job[o].stage \notin Working
      /\ \A n \in Nodes : cron[n] = {}
      /\ \A e \in Desks \ {d} : desk[e].stage = "idle"
    BY DeskAlone DEF Quiet
<1>2. Busy' \subseteq {<<"desk", d>>}
    BY <1>1 DEF Busy
<1> QED BY <1>1, <1>2 DEF Alone

(* A step that writes neither allocations nor counts.                         *)
LEMMA CountsAlike ==
    ASSUME CountsExact, HeldFits, UNCHANGED <<allocs, allocated>>, GivenBack' = GivenBack,
           \A row \in Rows : Uncounted(row)' = Uncounted(row)
    PROVE  CountsExact' /\ HeldFits'
<1>1. ASSUME NEW row \in Rows
      PROVE  /\ Uncounted(row)' = Uncounted(row)
             /\ Kept(row)' = Kept(row) /\ HoldersOf(row)' = HoldersOf(row)
    BY DEF Kept, HoldersOf, Ids
<1>2. ASSUME NEW row \in Rows
      PROVE  /\ Units(Uncounted(row))' = Units(Uncounted(row))
             /\ Units(Kept(row))' = Units(Kept(row))
             /\ Units(HoldersOf(row))' = Units(HoldersOf(row))
    BY <1>1 DEF Units
<1> QED BY <1>2 DEF CountsExact, HeldFits

LEMMA JobBooks ==
    ASSUME Books, NEW o \in Orders, job[o].stage \in Working \/ Quiet,
           \A p \in Orders \ {o} : job'[p] = job[p], UNCHANGED <<cron, desk>>,
           CountsExact', HeldFits',
           job'[o].stage \in {"stock", "counting"} =>
               /\ \A offer \in job'[o].offers :
                     Cardinality(Units(HoldersOf(offer.row)))' + offer.available
                         <= OnHand[offer.row]
               /\ \A e, f \in job'[o].offers : e.row = f.row => e = f,
           job'[o].stage \in {"hard", "locking"} =>
               \A copy \in job'[o].copies : Claimed(copy)',
           job'[o].stage = "locking" => Claimed(job[o].current)'
    PROVE  Books'
<1>1. /\ Alone'
      /\ \A p \in Orders \ {o} : job'[p] = job[p] /\ job[p].stage \notin Working
      /\ \A n \in Nodes : cron'[n] = {}
      /\ \A d \in Desks : desk'[d].stage = "idle"
    BY JobStaysAlone DEF Books
<1>2. \A p \in Orders \ {o} : job'[p].stage \notin {"stock", "counting", "hard", "locking"}
    BY <1>1 DEF Working, JobStages
<1>3. OffersFit'
  <2> SUFFICES ASSUME NEW p \in Orders, job'[p].stage \in {"stock", "counting"}
               PROVE  /\ \A offer \in job'[p].offers :
                            Cardinality(Units(HoldersOf(offer.row)))' + offer.available
                                <= OnHand[offer.row]
                      /\ \A e, f \in job'[p].offers : e.row = f.row => e = f
      BY DEF OffersFit
  <2>1. p = o
      BY <1>2
  <2> QED BY <2>1
<1>4. JobCopiesClaimed'
  <2>1. ASSUME NEW p \in Orders, job'[p].stage \in {"hard", "locking"},
               NEW copy \in job'[p].copies
        PROVE  Claimed(copy)'
      BY <1>2, <2>1
  <2>2. ASSUME NEW p \in Orders, job'[p].stage = "locking"
        PROVE  Claimed(job[p].current)'
    <3>1. p = o
        BY <1>2, <2>2
    <3> QED BY <2>2, <3>1
  <2> QED BY <2>1, <2>2 DEF JobCopiesClaimed, Claimed
<1>5. CronCopiesCurrent'
    BY <1>1 DEF CronCopiesCurrent
<1>6. DeskCopiesCurrent'
    BY <1>1 DEF DeskCopiesCurrent
<1> QED BY <1>1, <1>3, <1>4, <1>5, <1>6 DEF Books

LEMMA JobStepBooks ==
    ASSUME WellFormed, Books, NEW o \in Orders, JobStep(o), ~disturbed'
    PROVE  Books'
<1>1. /\ SoundTables /\ SoundJobs /\ job \in [Orders -> JobRecords] /\ job[o] \in JobRecords
      /\ SoundJob(o, job[o]) /\ \A row \in Rows : allocated[row] \in Int
    BY DEF WellFormed, SoundJobs, SoundTables
<1>2. CountsExact /\ HeldFits /\ OffersFit /\ JobCopiesClaimed
    BY DEF Books
<1>3. ASSUME job[o].stage # "counting", job'[o].stage # "counting",
             \A p \in Orders \ {o} : job'[p] = job[p], UNCHANGED <<allocs, allocated, desk>>
      PROVE  CountsExact' /\ HeldFits'
  <2>1. \A row \in Rows : Uncounted(row)' = Uncounted(row)
      BY <1>3 DEF Uncounted, Counting
  <2>2. GivenBack' = GivenBack
      BY <1>3 DEF GivenBack
  <2> QED BY <1>2, <1>3, <2>1, <2>2, CountsAlike
<1>4. CASE Start(o)
  <2>1. job'[o].stage = "lines" /\ \A p \in Orders \ {o} : job'[p] = job[p]
      BY <1>1, <1>4 DEF Start, NewJob
  <2>2. Quiet
      BY <1>4 DEF Start, Overlaps
  <2>3. CountsExact' /\ HeldFits'
      BY <1>3, <1>4, <2>1 DEF Start, tables
  <2> QED BY <1>4, <2>1, <2>2, <2>3, JobBooks DEF Start
<1>5. CASE ReadStock(o)
  <2>1. PICK l \in job[o].lines, locations \in Filters :
            job' = [job EXCEPT
              ![o].stage = "stock", ![o].lines = @ \ {l}, ![o].line = l,
              ![o].remaining = Requested[l],
              ![o].offers = {[row |-> r, available |-> Available(r)] :
                  r \in {r \in Rows : LocationOf(r) \in locations /\ Available(r) > 0}}]
      BY <1>5 DEF ReadStock
  <2>2. /\ job'[o].stage = "stock" /\ \A p \in Orders \ {o} : job'[p] = job[p]
        /\ job'[o].offers = {[row |-> r, available |-> Available(r)] :
                  r \in {r \in Rows : LocationOf(r) \in locations /\ Available(r) > 0}}
      BY <1>1, <2>1 DEF JobRecords
  <2>3. job[o].stage = "lines" /\ job[o].stage \in Working
      BY <1>5 DEF ReadStock, Working, JobStages
  <2>4. CountsExact' /\ HeldFits'
      BY <1>3, <1>5, <2>2, <2>3 DEF ReadStock, tables
  <2>5. \A row \in Rows : allocated[row] = Cardinality(Units(HoldersOf(row)))
    <3>1. /\ \A p \in Orders : job[p].stage # "counting"
          /\ \A d \in Desks : desk[d].stage = "idle"
        BY <2>3, JobAlone DEF Books, Working, JobStages
    <3>2. \A row \in Rows : Uncounted(row) = {} /\ Kept(row) = HoldersOf(row)
        BY <3>1 DEF Uncounted, Counting, Kept, GivenBack
    <3>3. \A row \in Rows : Cardinality(Units(Uncounted(row))) = 0
        BY <3>2, FS_EmptySet DEF Units
    <3> QED BY <1>1, <1>2, <3>2, <3>3 DEF CountsExact
  <2>6. ASSUME NEW offer \in job'[o].offers
        PROVE  Cardinality(Units(HoldersOf(offer.row)))' + offer.available <= OnHand[offer.row]
    <3>1. PICK r \in Rows : offer = [row |-> r, available |-> Available(r)]
        BY <2>2
    <3>2. offer.row = r /\ offer.available = Available(r)
        BY <3>1
    <3>3. Cardinality(Units(HoldersOf(r)))' = allocated[r]
        BY <1>5, <2>5 DEF ReadStock, tables, Units, HoldersOf, Ids
    <3>4. allocated[r] \in Int /\ OnHand[r] \in Int /\ Reserved[r] \in Nat
        BY <1>1, QuantityAssumption
    <3>5. allocated[r] + Available(r) <= OnHand[r]
        BY <3>4 DEF Available
    <3> QED BY <3>2, <3>3, <3>5
  <2>7. \A e, f \in job'[o].offers : e.row = f.row => e = f
      BY <2>2
  <2>8. UNCHANGED <<cron, desk>>
      BY <1>5 DEF ReadStock
  <2> QED BY <2>2, <2>3, <2>4, <2>6, <2>7, <2>8, JobBooks
<1>6. CASE CreateAllocation(o)
  <2>1. PICK offer \in job[o].offers, take \in Nat :
             /\ take <= offer.available
             /\ job'[o].stage = "counting" /\ job'[o].offers = job[o].offers \ {offer}
             /\ \A p \in Orders \ {o} : job'[p] = job[p]
             /\ \A row \in Rows :
                   LET added == IF row = offer.row THEN take ELSE 0
                   IN  /\ Cardinality(Units(Uncounted(row)))' =
                              Cardinality(Units(Uncounted(row))) + added
                       /\ Cardinality(Units(Kept(row)))' = Cardinality(Units(Kept(row))) + added
                       /\ Cardinality(Units(HoldersOf(row)))' =
                              Cardinality(Units(HoldersOf(row))) + added
      BY <1>6, CreateAllocationCounts
  <2>2. \A row \in Rows : /\ Cardinality(Units(Uncounted(row))) \in Nat
                          /\ Cardinality(Units(Kept(row))) \in Nat
                          /\ Cardinality(Units(HoldersOf(row))) \in Nat
      BY <1>1, CountsTyped, UnitsFinite
  <2>3. CountsExact'
    <3> SUFFICES ASSUME NEW row \in Rows
                 PROVE  allocated'[row] + Cardinality(Units(Uncounted(row)))'
                            = Cardinality(Units(Kept(row)))'
        BY DEF CountsExact
    <3>1. allocated'[row] = allocated[row]
        BY <1>6 DEF CreateAllocation
    <3>2. allocated[row] + Cardinality(Units(Uncounted(row))) = Cardinality(Units(Kept(row)))
        BY <1>2 DEF CountsExact
    <3> QED BY <1>1, <2>1, <2>2, <3>1, <3>2
  <2>4. /\ \A e \in job[o].offers :
               /\ Cardinality(Units(HoldersOf(e.row))) + e.available <= OnHand[e.row]
               /\ e.row \in Rows /\ e.available \in Nat /\ OnHand[e.row] \in Nat
        /\ \A e, f \in job[o].offers : e.row = f.row => e = f
      BY <1>1, <1>2, <1>6, QuantityAssumption DEF OffersFit, CreateAllocation, JobRecords, Offers
  <2>5. HeldFits'
    <3> SUFFICES ASSUME NEW row \in Rows
                 PROVE  Cardinality(Units(HoldersOf(row)))' <= OnHand[row]
        BY DEF HeldFits
    <3>1. CASE row = offer.row
        BY <2>1, <2>2, <2>4, <3>1
    <3>2. CASE row # offer.row
        BY <1>2, <2>1, <2>2, <3>2 DEF HeldFits
    <3> QED BY <3>1, <3>2
  <2>6. ASSUME NEW e \in job'[o].offers
        PROVE  Cardinality(Units(HoldersOf(e.row)))' + e.available <= OnHand[e.row]
    <3>1. e \in job[o].offers /\ e.row # offer.row /\ e.row \in Rows
        BY <2>1, <2>4
    <3>2. Cardinality(Units(HoldersOf(e.row)))' = Cardinality(Units(HoldersOf(e.row)))
        BY <2>1, <2>2, <3>1
    <3> QED BY <2>4, <3>1, <3>2
  <2>7. job[o].stage \in Working
      BY <1>6 DEF CreateAllocation, Working, JobStages
  <2>8. UNCHANGED <<cron, desk>>
      BY <1>6 DEF CreateAllocation
  <2> QED BY <2>1, <2>3, <2>4, <2>5, <2>6, <2>7, <2>8, JobBooks
<1>7. CASE CountAllocation(o)
  <2>1. /\ job'[o].stage = "stock" /\ job'[o].offers = job[o].offers
        /\ \A p \in Orders \ {o} : job'[p] = job[p]
      BY <1>1, <1>7 DEF CountAllocation, JobRecords
  <2>2. CountsExact'
      BY <1>2, <1>7, CountAllocationCounts DEF CountsExact
  <2>3. \A row \in Rows : Units(HoldersOf(row))' = Units(HoldersOf(row))
      BY <1>7 DEF CountAllocation, Units, HoldersOf, Ids
  <2>4. HeldFits'
      BY <1>2, <2>3 DEF HeldFits
  <2>5. /\ \A e \in job[o].offers :
               /\ Cardinality(Units(HoldersOf(e.row))) + e.available <= OnHand[e.row]
               /\ e.row \in Rows
        /\ \A e, f \in job[o].offers : e.row = f.row => e = f
      BY <1>1, <1>2, <1>7 DEF OffersFit, CountAllocation, JobRecords, Offers
  <2>6. \A e \in job'[o].offers :
            Cardinality(Units(HoldersOf(e.row)))' + e.available <= OnHand[e.row]
      BY <2>1, <2>3, <2>5
  <2>7. job[o].stage \in Working
      BY <1>7 DEF CountAllocation, Working, JobStages
  <2>8. UNCHANGED <<cron, desk>>
      BY <1>7 DEF CountAllocation
  <2> QED BY <2>1, <2>2, <2>4, <2>5, <2>6, <2>7, <2>8, JobBooks
<1>8. CASE FinishLine(o)
  <2>1. /\ job[o].stage = "stock" /\ job[o].stage \in Working
        /\ job'[o].stage = "lines" /\ \A p \in Orders \ {o} : job'[p] = job[p]
      BY <1>1, <1>8 DEF FinishLine, Working, JobStages, JobRecords
  <2>2. CountsExact' /\ HeldFits'
      BY <1>3, <1>8, <2>1 DEF FinishLine
  <2> QED BY <1>8, <2>1, <2>2, JobBooks DEF FinishLine
<1>9. CASE SyncOrderStatus(o)
  <2>1. /\ job[o].stage = "lines" /\ job[o].stage \in Working
        /\ job'[o].stage \in {"soft_done", "done"} /\ \A p \in Orders \ {o} : job'[p] = job[p]
      BY <1>1, <1>9 DEF SyncOrderStatus, Working, JobStages, JobRecords
  <2>2. CountsExact' /\ HeldFits'
      BY <1>3, <1>9, <2>1 DEF SyncOrderStatus
  <2> QED BY <1>9, <2>1, <2>2, JobBooks DEF SyncOrderStatus
<1>10. CASE ReadSoft(o)
  <2>1. /\ job[o].stage = "soft_done" /\ job[o].stage \in Working
        /\ job'[o].stage = "hard" /\ \A p \in Orders \ {o} : job'[p] = job[p]
        /\ job'[o].copies = {CopyOf(a) : a \in SoftOf(o)}
      BY <1>1, <1>10 DEF ReadSoft, Working, JobStages, JobRecords
  <2>2. CountsExact' /\ HeldFits'
      BY <1>3, <1>10, <2>1 DEF ReadSoft, tables
  <2>3. ASSUME NEW copy \in job'[o].copies PROVE Claimed(copy)'
    <3>1. PICK a \in SoftOf(o) : copy = CopyOf(a)
        BY <2>1
    <3>2. copy.id = a /\ allocs[a].status = "SOFT"
        BY <3>1 DEF CopyOf, SoftOf
    <3>3. allocs' = allocs
        BY <1>10 DEF ReadSoft, tables
    <3> QED BY <3>2, <3>3 DEF Claimed, Active
  <2>4. UNCHANGED <<cron, desk>>
      BY <1>10 DEF ReadSoft
  <2> QED BY <2>1, <2>2, <2>3, <2>4, JobBooks
<1>11. CASE CheckStock(o)
  <2>1. PICK copy \in job[o].copies :
             job' = [job EXCEPT ![o].stage = "locking", ![o].current = copy,
                                ![o].copies = @ \ {copy}]
      BY <1>11 DEF CheckStock
  <2>2. /\ job[o].stage = "hard" /\ job[o].stage \in Working
        /\ job'[o].stage = "locking" /\ \A p \in Orders \ {o} : job'[p] = job[p]
        /\ job'[o].copies \subseteq job[o].copies /\ job'[o].current \in job[o].copies
      BY <1>1, <1>11, <2>1 DEF CheckStock, Working, JobStages, JobRecords
  <2>3. CountsExact' /\ HeldFits'
      BY <1>3, <1>11, <2>2 DEF CheckStock, tables
  <2>4. ASSUME NEW c \in job[o].copies PROVE Claimed(c)'
      BY <1>2, <1>11, <2>2 DEF JobCopiesClaimed, Claimed, CheckStock, tables
  <2>5. UNCHANGED <<cron, desk>>
      BY <1>11 DEF CheckStock
  <2> QED BY <2>2, <2>3, <2>4, <2>5, JobBooks
<1>12. CASE HardLock(o)
  <2>1. PICK i \in Ids : i = job[o].current.id
      BY <1>1, <1>12 DEF HardLock, SoundJob, Faithful
  <2>2. /\ Remembers /\ Ids' = Ids /\ \A a \in Ids \ {i} : allocs'[a] = allocs[a]
        /\ allocs'[i] = [allocs[i] EXCEPT !.status = "HARD_ALLOCATED"]
      BY <1>1, <1>12, <2>1, StatusRemembered DEF HardLock, Statuses, SoundTables
  <2>3. allocs'[i].row = allocs[i].row /\ allocs'[i].status = "HARD_ALLOCATED"
    <3>1. allocs[i] \in AllocRecords
        BY <1>1, Quantities
    <3> QED BY <2>2, <3>1 DEF AllocRecords
  <2>4. allocs[i].status \in Active
      BY <1>2, <1>12, <2>1 DEF JobCopiesClaimed, Claimed, HardLock
  <2>5. \A row \in Rows : HoldersOf(row)' = HoldersOf(row)
      BY <2>2, <2>3, <2>4 DEF HoldersOf, Active
  <2>6. /\ job[o].stage = "locking" /\ job[o].stage \in Working
        /\ job'[o].stage = "hard" /\ \A p \in Orders \ {o} : job'[p] = job[p]
        /\ job'[o].copies = job[o].copies
      BY <1>1, <1>12 DEF HardLock, Working, JobStages, JobRecords
  <2>7. \A row \in Rows : Uncounted(row)' = Uncounted(row) /\ Kept(row)' = Kept(row)
    <3>1. \A row \in Rows : Uncounted(row)' = Uncounted(row)
        BY <2>6 DEF Uncounted, Counting
    <3>2. GivenBack' = GivenBack
        BY <1>12 DEF GivenBack, HardLock
    <3> QED BY <2>5, <3>1, <3>2 DEF Kept
  <2>8. ASSUME NEW row \in Rows
        PROVE  /\ Units(Uncounted(row))' = Units(Uncounted(row))
               /\ Units(Kept(row))' = Units(Kept(row))
               /\ Units(HoldersOf(row))' = Units(HoldersOf(row))
    <3>1. PICK U \in SUBSET Ids, K \in SUBSET Ids, H \in SUBSET Ids :
              U = Uncounted(row) /\ K = Kept(row) /\ H = HoldersOf(row)
        BY CountsTyped
    <3>2. Units(U)' = Units(U) /\ Units(K)' = Units(K) /\ Units(H)' = Units(H)
        BY <2>2, UnitsRemembered
    <3> QED BY <2>5, <2>7, <3>1, <3>2 DEF Units
  <2>9. CountsExact' /\ HeldFits'
      BY <1>2, <1>12, <2>8 DEF CountsExact, HeldFits, HardLock
  <2>10. ASSUME NEW copy \in job'[o].copies PROVE Claimed(copy)'
    <3>1. Claimed(copy) /\ copy.id \in Ids
        BY <1>1, <1>2, <2>6 DEF JobCopiesClaimed, SoundJob, Faithful
    <3> QED BY <2>2, <2>3, <3>1 DEF Claimed, Active
  <2>11. UNCHANGED <<cron, desk>>
      BY <1>12 DEF HardLock
  <2> QED BY <2>6, <2>9, <2>10, <2>11, JobBooks
<1>13. CASE Finish(o)
  <2>1. /\ job[o].stage = "hard" /\ job[o].stage \in Working
        /\ job'[o].stage = "done" /\ \A p \in Orders \ {o} : job'[p] = job[p]
      BY <1>1, <1>13 DEF Finish, Working, JobStages, JobRecords
  <2>2. CountsExact' /\ HeldFits'
      BY <1>3, <1>13, <2>1 DEF Finish, tables
  <2> QED BY <1>13, <2>1, <2>2, JobBooks DEF Finish
<1>14. CASE InsufficientStock(o) \/ Interrupt(o)
  <2>1. /\ EndAttempt(o) /\ UNCHANGED <<allocs, allocated, desk, cron>>
        /\ job[o].stage \in Working /\ job[o].stage # "counting"
      BY <1>14 DEF InsufficientStock, Interrupt, tables, Working, JobStages
  <2>2. job'[o].stage \in {"waiting", "failed"} /\ \A p \in Orders \ {o} : job'[p] = job[p]
      BY <1>1, <2>1 DEF EndAttempt, NewJob
  <2>3. CountsExact' /\ HeldFits'
      BY <1>3, <2>1, <2>2
  <2> QED BY <2>1, <2>2, <2>3, JobBooks
<1> QED
  BY <1>4, <1>5, <1>6, <1>7, <1>8, <1>9, <1>10, <1>11, <1>12, <1>13, <1>14 DEF JobStep
--------------------------------------------------------------------------------
(* One lot of the product at a location. With two, a release takes its        *)
(* quantity off both of them.                                                 *)
OneLot == \A r, s \in Rows : LocationOf(r) = LocationOf(s) => r = s

LEMMA DecrementedExactly ==
    ASSUME OneLot, SoundTables, NEW row \in Rows, NEW quantity \in Nat, NEW r \in Rows
    PROVE  Decremented(row, quantity)[r] =
               IF r = row THEN allocated[r] - quantity ELSE allocated[r]
BY DEF Decremented, OneLot

(* No job is at work: what jobs have read need not be so.                     *)
LEMMA JobsIdle ==
    ASSUME \A o \in Orders : job[o].stage \notin Working, UNCHANGED job
    PROVE  OffersFit' /\ JobCopiesClaimed'
<1>1. \A o \in Orders : job'[o].stage \notin {"stock", "counting", "hard", "locking"}
    BY DEF Working, JobStages
<1> QED BY <1>1 DEF OffersFit, JobCopiesClaimed

LEMMA CronBooks ==
    ASSUME Books, NEW n \in Nodes, cron[n] # {} \/ Quiet,
           \A m \in Nodes \ {n} : cron'[m] = cron[m], UNCHANGED <<job, desk>>,
           CountsExact', HeldFits',
           \A copy \in cron'[n] : Current(copy)'
    PROVE  Books'
<1>1. /\ Alone'
      /\ \A o \in Orders : job[o].stage \notin Working
      /\ \A m \in Nodes \ {n} : cron'[m] = {}
      /\ \A d \in Desks : desk'[d].stage = "idle"
    BY CronStaysAlone DEF Books
<1>2. CronCopiesCurrent'
  <2>1. ASSUME NEW m \in Nodes, NEW copy \in cron'[m] PROVE Current(copy)'
      BY <1>1, <2>1
  <2> QED BY <2>1 DEF CronCopiesCurrent
<1>3. DeskCopiesCurrent'
    BY <1>1 DEF DeskCopiesCurrent
<1> QED BY <1>1, <1>2, <1>3, JobsIdle DEF Books

LEMMA DeskBooks ==
    ASSUME Books, NEW d \in Desks, desk[d].stage # "idle" \/ Quiet,
           \A e \in Desks \ {d} : desk'[e] = desk[e], UNCHANGED <<job, cron>>,
           CountsExact', HeldFits',
           desk'[d].stage # "idle" => Current(desk[d].copy)',
           desk'[d].stage = "checked" => SubstituteSuffices(d)'
    PROVE  Books'
<1>1. /\ Alone'
      /\ \A o \in Orders : job[o].stage \notin Working
      /\ \A n \in Nodes : cron'[n] = {}
      /\ \A e \in Desks \ {d} : desk'[e].stage = "idle"
    BY DeskStaysAlone DEF Books
<1>2. CronCopiesCurrent'
    BY <1>1 DEF CronCopiesCurrent
<1>3. DeskCopiesCurrent'
  <2>1. ASSUME NEW e \in Desks, desk'[e].stage # "idle" PROVE Current(desk[e].copy)'
    <3>1. e = d
        BY <1>1, <2>1
    <3> QED BY <2>1, <3>1
  <2>2. ASSUME NEW e \in Desks, desk'[e].stage = "checked" PROVE SubstituteSuffices(e)'
    <3>1. e = d
        BY <1>1, <2>2
    <3> QED BY <2>2, <3>1
  <2> QED BY <2>1, <2>2 DEF DeskCopiesCurrent
<1> QED BY <1>1, <1>2, <1>3, JobsIdle DEF Books

(* A step that frees one allocation that is held, or is about to.             *)
LEMMA CountsFreed ==
    ASSUME OneLot, WellFormed, CountsExact, HeldFits, Remembers, Ids' = Ids,
           NEW copy, copy.id \in Ids, Current(copy),
           copy.id \notin GivenBack,
           allocated' = Decremented(copy.row, copy.quantity),
           \A row \in Rows :
               /\ Uncounted(row)' = Uncounted(row)
               /\ Kept(row)' = Kept(row) \ {copy.id}
               /\ HoldersOf(row)' \subseteq HoldersOf(row)
    PROVE  CountsExact' /\ HeldFits'
<1>1. SoundTables
    BY DEF WellFormed
<1>2. PICK i : i = copy.id
    OBVIOUS
<1>3. /\ i \in Ids /\ copy.row = allocs[i].row /\ copy.quantity = allocs[i].quantity
      /\ allocs[i].row \in Rows /\ allocs[i].quantity \in Nat
      /\ allocs[i].status \in Active
  <2>1. copy.row = allocs[i].row /\ copy.quantity = allocs[i].quantity
      BY <1>2 DEF Current, CopyOf
  <2>2. allocs[i] \in AllocRecords
      BY <1>1, <1>2, Quantities
  <2> QED BY <1>2, <2>1, <2>2 DEF AllocRecords, Current, Claimed
<1>4. ASSUME NEW row \in Rows
      PROVE  /\ allocated'[row] + Cardinality(Units(Uncounted(row)))'
                    = Cardinality(Units(Kept(row)))'
             /\ Cardinality(Units(HoldersOf(row)))' <= OnHand[row]
  <2>1. PICK U \in SUBSET Ids, K \in SUBSET Ids, H \in SUBSET Ids, J \in SUBSET Ids :
            /\ U = Uncounted(row) /\ K = Kept(row) /\ H = HoldersOf(row)
            /\ J = HoldersOf(row)' /\ J \subseteq H
    <3>1. HoldersOf(row)' \subseteq HoldersOf(row)
        OBVIOUS
    <3> QED BY <3>1, CountsTyped
  <2>2. /\ Cardinality(Units(U)) \in Nat /\ Cardinality(Units(K)) \in Nat
        /\ Cardinality(Units(H)) \in Nat /\ Cardinality(Units(J)) \in Nat
        /\ allocated[row] \in Int /\ OnHand[row] \in Nat
      BY <1>1, <2>1, UnitsFinite, CountsTyped, QuantityAssumption
  <2>3. /\ allocated[row] + Cardinality(Units(U)) = Cardinality(Units(K))
        /\ Cardinality(Units(H)) <= OnHand[row]
      BY <2>1 DEF CountsExact, HeldFits
  <2>4. Cardinality(Units(J)) <= Cardinality(Units(H))
      BY <1>1, <2>1, UnitsMonotone
  <2>5. /\ Units(Uncounted(row))' = Units(U) /\ Units(Kept(row))' = Units(K \ {i})
        /\ Units(HoldersOf(row))' = Units(J)
    <3>1. Units(U)' = Units(U) /\ Units(K \ {i})' = Units(K \ {i}) /\ Units(J)' = Units(J)
        BY <2>1, UnitsRemembered
    <3> QED BY <1>2, <2>1, <3>1 DEF Units
  <2>6. allocated'[row] =
            IF row = allocs[i].row THEN allocated[row] - allocs[i].quantity ELSE allocated[row]
      BY <1>1, <1>3, DecrementedExactly
  <2>7. CASE row = allocs[i].row
    <3>1. i \in K
        BY <1>2, <1>3, <2>1, <2>7 DEF Kept, HoldersOf
    <3>2. Cardinality(Units(K \ {i})) = Cardinality(Units(K)) - allocs[i].quantity
        BY <1>1, <3>1, UnitsRemoved
    <3> QED BY <1>3, <2>2, <2>3, <2>4, <2>5, <2>6, <2>7, <3>2
  <2>8. CASE row # allocs[i].row
    <3>1. K \ {i} = K
        BY <2>1, <2>8 DEF Kept, HoldersOf
    <3>2. Units(Kept(row))' = Units(K)
        BY <2>5, <3>1
    <3> QED BY <2>2, <2>3, <2>4, <2>5, <2>6, <2>8, <3>2
  <2> QED BY <2>7, <2>8
<1> QED BY <1>4 DEF CountsExact, HeldFits

LEMMA CronStepBooks ==
    ASSUME OneLot, WellFormed, Books, NEW n \in Nodes, CronStep(n), ~disturbed'
    PROVE  Books'
<1>1. /\ SoundTables /\ cron \in [Nodes -> SUBSET Copies] /\ CountsExact /\ HeldFits
      /\ \A copy \in cron[n] : Faithful(copy) /\ copy.id \in Ids /\ Current(copy)
    BY DEF WellFormed, SoundCron, Faithful, Books, CronCopiesCurrent
<1>2. CASE StartReconciliation(n)
  <2>1. /\ Quiet /\ cron'[n] = {CopyOf(a) : a \in Expired}
        /\ \A m \in Nodes \ {n} : cron'[m] = cron[m]
      BY <1>1, <1>2 DEF StartReconciliation, Overlaps
  <2>2. CountsExact' /\ HeldFits'
    <3>1. \A row \in Rows : Uncounted(row)' = Uncounted(row)
        BY <1>2 DEF Uncounted, Counting, StartReconciliation
    <3>2. GivenBack' = GivenBack
        BY <1>2 DEF GivenBack, StartReconciliation
    <3> QED BY <1>1, <1>2, <3>1, <3>2, CountsAlike DEF StartReconciliation, tables
  <2>3. ASSUME NEW copy \in cron'[n] PROVE Current(copy)'
    <3>1. PICK a \in Expired : copy = CopyOf(a)
        BY <2>1
    <3>2. copy.id = a /\ allocs[a].status = "SOFT"
        BY <3>1 DEF CopyOf, Expired
    <3>3. copy = [id |-> a, row |-> allocs'[a].row, quantity |-> allocs'[a].quantity]
        BY <1>2, <3>1 DEF CopyOf, StartReconciliation, tables
    <3>4. allocs'[a].status \in Active
        BY <1>2, <3>2 DEF StartReconciliation, tables, Active
    <3> QED BY <3>2, <3>3, <3>4 DEF Current, Claimed, CopyOf
  <2> QED BY <1>2, <2>1, <2>2, <2>3, CronBooks DEF StartReconciliation
<1>3. ASSUME NEW copy \in cron[n], CancelExpired(n, copy)
      PROVE  Books'
  <2>1. copy.id \in Ids /\ Current(copy)
      BY <1>1
  <2>2. /\ Remembers /\ Ids' = Ids /\ \A a \in Ids \ {copy.id} : allocs'[a] = allocs[a]
        /\ allocs'[copy.id] = [allocs[copy.id] EXCEPT !.status = "CANCELLED"]
      BY <1>1, <1>3, <2>1, StatusRemembered DEF CancelExpired, Statuses, SoundTables
  <2>3. allocs'[copy.id].status = "CANCELLED"
    <3>1. allocs[copy.id] \in AllocRecords
        BY <1>1, <2>1, Quantities
    <3> QED BY <2>2, <3>1 DEF AllocRecords
  <2>4. GivenBack = {} /\ GivenBack' = {}
    <3>1. \A d \in Desks : desk[d].stage = "idle"
        BY CronAlone DEF Books
    <3> QED BY <1>3, <3>1 DEF GivenBack, CancelExpired
  <2>5. \A row \in Rows : HoldersOf(row)' = HoldersOf(row) \ {copy.id}
      BY <2>2, <2>3 DEF HoldersOf, Active
  <2>6. \A row \in Rows : /\ Uncounted(row)' = Uncounted(row)
                          /\ Kept(row)' = Kept(row) \ {copy.id}
                          /\ HoldersOf(row)' \subseteq HoldersOf(row)
      BY <1>3, <2>4, <2>5 DEF Kept, Uncounted, Counting, CancelExpired
  <2>7. CountsExact' /\ HeldFits'
      BY <1>1, <1>3, <2>1, <2>2, <2>4, <2>6, CountsFreed DEF CancelExpired
  <2>8. /\ cron'[n] = cron[n] \ {copy} /\ \A m \in Nodes \ {n} : cron'[m] = cron[m]
      BY <1>1, <1>3 DEF CancelExpired
  <2>9. ASSUME NEW c \in cron'[n] PROVE Current(c)'
    <3>1. Current(c) /\ c.id \in Ids /\ c # copy
        BY <1>1, <2>8, <2>9
    <3>2. c.id # copy.id
        BY <2>1, <3>1 DEF Current
    <3>3. allocs'[c.id] = allocs[c.id]
        BY <2>2, <3>1, <3>2
    <3> QED BY <3>1, <3>3 DEF Current, Claimed, CopyOf
  <2> QED BY <1>3, <2>7, <2>8, <2>9, CronBooks DEF CancelExpired
<1>4. ASSUME NEW copy \in cron[n], SkipExpired(n, copy)
      PROVE  Books'
  <2>1. /\ cron'[n] = cron[n] \ {copy} /\ \A m \in Nodes \ {n} : cron'[m] = cron[m]
      BY <1>1, <1>4 DEF SkipExpired
  <2>2. CountsExact' /\ HeldFits'
    <3>1. \A row \in Rows : Uncounted(row)' = Uncounted(row)
        BY <1>4 DEF Uncounted, Counting, SkipExpired
    <3>2. GivenBack' = GivenBack
        BY <1>4 DEF GivenBack, SkipExpired
    <3> QED BY <1>1, <1>4, <3>1, <3>2, CountsAlike DEF SkipExpired, tables
  <2>3. ASSUME NEW c \in cron'[n] PROVE Current(c)'
    <3>1. Current(c)
        BY <1>1, <2>1, <2>3
    <3> QED BY <1>4, <3>1 DEF Current, Claimed, CopyOf, SkipExpired, tables
  <2> QED BY <1>4, <2>1, <2>2, <2>3, CronBooks DEF SkipExpired
<1> QED BY <1>2, <1>3, <1>4 DEF CronStep

LEMMA CommitOverrideBooks ==
    ASSUME OneLot, WellFormed, Books, NEW d \in Desks, CommitOverride(d)
    PROVE  Books'
<1>1. /\ SoundTables /\ CountsExact /\ HeldFits /\ desk \in [Desks -> DeskRecords]
      /\ SoundDesk(desk[d]) /\ desk[d].stage # "idle"
    BY DEF WellFormed, SoundDesks, Books, CommitOverride
<1>2. PICK copy, row : copy = desk[d].copy /\ row = desk[d].substitute
    OBVIOUS
<1>3. PICK i : i = copy.id
    OBVIOUS
<1>4. PICK old, q : old = copy.row /\ q = copy.quantity
    OBVIOUS
<1>5. /\ i \in Ids /\ allocs[i] \in AllocRecords /\ row \in Rows
      /\ old \in Rows /\ old = allocs[i].row /\ q \in Nat /\ q = allocs[i].quantity
      /\ allocs[i].status \in Active
  <2>1. Current(copy) /\ i \in Ids /\ row \in Rows
      BY <1>1, <1>2, <1>3 DEF Books, DeskCopiesCurrent, SoundDesk, Faithful, CommitOverride
  <2>2. allocs[i] \in AllocRecords
      BY <1>1, <2>1, Quantities
  <2>3. old = allocs[i].row /\ q = allocs[i].quantity /\ allocs[i].status \in Active
      BY <1>3, <1>4, <2>1 DEF Current, Claimed, CopyOf
  <2> QED BY <2>1, <2>2, <2>3 DEF AllocRecords
<1>6. PICK r : r = [allocs[i] EXCEPT !.row = row, !.status = "HARD_ALLOCATED"]
    OBVIOUS
<1>7. /\ r \in AllocRecords /\ r.row = row /\ r.quantity = allocs[i].quantity
      /\ r.line = allocs[i].line /\ r.status = "HARD_ALLOCATED"
    BY <1>5, <1>6 DEF AllocRecords, Statuses
<1>8. allocs' = [allocs EXCEPT ![i] = r] /\ substituted' = substituted \cup {row}
    BY <1>2, <1>3, <1>6 DEF CommitOverride
<1>9. /\ Ids' = Ids /\ \A a \in Ids \ {i} : allocs'[a] = allocs[a]
      /\ allocs'[i] = r
    BY <1>1, <1>5, <1>7, <1>8, Replaced DEF SoundTables
<1>10. Remembers
    BY <1>7, <1>8, <1>9 DEF Remembers
<1>11. /\ \A o \in Orders : job[o].stage # "counting"
       /\ \A e \in Desks \ {d} : desk[e].stage = "idle"
       /\ desk[d].stage # "given_back"
    BY <1>1, DeskAlone DEF Books, Working, JobStages, CommitOverride
<1>12. /\ desk'[d].stage = "idle" /\ \A e \in Desks \ {d} : desk'[e] = desk[e]
       /\ UNCHANGED <<job, cron>>
    BY <1>1 DEF CommitOverride, IdleDesk
<1>13. /\ GivenBack = {} /\ GivenBack' = {}
       /\ \A s \in Rows : Uncounted(s) = {} /\ Uncounted(s)' = {}
    BY <1>11, <1>12 DEF GivenBack, Uncounted, Counting
<1>14. \A s \in Rows : HoldersOf(s)' = IF s = row THEN HoldersOf(s) \cup {i} ELSE HoldersOf(s) \ {i}
    BY <1>5, <1>7, <1>9 DEF HoldersOf, Active
<1>15. \A s \in Rows : allocated[s] \in Int /\ Cardinality(Units(HoldersOf(s))) \in Nat
                       /\ allocated[s] = Cardinality(Units(HoldersOf(s)))
  <2> SUFFICES ASSUME NEW s \in Rows
               PROVE  /\ allocated[s] \in Int /\ Cardinality(Units(HoldersOf(s))) \in Nat
                      /\ allocated[s] = Cardinality(Units(HoldersOf(s)))
      OBVIOUS
  <2>1. Units(Uncounted(s)) = {} /\ Kept(s) = HoldersOf(s)
      BY <1>13 DEF Units, Kept
  <2>2. allocated[s] + 0 = Cardinality(Units(HoldersOf(s)))
      BY <1>1, <2>1, FS_EmptySet DEF CountsExact
  <2> QED BY <1>1, <2>2, CountsTyped, UnitsFinite
<1>16. \A s \in Rows : allocated'[s] =
           (IF s = old THEN allocated[s] - q ELSE allocated[s]) + (IF s = row THEN q ELSE 0)
  <2>1. allocated' = [Decremented(old, q) EXCEPT ![row] = @ + q]
      BY <1>2, <1>4 DEF CommitOverride
  <2>2. \A s \in Rows : Decremented(old, q)[s] = IF s = old THEN allocated[s] - q ELSE allocated[s]
      BY <1>1, <1>5, DecrementedExactly
  <2>3. \A s \in Rows : allocated'[s] =
            IF s = row THEN Decremented(old, q)[s] + q ELSE Decremented(old, q)[s]
      BY <2>1 DEF Decremented
  <2> QED BY <1>5, <1>15, <2>2, <2>3
<1>17. row # old => Cardinality(Units(HoldersOf(row))) + q <= OnHand[row]
  <2> SUFFICES ASSUME row # old PROVE Cardinality(Units(HoldersOf(row))) + q <= OnHand[row]
      OBVIOUS
  <2>1. desk[d].stage = "checked" \/ SubstituteSuffices(d)
      BY DEF CommitOverride
  <2>2. SubstituteSuffices(d)
      BY <2>1 DEF Books, DeskCopiesCurrent
  <2>3. OnHand[row] - Decremented(old, q)[row] >= q
      BY <1>2, <1>4, <2>2 DEF SubstituteSuffices, SeenAllocated
  <2>4. Decremented(old, q)[row] = allocated[row]
      BY <1>1, <1>5, DecrementedExactly
  <2> QED BY <1>5, <1>15, <2>3, <2>4, QuantityAssumption
<1>18. ASSUME NEW s \in Rows
       PROVE  /\ allocated'[s] + Cardinality(Units(Uncounted(s)))'
                     = Cardinality(Units(Kept(s)))'
              /\ Cardinality(Units(HoldersOf(s)))' <= OnHand[s]
  <2>1. PICK H \in SUBSET Ids, J \in SUBSET Ids : H = HoldersOf(s) /\ J = HoldersOf(s)'
      BY <1>5, <1>14, CountsTyped
  <2>2. /\ Units(HoldersOf(s))' = Units(J) /\ Units(Kept(s))' = Units(J)
        /\ Units(Uncounted(s))' = {}
    <3>1. Units(J)' = Units(J)
        BY <1>10, UnitsRemembered
    <3> QED BY <1>13, <2>1, <3>1 DEF Units, Kept
  <2>3. /\ Cardinality(Units(H)) \in Nat /\ allocated[s] = Cardinality(Units(H))
        /\ Cardinality(Units(H)) <= OnHand[s] /\ OnHand[s] \in Nat
      BY <1>1, <1>15, <2>1, QuantityAssumption DEF HeldFits
  <2>4. i \in H <=> s = old
      BY <1>5, <2>1 DEF HoldersOf
  <2>5. Cardinality(Units(J)) = allocated'[s] /\ Cardinality(Units(J)) <= OnHand[s]
    <3>1. CASE s = row /\ s = old
      <4>1. J = H
          BY <1>14, <2>1, <2>4, <3>1
      <4> QED BY <1>5, <1>16, <2>3, <3>1, <4>1
    <3>2. CASE s = row /\ s # old
      <4>1. J = H \cup {i} /\ i \notin H
          BY <1>14, <2>1, <2>4, <3>2
      <4>2. Cardinality(Units(H \cup {i})) = Cardinality(Units(H)) + q
          BY <1>1, <1>5, <4>1, UnitsAdded
      <4>3. Cardinality(Units(H)) + q <= OnHand[s]
          BY <1>17, <2>1, <3>2
      <4>4. allocated'[s] = allocated[s] + q
          BY <1>5, <1>15, <1>16, <3>2
      <4> QED BY <2>3, <4>1, <4>2, <4>3, <4>4
    <3>3. CASE s # row /\ s = old
      <4>1. J = H \ {i} /\ i \in H
          BY <1>14, <2>1, <2>4, <3>3
      <4>2. Cardinality(Units(H \ {i})) = Cardinality(Units(H)) - q
          BY <1>1, <1>5, <4>1, UnitsRemoved
      <4>3. allocated'[s] = allocated[s] - q
          BY <1>5, <1>15, <1>16, <3>3
      <4> QED BY <1>5, <2>3, <4>1, <4>2, <4>3
    <3>4. CASE s # row /\ s # old
      <4>1. J = H
          BY <1>14, <2>1, <2>4, <3>4
      <4>2. allocated'[s] = allocated[s]
          BY <1>15, <1>16, <3>4
      <4> QED BY <2>3, <4>1, <4>2
    <3> QED BY <3>1, <3>2, <3>3, <3>4
  <2>6. allocated'[s] + 0 = allocated'[s]
      BY <1>5, <1>15, <1>16
  <2> QED BY <2>2, <2>5, <2>6, FS_EmptySet
<1>19. CountsExact' /\ HeldFits'
    BY <1>18 DEF CountsExact, HeldFits
<1> QED BY <1>1, <1>12, <1>19, DeskBooks

LEMMA DeskStepBooks ==
    ASSUME OneLot, WellFormed, Books, NEW d \in Desks, DeskStep(d), ~disturbed'
    PROVE  Books'
<1>1. /\ SoundTables /\ CountsExact /\ HeldFits /\ desk \in [Desks -> DeskRecords]
      /\ SoundDesk(desk[d]) /\ desk[d] \in DeskRecords
    BY DEF WellFormed, SoundDesks, Books
<1>2. ASSUME UNCHANGED <<job, allocs, allocated>>, GivenBack' = GivenBack
      PROVE  CountsExact' /\ HeldFits'
  <2>1. \A row \in Rows : Uncounted(row)' = Uncounted(row)
      BY <1>2 DEF Uncounted, Counting
  <2> QED BY <1>1, <1>2, <2>1, CountsAlike
<1>3. ASSUME NEW a \in Ids, NEW stage \in {"override", "release"}, NEW row,
             Call(d, stage, a, row)
      PROVE  Books'
  <2>1. /\ desk'[d].stage = stage /\ desk'[d].copy = CopyOf(a)
        /\ desk[d].stage = "idle"
        /\ \A e \in Desks \ {d} : desk'[e] = desk[e]
      BY <1>1, <1>3 DEF Call
  <2>2. GivenBack' = GivenBack
      BY <1>3, <2>1 DEF GivenBack
  <2>3. Quiet /\ allocs[a].status # "CANCELLED" /\ UNCHANGED <<job, cron, allocs, allocated>>
      BY <1>3 DEF Call, tables
  <2>4. CountsExact' /\ HeldFits'
      BY <1>2, <2>2, <2>3
  <2>5. Current(desk[d].copy)'
    <3>1. allocs[a].status \in Active
        BY <1>1, <2>3, Quantities DEF AllocRecords, Statuses, Active
    <3> QED BY <2>1, <2>3, <3>1 DEF Current, Claimed, CopyOf
  <2> QED BY <1>3, <2>1, <2>3, <2>4, <2>5, DeskBooks
<1>4. CASE CheckSubstitute(d)
  <2>1. /\ desk'[d].stage = "checked" /\ desk'[d].copy = desk[d].copy
        /\ desk'[d].substitute = desk[d].substitute /\ desk[d].stage = "override"
        /\ \A e \in Desks \ {d} : desk'[e] = desk[e]
        /\ UNCHANGED <<job, cron, allocs, allocated>>
      BY <1>1, <1>4 DEF CheckSubstitute, DeskRecords, tables
  <2>2. GivenBack' = GivenBack
      BY <2>1 DEF GivenBack
  <2>3. CountsExact' /\ HeldFits'
      BY <1>2, <2>1, <2>2
  <2>4. Current(desk[d].copy)'
      BY <2>1 DEF Books, DeskCopiesCurrent, Current, Claimed, CopyOf
  <2>5. SubstituteSuffices(d)'
      BY <1>4, <2>1 DEF CheckSubstitute, SubstituteSuffices, SeenAllocated, Decremented
  <2> QED BY <2>1, <2>3, <2>4, <2>5, DeskBooks
<1>5. CASE GiveBack(d)
  <2>1. PICK copy : copy = desk[d].copy
      OBVIOUS
  <2>2. /\ desk'[d].stage = "given_back" /\ desk'[d].copy = copy
        /\ desk[d].stage = "release"
        /\ \A e \in Desks \ {d} : desk'[e] = desk[e]
        /\ UNCHANGED <<job, cron, allocs, substituted>>
      BY <1>1, <1>5, <2>1 DEF GiveBack, DeskRecords
  <2>3. Current(copy) /\ copy.id \in Ids
      BY <1>1, <2>1, <2>2 DEF Books, DeskCopiesCurrent, SoundDesk, Faithful
  <2>4. \A e \in Desks \ {d} : desk[e].stage = "idle"
      BY <2>2, DeskAlone DEF Books
  <2>5. GivenBack = {} /\ GivenBack' = {copy.id}
      BY <2>2, <2>4 DEF GivenBack
  <2>6. \A row \in Rows : /\ Uncounted(row)' = Uncounted(row)
                          /\ HoldersOf(row)' = HoldersOf(row)
                          /\ Kept(row)' = Kept(row) \ {copy.id}
      BY <2>2, <2>5 DEF Uncounted, Counting, HoldersOf, Ids, Kept
  <2>7. Remembers /\ Ids' = Ids
      BY <2>2, NothingForgotten DEF Ids
  <2>8. allocated' = Decremented(copy.row, copy.quantity)
      BY <1>5, <2>1 DEF GiveBack
  <2>9. CountsExact' /\ HeldFits'
      BY <1>1, <2>3, <2>5, <2>6, <2>7, <2>8, CountsFreed
  <2>10. Current(desk[d].copy)'
      BY <2>2, <2>3 DEF Current, Claimed, CopyOf
  <2> QED BY <2>2, <2>9, <2>10, DeskBooks
<1>6. CASE MarkReleased(d)
  <2>1. PICK i \in Ids : i = desk[d].copy.id
      BY <1>1, <1>6 DEF SoundDesk, MarkReleased, Faithful
  <2>2. /\ Remembers /\ Ids' = Ids /\ \A a \in Ids \ {i} : allocs'[a] = allocs[a]
        /\ allocs'[i] = [allocs[i] EXCEPT !.status = "CANCELLED"]
      BY <1>1, <1>6, <2>1, StatusRemembered DEF MarkReleased, Statuses, SoundTables
  <2>3. allocs'[i].status = "CANCELLED"
    <3>1. allocs[i] \in AllocRecords
        BY <1>1, Quantities
    <3> QED BY <2>2, <3>1 DEF AllocRecords
  <2>4. /\ desk'[d].stage = "idle" /\ desk[d].stage = "given_back"
        /\ \A e \in Desks \ {d} : desk'[e] = desk[e]
        /\ UNCHANGED <<job, cron, allocated>>
      BY <1>1, <1>6 DEF MarkReleased, IdleDesk
  <2>5. \A e \in Desks \ {d} : desk[e].stage = "idle"
      BY <2>4, DeskAlone DEF Books
  <2>6. GivenBack = {i} /\ GivenBack' = {}
      BY <2>1, <2>4, <2>5 DEF GivenBack
  <2>7. \A row \in Rows : HoldersOf(row)' = HoldersOf(row) \ {i}
      BY <2>2, <2>3 DEF HoldersOf, Active
  <2>8. ASSUME NEW row \in Rows
        PROVE  /\ Units(Uncounted(row))' = Units(Uncounted(row))
               /\ Units(Kept(row))' = Units(Kept(row))
               /\ Cardinality(Units(HoldersOf(row)))' <= OnHand[row]
    <3>1. PICK U \in SUBSET Ids, K \in SUBSET Ids, H \in SUBSET Ids :
              U = Uncounted(row) /\ K = Kept(row) /\ H = HoldersOf(row)
        BY CountsTyped
    <3>2. Uncounted(row)' = U /\ Kept(row)' = K /\ HoldersOf(row)' = H \ {i}
        BY <2>4, <2>6, <2>7, <3>1 DEF Uncounted, Counting, Kept
    <3>3. Units(U)' = Units(U) /\ Units(K)' = Units(K) /\ Units(H \ {i})' = Units(H \ {i})
        BY <2>2, UnitsRemembered
    <3>4. Cardinality(Units(H \ {i})) <= Cardinality(Units(H))
        BY <1>1, UnitsMonotone
    <3>5. Cardinality(Units(H)) <= OnHand[row]
        BY <1>1, <3>1 DEF HeldFits
    <3>6. /\ Cardinality(Units(H)) \in Nat /\ Cardinality(Units(H \ {i})) \in Nat
          /\ OnHand[row] \in Nat
        BY <1>1, UnitsFinite, QuantityAssumption
    <3>7. /\ Units(Uncounted(row))' = Units(U) /\ Units(Kept(row))' = Units(K)
          /\ Units(HoldersOf(row))' = Units(H \ {i})
        BY <3>2, <3>3 DEF Units
    <3> QED BY <3>1, <3>4, <3>5, <3>6, <3>7
  <2>9. CountsExact' /\ HeldFits'
      BY <1>1, <2>4, <2>8 DEF CountsExact, HeldFits
  <2> QED BY <2>4, <2>9, DeskBooks
<1>7. CASE Hangup(d)
  <2>1. /\ desk'[d].stage = "idle" /\ desk[d].stage \notin {"idle", "given_back"}
        /\ \A e \in Desks \ {d} : desk'[e] = desk[e]
        /\ UNCHANGED <<job, cron, allocs, allocated>>
      BY <1>1, <1>7 DEF Hangup, IdleDesk, tables
  <2>2. GivenBack' = GivenBack
      BY <2>1 DEF GivenBack
  <2>3. CountsExact' /\ HeldFits'
      BY <1>2, <2>1, <2>2
  <2> QED BY <2>1, <2>3, DeskBooks
<1>8. CASE StartOverride(d) \/ StartRelease(d)
    BY <1>3, <1>8 DEF StartOverride, StartRelease
<1> QED BY <1>4, <1>5, <1>6, <1>7, <1>8, CommitOverrideBooks DEF DeskStep

LEMMA InitBooks == Init => BooksKept
<1> SUFFICES ASSUME Init PROVE Books
    BY DEF BooksKept
<1>1. /\ \A o \in Orders : job[o].stage = "waiting"
      /\ \A n \in Nodes : cron[n] = {}
      /\ \A d \in Desks : desk[d].stage = "idle"
    BY DEF Init, NewJob, IdleDesk
<1>2. Busy = {}
    BY <1>1 DEF Busy, Working
<1>3. ASSUME NEW row \in Rows
      PROVE  /\ allocated[row] = 0
             /\ Cardinality(Units(Uncounted(row))) = 0
             /\ Cardinality(Units(Kept(row))) = 0
             /\ Cardinality(Units(HoldersOf(row))) = 0
  <2>1. Uncounted(row) = {} /\ HoldersOf(row) = {} /\ Kept(row) = {}
      BY <1>1 DEF Init, Uncounted, Counting, Kept, HoldersOf, Ids
  <2>2. /\ Units(Uncounted(row)) = {} /\ Units(Kept(row)) = {}
        /\ Units(HoldersOf(row)) = {}
      BY <2>1 DEF Units
  <2>3. allocated[row] = 0
      BY DEF Init
  <2> QED BY <2>2, <2>3, FS_EmptySet
<1>4. CountsExact /\ HeldFits
    BY <1>3, QuantityAssumption DEF CountsExact, HeldFits
<1>5. OffersFit /\ JobCopiesClaimed /\ CronCopiesCurrent /\ DeskCopiesCurrent
    BY <1>1 DEF OffersFit, JobCopiesClaimed, CronCopiesCurrent, DeskCopiesCurrent
<1> QED BY <1>2, <1>4, <1>5 DEF Books, Alone

LEMMA IdleStepBooks ==
    ASSUME WellFormed, Books, UNCHANGED <<allocs, allocated, job, cron, desk>>
    PROVE  Books'
<1>1. Busy' = Busy
    BY DEF Busy
<1>2. \A row \in Rows : Uncounted(row)' = Uncounted(row)
    BY DEF Uncounted, Counting
<1>3. GivenBack' = GivenBack
    BY DEF GivenBack
<1>4. CountsExact' /\ HeldFits'
    BY <1>2, <1>3, CountsAlike DEF Books
<1>5. \A row \in Rows : Units(HoldersOf(row))' = Units(HoldersOf(row))
    BY DEF Units, HoldersOf, Ids
<1>6. OffersFit'
  <2>1. \A o \in Orders : \A offer \in job[o].offers : offer.row \in Rows
      BY DEF WellFormed, SoundJobs, JobRecords, Offers
  <2> QED BY <1>5, <2>1 DEF Books, OffersFit
<1>7. JobCopiesClaimed' /\ CronCopiesCurrent' /\ DeskCopiesCurrent'
    BY DEF Books, JobCopiesClaimed, CronCopiesCurrent, DeskCopiesCurrent, Current, Claimed,
           CopyOf, SubstituteSuffices, SeenAllocated, Decremented
<1> QED BY <1>1, <1>4, <1>6, <1>7 DEF Books, Alone

LEMMA StepBooks ==
    ASSUME OneLot, WellFormed, BooksKept, [Next]_vars
    PROVE  BooksKept'
<1> SUFFICES ASSUME ~disturbed' PROVE Books'
    BY DEF BooksKept
<1>1. ~disturbed
  <2>1. ASSUME NEW o \in Orders, JobStep(o) PROVE disturbed => disturbed'
      BY <2>1 DEF JobStep, Start, Overlaps, ReadStock, CreateAllocation, CountAllocation,
         FinishLine, SyncOrderStatus, ReadSoft, CheckStock, HardLock, Finish,
         InsufficientStock, Interrupt
  <2>2. ASSUME NEW n \in Nodes, CronStep(n) PROVE disturbed => disturbed'
      BY <2>2 DEF CronStep, StartReconciliation, Overlaps, CancelExpired, SkipExpired
  <2>3. ASSUME NEW d \in Desks, DeskStep(d) PROVE disturbed => disturbed'
      BY <2>3 DEF DeskStep, StartOverride, StartRelease, Call, CheckSubstitute,
         CommitOverride, GiveBack, MarkReleased, Hangup
  <2> QED BY <2>1, <2>2, <2>3 DEF Next, Elapse, vars
<1>2. Books
    BY <1>1 DEF BooksKept
<1>3. CASE UNCHANGED vars \/ \E a \in AllocIds : Elapse(a)
    BY <1>2, <1>3, IdleStepBooks DEF vars, Elapse, tables
<1> QED BY <1>2, <1>3, JobStepBooks, CronStepBooks, DeskStepBooks DEF Next

(* The books are exact wherever a location holds one lot: as long as          *)
(* operations did not overlap, none was cut short between its two writes and  *)
(* no desk named a cancelled allocation, quantityAllocated is what the active *)
(* allocations hold, and never more than is on hand.                          *)
THEOREM BooksAreExact ==
    ASSUME OneLot
    PROVE  Spec => []BooksExact
<1>1. BooksKept /\ WellFormed => BooksExact
  <2> SUFFICES ASSUME Books, WellFormed, NEW row \in Rows
               PROVE  /\ Quiet => allocated[row] = Held(row)
                      /\ Held(row) <= OnHand[row]
      BY DEF BooksKept, BooksExact
  <2>1. Held(row) <= OnHand[row]
      BY DEF Books, HeldFits, Held
  <2>2. ASSUME Quiet PROVE allocated[row] = Held(row)
    <3>1. Uncounted(row) = {} /\ Kept(row) = HoldersOf(row)
        BY <2>2 DEF Quiet, Uncounted, Counting, Kept, GivenBack, Working, JobStages
    <3>2. Units(Uncounted(row)) = {}
        BY <3>1 DEF Units
    <3>3. allocated[row] + 0 = Held(row) /\ allocated[row] \in Int
        BY <3>1, <3>2, FS_EmptySet, CountsTyped DEF Books, CountsExact, Held
    <3> QED BY <3>3
  <2> QED BY <2>1, <2>2
<1>2. BooksKept /\ WellFormed /\ [Next]_vars => BooksKept'
    BY StepBooks
<1> QED BY <1>1, <1>2, InitSound, StepSound, InitBooks, PTL DEF Spec
================================================================================
