---------------------------- MODULE WavePickingProofs ----------------------------
(***************************************************************************)
(* What WavePicking promises, for any number of waves, callers, pickers,    *)
(* lines and allocations: types (TypeCorrect), one task per allocation      *)
(* (OneTaskEach), one offer of the order (OfferedOnce) and sums that agree  *)
(* (PicksAgree).                                                            *)
(*                                                                         *)
(* TypeCorrect: the records of releaser and picker say more than TypeOK,    *)
(* since a task that is created or confirmed is the one they remember.      *)
(*                                                                         *)
(* OneTaskEach: as long as releases take turns, what a release has still to *)
(* create has no task (WorkAhead), and a task whose line is ALLOCATED is    *)
(* one that a release has made whose mark is to come (LinesMarked); the     *)
(* next release, which begins when there is none, finds no such line.       *)
(*                                                                         *)
(* OfferedOnce: no line goes back to ALLOCATED, so that once the order has  *)
(* left it, or a listener is about to make it leave, no listener reads      *)
(* ALLOCATED any more (HeaderFollows); one that has read it earlier is      *)
(* alone, unless there was a race.  Until someone sets the status by hand.  *)
(*                                                                         *)
(* PicksAgree: what a picker remembers of its task is still so, unless two  *)
(* hold the task (HandsKnow).  Sums are cardinalities of sets of units, so  *)
(* that they can be reasoned about without induction.                       *)
(***************************************************************************)
EXTENDS WavePicking, FiniteSetTheorems, WellFoundedInduction, TLAPS

TaskRecords ==
    [allocation : Allocations, wave : Waves, toPick : Nat, picked : Nat,
     status : {"CREATED", "IN_PROGRESS", "SHORT"}]
LineRecords == [status : {"ALLOCATED", "RELEASED", "BACKORDERED"}, fulfilled : Nat]
WaveRecords == [status : {"PLANNED", "RELEASED"}, total : Nat]
Pieces == ({"create"} \X Allocations) \cup ({"mark"} \X Lines)
ReleaserRecords ==
    [stage : {"idle", "create", "number"}, wave : Waves \cup {NoWave},
     todo : SUBSET Pieces, count : Nat, made : Nat]
PickerRecords ==
    [stage : {"idle", "read", "emitted"}, task : Nat, picked : Nat, quantity : Nat]
Histories ==
    [crossed : BOOLEAN, cut : BOOLEAN, doubled : SUBSET Lines, uncovered : BOOLEAN,
     raced : BOOLEAN, byHand : Nat]

(* Types, and what every call of a releaser or a picker remembers. *)
Typed ==
    /\ order \in OrderStatuses
    /\ line \in [Lines -> LineRecords]
    /\ tasks \in Seq(TaskRecords)
    /\ wave \in [Waves -> WaveRecords]
    /\ shelf \in [onHand : Nat, picked : Nat]
    /\ releaser \in [Releasers -> ReleaserRecords]
    /\ picker \in [Pickers -> PickerRecords]
    /\ events \in Nat
    /\ headers \in [HeaderStatuses -> Nat]
    /\ history \in Histories
ShelfSound == shelf.onHand + shelf.picked = Stock
SoundRelease(release, made) ==
    /\ release.made <= made
    /\ release = IdleReleaser \/ (release.stage # "idle" /\ release.wave \in Waves)
    /\ release.stage = "number" => \E a \in Allocations : <<"create", a>> \in release.todo
ReleasersSound == \A r \in Releasers : SoundRelease(releaser[r], Len(tasks))
SoundPick(pick, ids) == pick = IdlePicker \/ (pick.stage # "idle" /\ pick.task \in ids)
PickersSound == \A p \in Pickers : SoundPick(picker[p], TaskIds)
WellFormed == Typed /\ ShelfSound /\ ReleasersSound /\ PickersSound

(* As long as releases take turns and none is cut short. *)
OneReleasing ==
    \A r, s \in Releasers : releaser[r].stage # "idle" /\ releaser[s].stage # "idle" => r = s
EachOnce == \A s, t \in TaskIds : tasks[s].allocation = tasks[t].allocation => s = t
WorkAhead ==
    \A r \in Releasers, a \in Allocations :
        <<"create", a>> \in releaser[r].todo =>
            /\ <<"mark", LineOf[a]>> \in releaser[r].todo
            /\ \A t \in TaskIds : tasks[t].allocation # a
LinesMarked ==
    \A t \in TaskIds :
        line[LineOfTask(t)].status = "ALLOCATED" =>
            \E r \in Releasers : <<"mark", LineOfTask(t)>> \in releaser[r].todo
TasksApart == OneReleasing /\ EachOnce /\ WorkAhead /\ LinesMarked
OneRelease == history.crossed \/ history.cut \/ TasksApart

(* The status of the order follows that of its lines. *)
AllAllocated == {line[l].status : l \in Lines} = {"ALLOCATED"}
HeaderFollows ==
    /\ order # "ALLOCATED" => ~AllAllocated
    /\ \A h \in HeaderStatuses \ {"ALLOCATED"} : headers[h] > 0 => ~AllAllocated
    /\ ~history.raced /\ headers["ALLOCATED"] > 0 =>
           /\ order = "ALLOCATED"
           /\ \A h \in HeaderStatuses \ {"ALLOCATED"} : headers[h] = 0

(* What a picker read of its task before its transaction is still so. *)
HandsKnow ==
    \A p \in Pickers :
        picker[p].stage # "idle" /\ LineOfTask(picker[p].task) \notin history.doubled =>
            /\ picker[p].picked = tasks[picker[p].task].picked
            /\ Touched(picker[p].task) = {p}
PicksKept == HandsKnow /\ PicksAddUp

--------------------------------------------------------------------------------
(* Work is done in the order of its numbers: a set of numbers has a least one. *)
LEMMA LeastExists ==
    ASSUME NEW S \in SUBSET Nat, S # {}
    PROVE  Min(S) \in S
<1>1. PICK R : R = {pair \in Nat \X Nat : pair[1] < pair[2]}
    OBVIOUS
<1>2. IsWellFoundedOn(R, Nat)
  <2>1. R = OpToRel(<, Nat)
      BY <1>1 DEF OpToRel
  <2> QED BY <2>1, NatLessThanWellFounded
<1>3. PICK x \in S : \A y \in S : ~(<<y, x>> \in R)
    BY <1>2, WFMin
<1>4. \A y \in S : x =< y
  <2> SUFFICES ASSUME NEW y \in S PROVE x =< y
      OBVIOUS
  <2>1. x \in Nat /\ y \in Nat
      OBVIOUS
  <2>2. y < x => <<y, x>> \in R
      BY <1>1, <2>1
  <2> QED BY <1>3, <2>1, <2>2
<1> QED BY <1>4 DEF Min

LEMMA NextPiece ==
    ASSUME WellFormed, NEW r \in Releasers
    PROVE  /\ Todo(r, "create") \subseteq Allocations
           /\ Todo(r, "create") # {} =>
                  /\ Min(Todo(r, "create")) \in Allocations
                  /\ <<"create", Min(Todo(r, "create"))>> \in releaser[r].todo
           /\ Todo(r, "mark") # {} =>
                  /\ Min(Todo(r, "mark")) \in Lines
                  /\ <<"mark", Min(Todo(r, "mark"))>> \in releaser[r].todo
<1>1. releaser[r].todo \subseteq Pieces
    BY DEF WellFormed, Typed, ReleaserRecords
<1>2. Todo(r, "create") \subseteq Allocations /\ Todo(r, "mark") \subseteq Lines
    BY <1>1 DEF Todo, Pieces
<1>3. Todo(r, "create") \in SUBSET Nat /\ Todo(r, "mark") \in SUBSET Nat
    BY <1>2, AllocationAssumption
<1>4. Todo(r, "create") # {} => Min(Todo(r, "create")) \in Todo(r, "create")
    BY <1>3, LeastExists
<1>5. Todo(r, "mark") # {} => Min(Todo(r, "mark")) \in Todo(r, "mark")
    BY <1>3, LeastExists
<1> QED BY <1>2, <1>4, <1>5 DEF Todo

--------------------------------------------------------------------------------
LEMMA InitiallyWellFormed == Init => WellFormed
<1> SUFFICES ASSUME Init PROVE WellFormed
    OBVIOUS
<1>1. Typed
  <2>1. order \in OrderStatuses /\ headers \in [HeaderStatuses -> Nat] /\ events \in Nat
      BY BoundAssumption DEF Init, HeaderStatuses, OrderStatuses
  <2>2. line \in [Lines -> LineRecords] /\ wave \in [Waves -> WaveRecords]
      BY DEF Init, LineRecords, WaveRecords
  <2>3. tasks \in Seq(TaskRecords)
      BY DEF Init
  <2>4. shelf \in [onHand : Nat, picked : Nat]
      BY AllocationAssumption DEF Init
  <2>5. releaser \in [Releasers -> ReleaserRecords]
      BY DEF Init, IdleReleaser, ReleaserRecords
  <2>6. picker \in [Pickers -> PickerRecords]
      BY DEF Init, IdlePicker, PickerRecords
  <2>7. history \in Histories
      BY DEF Init, NoHistory, Histories
  <2> QED BY <2>1, <2>2, <2>3, <2>4, <2>5, <2>6, <2>7 DEF Typed
<1>2. ShelfSound
    BY AllocationAssumption DEF Init, ShelfSound
<1>3. ReleasersSound
    BY DEF Init, ReleasersSound, SoundRelease, IdleReleaser
<1>4. PickersSound
    BY DEF Init, PickersSound, SoundPick
<1> QED BY <1>1, <1>2, <1>3, <1>4 DEF WellFormed

(* releaseWave. *)
LEMMA Pieced == \A found \in SUBSET Lines : Work(found) \subseteq Pieces
<1> SUFFICES ASSUME NEW found \in SUBSET Lines, NEW piece \in Work(found)
             PROVE  piece \in Pieces
    OBVIOUS
<1>1. CASE \E a \in Allocations : piece = <<"create", a>>
    BY <1>1 DEF Pieces
<1>2. CASE \E l \in found : piece = <<"mark", l>>
    BY <1>2 DEF Pieces
<1> QED BY <1>1, <1>2 DEF Work

LEMMA MoreTasks ==
    ASSUME NEW n \in Nat, NEW m \in Nat, n <= m,
           NEW release, release.made \in Nat, SoundRelease(release, n)
    PROVE  SoundRelease(release, m)
<1> PICK made \in Nat : made = release.made
    OBVIOUS
<1>1. made <= m
    BY DEF SoundRelease
<1> QED BY <1>1 DEF SoundRelease

(* One releaser moves on, and there are no fewer tasks than before. *)
LEMMA ReleaserMoves ==
    ASSUME WellFormed, NEW r \in Releasers, NEW new \in ReleaserRecords,
           releaser' = [releaser EXCEPT ![r] = new],
           NEW n \in Nat, n = Len(tasks), NEW m \in Nat, m = Len(tasks'), n <= m,
           SoundRelease(new, m)
    PROVE  releaser' \in [Releasers -> ReleaserRecords] /\ ReleasersSound'
<1>1. \A s \in Releasers : releaser'[s] = IF s = r THEN new ELSE releaser[s]
    BY DEF WellFormed, Typed
<1>2. releaser' \in [Releasers -> ReleaserRecords]
    BY DEF WellFormed, Typed
<1>3. ASSUME NEW s \in Releasers PROVE SoundRelease(releaser'[s], m)
  <2>1. CASE s = r
      BY <1>1, <2>1
  <2>2. CASE s # r
    <3>1. releaser'[s] = releaser[s] /\ releaser[s].made \in Nat
        BY <1>1, <2>2 DEF WellFormed, Typed, ReleaserRecords
    <3>2. SoundRelease(releaser[s], n)
        BY DEF WellFormed, ReleasersSound
    <3>3. SoundRelease(releaser[s], m)
        BY <3>1, <3>2, MoreTasks
    <3> QED BY <3>1, <3>3
  <2> QED BY <2>1, <2>2
<1> QED BY <1>2, <1>3 DEF ReleasersSound

LEMMA StartReleaseSound ==
    ASSUME WellFormed, NEW r \in Releasers, NEW w \in Waves, StartRelease(r, w)
    PROVE  WellFormed'
<1>1. PICK found : found = IF order = "ALLOCATED"
                           THEN {l \in Lines : line[l].status = "ALLOCATED"} ELSE {}
    OBVIOUS
<1>2. PICK new : new = [IdleReleaser EXCEPT !.stage = "create", !.wave = w, !.todo = Work(found)]
    OBVIOUS
<1>3. /\ releaser' = [releaser EXCEPT ![r] = new]
      /\ history' = [history EXCEPT !.crossed = @ \/ Releasing # {}]
      /\ UNCHANGED <<order, line, wave, tasks, shelf, picker, events, headers>>
    BY <1>1, <1>2 DEF StartRelease, Opens, floor
<1>4. Work(found) \subseteq Pieces
    BY <1>1, Pieced
<1>5. /\ new.stage = "create" /\ new.wave = w /\ new.made = 0
      /\ new \in ReleaserRecords
    BY <1>2, <1>4 DEF IdleReleaser, ReleaserRecords
<1>6. releaser' \in [Releasers -> ReleaserRecords] /\ ReleasersSound'
  <2>1. Len(tasks) \in Nat /\ tasks' = tasks
      BY <1>3 DEF WellFormed, Typed
  <2>2. SoundRelease(new, Len(tasks'))
      BY <1>5, <2>1 DEF SoundRelease
  <2> PICK n \in Nat : n = Len(tasks) /\ n = Len(tasks') /\ n <= n
      BY <2>1
  <2> QED BY <1>3, <1>5, <2>1, <2>2, ReleaserMoves
<1>7. history' \in Histories
  <2>1. history \in Histories /\ (history.crossed \/ Releasing # {}) \in BOOLEAN
      BY DEF WellFormed, Typed
  <2> QED BY <1>3, <2>1 DEF Histories
<1>8. Typed'
    BY <1>3, <1>6, <1>7 DEF WellFormed, Typed
<1>9. ShelfSound' /\ PickersSound'
    BY <1>3 DEF WellFormed, ShelfSound, PickersSound, TaskIds
<1> QED BY <1>6, <1>8, <1>9 DEF WellFormed

LEMMA CountTasksSound ==
    ASSUME WellFormed, NEW r \in Releasers, CountTasks(r)
    PROVE  WellFormed'
<1>1. PICK new : new = [releaser[r] EXCEPT !.stage = "number", !.count = Len(tasks)]
    OBVIOUS
<1>2. /\ releaser' = [releaser EXCEPT ![r] = new]
      /\ UNCHANGED <<order, line, wave, tasks, shelf, picker, events, headers, history>>
    BY <1>1 DEF CountTasks, floor
<1>3. releaser[r] \in ReleaserRecords /\ Len(tasks) \in Nat
    BY DEF WellFormed, Typed
<1>4. /\ new \in ReleaserRecords /\ new.stage = "number" /\ new.made = releaser[r].made
      /\ new.wave = releaser[r].wave /\ new.todo = releaser[r].todo
    BY <1>1, <1>3 DEF ReleaserRecords
<1>5. releaser' \in [Releasers -> ReleaserRecords] /\ ReleasersSound'
  <2>1. releaser[r].wave \in Waves /\ releaser[r].made <= Len(tasks) /\ tasks' = tasks
      BY <1>2 DEF CountTasks, WellFormed, ReleasersSound, SoundRelease, IdleReleaser
  <2>2. \E a \in Allocations : <<"create", a>> \in new.todo
      BY <1>4, NextPiece DEF CountTasks
  <2>3. SoundRelease(new, Len(tasks'))
      BY <1>4, <2>1, <2>2 DEF SoundRelease
  <2> PICK n \in Nat : n = Len(tasks) /\ n = Len(tasks') /\ n <= n
      BY <2>1, <1>3
  <2> QED BY <1>2, <1>3, <1>4, <2>1, <2>3, ReleaserMoves
<1>6. Typed'
    BY <1>2, <1>5 DEF WellFormed, Typed
<1>7. ShelfSound' /\ PickersSound'
    BY <1>2 DEF WellFormed, ShelfSound, PickersSound, TaskIds
<1> QED BY <1>5, <1>6, <1>7 DEF WellFormed

LEMMA CreateTaskSound ==
    ASSUME WellFormed, NEW r \in Releasers, CreateTask(r)
    PROVE  WellFormed'
<1>1. PICK a : a = Min(Todo(r, "create"))
    OBVIOUS
<1>2. PICK new : new = [releaser[r] EXCEPT !.stage = "create", !.made = @ + 1,
                                           !.todo = @ \ {<<"create", a>>}]
    OBVIOUS
<1>3. /\ releaser' = [releaser EXCEPT ![r] = new]
      /\ tasks' = Append(tasks, NewTask(a, releaser[r].wave))
      /\ UNCHANGED <<order, line, wave, shelf, picker, events, headers, history>>
    BY <1>1, <1>2 DEF CreateTask
<1>4. releaser[r] \in ReleaserRecords /\ tasks \in Seq(TaskRecords) /\ Len(tasks) \in Nat
    BY DEF WellFormed, Typed
<1>5. /\ new \in ReleaserRecords /\ new.stage = "create" /\ new.made = releaser[r].made + 1
      /\ new.wave = releaser[r].wave
  <2>1. releaser[r].todo \ {<<"create", a>>} \in SUBSET Pieces /\ releaser[r].made + 1 \in Nat
      BY <1>4 DEF ReleaserRecords
  <2> QED BY <1>2, <1>4, <2>1 DEF ReleaserRecords
<1>6. releaser[r].wave \in Waves /\ releaser[r].made <= Len(tasks)
    BY DEF CreateTask, WellFormed, ReleasersSound, SoundRelease, IdleReleaser
<1>7. a \in Allocations
  <2>1. Todo(r, "create") # {}
      BY DEF CreateTask, WellFormed, ReleasersSound, SoundRelease, Todo
  <2> QED BY <1>1, <2>1, NextPiece
<1>8. NewTask(a, releaser[r].wave) \in TaskRecords
    BY <1>6, <1>7, AllocationAssumption DEF NewTask, TaskRecords
<1>9. tasks' \in Seq(TaskRecords) /\ Len(tasks') = Len(tasks) + 1
    BY <1>3, <1>4, <1>8
<1>10. releaser' \in [Releasers -> ReleaserRecords] /\ ReleasersSound'
  <2>1. releaser[r].made \in Nat
      BY <1>4 DEF ReleaserRecords
  <2>2. new.made <= Len(tasks')
      BY <1>4, <1>5, <1>6, <1>9, <2>1
  <2>3. SoundRelease(new, Len(tasks'))
      BY <1>5, <1>6, <2>2 DEF SoundRelease
  <2> PICK n \in Nat : n = Len(tasks)
      BY <1>4
  <2>4. n + 1 \in Nat /\ n + 1 = Len(tasks') /\ n <= n + 1
      BY <1>9
  <2> QED BY <1>3, <1>5, <2>3, <2>4, ReleaserMoves
<1>11. Typed'
    BY <1>3, <1>9, <1>10 DEF WellFormed, Typed
<1>12. ShelfSound' /\ PickersSound'
  <2>1. \A t \in TaskIds : t \in TaskIds'
      BY <1>4, <1>9 DEF TaskIds
  <2> QED BY <1>3, <2>1 DEF WellFormed, ShelfSound, PickersSound, SoundPick
<1> QED BY <1>10, <1>11, <1>12 DEF WellFormed

LEMMA MarkLineSound ==
    ASSUME WellFormed, NEW r \in Releasers, MarkLine(r)
    PROVE  WellFormed'
<1>1. PICK l : l = Min(Todo(r, "mark"))
    OBVIOUS
<1>2. PICK new : new = [releaser[r] EXCEPT !.todo = @ \ {<<"mark", l>>}]
    OBVIOUS
<1>3. /\ releaser' = [releaser EXCEPT ![r] = new]
      /\ line' = [line EXCEPT ![l].status = "RELEASED"]
      /\ UNCHANGED <<order, wave, tasks, shelf, picker, events, headers, history>>
    BY <1>1, <1>2 DEF MarkLine, floor
<1>4. releaser[r] \in ReleaserRecords
    BY DEF WellFormed, Typed
<1>5. /\ new \in ReleaserRecords /\ new.stage = "create" /\ new.made = releaser[r].made
      /\ new.wave = releaser[r].wave
    BY <1>2, <1>4 DEF ReleaserRecords, MarkLine
<1>6. releaser[r].wave \in Waves /\ releaser[r].made <= Len(tasks)
    BY DEF MarkLine, WellFormed, ReleasersSound, SoundRelease, IdleReleaser
<1>7. releaser' \in [Releasers -> ReleaserRecords] /\ ReleasersSound'
  <2>1. Len(tasks) \in Nat /\ tasks' = tasks
      BY <1>3 DEF WellFormed, Typed
  <2>2. SoundRelease(new, Len(tasks'))
      BY <1>5, <1>6, <2>1 DEF SoundRelease
  <2> PICK n \in Nat : n = Len(tasks) /\ n = Len(tasks') /\ n <= n
      BY <2>1
  <2> QED BY <1>3, <1>5, <2>1, <2>2, ReleaserMoves
<1>8. Typed'
  <2>1. line' \in [Lines -> LineRecords]
      BY <1>3 DEF WellFormed, Typed, LineRecords
  <2> QED BY <1>3, <1>7, <2>1 DEF WellFormed, Typed
<1>9. ShelfSound' /\ PickersSound'
    BY <1>3 DEF WellFormed, ShelfSound, PickersSound, TaskIds
<1> QED BY <1>7, <1>8, <1>9 DEF WellFormed

LEMMA EndReleaseSound ==
    ASSUME WellFormed, NEW r \in Releasers, FinishRelease(r) \/ CutRelease(r)
    PROVE  WellFormed'
<1>1. /\ releaser' = [releaser EXCEPT ![r] = IdleReleaser]
      /\ UNCHANGED <<order, line, tasks, shelf, picker, events, headers>>
    BY DEF FinishRelease, CutRelease, floor
<1>2. IdleReleaser \in ReleaserRecords /\ IdleReleaser.made = 0 /\ IdleReleaser.stage = "idle"
    BY DEF IdleReleaser, ReleaserRecords
<1>3. wave' \in [Waves -> WaveRecords]
  <2>1. CASE FinishRelease(r)
    <3>1. releaser[r].wave \in Waves /\ releaser[r].made \in Nat
        BY <2>1 DEF FinishRelease, WellFormed, Typed, ReleasersSound, SoundRelease,
                    IdleReleaser, ReleaserRecords
    <3> QED BY <2>1, <3>1 DEF FinishRelease, WellFormed, Typed, WaveRecords
  <2>2. CASE CutRelease(r)
      BY <2>2 DEF CutRelease, WellFormed, Typed
  <2> QED BY <2>1, <2>2
<1>4. history' \in Histories
    BY DEF FinishRelease, CutRelease, WellFormed, Typed, Histories
<1>5. releaser' \in [Releasers -> ReleaserRecords] /\ ReleasersSound'
  <2>1. Len(tasks) \in Nat /\ tasks' = tasks
      BY <1>1 DEF WellFormed, Typed
  <2>2. SoundRelease(IdleReleaser, Len(tasks'))
      BY <1>2, <2>1 DEF SoundRelease
  <2> PICK n \in Nat : n = Len(tasks) /\ n = Len(tasks') /\ n <= n
      BY <2>1
  <2> QED BY <1>1, <1>2, <2>1, <2>2, ReleaserMoves
<1>6. Typed'
    BY <1>1, <1>3, <1>4, <1>5 DEF WellFormed, Typed
<1>7. ShelfSound' /\ PickersSound'
    BY <1>1 DEF WellFormed, ShelfSound, PickersSound, TaskIds
<1> QED BY <1>5, <1>6, <1>7 DEF WellFormed

(* One picker moves on, and the tasks are as many as before. *)
LEMMA PickerMoves ==
    ASSUME WellFormed, NEW p \in Pickers, NEW new \in PickerRecords,
           picker' = [picker EXCEPT ![p] = new], TaskIds' = TaskIds,
           SoundPick(new, TaskIds)
    PROVE  picker' \in [Pickers -> PickerRecords] /\ PickersSound'
<1>1. \A q \in Pickers : picker'[q] = IF q = p THEN new ELSE picker[q]
    BY DEF WellFormed, Typed
<1>2. picker' \in [Pickers -> PickerRecords]
    BY DEF WellFormed, Typed
<1>3. \A q \in Pickers : SoundPick(picker[q], TaskIds)
    BY DEF WellFormed, PickersSound
<1> QED BY <1>1, <1>2, <1>3 DEF PickersSound

LEMMA IdleIsSound ==
    IdlePicker \in PickerRecords /\ IdlePicker.stage = "idle" /\ SoundPick(IdlePicker, TaskIds)
BY DEF IdlePicker, PickerRecords, SoundPick

LEMMA TaskTyped ==
    ASSUME WellFormed, NEW t \in TaskIds
    PROVE  tasks[t] \in TaskRecords /\ t \in Nat /\ LineOfTask(t) \in Lines
<1>1. tasks[t] \in TaskRecords /\ t \in Nat
    BY DEF WellFormed, Typed, TaskIds
<1> QED BY <1>1, AllocationAssumption DEF TaskRecords, LineOfTask

LEMMA TaskChanges ==
    ASSUME WellFormed, NEW t \in TaskIds, NEW new \in TaskRecords,
           tasks' = [tasks EXCEPT ![t] = new]
    PROVE  /\ tasks' \in Seq(TaskRecords) /\ Len(tasks') = Len(tasks) /\ TaskIds' = TaskIds
           /\ \A s \in TaskIds : tasks'[s] = IF s = t THEN new ELSE tasks[s]
<1>1. tasks \in Seq(TaskRecords)
    BY DEF WellFormed, Typed
<1>2. tasks' \in Seq(TaskRecords) /\ Len(tasks') = Len(tasks)
    BY <1>1 DEF TaskIds
<1>3. \A s \in TaskIds : tasks'[s] = IF s = t THEN new ELSE tasks[s]
    BY <1>1 DEF TaskIds
<1> QED BY <1>2, <1>3 DEF TaskIds

(* Nothing but the floor has changed: what the offices hold is as it was. *)
LEMMA OfficesKeep ==
    ASSUME WellFormed, UNCHANGED releaser, Len(tasks') = Len(tasks)
    PROVE  ReleasersSound'
BY DEF WellFormed, ReleasersSound

(* assignTask and confirmPick. *)
LEMMA AssignTaskSound ==
    ASSUME WellFormed, NEW t \in TaskIds, AssignTask(t)
    PROVE  WellFormed'
<1>1. PICK new : new = [tasks[t] EXCEPT !.status = "IN_PROGRESS"]
    OBVIOUS
<1>2. /\ tasks' = [tasks EXCEPT ![t] = new]
      /\ UNCHANGED <<order, line, wave, shelf, releaser, picker, events, headers, history>>
    BY <1>1 DEF AssignTask, office
<1>3. new \in TaskRecords
    BY <1>1, TaskTyped DEF TaskRecords
<1>4. tasks' \in Seq(TaskRecords) /\ Len(tasks') = Len(tasks) /\ TaskIds' = TaskIds
    BY <1>2, <1>3, TaskChanges
<1>5. Typed'
    BY <1>2, <1>4 DEF WellFormed, Typed
<1>6. ReleasersSound'
    BY <1>2, <1>4, OfficesKeep
<1>7. PickersSound' /\ ShelfSound'
    BY <1>2, <1>4 DEF WellFormed, PickersSound, ShelfSound
<1> QED BY <1>5, <1>6, <1>7 DEF WellFormed

LEMMA ReadTaskSound ==
    ASSUME WellFormed, NEW p \in Pickers, NEW t \in TaskIds, NEW quantity \in Scans,
           ReadTask(p, t, quantity)
    PROVE  WellFormed'
<1>1. PICK new : new = [stage |-> "read", task |-> t, picked |-> tasks[t].picked,
                        quantity |-> quantity]
    OBVIOUS
<1>2. /\ picker' = [picker EXCEPT ![p] = new]
      /\ history' = [history EXCEPT !.doubled =
             IF Touched(t) = {} THEN @ ELSE @ \cup {LineOfTask(t)}]
      /\ UNCHANGED <<order, line, tasks, wave, shelf, releaser, events, headers>>
    BY <1>1 DEF ReadTask, office
<1>3. tasks[t] \in TaskRecords /\ t \in Nat /\ LineOfTask(t) \in Lines
    BY TaskTyped
<1>4. new \in PickerRecords /\ SoundPick(new, TaskIds)
  <2>1. tasks[t].picked \in Nat /\ quantity \in Nat
      BY <1>3, AllocationAssumption DEF TaskRecords
  <2> QED BY <1>1, <1>3, <2>1 DEF PickerRecords, SoundPick
<1>5. picker' \in [Pickers -> PickerRecords] /\ PickersSound'
  <2>1. TaskIds' = TaskIds
      BY <1>2 DEF TaskIds
  <2> QED BY <1>2, <1>4, <2>1, PickerMoves
<1>6. history' \in Histories
    BY <1>2, <1>3 DEF WellFormed, Typed, Histories
<1>7. Typed'
    BY <1>2, <1>5, <1>6 DEF WellFormed, Typed
<1>8. ReleasersSound' /\ ShelfSound'
    BY <1>2, OfficesKeep DEF WellFormed, ShelfSound
<1> QED BY <1>5, <1>7, <1>8 DEF WellFormed

LEMMA EmitPickSound ==
    ASSUME WellFormed, NEW p \in Pickers, EmitPick(p)
    PROVE  WellFormed'
<1>1. PICK new : new = [picker[p] EXCEPT !.stage = "emitted"]
    OBVIOUS
<1>2. /\ picker' = [picker EXCEPT ![p] = new] /\ events' = events + 1
      /\ UNCHANGED <<order, line, tasks, wave, shelf, releaser, headers, history>>
    BY <1>1 DEF EmitPick, office
<1>3. picker[p] \in PickerRecords /\ picker[p].task \in TaskIds
    BY DEF EmitPick, WellFormed, Typed, PickersSound, SoundPick, IdlePicker
<1>4. new \in PickerRecords /\ SoundPick(new, TaskIds)
    BY <1>1, <1>3 DEF PickerRecords, SoundPick
<1>5. picker' \in [Pickers -> PickerRecords] /\ PickersSound'
  <2>1. TaskIds' = TaskIds
      BY <1>2 DEF TaskIds
  <2> QED BY <1>2, <1>4, <2>1, PickerMoves
<1>6. Typed'
    BY <1>2, <1>5 DEF WellFormed, Typed
<1>7. ReleasersSound' /\ ShelfSound'
    BY <1>2, OfficesKeep DEF WellFormed, ShelfSound
<1> QED BY <1>5, <1>6, <1>7 DEF WellFormed

LEMMA GiveUpSound ==
    ASSUME WellFormed, NEW p \in Pickers, RefuseFullPick(p) \/ RollbackPick(p)
    PROVE  WellFormed'
<1>1. /\ picker' = [picker EXCEPT ![p] = IdlePicker]
      /\ UNCHANGED <<order, line, tasks, wave, shelf, releaser, events, headers, history>>
    BY DEF RefuseFullPick, RollbackPick, office
<1>2. picker' \in [Pickers -> PickerRecords] /\ PickersSound'
  <2>1. TaskIds' = TaskIds
      BY <1>1 DEF TaskIds
  <2> QED BY <1>1, <2>1, IdleIsSound, PickerMoves
<1>3. Typed'
    BY <1>1, <1>2 DEF WellFormed, Typed
<1>4. ReleasersSound' /\ ShelfSound'
    BY <1>1, OfficesKeep DEF WellFormed, ShelfSound
<1> QED BY <1>2, <1>3, <1>4 DEF WellFormed

(* What a commit finds: the task a picker has in hand, and what it says. *)
LEMMA PickInHand ==
    ASSUME WellFormed, NEW p \in Pickers, picker[p].stage # "idle"
    PROVE  /\ picker[p] \in PickerRecords /\ picker[p].task \in TaskIds
           /\ picker[p].quantity \in Nat /\ Sum(p) \in Nat
           /\ LineOfTask(picker[p].task) \in Lines
<1>1. picker[p] \in PickerRecords
    BY DEF WellFormed, Typed
<1>2. picker[p].task \in TaskIds
    BY DEF WellFormed, PickersSound, SoundPick, IdlePicker
<1> QED BY <1>1, <1>2, TaskTyped DEF PickerRecords, Sum

LEMMA CommitPickSound ==
    ASSUME WellFormed, NEW p \in Pickers, CommitPick(p)
    PROVE  WellFormed'
<1>1. PICK t : t = picker[p].task
    OBVIOUS
<1>2. PICK new : new = [tasks[t] EXCEPT !.picked = Sum(p), !.status = "SHORT"]
    OBVIOUS
<1>3. /\ tasks' = [tasks EXCEPT ![t] = new]
      /\ picker' = [picker EXCEPT ![p] = IdlePicker]
      /\ Take(p)
      /\ UNCHANGED <<order, wave, releaser, events, headers>>
    BY <1>1, <1>2 DEF CommitPick, office
<1>4. t \in TaskIds /\ picker[p].quantity \in Nat /\ Sum(p) \in Nat
      /\ LineOfTask(t) \in Lines
    BY <1>1, PickInHand DEF CommitPick
<1>5. new \in TaskRecords
    BY <1>2, <1>4, TaskTyped DEF TaskRecords
<1>6. tasks' \in Seq(TaskRecords) /\ Len(tasks') = Len(tasks) /\ TaskIds' = TaskIds
    BY <1>3, <1>4, <1>5, TaskChanges
<1>7. picker' \in [Pickers -> PickerRecords] /\ PickersSound'
    BY <1>3, <1>6, IdleIsSound, PickerMoves
<1>8. shelf' \in [onHand : Nat, picked : Nat] /\ ShelfSound'
  <2>1. shelf \in [onHand : Nat, picked : Nat] /\ shelf.onHand + shelf.picked = Stock
      BY DEF WellFormed, Typed, ShelfSound
  <2>2. CASE ~Covered(p)
      BY <1>3, <2>1, <2>2 DEF Take, ShelfSound
  <2>3. CASE Covered(p)
    <3>1. PICK q \in Nat : q = picker[p].quantity
        BY <1>4
    <3>2. shelf' = [onHand |-> shelf.onHand - q, picked |-> shelf.picked + q]
        BY <1>3, <2>3, <3>1 DEF Take
    <3>3. q <= shelf.onHand
        BY <2>1, <2>3, <3>1 DEF Covered
    <3> QED BY <2>1, <3>2, <3>3 DEF ShelfSound
  <2> QED BY <2>2, <2>3
<1>9. line' \in [Lines -> LineRecords]
  <2>1. PICK l \in Lines : l = LineOfTask(t)
      BY <1>4
  <2>2. line' = [line EXCEPT ![l] = [status |-> "BACKORDERED",
                                     fulfilled |-> line[l].fulfilled + picker[p].quantity]]
      BY <1>1, <1>3, <2>1 DEF Take
  <2>3. line \in [Lines -> LineRecords] /\ line[l].fulfilled \in Nat
      BY DEF WellFormed, Typed, LineRecords
  <2> QED BY <1>4, <2>2, <2>3 DEF LineRecords
<1>10. history' \in Histories
    BY <1>3 DEF Take, WellFormed, Typed, Histories
<1>11. Typed'
    BY <1>3, <1>6, <1>7, <1>8, <1>9, <1>10 DEF WellFormed, Typed
<1>12. ReleasersSound'
    BY <1>3, <1>6, OfficesKeep
<1> QED BY <1>7, <1>8, <1>11, <1>12 DEF WellFormed

(* The listeners. *)
LEMMA HeaderIsStatus ==
    \A statuses : HeaderOf(statuses) = "" \/ HeaderOf(statuses) \in HeaderStatuses
BY DEF HeaderOf, HeaderStatuses

LEMMA ReadLinesSound == WellFormed /\ ReadLines => WellFormed'
<1> SUFFICES ASSUME WellFormed, ReadLines PROVE WellFormed'
    OBVIOUS
<1>1. PICK found : found = HeaderOf({line[l].status : l \in Lines})
    OBVIOUS
<1>2. /\ UNCHANGED <<order, line, tasks, wave, shelf, releaser, picker>>
      /\ events > 0 /\ events' = events - 1
      /\ IF found = "" THEN UNCHANGED <<headers, history>>
         ELSE /\ headers' = [headers EXCEPT ![found] = @ + 1]
              /\ history' = [history EXCEPT !.raced = @ \/ Syncing]
    BY <1>1 DEF ReadLines, floor, office
<1>3. events' \in Nat
  <2>1. events \in Nat
      BY DEF WellFormed, Typed
  <2>2. events > 0 /\ events' = events - 1
      BY <1>2
  <2> QED BY <2>1, <2>2
<1>4. headers' \in [HeaderStatuses -> Nat]
  <2>1. found = "" \/ found \in HeaderStatuses
      BY <1>1, HeaderIsStatus
  <2>2. headers \in [HeaderStatuses -> Nat]
      BY DEF WellFormed, Typed
  <2>3. CASE found = ""
      BY <1>2, <2>2, <2>3
  <2>4. CASE found # ""
    <3>1. headers' = [headers EXCEPT ![found] = @ + 1] /\ found \in HeaderStatuses
        BY <1>2, <2>1, <2>4
    <3> QED BY <2>2, <3>1
  <2> QED BY <2>3, <2>4
<1>5. history' \in Histories
  <2>1. Syncing \in BOOLEAN /\ history \in Histories
      BY DEF Syncing, WellFormed, Typed
  <2>2. (history.raced \/ Syncing) \in BOOLEAN
      OBVIOUS
  <2> QED BY <1>2, <2>1, <2>2 DEF Histories
<1>6. Typed'
    BY <1>2, <1>3, <1>4, <1>5 DEF WellFormed, Typed
<1>7. ReleasersSound' /\ ShelfSound' /\ PickersSound'
    BY <1>2, OfficesKeep DEF WellFormed, ShelfSound, PickersSound, TaskIds
<1> QED BY <1>6, <1>7 DEF WellFormed

LEMMA WriteHeaderSound ==
    ASSUME WellFormed, NEW h \in HeaderStatuses, WriteHeader(h)
    PROVE  WellFormed'
<1>1. /\ UNCHANGED <<line, tasks, wave, shelf, releaser, picker, events, history>>
      /\ headers[h] > 0 /\ headers' = [headers EXCEPT ![h] = @ - 1] /\ order' = h
    BY DEF WriteHeader, floor, office
<1>2. headers' \in [HeaderStatuses -> Nat]
    BY <1>1 DEF WellFormed, Typed
<1>3. Typed'
    BY <1>1, <1>2 DEF WellFormed, Typed, OrderStatuses
<1>4. ReleasersSound' /\ ShelfSound' /\ PickersSound'
    BY <1>1, OfficesKeep DEF WellFormed, ShelfSound, PickersSound, TaskIds
<1> QED BY <1>3, <1>4 DEF WellFormed

LEMMA SetStatusSound ==
    ASSUME WellFormed, NEW status \in ByHand, SetStatus(status)
    PROVE  WellFormed'
<1>1. /\ UNCHANGED <<line, tasks, wave, shelf, releaser, picker, events, headers>>
      /\ order' = status /\ history' = [history EXCEPT !.byHand = @ + 1]
    BY DEF SetStatus, floor, office
<1>2. history' \in Histories
  <2>1. history \in Histories /\ history.byHand + 1 \in Nat
      BY DEF WellFormed, Typed, Histories
  <2> QED BY <1>1, <2>1 DEF Histories
<1>3. order' \in OrderStatuses
    BY <1>1, ByHandAssumption
<1>4. Typed'
    BY <1>1, <1>2, <1>3 DEF WellFormed, Typed
<1>5. ReleasersSound' /\ ShelfSound' /\ PickersSound'
    BY <1>1, OfficesKeep DEF WellFormed, ShelfSound, PickersSound, TaskIds
<1> QED BY <1>4, <1>5 DEF WellFormed

LEMMA StutterSound == WellFormed /\ UNCHANGED vars => WellFormed'
<1> SUFFICES ASSUME WellFormed, UNCHANGED vars PROVE WellFormed'
    OBVIOUS
<1>1. Typed' /\ ShelfSound'
    BY DEF WellFormed, Typed, ShelfSound, vars
<1>2. ReleasersSound' /\ PickersSound'
    BY OfficesKeep DEF WellFormed, PickersSound, TaskIds, vars
<1> QED BY <1>1, <1>2 DEF WellFormed

LEMMA StepSound == WellFormed /\ [Next]_vars => WellFormed'
<1> SUFFICES ASSUME WellFormed, [Next]_vars PROVE WellFormed'
    OBVIOUS
<1>1. ASSUME NEW r \in Releasers, ReleaserStep(r) PROVE WellFormed'
    BY <1>1, StartReleaseSound, CountTasksSound, CreateTaskSound, MarkLineSound,
       EndReleaseSound DEF ReleaserStep
<1>2. ASSUME NEW p \in Pickers, PickerStep(p) PROVE WellFormed'
    BY <1>2, ReadTaskSound, EmitPickSound, CommitPickSound, GiveUpSound DEF PickerStep
<1> QED BY <1>1, <1>2, AssignTaskSound, ReadLinesSound, WriteHeaderSound, SetStatusSound,
           StutterSound DEF Next

(* However releases, picks and listeners are interleaved or cut short, tables and   *)
(* calls keep their types: a pick has a task that exists, a release counts no more   *)
(* tasks than there are, and no more leaves the shelf than was there                 *)
(* (wave.service.ts, picking.service.ts).                                            *)
THEOREM TypeCorrect == Spec => []TypeOK
<1>1. WellFormed => TypeOK
  <2> SUFFICES ASSUME WellFormed PROVE TypeOK
      OBVIOUS
  <2>1. \A t \in TaskIds : tasks[t] \in TaskRecords
      BY TaskTyped
  <2>2. shelf \in [onHand : 0 .. Stock, picked : 0 .. Stock]
    <3>1. Stock \in Nat /\ shelf \in [onHand : Nat, picked : Nat]
          /\ shelf.onHand + shelf.picked = Stock
        BY AllocationAssumption DEF WellFormed, Typed, ShelfSound
    <3> QED BY <3>1
  <2>3. \A p \in Pickers : picker[p] # IdlePicker => picker[p].task \in TaskIds
      BY DEF WellFormed, PickersSound, SoundPick
  <2>4. \A r \in Releasers : releaser[r].made <= Len(tasks)
      BY DEF WellFormed, ReleasersSound, SoundRelease
  <2> QED BY <2>1, <2>2, <2>3, <2>4
          DEF WellFormed, Typed, TypeOK, LineRecords, TaskRecords, WaveRecords
<1> QED BY <1>1, InitiallyWellFormed, StepSound, PTL DEF Spec

--------------------------------------------------------------------------------
(* One task per allocation. *)
LEMMA InitiallyApart == Init => TasksApart
<1> SUFFICES ASSUME Init PROVE TasksApart
    OBVIOUS
<1>1. TaskIds = {}
    BY DEF Init, TaskIds
<1>2. \A r \in Releasers : releaser[r].stage = "idle" /\ releaser[r].todo = {}
    BY DEF Init, IdleReleaser
<1> QED BY <1>1, <1>2 DEF TasksApart, OneReleasing, EachOnce, WorkAhead, LinesMarked

(* Tasks keep their allocation, and no line goes back to ALLOCATED. *)
LineGoesOn ==
    \A l \in Lines : line'[l].status = "ALLOCATED" => line[l].status = "ALLOCATED"
TasksGoOn ==
    /\ TaskIds' = TaskIds
    /\ \A t \in TaskIds : tasks'[t].allocation = tasks[t].allocation

LEMMA SameLines ==
    ASSUME TasksGoOn
    PROVE  \A t \in TaskIds : LineOfTask(t)' = LineOfTask(t)
BY DEF TasksGoOn, LineOfTask

LEMMA FloorGoesOn ==
    ASSUME WellFormed,
           \/ \E p \in Pickers : PickerStep(p)
           \/ \E t \in TaskIds : AssignTask(t)
           \/ ReadLines \/ \E h \in HeaderStatuses : WriteHeader(h)
           \/ \E status \in ByHand : SetStatus(status)
           \/ UNCHANGED vars
    PROVE  /\ UNCHANGED releaser /\ TasksGoOn /\ LineGoesOn
           /\ history'.crossed = history.crossed /\ history'.cut = history.cut
<1>1. history \in Histories /\ line \in [Lines -> LineRecords] /\ tasks \in Seq(TaskRecords)
    BY DEF WellFormed, Typed
<1>2. ASSUME NEW p \in Pickers, CommitPick(p)
      PROVE  /\ UNCHANGED releaser /\ TasksGoOn /\ LineGoesOn
             /\ history'.crossed = history.crossed /\ history'.cut = history.cut
  <2>1. PICK t \in TaskIds : t = picker[p].task
      BY <1>2, PickInHand DEF CommitPick
  <2>2. PICK new : new = [tasks[t] EXCEPT !.picked = Sum(p), !.status = "SHORT"]
      OBVIOUS
  <2>3. tasks' = [tasks EXCEPT ![t] = new]
      BY <1>2, <2>1, <2>2 DEF CommitPick
  <2>4. new \in TaskRecords /\ new.allocation = tasks[t].allocation
      BY <1>2, <2>1, <2>2, PickInHand, TaskTyped DEF CommitPick, TaskRecords
  <2>5. TasksGoOn
    <3>1. /\ TaskIds' = TaskIds
          /\ \A s \in TaskIds : tasks'[s] = IF s = t THEN new ELSE tasks[s]
        BY <2>3, <2>4, TaskChanges
    <3> QED BY <3>1, <2>4 DEF TasksGoOn
  <2>6. LineGoesOn
      BY <1>1, <1>2 DEF CommitPick, Take, LineGoesOn
  <2>7. history'.crossed = history.crossed /\ history'.cut = history.cut
      BY <1>1, <1>2 DEF CommitPick, Take, Histories
  <2> QED BY <1>2, <2>5, <2>6, <2>7 DEF CommitPick, office
<1>3. ASSUME NEW t \in TaskIds, AssignTask(t)
      PROVE  /\ UNCHANGED releaser /\ TasksGoOn /\ LineGoesOn
             /\ history'.crossed = history.crossed /\ history'.cut = history.cut
  <2>1. PICK new : new = [tasks[t] EXCEPT !.status = "IN_PROGRESS"]
      OBVIOUS
  <2>2. tasks' = [tasks EXCEPT ![t] = new]
      BY <1>3, <2>1 DEF AssignTask
  <2>3. new \in TaskRecords /\ new.allocation = tasks[t].allocation
      BY <2>1, TaskTyped DEF TaskRecords
  <2>4. TasksGoOn
    <3>1. /\ TaskIds' = TaskIds
          /\ \A s \in TaskIds : tasks'[s] = IF s = t THEN new ELSE tasks[s]
        BY <2>2, <2>3, TaskChanges
    <3> QED BY <3>1, <2>3 DEF TasksGoOn
  <2> QED BY <1>3, <2>4 DEF AssignTask, office, LineGoesOn
<1>4. ASSUME UNCHANGED <<line, tasks, releaser>>,
             history'.crossed = history.crossed /\ history'.cut = history.cut
      PROVE  /\ UNCHANGED releaser /\ TasksGoOn /\ LineGoesOn
             /\ history'.crossed = history.crossed /\ history'.cut = history.cut
    BY <1>4 DEF TasksGoOn, LineGoesOn, TaskIds
<1>5. ASSUME NEW p \in Pickers, NEW t \in TaskIds, NEW q \in Scans, ReadTask(p, t, q)
      PROVE  /\ UNCHANGED <<line, tasks, releaser>>
             /\ history'.crossed = history.crossed /\ history'.cut = history.cut
    BY <1>1, <1>5 DEF ReadTask, office, Histories
<1>6. ASSUME NEW p \in Pickers, EmitPick(p) \/ RefuseFullPick(p) \/ RollbackPick(p)
      PROVE  UNCHANGED <<line, tasks, releaser, history>>
    BY <1>6 DEF EmitPick, RefuseFullPick, RollbackPick, office
<1>7. ASSUME ReadLines
      PROVE  /\ UNCHANGED <<line, tasks, releaser>>
             /\ history'.crossed = history.crossed /\ history'.cut = history.cut
    BY <1>1, <1>7 DEF ReadLines, floor, office, Histories
<1>8. ASSUME UNCHANGED vars \/ \E h \in HeaderStatuses : WriteHeader(h)
      PROVE  UNCHANGED <<line, tasks, releaser, history>>
    BY <1>8 DEF WriteHeader, floor, office, vars
<1>9. ASSUME NEW status \in ByHand, SetStatus(status)
      PROVE  /\ UNCHANGED <<line, tasks, releaser>>
             /\ history'.crossed = history.crossed /\ history'.cut = history.cut
    BY <1>1, <1>9 DEF SetStatus, floor, office, Histories
<1> QED BY <1>2, <1>3, <1>4, <1>5, <1>6, <1>7, <1>8, <1>9 DEF PickerStep

LEMMA FloorKeepsApart ==
    ASSUME TasksApart, WellFormed, UNCHANGED releaser, TasksGoOn, LineGoesOn
    PROVE  TasksApart'
<1>1. OneReleasing'
    BY DEF TasksApart, OneReleasing
<1>2. EachOnce'
    BY DEF TasksApart, EachOnce, TasksGoOn
<1>3. WorkAhead'
    BY DEF TasksApart, WorkAhead, TasksGoOn
<1>4. LinesMarked'
  <2> SUFFICES ASSUME NEW t \in TaskIds, line'[LineOfTask(t)].status = "ALLOCATED"
               PROVE  \E r \in Releasers : <<"mark", LineOfTask(t)>> \in releaser[r].todo
      BY SameLines DEF LinesMarked, TasksGoOn
  <2>1. line[LineOfTask(t)].status = "ALLOCATED"
      BY TaskTyped DEF LineGoesOn
  <2> QED BY <2>1 DEF TasksApart, LinesMarked
<1> QED BY <1>1, <1>2, <1>3, <1>4 DEF TasksApart

(* While one releases and no other does, all that is to do is its. *)
LEMMA OnlyWorker ==
    ASSUME WellFormed, OneReleasing, NEW r \in Releasers, releaser[r].stage # "idle"
    PROVE  \A s \in Releasers \ {r} : releaser[s] = IdleReleaser /\ releaser[s].todo = {}
<1>1. \A s \in Releasers \ {r} : releaser[s].stage = "idle"
    BY DEF OneReleasing
<1>2. \A s \in Releasers : releaser[s].stage = "idle" => releaser[s] = IdleReleaser
    BY DEF WellFormed, ReleasersSound, SoundRelease
<1> QED BY <1>1, <1>2 DEF IdleReleaser

LEMMA StartKeepsApart ==
    ASSUME WellFormed, TasksApart, NEW r \in Releasers, NEW w \in Waves, StartRelease(r, w),
           ~history'.crossed
    PROVE  TasksApart'
<1>1. PICK found : found = IF order = "ALLOCATED"
                           THEN {l \in Lines : line[l].status = "ALLOCATED"} ELSE {}
    OBVIOUS
<1>2. PICK new : new = [IdleReleaser EXCEPT !.stage = "create", !.wave = w, !.todo = Work(found)]
    OBVIOUS
<1>3. releaser' = [releaser EXCEPT ![r] = new] /\ UNCHANGED <<line, tasks>> /\ Releasing = {}
    BY <1>1, <1>2 DEF StartRelease, Opens, floor, WellFormed, Typed, Histories
<1>4. \A s \in Releasers : releaser[s].stage = "idle" /\ releaser[s].todo = {}
    BY <1>3 DEF Releasing, WellFormed, ReleasersSound, SoundRelease, IdleReleaser
<1>5. \A s \in Releasers : releaser'[s] = IF s = r THEN new ELSE releaser[s]
    BY <1>3 DEF WellFormed, Typed
<1>6. new.todo = Work(found) /\ new.stage = "create"
    BY <1>2 DEF IdleReleaser
<1>7. \A t \in TaskIds : line[LineOfTask(t)].status # "ALLOCATED"
    BY <1>4 DEF TasksApart, LinesMarked
<1>8. OneReleasing'
    BY <1>4, <1>5 DEF OneReleasing
<1>9. EachOnce'
    BY <1>3 DEF TasksApart, EachOnce, TaskIds
<1>10. \A a \in Allocations :
          <<"create", a>> \in Work(found) =>
              LineOf[a] \in found /\ <<"mark", LineOf[a]>> \in Work(found)
    BY DEF Work
<1>11. WorkAhead'
  <2> SUFFICES ASSUME NEW s \in Releasers, NEW a \in Allocations,
                      <<"create", a>> \in releaser'[s].todo
               PROVE  /\ <<"mark", LineOf[a]>> \in releaser'[s].todo
                      /\ \A t \in TaskIds : tasks[t].allocation # a
      BY <1>3 DEF WorkAhead, TaskIds
  <2>1. s = r /\ <<"create", a>> \in Work(found)
      BY <1>4, <1>5, <1>6
  <2>2. LineOf[a] \in found /\ <<"mark", LineOf[a]>> \in Work(found)
      BY <1>10, <2>1
  <2>3. line[LineOf[a]].status = "ALLOCATED"
      BY <1>1, <2>2
  <2> QED BY <1>5, <1>6, <1>7, <2>1, <2>2, <2>3 DEF LineOfTask
<1>12. LinesMarked'
    BY <1>3, <1>7 DEF LinesMarked, TaskIds, LineOfTask
<1> QED BY <1>8, <1>9, <1>11, <1>12 DEF TasksApart

LEMMA CountKeepsApart ==
    ASSUME WellFormed, TasksApart, NEW r \in Releasers, CountTasks(r)
    PROVE  TasksApart'
<1>1. UNCHANGED <<line, tasks>>
    BY DEF CountTasks, floor
<1>2. releaser[r].stage # "idle" /\ releaser[r] \in ReleaserRecords
    BY DEF CountTasks, WellFormed, Typed
<1>3. \A s \in Releasers :
          /\ releaser'[s].todo = releaser[s].todo
          /\ releaser'[s].stage # "idle" => releaser[s].stage # "idle"
    BY <1>2 DEF CountTasks, WellFormed, Typed, ReleaserRecords
<1>4. OneReleasing'
    BY <1>3 DEF TasksApart, OneReleasing
<1>5. EachOnce' /\ LinesMarked' /\ WorkAhead'
    BY <1>1, <1>3 DEF TasksApart, EachOnce, LinesMarked, WorkAhead, TaskIds, LineOfTask
<1> QED BY <1>4, <1>5 DEF TasksApart

LEMMA CreateKeepsApart ==
    ASSUME WellFormed, TasksApart, NEW r \in Releasers, CreateTask(r)
    PROVE  TasksApart'
<1>1. PICK a : a = Min(Todo(r, "create"))
    OBVIOUS
<1>2. releaser[r].stage = "number"
    BY DEF CreateTask
<1>3. PICK new : new = [releaser[r] EXCEPT !.stage = "create", !.made = @ + 1,
                                           !.todo = @ \ {<<"create", a>>}]
    OBVIOUS
<1>4. PICK task : task = NewTask(a, releaser[r].wave)
    OBVIOUS
<1>5. /\ releaser' = [releaser EXCEPT ![r] = new] /\ tasks' = Append(tasks, task)
      /\ line' = line
    BY <1>1, <1>3, <1>4 DEF CreateTask
<1>6. a \in Allocations /\ <<"create", a>> \in releaser[r].todo
  <2>1. Todo(r, "create") # {}
      BY <1>2 DEF WellFormed, ReleasersSound, SoundRelease, Todo
  <2> QED BY <1>1, <2>1, NextPiece
<1>7. new.todo = releaser[r].todo \ {<<"create", a>>}
    BY <1>3 DEF WellFormed, Typed, ReleaserRecords
<1>8. \A s \in Releasers : releaser'[s] = IF s = r THEN new ELSE releaser[s]
    BY <1>5 DEF WellFormed, Typed
<1>9. \A s \in Releasers \ {r} : releaser[s] = IdleReleaser /\ releaser[s].todo = {}
    BY <1>2, OnlyWorker DEF TasksApart
<1>10. PICK n \in Nat : n = Len(tasks)
    BY DEF WellFormed, Typed
<1>11. /\ TaskIds = 1 .. n /\ TaskIds' = 1 .. n + 1
       /\ \A t \in 1 .. n : tasks'[t] = tasks[t]
       /\ tasks'[n + 1] = task
    BY <1>5, <1>10 DEF WellFormed, Typed, TaskIds
<1>12. task.allocation = a
    BY <1>4 DEF NewTask
<1>13. /\ <<"mark", LineOf[a]>> \in releaser[r].todo
       /\ \A t \in 1 .. n : tasks[t].allocation # a
    BY <1>6, <1>11 DEF TasksApart, WorkAhead
<1>14. OneReleasing'
    BY <1>8, <1>9 DEF OneReleasing, IdleReleaser
<1>15. EachOnce'
  <2>1. \A s, t \in 1 .. n : tasks[s].allocation = tasks[t].allocation => s = t
      BY <1>11 DEF TasksApart, EachOnce
  <2>2. \A t \in 1 .. n + 1 : t \in 1 .. n \/ t = n + 1
      OBVIOUS
  <2>3. ASSUME NEW s \in 1 .. n + 1, NEW t \in 1 .. n + 1,
               tasks'[s].allocation = tasks'[t].allocation
        PROVE  s = t
      BY <1>11, <1>12, <1>13, <2>1, <2>2, <2>3
  <2> QED BY <1>11, <2>3 DEF EachOnce
<1>16. WorkAhead'
  <2> SUFFICES ASSUME NEW s \in Releasers, NEW b \in Allocations,
                      <<"create", b>> \in releaser'[s].todo
               PROVE  /\ <<"mark", LineOf[b]>> \in releaser'[s].todo
                      /\ \A t \in 1 .. n + 1 : tasks'[t].allocation # b
      BY <1>11 DEF WorkAhead
  <2>1. s = r /\ <<"create", b>> \in releaser[r].todo /\ b # a
      BY <1>7, <1>8, <1>9
  <2>2. <<"mark", LineOf[b]>> \in releaser[r].todo /\ \A t \in 1 .. n : tasks[t].allocation # b
      BY <1>11, <2>1 DEF TasksApart, WorkAhead
  <2>3. <<"mark", LineOf[b]>> \in new.todo
      BY <1>7, <2>2
  <2>4. \A t \in 1 .. n + 1 : t \in 1 .. n \/ t = n + 1
      OBVIOUS
  <2> QED BY <1>8, <1>11, <1>12, <2>1, <2>2, <2>3, <2>4
<1>17. LinesMarked'
  <2> SUFFICES ASSUME NEW t \in 1 .. n + 1,
                      line[LineOf[tasks'[t].allocation]].status = "ALLOCATED"
               PROVE  \E s \in Releasers :
                          <<"mark", LineOf[tasks'[t].allocation]>> \in releaser'[s].todo
      BY <1>5, <1>11 DEF LinesMarked, LineOfTask
  <2>1. CASE t = n + 1
    <3>1. <<"mark", LineOf[a]>> \in releaser'[r].todo
        BY <1>7, <1>8, <1>13
    <3> QED BY <1>11, <1>12, <2>1, <3>1
  <2>2. CASE t \in 1 .. n
    <3>1. PICK s \in Releasers : <<"mark", LineOf[tasks[t].allocation]>> \in releaser[s].todo
        BY <1>11, <2>2 DEF TasksApart, LinesMarked, LineOfTask
    <3>2. <<"mark", LineOf[tasks[t].allocation]>> \in releaser'[s].todo
        BY <1>7, <1>8, <3>1
    <3> QED BY <1>11, <2>2, <3>2
  <2> QED BY <2>1, <2>2
<1> QED BY <1>14, <1>15, <1>16, <1>17 DEF TasksApart

LEMMA MarkKeepsApart ==
    ASSUME WellFormed, TasksApart, NEW r \in Releasers, MarkLine(r)
    PROVE  TasksApart'
<1>1. PICK l : l = Min(Todo(r, "mark"))
    OBVIOUS
<1>2. releaser[r].stage = "create" /\ l \in Lines
    BY <1>1, NextPiece DEF MarkLine
<1>3. /\ releaser' = [releaser EXCEPT ![r].todo = @ \ {<<"mark", l>>}]
      /\ line' = [line EXCEPT ![l].status = "RELEASED"]
      /\ tasks' = tasks
    BY <1>1 DEF MarkLine, floor
<1>4. \A a \in Allocations : <<"create", a>> \notin releaser[r].todo
    BY DEF MarkLine, Todo
<1>5. \A s \in Releasers \ {r} : releaser[s] = IdleReleaser /\ releaser[s].todo = {}
    BY <1>2, OnlyWorker DEF TasksApart
<1>6. \A s \in Releasers :
          /\ releaser'[s].stage = releaser[s].stage
          /\ releaser'[s].todo = IF s = r THEN releaser[s].todo \ {<<"mark", l>>}
                                 ELSE releaser[s].todo
    BY <1>3 DEF WellFormed, Typed, ReleaserRecords
<1>7. OneReleasing'
    BY <1>6 DEF TasksApart, OneReleasing
<1>8. EachOnce'
    BY <1>3 DEF TasksApart, EachOnce, TaskIds
<1>9. WorkAhead'
    BY <1>4, <1>5, <1>6 DEF WorkAhead
<1>10. LinesMarked'
  <2> SUFFICES ASSUME NEW t \in TaskIds, line'[LineOfTask(t)].status = "ALLOCATED"
               PROVE  \E s \in Releasers : <<"mark", LineOfTask(t)>> \in releaser'[s].todo
      BY <1>3 DEF LinesMarked, TaskIds, LineOfTask
  <2>1. LineOfTask(t) \in Lines
      BY TaskTyped
  <2>2. LineOfTask(t) # l /\ line[LineOfTask(t)].status = "ALLOCATED"
      BY <1>2, <1>3, <2>1 DEF WellFormed, Typed, LineRecords
  <2>3. PICK s \in Releasers : <<"mark", LineOfTask(t)>> \in releaser[s].todo
      BY <2>2 DEF TasksApart, LinesMarked
  <2> QED BY <1>6, <2>2, <2>3
<1> QED BY <1>7, <1>8, <1>9, <1>10 DEF TasksApart

LEMMA FinishKeepsApart ==
    ASSUME WellFormed, TasksApart, NEW r \in Releasers, FinishRelease(r)
    PROVE  TasksApart'
<1>1. UNCHANGED <<line, tasks>> /\ releaser[r].todo = {}
    BY DEF FinishRelease, floor
<1>2. \A s \in Releasers : releaser'[s] = IF s = r THEN IdleReleaser ELSE releaser[s]
    BY DEF FinishRelease, WellFormed, Typed
<1>3. \A s \in Releasers :
          /\ releaser'[s].todo = releaser[s].todo
          /\ releaser'[s].stage # "idle" => releaser[s].stage # "idle"
    BY <1>1, <1>2 DEF IdleReleaser
<1>4. OneReleasing'
    BY <1>3 DEF TasksApart, OneReleasing
<1>5. EachOnce' /\ LinesMarked' /\ WorkAhead'
    BY <1>1, <1>3 DEF TasksApart, EachOnce, LinesMarked, WorkAhead, TaskIds, LineOfTask
<1> QED BY <1>4, <1>5 DEF TasksApart

LEMMA StepKeepsApart == WellFormed /\ OneRelease /\ [Next]_vars => OneRelease'
<1> SUFFICES ASSUME WellFormed, OneRelease, [Next]_vars PROVE OneRelease'
    OBVIOUS
<1>1. history \in Histories
    BY DEF WellFormed, Typed
<1>2. ASSUME NEW r \in Releasers, ReleaserStep(r) PROVE OneRelease'
  <2>1. CASE CutRelease(r)
    <3>1. history'.cut
        BY <1>1, <2>1 DEF CutRelease, Histories
    <3> QED BY <3>1 DEF OneRelease
  <2>2. ASSUME NEW w \in Waves, StartRelease(r, w) PROVE OneRelease'
    <3>1. /\ history.crossed => history'.crossed
          /\ history'.cut = history.cut
        BY <1>1, <2>2 DEF StartRelease, Opens, Histories
    <3> QED BY <2>2, <3>1, StartKeepsApart DEF OneRelease
  <2>3. CASE CountTasks(r) \/ CreateTask(r) \/ MarkLine(r) \/ FinishRelease(r)
    <3>1. history' = history
        BY <2>3 DEF CountTasks, CreateTask, MarkLine, FinishRelease
    <3> QED BY <2>3, <3>1, CountKeepsApart, CreateKeepsApart, MarkKeepsApart,
               FinishKeepsApart DEF OneRelease
  <2> QED BY <1>2, <2>1, <2>2, <2>3 DEF ReleaserStep
<1>3. CASE \/ \E p \in Pickers : PickerStep(p)
           \/ \E t \in TaskIds : AssignTask(t)
           \/ ReadLines \/ \E h \in HeaderStatuses : WriteHeader(h)
           \/ \E status \in ByHand : SetStatus(status)
           \/ UNCHANGED vars
  <2>1. /\ UNCHANGED releaser /\ TasksGoOn /\ LineGoesOn
        /\ history'.crossed = history.crossed /\ history'.cut = history.cut
      BY <1>3, FloorGoesOn
  <2> QED BY <2>1, FloorKeepsApart DEF OneRelease
<1> QED BY <1>2, <1>3 DEF Next

(* However often waves are released, no allocation is picked by two tasks, unless   *)
(* two releases went on at once or one ended before its lines were marked           *)
(* (wave.service.ts).                                                               *)
THEOREM OneTaskEach == Spec => []PickedByOneTask
<1>1. OneRelease => PickedByOneTask
    BY DEF OneRelease, TasksApart, EachOnce, PickedByOneTask
<1>2. Init => OneRelease
    BY InitiallyApart DEF OneRelease
<1> QED BY <1>1, <1>2, InitiallyWellFormed, StepSound, StepKeepsApart, PTL DEF Spec

--------------------------------------------------------------------------------
(* The header of the order. *)
LEMMA AnyStepGoesOn ==
    ASSUME WellFormed, [Next]_vars
    PROVE  LineGoesOn
<1>1. ASSUME NEW r \in Releasers, ReleaserStep(r), ~MarkLine(r) PROVE line' = line
    BY <1>1 DEF ReleaserStep, StartRelease, Opens, CountTasks, CreateTask, FinishRelease,
                CutRelease
<1>2. ASSUME NEW r \in Releasers, MarkLine(r) PROVE LineGoesOn
    BY <1>2 DEF MarkLine, LineGoesOn, WellFormed, Typed, LineRecords
<1> QED BY <1>1, <1>2, FloorGoesOn DEF Next, LineGoesOn

LEMMA NoneComesBack ==
    ASSUME WellFormed, [Next]_vars, ~AllAllocated
    PROVE  ~AllAllocated'
<1>1. SUFFICES ASSUME AllAllocated' PROVE FALSE
    OBVIOUS
<1>2. \A l \in Lines : line'[l].status = "ALLOCATED"
    BY <1>1 DEF AllAllocated
<1>3. \A l \in Lines : line[l].status = "ALLOCATED"
    BY <1>2, AnyStepGoesOn DEF LineGoesOn
<1>4. Lines # {}
    BY <1>1 DEF AllAllocated
<1> QED BY <1>3, <1>4 DEF AllAllocated

LEMMA HeaderMeans ==
    ASSUME HeaderOf({line[l].status : l \in Lines}) = "ALLOCATED"
    PROVE  AllAllocated
BY DEF HeaderOf, AllAllocated

LEMMA HeaderDiffers ==
    ASSUME HeaderOf({line[l].status : l \in Lines}) \notin {"ALLOCATED", ""}
    PROVE  ~AllAllocated
<1> SUFFICES ASSUME AllAllocated PROVE HeaderOf({"ALLOCATED"}) = "ALLOCATED"
    BY DEF AllAllocated
<1> QED BY DEF HeaderOf

LEMMA InitialHeader == Init => HeaderFollows
<1> SUFFICES ASSUME Init PROVE HeaderFollows
    OBVIOUS
<1>1. order = "ALLOCATED" /\ \A h \in HeaderStatuses : headers[h] = 0
    BY DEF Init
<1>2. "ALLOCATED" \in HeaderStatuses
    BY DEF HeaderStatuses
<1> QED BY <1>1, <1>2 DEF HeaderFollows

LEMMA ReadKeepsHeader ==
    ASSUME WellFormed, HeaderFollows, ReadLines
    PROVE  HeaderFollows'
<1>1. PICK found : found = HeaderOf({line[l].status : l \in Lines})
    OBVIOUS
<1>2. /\ UNCHANGED <<order, line>>
      /\ IF found = "" THEN UNCHANGED <<headers, history>>
         ELSE /\ headers' = [headers EXCEPT ![found] = @ + 1]
              /\ history' = [history EXCEPT !.raced = @ \/ Syncing]
    BY <1>1 DEF ReadLines
<1>3. order' = order /\ AllAllocated' = AllAllocated
  <2>1. order' = order /\ line' = line
      BY <1>2
  <2> QED BY <2>1 DEF AllAllocated
<1>4. CASE found = ""
    BY <1>2, <1>3, <1>4 DEF HeaderFollows
<1>5. CASE found # ""
  <2>1. found \in HeaderStatuses /\ headers \in [HeaderStatuses -> Nat]
        /\ history \in Histories /\ "ALLOCATED" \in HeaderStatuses
      BY <1>1, <1>5, HeaderIsStatus DEF WellFormed, Typed, HeaderStatuses
  <2>2. \A h \in HeaderStatuses :
            headers'[h] = IF h = found THEN headers[h] + 1 ELSE headers[h]
      BY <1>2, <1>5, <2>1
  <2>3. ~history'.raced => ~history.raced /\ \A h \in HeaderStatuses : headers[h] = 0
    <3>1. ~history'.raced => ~history.raced /\ ~Syncing
        BY <1>2, <1>5, <2>1 DEF Histories
    <3> QED BY <2>1, <3>1 DEF Syncing
  <2>4. CASE found = "ALLOCATED"
    <3>1. AllAllocated
        BY <1>1, <2>4, HeaderMeans
    <3>2. order = "ALLOCATED" /\ \A h \in HeaderStatuses \ {"ALLOCATED"} : headers[h] <= 0
        BY <2>1, <3>1 DEF HeaderFollows
    <3> QED BY <1>2, <1>3, <2>1, <2>2, <2>3, <2>4, <3>1, <3>2 DEF HeaderFollows
  <2>5. CASE found # "ALLOCATED"
    <3>1. ~AllAllocated
        BY <1>1, <1>5, <2>5, HeaderDiffers
    <3>2. ~history'.raced => headers'["ALLOCATED"] = 0
        BY <2>1, <2>2, <2>3, <2>5
    <3>3. ~history'.raced => ~(headers'["ALLOCATED"] > 0)
        BY <3>2
    <3> QED BY <1>3, <3>1, <3>3 DEF HeaderFollows
  <2> QED BY <2>4, <2>5
<1> QED BY <1>4, <1>5

LEMMA WriteKeepsHeader ==
    ASSUME WellFormed, HeaderFollows, NEW h \in HeaderStatuses, WriteHeader(h)
    PROVE  HeaderFollows'
<1>1. /\ UNCHANGED <<line, history>> /\ headers[h] > 0 /\ order' = h
      /\ headers' = [headers EXCEPT ![h] = @ - 1]
    BY DEF WriteHeader
<1>2. headers \in [HeaderStatuses -> Nat] /\ "ALLOCATED" \in HeaderStatuses
    BY DEF WellFormed, Typed, HeaderStatuses
<1>3. AllAllocated' = AllAllocated
    BY <1>1 DEF AllAllocated
<1>4. \A g \in HeaderStatuses : headers'[g] = IF g = h THEN headers[g] - 1 ELSE headers[g]
    BY <1>1, <1>2
<1>5. \A g \in HeaderStatuses : headers'[g] > 0 => headers[g] > 0
    BY <1>2, <1>4
<1>6. \A g \in HeaderStatuses : headers[g] = 0 => headers'[g] = 0
    BY <1>1, <1>2, <1>4
<1>7. CASE h = "ALLOCATED"
    BY <1>1, <1>2, <1>3, <1>5, <1>6, <1>7 DEF HeaderFollows
<1>8. CASE h # "ALLOCATED"
  <2>1. ~AllAllocated
      BY <1>1, <1>8 DEF HeaderFollows
  <2>2. ~history.raced => ~(headers["ALLOCATED"] > 0)
      BY <1>1, <1>2, <1>8 DEF HeaderFollows
  <2> QED BY <1>1, <1>2, <1>3, <1>5, <2>1, <2>2 DEF HeaderFollows
<1> QED BY <1>7, <1>8

LEMMA RestKeepsHeader ==
    ASSUME WellFormed, HeaderFollows, [Next]_vars, UNCHANGED <<order, headers>>,
           history'.raced = history.raced
    PROVE  HeaderFollows'
BY NoneComesBack DEF HeaderFollows

(* Until someone sets the status of the order. *)
HeaderKept == history.byHand > 0 \/ HeaderFollows

LEMMA StepKeepsHeader == WellFormed /\ HeaderKept /\ [Next]_vars => HeaderKept'
<1> SUFFICES ASSUME WellFormed, HeaderKept, [Next]_vars PROVE HeaderKept'
    OBVIOUS
<1>1. history \in Histories
    BY DEF WellFormed, Typed
<1>2. ASSUME NEW status \in ByHand, SetStatus(status) PROVE history'.byHand > 0
  <2>1. history.byHand \in Nat /\ history'.byHand = history.byHand + 1
      BY <1>1, <1>2 DEF SetStatus, Histories
  <2> QED BY <2>1
<1>3. ASSUME NEW r \in Releasers, ReleaserStep(r)
      PROVE  /\ UNCHANGED <<order, headers>>
             /\ history'.raced = history.raced /\ history'.byHand = history.byHand
  <2>1. ASSUME NEW w \in Waves, StartRelease(r, w)
        PROVE  /\ UNCHANGED <<order, headers>>
               /\ history'.raced = history.raced /\ history'.byHand = history.byHand
      BY <1>1, <2>1 DEF StartRelease, Opens, Histories
  <2>2. CASE CutRelease(r)
      BY <1>1, <2>2 DEF CutRelease, Histories
  <2>3. CASE CountTasks(r) \/ CreateTask(r) \/ MarkLine(r) \/ FinishRelease(r)
      BY <2>3 DEF CountTasks, CreateTask, MarkLine, FinishRelease
  <2> QED BY <1>3, <2>1, <2>2, <2>3 DEF ReleaserStep
<1>4. ASSUME NEW p \in Pickers, PickerStep(p)
      PROVE  /\ UNCHANGED <<order, headers>>
             /\ history'.raced = history.raced /\ history'.byHand = history.byHand
  <2>1. ASSUME NEW t \in TaskIds, NEW q \in Scans, ReadTask(p, t, q)
        PROVE  /\ UNCHANGED <<order, headers>>
               /\ history'.raced = history.raced /\ history'.byHand = history.byHand
      BY <1>1, <2>1 DEF ReadTask, Histories
  <2>2. CASE CommitPick(p)
      BY <1>1, <2>2 DEF CommitPick, Take, Histories
  <2>3. CASE EmitPick(p) \/ RefuseFullPick(p) \/ RollbackPick(p)
      BY <2>3 DEF EmitPick, RefuseFullPick, RollbackPick
  <2> QED BY <1>4, <2>1, <2>2, <2>3 DEF PickerStep
<1>5. ASSUME UNCHANGED vars \/ \E t \in TaskIds : AssignTask(t)
      PROVE  /\ UNCHANGED <<order, headers>>
             /\ history'.raced = history.raced /\ history'.byHand = history.byHand
    BY <1>5 DEF AssignTask, vars
<1>6. ASSUME ReadLines \/ \E h \in HeaderStatuses : WriteHeader(h)
      PROVE  history'.byHand = history.byHand
    BY <1>1, <1>6 DEF ReadLines, WriteHeader, Histories
<1>7. CASE history.byHand > 0
    BY <1>2, <1>3, <1>4, <1>5, <1>6, <1>7 DEF Next, HeaderKept
<1>8. CASE HeaderFollows
    BY <1>2, <1>3, <1>4, <1>5, <1>8, RestKeepsHeader, ReadKeepsHeader, WriteKeepsHeader
       DEF Next, HeaderKept
<1> QED BY <1>7, <1>8 DEF HeaderKept

(* The order does not become ALLOCATED again once it has left that status, unless    *)
(* two listeners were between reading the lines and writing the order at once or     *)
(* someone has set its status by hand (order.service.ts).                            *)
THEOREM OfferedOnce == Spec => NotOfferedAgain
<1>1. WellFormed /\ HeaderKept /\ [Next]_vars
          => [order # "ALLOCATED" /\ order' = "ALLOCATED" =>
                 history.raced \/ history'.byHand > 0]_vars
  <2> SUFFICES ASSUME WellFormed, HeaderKept, Next, order # "ALLOCATED", order' = "ALLOCATED"
               PROVE  history.raced \/ history'.byHand > 0
      OBVIOUS
  <2>1. \A r \in Releasers : ReleaserStep(r) => order' = order
      BY DEF ReleaserStep, StartRelease, Opens, CountTasks, CreateTask, MarkLine,
             FinishRelease, CutRelease
  <2>2. \A p \in Pickers : PickerStep(p) => order' = order
      BY DEF PickerStep, ReadTask, EmitPick, CommitPick, RefuseFullPick, RollbackPick
  <2>3. (\E t \in TaskIds : AssignTask(t)) \/ ReadLines => order' = order
      BY DEF AssignTask, ReadLines
  <2>4. ASSUME NEW status \in ByHand, SetStatus(status) PROVE history'.byHand > 0
    <3>1. history \in Histories
        BY DEF WellFormed, Typed
    <3>2. history.byHand \in Nat /\ history'.byHand = history.byHand + 1
        BY <2>4, <3>1 DEF SetStatus, Histories
    <3> QED BY <3>2
  <2>5. ASSUME NEW h \in HeaderStatuses, WriteHeader(h)
        PROVE  history.raced \/ history'.byHand > 0
    <3>1. h = "ALLOCATED" /\ headers[h] > 0 /\ history' = history
        BY <2>5 DEF WriteHeader
    <3> QED BY <3>1 DEF HeaderKept, HeaderFollows
  <2> QED BY <2>1, <2>2, <2>3, <2>4, <2>5 DEF Next
<1>2. WellFormed /\ HeaderKept /\ [Next]_vars => (WellFormed /\ HeaderKept)'
    BY StepSound, StepKeepsHeader
<1>3. Init => WellFormed /\ HeaderKept
    BY InitiallyWellFormed, InitialHeader DEF HeaderKept
<1> QED BY <1>1, <1>2, <1>3, PTL DEF Spec, NotOfferedAgain

--------------------------------------------------------------------------------
(* Sums, as the number of units of a table. *)
LEMMA UpTo ==
    ASSUME NEW n \in Nat
    PROVE  IsFiniteSet(1 .. n) /\ Cardinality(1 .. n) = n
<1>1. IsFiniteSet(1 .. n) /\ Cardinality(1 .. n) = IF 1 > n THEN 0 ELSE n - 1 + 1
    BY FS_Interval
<1> QED BY <1>1

LEMMA UnitsFinite ==
    ASSUME NEW q, NEW S, IsFiniteSet(S), \A x \in S : q[x] \in Nat
    PROVE  IsFiniteSet(Units(q, S)) /\ Cardinality(Units(q, S)) \in Nat
<1>1. PICK T : T = {{x} \X (1 .. q[x]) : x \in S}
    OBVIOUS
<1>2. PICK f : f = [x \in S |-> {x} \X (1 .. q[x])]
    OBVIOUS
<1>3. f \in Surjection(S, T)
    BY <1>1, <1>2 DEF Surjection
<1>4. IsFiniteSet(T)
    BY <1>3, FS_Surjection
<1>5. ASSUME NEW t \in T PROVE IsFiniteSet(t)
  <2>1. PICK x \in S : t = {x} \X (1 .. q[x])
      BY <1>1, <1>5
  <2>2. IsFiniteSet({x}) /\ IsFiniteSet(1 .. q[x])
      BY UpTo, FS_Singleton
  <2>3. IsFiniteSet({x} \X (1 .. q[x]))
      BY <2>2, FS_Product
  <2> QED BY <2>1, <2>3
<1>6. Units(q, S) = UNION T
    BY <1>1 DEF Units
<1> QED BY <1>4, <1>5, <1>6, FS_UNION, FS_CardinalityType

LEMMA UnitsAdded ==
    ASSUME NEW q, NEW S, IsFiniteSet(S), NEW x, x \notin S, q[x] \in Nat,
           \A y \in S : q[y] \in Nat
    PROVE  Cardinality(Units(q, S \cup {x})) = Cardinality(Units(q, S)) + q[x]
<1>1. PICK n \in Nat : n = q[x]
    OBVIOUS
<1>2. PICK U : U = {x} \X (1 .. n)
    OBVIOUS
<1>3. IsFiniteSet(U) /\ Cardinality(U) = n
  <2>1. IsFiniteSet({x}) /\ Cardinality({x}) = 1
      BY FS_Singleton
  <2>2. IsFiniteSet(1 .. n) /\ Cardinality(1 .. n) = n
      BY UpTo
  <2>3. IsFiniteSet(U) /\ Cardinality(U) = Cardinality({x}) * Cardinality(1 .. n)
      BY <1>2, <2>1, <2>2, FS_Product
  <2> QED BY <2>1, <2>2, <2>3
<1>4. Units(q, S \cup {x}) = Units(q, S) \cup U
    BY <1>1, <1>2 DEF Units
<1>5. Units(q, S) \cap U = {}
    BY <1>2 DEF Units
<1>6. IsFiniteSet(Units(q, S)) /\ Cardinality(Units(q, S)) \in Nat
    BY UnitsFinite
<1>7. Cardinality(Units(q, S) \cup U) = Cardinality(Units(q, S)) + Cardinality(U) - 0
    BY <1>3, <1>5, <1>6, FS_Union, FS_EmptySet
<1>8. Cardinality(Units(q, S \cup {x})) = Cardinality(Units(q, S) \cup U)
    BY <1>4
<1> QED BY <1>1, <1>3, <1>6, <1>7, <1>8

LEMMA SameUnits ==
    ASSUME NEW q, NEW u, NEW S, \A x \in S : u[x] = q[x]
    PROVE  Units(u, S) = Units(q, S)
BY DEF Units

(* One entry grows: so does the sum. *)
LEMMA SumGrows ==
    ASSUME NEW q, NEW u, NEW S, IsFiniteSet(S), NEW x \in S, NEW n \in Nat,
           \A y \in S : q[y] \in Nat, u[x] = q[x] + n, \A y \in S \ {x} : u[y] = q[y]
    PROVE  Cardinality(Units(u, S)) = Cardinality(Units(q, S)) + n
<1>1. PICK R : R = S \ {x}
    OBVIOUS
<1>2. S = R \cup {x} /\ x \notin R /\ IsFiniteSet(R)
    BY <1>1, FS_RemoveElement
<1>3. PICK m \in Nat : m = q[x]
    OBVIOUS
<1>4. u[x] = m + n /\ u[x] \in Nat /\ \A y \in R : u[y] \in Nat /\ q[y] \in Nat
    BY <1>1, <1>3
<1>5. Cardinality(Units(q, R \cup {x})) = Cardinality(Units(q, R)) + q[x]
    BY <1>2, <1>4, UnitsAdded
<1>6. Cardinality(Units(u, R \cup {x})) = Cardinality(Units(u, R)) + u[x]
    BY <1>2, <1>4, UnitsAdded
<1>7. Units(u, R) = Units(q, R)
    BY <1>1, SameUnits
<1>8. Cardinality(Units(q, R)) \in Nat
    BY <1>2, <1>4, UnitsFinite
<1> QED BY <1>2, <1>3, <1>4, <1>5, <1>6, <1>7, <1>8

(* An empty entry adds nothing. *)
LEMMA EmptyAdds ==
    ASSUME NEW q, NEW u, NEW S, NEW T, S \subseteq T,
           \A x \in S : u[x] = q[x], \A x \in T \ S : u[x] = 0
    PROVE  Units(u, T) = Units(q, S)
<1>1. ASSUME NEW x \in T \ S PROVE {x} \X (1 .. u[x]) = {}
    BY <1>1
<1>2. Units(u, T) = Units(u, S)
    BY <1>1 DEF Units
<1> QED BY <1>2, SameUnits

LEMMA NothingYet ==
    ASSUME NEW q, NEW S, \A x \in S : q[x] = 0
    PROVE  Cardinality(Units(q, S)) = 0
<1>1. Units(q, S) = {}
    BY EmptyAdds, SameUnits DEF Units
<1> QED BY <1>1, FS_EmptySet

LEMMA PickTables ==
    ASSUME WellFormed
    PROVE  /\ IsFiniteSet(Lines) /\ \A l \in Lines : IsFiniteSet(TasksOf(l))
           /\ \A t \in TaskIds : PickedOn[t] = tasks[t].picked /\ PickedOn[t] \in Nat
           /\ \A l \in Lines : FulfilledOn[l] = line[l].fulfilled /\ FulfilledOn[l] \in Nat
<1>1. IsFiniteSet(TaskIds)
  <2>1. Len(tasks) \in Nat
      BY DEF WellFormed, Typed
  <2> QED BY <2>1, UpTo DEF TaskIds
<1>2. \A l \in Lines : IsFiniteSet(TasksOf(l))
    BY <1>1, FS_Subset DEF TasksOf
<1>3. \A t \in TaskIds : PickedOn[t] = tasks[t].picked /\ PickedOn[t] \in Nat
    BY TaskTyped DEF PickedOn, TaskRecords
<1>4. \A l \in Lines : FulfilledOn[l] = line[l].fulfilled /\ FulfilledOn[l] \in Nat
    BY DEF FulfilledOn, WellFormed, Typed, LineRecords
<1> QED BY <1>2, <1>3, <1>4, AllocationAssumption

LEMMA InitialPicks == Init => PicksKept
<1> SUFFICES ASSUME Init PROVE PicksKept
    OBVIOUS
<1>1. HandsKnow
    BY DEF Init, HandsKnow, IdlePicker
<1>2. TaskIds = {} /\ shelf.picked = 0 /\ \A l \in Lines : line[l].fulfilled = 0
    BY DEF Init, TaskIds
<1>3. \A l \in Lines : TasksOf(l) = {}
    BY <1>2 DEF TasksOf
<1>4. \A l \in Lines : Cardinality(Units(PickedOn, TasksOf(l))) = 0
    BY <1>3, NothingYet
<1>5. \A l \in Lines : FulfilledOn[l] = 0
    BY <1>2 DEF FulfilledOn
<1>6. Cardinality(Units(FulfilledOn, Lines)) = 0
    BY <1>5, NothingYet
<1> QED BY <1>1, <1>2, <1>4, <1>6 DEF PicksKept, PicksAddUp

(* Steps that move no goods: what is on the tasks and the lines stays. *)
NothingMoves ==
    /\ TasksGoOn /\ \A t \in TaskIds : tasks'[t].picked = tasks[t].picked
    /\ \A l \in Lines : line'[l].fulfilled = line[l].fulfilled
    /\ shelf' = shelf
    /\ history.doubled \subseteq history'.doubled /\ history'.uncovered = history.uncovered

LEMMA SumsStay ==
    ASSUME WellFormed, WellFormed', PicksAddUp, NothingMoves
    PROVE  PicksAddUp'
<1>1. PICK q : q = PickedOn
    OBVIOUS
<1>2. PICK u : u = PickedOn'
    OBVIOUS
<1>3. \A t \in TaskIds : u[t] = q[t]
    BY <1>1, <1>2 DEF PickedOn, NothingMoves, TasksGoOn
<1>4. FulfilledOn' = FulfilledOn
    BY DEF FulfilledOn, NothingMoves
<1>5. ASSUME NEW l \in Lines \ history'.doubled
      PROVE  line'[l].fulfilled = Cardinality(Units(u, TasksOf(l)'))
  <2>1. TasksOf(l)' = TasksOf(l)
      BY SameLines DEF TasksOf, NothingMoves, TasksGoOn
  <2>2. Units(u, TasksOf(l)) = Units(q, TasksOf(l))
      BY <1>3, SameUnits DEF TasksOf
  <2>3. line[l].fulfilled = Cardinality(Units(q, TasksOf(l)))
      BY <1>1 DEF PicksAddUp, NothingMoves
  <2> QED BY <2>1, <2>2, <2>3 DEF NothingMoves
<1> QED BY <1>2, <1>4, <1>5 DEF PicksAddUp, NothingMoves

(* What is to be shown of the pickers after a step. *)
LEMMA HandsKnowNext ==
    ASSUME \A x \in Pickers :
               picker'[x].stage # "idle"
               /\ LineOf[tasks'[picker'[x].task].allocation] \notin history'.doubled =>
                   /\ picker'[x].picked = tasks'[picker'[x].task].picked
                   /\ \A y \in Pickers : picker'[y].task = picker'[x].task => y = x
    PROVE  HandsKnow'
<1> SUFFICES ASSUME NEW x \in Pickers, picker'[x].stage # "idle",
                    LineOf[tasks'[picker'[x].task].allocation] \notin history'.doubled
             PROVE  /\ picker'[x].picked = tasks'[picker'[x].task].picked
                    /\ {y \in Pickers : picker'[y].task = picker'[x].task} = {x}
    BY DEF HandsKnow, Touched, LineOfTask
<1> QED OBVIOUS

(* Pickers that go on holding what they held. *)
LEMMA HandsStay ==
    ASSUME WellFormed, HandsKnow, TasksGoOn, UNCHANGED picker,
           \A t \in TaskIds : tasks'[t].picked = tasks[t].picked,
           history.doubled \subseteq history'.doubled
    PROVE  HandsKnow'
<1> SUFFICES ASSUME NEW p \in Pickers, picker[p].stage # "idle",
                    LineOfTask(picker[p].task)' \notin history'.doubled
             PROVE  /\ picker[p].picked = tasks'[picker[p].task].picked
                    /\ Touched(picker[p].task)' = {p}
    BY DEF HandsKnow
<1>1. picker[p].task \in TaskIds
    BY PickInHand
<1>2. LineOfTask(picker[p].task) \notin history.doubled
    BY <1>1, SameLines
<1>3. picker[p].picked = tasks[picker[p].task].picked /\ Touched(picker[p].task) = {p}
    BY <1>2 DEF HandsKnow
<1> QED BY <1>1, <1>3 DEF Touched

LEMMA CreateKeepsPicks ==
    ASSUME WellFormed, WellFormed', PicksKept, NEW r \in Releasers, CreateTask(r)
    PROVE  PicksKept'
<1>1. PICK task : task = NewTask(Min(Todo(r, "create")), releaser[r].wave)
    OBVIOUS
<1>2. tasks' = Append(tasks, task) /\ UNCHANGED <<line, shelf, picker, history>>
    BY <1>1 DEF CreateTask
<1>3. PICK n \in Nat : n = Len(tasks)
    BY DEF WellFormed, Typed
<1>4. /\ TaskIds = 1 .. n /\ TaskIds' = 1 .. n + 1
      /\ \A t \in 1 .. n : tasks'[t] = tasks[t]
      /\ tasks'[n + 1] = task
    BY <1>2, <1>3 DEF WellFormed, Typed, TaskIds
<1>5. task.picked = 0
    BY <1>1 DEF NewTask
<1>6. \A t \in 1 .. n : LineOfTask(t)' = LineOfTask(t)
    BY <1>4 DEF LineOfTask
<1>7. HandsKnow'
  <2> SUFFICES ASSUME NEW p \in Pickers, picker[p].stage # "idle",
                      LineOf[tasks'[picker[p].task].allocation] \notin history.doubled
               PROVE  /\ picker[p].picked = tasks'[picker[p].task].picked
                      /\ \A y \in Pickers : picker[y].task = picker[p].task => y = p
      BY <1>2, HandsKnowNext
  <2>1. picker[p].task \in 1 .. n
      BY <1>4, PickInHand
  <2>2. tasks'[picker[p].task] = tasks[picker[p].task]
      BY <1>4, <2>1
  <2>3. picker[p].picked = tasks[picker[p].task].picked /\ Touched(picker[p].task) = {p}
      BY <2>2 DEF PicksKept, HandsKnow, LineOfTask
  <2> QED BY <2>2, <2>3 DEF Touched
<1>8. PICK q : q = PickedOn
    OBVIOUS
<1>9. PICK u : u = PickedOn'
    OBVIOUS
<1>10. \A t \in 1 .. n : u[t] = q[t]
    BY <1>4, <1>8, <1>9 DEF PickedOn
<1>11. u[n + 1] = 0
  <2>1. n + 1 \in TaskIds'
      BY <1>4
  <2> QED BY <1>4, <1>5, <1>9, <2>1 DEF PickedOn
<1>12. ASSUME NEW l \in Lines PROVE Units(u, TasksOf(l)') = Units(q, TasksOf(l))
  <2>1. TasksOf(l) = {t \in 1 .. n : LineOfTask(t) = l}
      BY <1>4 DEF TasksOf
  <2>2. TasksOf(l)' = {t \in 1 .. n + 1 : LineOfTask(t)' = l}
      BY <1>4 DEF TasksOf
  <2>3. TasksOf(l) \subseteq TasksOf(l)'
    <3>1. \A t \in 1 .. n : t \in 1 .. n + 1
        OBVIOUS
    <3> QED BY <1>6, <2>1, <2>2, <3>1
  <2>4. \A t \in TasksOf(l)' \ TasksOf(l) : t = n + 1
    <3>1. \A t \in 1 .. n + 1 : t \in 1 .. n \/ t = n + 1
        OBVIOUS
    <3> QED BY <1>6, <2>1, <2>2, <3>1
  <2>5. \A t \in TasksOf(l) : u[t] = q[t]
      BY <1>10, <2>1
  <2>6. \A t \in TasksOf(l)' \ TasksOf(l) : u[t] = 0
      BY <1>11, <2>4
  <2>7. PICK S : S = TasksOf(l)
      OBVIOUS
  <2>8. PICK T : T = TasksOf(l)'
      OBVIOUS
  <2> QED BY <2>3, <2>5, <2>6, <2>7, <2>8, EmptyAdds
<1>13. FulfilledOn' = FulfilledOn
    BY <1>2 DEF FulfilledOn
<1>14. PicksAddUp'
    BY <1>2, <1>8, <1>9, <1>12, <1>13 DEF PicksKept, PicksAddUp
<1> QED BY <1>7, <1>14 DEF PicksKept

LEMMA ReadKeepsPicks ==
    ASSUME WellFormed, WellFormed', PicksKept,
           NEW p \in Pickers, NEW t \in TaskIds, NEW quantity \in Scans,
           ReadTask(p, t, quantity)
    PROVE  PicksKept'
<1>1. PICK new : new = [stage |-> "read", task |-> t, picked |-> tasks[t].picked,
                        quantity |-> quantity]
    OBVIOUS
<1>2. /\ picker' = [picker EXCEPT ![p] = new] /\ picker[p] = IdlePicker
      /\ history' = [history EXCEPT !.doubled =
             IF Touched(t) = {} THEN @ ELSE @ \cup {LineOfTask(t)}]
      /\ UNCHANGED <<line, tasks, shelf>>
    BY <1>1 DEF ReadTask
<1>3. /\ new.task = t /\ new.picked = tasks[t].picked /\ t \in Nat \ {0}
      /\ picker[p].task = 0
    BY <1>1, <1>2 DEF WellFormed, Typed, TaskIds, IdlePicker
<1>4. \A x \in Pickers : picker'[x] = IF x = p THEN new ELSE picker[x]
    BY <1>2 DEF WellFormed, Typed
<1>5. /\ history.doubled \subseteq history'.doubled
      /\ history'.uncovered = history.uncovered
      /\ Touched(t) # {} => LineOfTask(t) \in history'.doubled
    BY <1>2 DEF WellFormed, Typed, Histories
<1>6. NothingMoves
    BY <1>2, <1>5 DEF NothingMoves, TasksGoOn, TaskIds
<1>7. HandsKnow'
  <2> SUFFICES ASSUME NEW x \in Pickers, picker'[x].stage # "idle",
                      LineOfTask(picker'[x].task) \notin history'.doubled
               PROVE  /\ picker'[x].picked = tasks[picker'[x].task].picked
                      /\ \A y \in Pickers : picker'[y].task = picker'[x].task => y = x
      BY <1>2, HandsKnowNext DEF LineOfTask
  <2>1. CASE x = p
    <3>1. Touched(t) = {}
        BY <1>3, <1>4, <1>5, <2>1
    <3>2. \A y \in Pickers : picker'[y].task = t => y = p
        BY <1>3, <1>4, <3>1 DEF Touched
    <3> QED BY <1>3, <1>4, <2>1, <3>2
  <2>2. CASE x # p
    <3>1. /\ picker'[x] = picker[x] /\ picker[x].stage # "idle"
          /\ LineOfTask(picker[x].task) \notin history.doubled
        BY <1>4, <1>5, <2>2
    <3>2. picker[x].picked = tasks[picker[x].task].picked /\ Touched(picker[x].task) = {x}
        BY <3>1 DEF PicksKept, HandsKnow
    <3>3. picker[x].task # t
        BY <1>5, <3>1, <3>2
    <3>4. \A y \in Pickers : picker[y].task = picker[x].task => y = x
        BY <3>2 DEF Touched
    <3>5. \A y \in Pickers : picker'[y].task = picker[x].task => y = x
        BY <1>3, <1>4, <3>3, <3>4
    <3> QED BY <3>1, <3>2, <3>5
  <2> QED BY <2>1, <2>2
<1> QED BY <1>6, <1>7, SumsStay DEF PicksKept

(* A picker lets go of its task, or goes on with it. *)
LEMMA HandKeepsPicks ==
    ASSUME WellFormed, WellFormed', PicksKept, NEW p \in Pickers,
           EmitPick(p) \/ RefuseFullPick(p) \/ RollbackPick(p)
    PROVE  PicksKept'
<1>1. PICK new : picker' = [picker EXCEPT ![p] = new]
                 /\ \/ new = IdlePicker
                    \/ new = [picker[p] EXCEPT !.stage = "emitted"]
    BY DEF EmitPick, RefuseFullPick, RollbackPick
<1>2. UNCHANGED <<line, tasks, shelf, history>> /\ picker[p].stage # "idle"
    BY DEF EmitPick, RefuseFullPick, RollbackPick
<1>3. NothingMoves
    BY <1>2 DEF NothingMoves, TasksGoOn, TaskIds
<1>4. \A x \in Pickers : picker'[x] = IF x = p THEN new ELSE picker[x]
    BY <1>1 DEF WellFormed, Typed
<1>5. \/ new.stage = "idle" /\ new.task = 0
      \/ new.task = picker[p].task /\ new.picked = picker[p].picked
  <2>1. picker[p] \in PickerRecords
      BY DEF WellFormed, Typed
  <2>2. CASE new = IdlePicker
      BY <2>2 DEF IdlePicker
  <2>3. CASE new = [picker[p] EXCEPT !.stage = "emitted"]
      BY <2>1, <2>3 DEF PickerRecords
  <2> QED BY <1>1, <2>2, <2>3
<1>6. HandsKnow'
  <2> SUFFICES ASSUME NEW x \in Pickers, picker'[x].stage # "idle",
                      LineOfTask(picker'[x].task) \notin history.doubled
               PROVE  /\ picker'[x].picked = tasks[picker'[x].task].picked
                      /\ \A y \in Pickers : picker'[y].task = picker'[x].task => y = x
      BY <1>2, HandsKnowNext DEF LineOfTask
  <2>1. /\ picker'[x].task = picker[x].task /\ picker'[x].picked = picker[x].picked
        /\ picker[x].stage # "idle"
      BY <1>2, <1>4, <1>5
  <2>2. picker[x].picked = tasks[picker[x].task].picked /\ Touched(picker[x].task) = {x}
      BY <2>1 DEF PicksKept, HandsKnow
  <2>3. picker[x].task # 0
      BY <2>1, PickInHand DEF WellFormed, Typed, TaskIds
  <2>4. \A y \in Pickers : picker[y].task = picker[x].task => y = x
      BY <2>2 DEF Touched
  <2>5. \A y \in Pickers : picker'[y].task = picker[x].task => y = x
      BY <1>4, <1>5, <2>3, <2>4
  <2> QED BY <2>1, <2>2, <2>5
<1> QED BY <1>3, <1>6, SumsStay DEF PicksKept

LEMMA CommitKeepsPicks ==
    ASSUME WellFormed, WellFormed', PicksKept, NEW p \in Pickers, CommitPick(p)
    PROVE  PicksKept'
<1>1. PICK t : t = picker[p].task
    OBVIOUS
<1>2. PICK n : n = picker[p].quantity
    OBVIOUS
<1>3. PICK l : l = LineOfTask(t)
    OBVIOUS
<1>4. t \in TaskIds /\ n \in Nat /\ l \in Lines /\ Sum(p) \in Nat /\ picker[p].stage # "idle"
    BY <1>1, <1>2, <1>3, PickInHand DEF CommitPick
<1>5. PICK new : new = [tasks[t] EXCEPT !.picked = Sum(p), !.status = "SHORT"]
    OBVIOUS
<1>6. /\ tasks' = [tasks EXCEPT ![t] = new]
      /\ picker' = [picker EXCEPT ![p] = IdlePicker]
      /\ Take(p)
    BY <1>1, <1>5 DEF CommitPick
<1>7. new \in TaskRecords /\ new.allocation = tasks[t].allocation /\ new.picked = Sum(p)
    BY <1>4, <1>5, TaskTyped DEF TaskRecords
<1>8. TaskIds' = TaskIds /\ \A s \in TaskIds : tasks'[s] = IF s = t THEN new ELSE tasks[s]
    BY <1>4, <1>6, <1>7, TaskChanges
<1>9. TasksGoOn
    BY <1>7, <1>8 DEF TasksGoOn
<1>10. \A x \in Pickers : picker'[x] = IF x = p THEN IdlePicker ELSE picker[x]
    BY <1>6 DEF WellFormed, Typed
<1>11. /\ history'.doubled = history.doubled
       /\ history'.uncovered = (history.uncovered \/ ~Covered(p))
    BY <1>6 DEF Take, WellFormed, Typed, Histories
<1>12. /\ line' = [line EXCEPT ![l] = [status |-> "BACKORDERED", fulfilled |-> @.fulfilled + n]]
       /\ Covered(p) => shelf'.picked = shelf.picked + n
    BY <1>1, <1>2, <1>3, <1>6 DEF Take
<1>13. \A k \in Lines :
           line'[k].fulfilled = IF k = l THEN line[k].fulfilled + n ELSE line[k].fulfilled
    BY <1>4, <1>12 DEF WellFormed, Typed, LineRecords
<1>14. PICK q : q = PickedOn
    OBVIOUS
<1>15. PICK u : u = PickedOn'
    OBVIOUS
<1>16. \A s \in TaskIds : u[s] = (IF s = t THEN Sum(p) ELSE q[s]) /\ q[s] \in Nat
    BY <1>7, <1>8, <1>14, <1>15, PickTables DEF PickedOn
<1>17. l \notin history.doubled => u[t] = q[t] + n
  <2>1. l \notin history.doubled => picker[p].picked = tasks[t].picked
      BY <1>1, <1>3, <1>4 DEF PicksKept, HandsKnow
  <2> QED BY <1>2, <1>4, <1>14, <1>16, <2>1, PickTables DEF Sum
<1>18. ASSUME NEW k \in Lines \ history.doubled
       PROVE  line'[k].fulfilled = Cardinality(Units(u, TasksOf(k)'))
  <2>1. PICK S : S = TasksOf(k)
      OBVIOUS
  <2>2. TasksOf(k)' = S /\ IsFiniteSet(S) /\ S \subseteq TaskIds
      BY <1>9, <2>1, SameLines, PickTables DEF TasksOf, TasksGoOn
  <2>3. line[k].fulfilled = Cardinality(Units(q, S))
      BY <1>14, <2>1 DEF PicksKept, PicksAddUp
  <2>4. CASE k = l
    <3>1. t \in S
        BY <1>3, <1>4, <2>1, <2>4 DEF TasksOf
    <3>2. /\ \A y \in S : q[y] \in Nat
          /\ \A y \in S \ {t} : u[y] = q[y]
        BY <1>16, <2>2
    <3>3. Cardinality(Units(u, S)) = Cardinality(Units(q, S)) + n
        BY <1>4, <1>17, <2>2, <2>4, <3>1, <3>2, SumGrows
    <3> QED BY <1>13, <2>2, <2>3, <2>4, <3>3
  <2>5. CASE k # l
    <3>1. t \notin S
        BY <1>3, <2>1, <2>5 DEF TasksOf
    <3>2. \A y \in S : u[y] = q[y]
        BY <1>16, <2>2, <3>1
    <3>3. Units(u, S) = Units(q, S)
        BY <3>2, SameUnits
    <3> QED BY <1>13, <2>2, <2>3, <2>5, <3>3
  <2> QED BY <2>4, <2>5
<1>19. ASSUME ~history'.uncovered
       PROVE  shelf'.picked = Cardinality(Units(FulfilledOn', Lines))
  <2>1. PICK f : f = FulfilledOn
      OBVIOUS
  <2>2. PICK g : g = FulfilledOn'
      OBVIOUS
  <2>3. \A k \in Lines : f[k] \in Nat /\ g[k] = IF k = l THEN f[k] + n ELSE f[k]
      BY <1>13, <2>1, <2>2, PickTables DEF FulfilledOn
  <2>4. Cardinality(Units(g, Lines)) = Cardinality(Units(f, Lines)) + n
    <3>1. /\ IsFiniteSet(Lines) /\ \A k \in Lines : f[k] \in Nat
          /\ g[l] = f[l] + n /\ \A k \in Lines \ {l} : g[k] = f[k]
        BY <1>4, <2>3, AllocationAssumption
    <3> QED BY <1>4, <3>1, SumGrows
  <2>5. Covered(p) /\ ~history.uncovered
      BY <1>11, <1>19
  <2>6. shelf.picked = Cardinality(Units(f, Lines))
      BY <2>1, <2>5 DEF PicksKept, PicksAddUp
  <2> QED BY <1>12, <2>2, <2>4, <2>5, <2>6
<1>20. HandsKnow'
  <2> SUFFICES ASSUME NEW x \in Pickers, picker'[x].stage # "idle",
                      LineOf[tasks'[picker'[x].task].allocation] \notin history.doubled
               PROVE  /\ picker'[x].picked = tasks'[picker'[x].task].picked
                      /\ \A y \in Pickers : picker'[y].task = picker'[x].task => y = x
      BY <1>11, HandsKnowNext
  <2>1. x # p /\ picker'[x] = picker[x] /\ picker[x].stage # "idle"
      BY <1>10 DEF IdlePicker
  <2>2. picker[x].task \in TaskIds
      BY <2>1, PickInHand
  <2>3. tasks'[picker[x].task].allocation = tasks[picker[x].task].allocation
      BY <1>9, <2>2 DEF TasksGoOn
  <2>4. LineOfTask(picker[x].task) \notin history.doubled
      BY <2>1, <2>3 DEF LineOfTask
  <2>5. picker[x].picked = tasks[picker[x].task].picked /\ Touched(picker[x].task) = {x}
      BY <2>1, <2>4 DEF PicksKept, HandsKnow
  <2>6. picker[x].task # t
      BY <1>1, <2>1, <2>5 DEF Touched
  <2>7. picker[x].task # 0
      BY <2>2 DEF WellFormed, Typed, TaskIds
  <2>8. \A y \in Pickers : picker[y].task = picker[x].task => y = x
      BY <2>5 DEF Touched
  <2>9. \A y \in Pickers : picker'[y].task = picker[x].task => y = x
      BY <1>10, <2>7, <2>8 DEF IdlePicker
  <2> QED BY <1>8, <2>1, <2>2, <2>5, <2>6, <2>9
<1>21. PicksAddUp'
    BY <1>11, <1>15, <1>18, <1>19 DEF PicksAddUp
<1> QED BY <1>20, <1>21 DEF PicksKept

LEMMA StepKeepsPicks == WellFormed /\ WellFormed' /\ PicksKept /\ [Next]_vars => PicksKept'
<1> SUFFICES ASSUME WellFormed, WellFormed', PicksKept, [Next]_vars PROVE PicksKept'
    OBVIOUS
<1>1. history \in Histories /\ line \in [Lines -> LineRecords]
    BY DEF WellFormed, Typed
<1>2. ASSUME NothingMoves, UNCHANGED picker PROVE PicksKept'
    BY <1>2, SumsStay, HandsStay DEF PicksKept, NothingMoves
<1>3. ASSUME UNCHANGED <<line, tasks, shelf, picker>>, history'.doubled = history.doubled,
             history'.uncovered = history.uncovered
      PROVE  PicksKept'
    BY <1>2, <1>3 DEF NothingMoves, TasksGoOn, TaskIds
<1>4. ASSUME NEW r \in Releasers, ReleaserStep(r) PROVE PicksKept'
  <2>1. ASSUME NEW w \in Waves, StartRelease(r, w) PROVE PicksKept'
      BY <1>1, <1>3, <2>1 DEF StartRelease, Opens, floor, Histories
  <2>2. CASE CutRelease(r)
      BY <1>1, <1>3, <2>2 DEF CutRelease, floor, Histories
  <2>3. CASE CountTasks(r) \/ FinishRelease(r)
      BY <1>3, <2>3 DEF CountTasks, FinishRelease, floor
  <2>4. CASE MarkLine(r)
    <3>1. UNCHANGED <<tasks, shelf, picker, history>>
        BY <2>4 DEF MarkLine, floor
    <3>2. \A l \in Lines : line'[l].fulfilled = line[l].fulfilled
        BY <1>1, <2>4 DEF MarkLine, LineRecords
    <3> QED BY <1>2, <3>1, <3>2 DEF NothingMoves, TasksGoOn, TaskIds
  <2> QED BY <1>4, <2>1, <2>2, <2>3, <2>4, CreateKeepsPicks DEF ReleaserStep
<1>5. ASSUME NEW t \in TaskIds, AssignTask(t) PROVE PicksKept'
  <2>1. PICK new : new = [tasks[t] EXCEPT !.status = "IN_PROGRESS"]
      OBVIOUS
  <2>2. tasks' = [tasks EXCEPT ![t] = new] /\ UNCHANGED <<line, shelf, picker, history>>
      BY <1>5, <2>1 DEF AssignTask
  <2>3. new \in TaskRecords /\ new.picked = tasks[t].picked
      BY <2>1, TaskTyped DEF TaskRecords
  <2>4. \A s \in TaskIds : tasks'[s] = IF s = t THEN new ELSE tasks[s]
      BY <2>2, <2>3, TaskChanges
  <2>5. TasksGoOn
      BY <1>5, FloorGoesOn
  <2> QED BY <1>2, <2>2, <2>3, <2>4, <2>5 DEF NothingMoves
<1>6. CASE ReadLines
    BY <1>1, <1>3, <1>6 DEF ReadLines, floor, Histories
<1>7. CASE UNCHANGED vars \/ \E h \in HeaderStatuses : WriteHeader(h)
    BY <1>3, <1>7 DEF WriteHeader, floor, vars
<1>8. ASSUME NEW status \in ByHand, SetStatus(status) PROVE PicksKept'
    BY <1>1, <1>3, <1>8 DEF SetStatus, floor, Histories
<1>9. ASSUME NEW p \in Pickers, PickerStep(p) PROVE PicksKept'
    BY <1>9, ReadKeepsPicks, HandKeepsPicks, CommitKeepsPicks DEF PickerStep
<1> QED BY <1>4, <1>5, <1>6, <1>7, <1>8, <1>9 DEF Next

(* Whatever is picked at once, rolled back or booked of stock that is not there: on  *)
(* lines whose tasks no two pickers confirmed at once the tasks say what the line    *)
(* says, and the lines what left the shelf, until a pick was booked of stock that    *)
(* was not there (picking.service.ts).                                               *)
THEOREM PicksAgree == Spec => []PicksAddUp
<1>1. WellFormed /\ PicksKept /\ [Next]_vars => (WellFormed /\ PicksKept)'
    BY StepSound, StepKeepsPicks
<1>2. Init => WellFormed /\ PicksKept
    BY InitiallyWellFormed, InitialPicks
<1>3. PicksKept => PicksAddUp
    BY DEF PicksKept
<1> QED BY <1>1, <1>2, <1>3, PTL DEF Spec

==================================================================================
