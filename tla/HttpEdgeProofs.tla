------------------------------- MODULE HttpEdgeProofs -------------------------------
(***************************************************************************)
(* For any number of requests, keys and slots: what the node counts in its  *)
(* memory agrees with the requests it is processing, and the database       *)
(* outlives them.                                                           *)
(*                                                                         *)
(* ProcessedOnce is not inductive.  What makes it so is that both           *)
(* collections together cover whoever has a key (Covered): the key of a     *)
(* request being processed is in flight, the key of an answer with a timer  *)
(* is cached.  A new request therefore meets neither, and a timer or an end *)
(* takes off only its own key.                                              *)
(***************************************************************************)
EXTENDS HttpEdge, FiniteSetTheorems, TLAPS

Busy == In({"admitted", "running"})
Running == In({"running"})

(* An answer with a timer has a key. *)
TimersKeyed == \A r \in timers : KeyOf[r] # NoKey

(* As long as the cache was not cleared, every key in use is in a collection. *)
Covered ==
    history.overflowed
    \/ /\ \A r \in Running : KeyOf[r] # NoKey => KeyOf[r] \in inFlight
       /\ \A r \in timers : KeyOf[r] \in cache

IInv ==
    /\ TypeOK
    /\ SlotsReturned
    /\ KeysReturned
    /\ TimersKeyed
    /\ Covered
    /\ ProcessedOnce
    /\ DatabaseOutlivesRequests

--------------------------------------------------------------------------------
LEMMA BusyIsFinite == IsFiniteSet(Busy) /\ Cardinality(Busy) \in Nat
<1>1. Busy \subseteq Requests
    BY DEF Busy, In
<1> QED
    BY <1>1, RequestAssumption, FS_Subset, FS_CardinalityType

(* A request that leaves the semaphore gives back at least its own slot. *)
LEMMA LeavingGivesBack ==
    ASSUME slots \in Nat, slots <= Cardinality(Busy),
           NEW r \in Busy, Busy' = Busy \ {r},
           NEW n \in {1, 2}, GiveBack(n)
    PROVE  slots' <= Cardinality(Busy')
<1>1. IsFiniteSet(Busy) /\ Cardinality(Busy) \in Nat
    BY BusyIsFinite
<1>2. IsFiniteSet(Busy \ {r}) /\ Cardinality(Busy \ {r}) = Cardinality(Busy) - 1
    BY <1>1, FS_RemoveElement
<1>3. Cardinality(Busy \ {r}) \in Nat
    BY <1>2, FS_CardinalityType
<1> QED
    BY <1>1, <1>2, <1>3 DEF GiveBack
--------------------------------------------------------------------------------
LEMMA Initially == Init => IInv
<1> SUFFICES ASSUME Init PROVE IInv
    OBVIOUS
<1>1. TypeOK
    <2>1. request \in [Requests -> {"new"} \cup Underway \cup Answers]
        BY DEF Init
    <2>2. slots \in 0 .. MaxConcurrent
        BY LimitAssumption DEF Init
    <2>3. history \in [overflowed: BOOLEAN, unclosed: BOOLEAN]
        BY DEF Init, NoHistory
    <2> QED
        BY <2>1, <2>2, <2>3 DEF Init, TypeOK
<1>2. Busy = {} /\ Running = {}
    BY DEF Init, Busy, Running, In
<1>3. SlotsReturned
    BY <1>2, FS_EmptySet DEF Init, SlotsReturned, Busy
<1> QED
    BY <1>1, <1>2, <1>3
    DEF Init, IInv, KeysReturned, TimersKeyed, Covered, ProcessedOnce,
        DatabaseOutlivesRequests, Running

--------------------------------------------------------------------------------
(* A step that changes neither who holds a slot, who runs nor what is counted *)
(* of them.                                                                   *)
LEMMA Uncounted ==
    ASSUME IInv, TypeOK', DatabaseOutlivesRequests',
           Busy' = Busy, Running' = Running,
           UNCHANGED <<slots, inFlight, cache, timers>>,
           history'.overflowed = history.overflowed
    PROVE  IInv'
<1>1. SlotsReturned'
    BY DEF IInv, SlotsReturned, Busy
<1>2. KeysReturned'
    BY DEF IInv, KeysReturned, Running
<1>3. TimersKeyed' /\ Covered'
    BY DEF IInv, TimersKeyed, Covered
<1>4. ProcessedOnce'
    BY DEF IInv, ProcessedOnce, Running
<1> QED
    BY <1>1, <1>2, <1>3, <1>4 DEF IInv

(* While the database is disconnected, no request gets past the hook.         *)
LEMMA NoneComesIn ==
    ASSUME DatabaseOutlivesRequests, UNCHANGED phase,
           In(Underway)' \subseteq In(Underway),
           history'.unclosed = history.unclosed
    PROVE  DatabaseOutlivesRequests'
    BY DEF DatabaseOutlivesRequests

LEMMA ReceiveKeeps ==
    ASSUME IInv, NEW r \in Requests, Receive(r) PROVE IInv'
<1> USE DEF IInv
<1>1. request[r] = "new" /\ request \in [Requests -> {"new"} \cup Underway \cup Answers]
    BY DEF Receive, TypeOK
<1>2. PICK stage \in {"received", "draining", "refused"} :
          Becomes(r, stage) /\ (stage = "received" => phase = "up")
    BY DEF Receive
<1>3. Busy' = Busy /\ Running' = Running /\ In({"done"})' = In({"done"})
    BY <1>1, <1>2 DEF Busy, Running, In, Becomes
<1>4. TypeOK'
    BY <1>1, <1>2, <1>3 DEF TypeOK, Receive, shutdown, Becomes, Underway, Answers
<1>5. DatabaseOutlivesRequests'
    BY <1>1, <1>2 DEF DatabaseOutlivesRequests, Receive, shutdown, Becomes, In, Underway
<1> QED
    BY <1>3, <1>4, <1>5, Uncounted DEF Receive

LEMMA AdmitKeeps ==
    ASSUME IInv, NEW r \in Requests, Admit(r) PROVE IInv'
<1> USE DEF IInv
<1>1. /\ request[r] = "received" /\ Becomes(r, "admitted")
      /\ request \in [Requests -> {"new"} \cup Underway \cup Answers]
    BY DEF Admit, TypeOK
<1>2. Running' = Running /\ In({"done"})' = In({"done"})
    BY <1>1 DEF Running, In, Becomes
<1>3. r \notin Busy /\ Busy' = Busy \cup {r}
    BY <1>1 DEF Busy, In, Becomes
<1>4. TypeOK'
    <2>1. request' \in [Requests -> {"new"} \cup Underway \cup Answers]
        BY <1>1 DEF Becomes, Underway
    <2>2. slots' \in 0 .. MaxConcurrent
        BY LimitAssumption DEF Admit, TypeOK
    <2> QED
        BY <2>1, <2>2, <1>2 DEF TypeOK, Admit, shutdown
<1>5. SlotsReturned'
    <2>1. Cardinality(Busy \cup {r}) = Cardinality(Busy) + 1
        BY <1>3, BusyIsFinite, FS_AddElement
    <2>2. slots \in Nat /\ slots' = slots + 1 /\ slots <= Cardinality(Busy)
        BY DEF Admit, TypeOK, SlotsReturned, Busy
    <2>3. slots' <= Cardinality(Busy')
        BY <2>1, <2>2, <1>3, BusyIsFinite
    <2> QED
        BY <2>3 DEF SlotsReturned, Busy
<1>6. KeysReturned' /\ TimersKeyed' /\ Covered' /\ ProcessedOnce'
    BY <1>2 DEF Admit, KeysReturned, TimersKeyed, Covered, ProcessedOnce, Running
<1>7. DatabaseOutlivesRequests'
    <2>1. In(Underway)' \subseteq In(Underway)
        BY <1>1 DEF In, Becomes, Underway
    <2> QED
        BY <2>1, NoneComesIn DEF Admit, shutdown
<1> QED
    BY <1>4, <1>5, <1>6, <1>7

LEMMA TurnAwayKeeps ==
    ASSUME IInv, NEW r \in Requests, TurnAway(r) PROVE IInv'
<1> USE DEF IInv
<1>1. request[r] = "received" /\ request \in [Requests -> {"new"} \cup Underway \cup Answers]
    BY DEF TurnAway, TypeOK
<1>2. PICK stage \in {"busy", "saturated"} : Becomes(r, stage)
    BY DEF TurnAway
<1>3. Busy' = Busy /\ Running' = Running /\ In({"done"})' = In({"done"})
    BY <1>1, <1>2 DEF Busy, Running, In, Becomes
<1>4. TypeOK'
    BY <1>1, <1>2, <1>3 DEF TypeOK, TurnAway, shutdown, Becomes, Answers
<1>5. In(Underway)' \subseteq In(Underway)
    BY <1>1, <1>2 DEF In, Becomes, Underway
<1>6. DatabaseOutlivesRequests'
    BY <1>5, NoneComesIn DEF TurnAway, shutdown
<1> QED
    BY <1>3, <1>4, <1>6, Uncounted DEF TurnAway

(* A conflict and a replay only give back their slot. *)
LEMMA AnswerKeeps ==
    ASSUME IInv, NEW r \in Requests, request[r] = "admitted",
           NEW stage \in {"conflict", "replayed"}, Becomes(r, stage),
           NEW n \in {1, 2}, GiveBack(n),
           UNCHANGED <<inFlight, cache, timers, shutdown, history>>
    PROVE  IInv'
<1> USE DEF IInv
<1>1. request \in [Requests -> {"new"} \cup Underway \cup Answers]
    BY DEF TypeOK
<1>2. Running' = Running /\ In({"done"})' = In({"done"})
    BY <1>1 DEF Running, In, Becomes
<1>3. r \in Busy /\ Busy' = Busy \ {r}
    BY <1>1 DEF Busy, In, Becomes
<1>4. TypeOK'
    <2>1. request' \in [Requests -> {"new"} \cup Underway \cup Answers]
        BY <1>1 DEF Becomes, Answers
    <2>2. slots' \in 0 .. MaxConcurrent
        BY LimitAssumption DEF GiveBack, TypeOK
    <2> QED
        BY <2>1, <2>2, <1>2 DEF TypeOK, shutdown
<1>5. SlotsReturned'
    <2>1. slots \in Nat /\ slots <= Cardinality(Busy)
        BY DEF TypeOK, SlotsReturned, Busy
    <2> QED
        BY <2>1, <1>3, LeavingGivesBack DEF SlotsReturned, Busy
<1>6. KeysReturned' /\ TimersKeyed' /\ Covered' /\ ProcessedOnce'
    BY <1>2 DEF KeysReturned, TimersKeyed, Covered, ProcessedOnce, Running
<1>7. DatabaseOutlivesRequests'
    <2>1. In(Underway)' \subseteq In(Underway)
        BY <1>1 DEF In, Becomes, Underway
    <2> QED
        BY <2>1, NoneComesIn DEF shutdown
<1> QED
    BY <1>4, <1>5, <1>6, <1>7

LEMMA EnterKeeps ==
    ASSUME IInv, NEW r \in Requests, Enter(r) PROVE IInv'
<1> USE DEF IInv
<1>1. /\ request[r] = "admitted" /\ Becomes(r, "running")
      /\ request \in [Requests -> {"new"} \cup Underway \cup Answers]
    BY DEF Enter, TypeOK
<1>2. Busy' = Busy /\ Running' = Running \cup {r} /\ In({"done"})' = In({"done"})
    BY <1>1 DEF Busy, Running, In, Becomes
<1>3. /\ inFlight' = inFlight \cup ({KeyOf[r]} \ {NoKey})
      /\ KeyOf[r] \in Keys \cup {NoKey}
    BY RequestAssumption DEF Enter
<1>4. \/ history'.overflowed
      \/ /\ UNCHANGED <<cache, history>> /\ ~ history.overflowed
         /\ KeyOf[r] \notin inFlight \cup cache
    BY DEF Enter, TypeOK
<1>5. TypeOK'
    <2>1. request' \in [Requests -> {"new"} \cup Underway \cup Answers]
        BY <1>1 DEF Becomes, Underway
    <2>2. inFlight' \subseteq Keys
        BY <1>3 DEF TypeOK
    <2>3. /\ cache' \subseteq Keys
          /\ history' \in [overflowed: BOOLEAN, unclosed: BOOLEAN]
        BY DEF Enter, TypeOK
    <2> QED
        BY <2>1, <2>2, <2>3, <1>2 DEF TypeOK, Enter, shutdown
<1>6. SlotsReturned'
    BY <1>2 DEF SlotsReturned, Busy, Enter
<1>7. KeysReturned'
    BY <1>2, <1>3 DEF KeysReturned, Running
<1>8. TimersKeyed'
    BY DEF TimersKeyed, Enter
<1>9. Covered'
    BY <1>2, <1>3, <1>4 DEF Covered, Enter
<1>10. ProcessedOnce'
    <2>1. CASE history'.overflowed
        BY <2>1 DEF ProcessedOnce
    <2>2. CASE ~ history'.overflowed
        <3>1. \A q \in Running \cup timers :
                KeyOf[q] = NoKey \/ KeyOf[q] # KeyOf[r]
            BY <1>4, <2>2 DEF Covered
        <3>2. timers' = timers
            BY DEF Enter
        <3>3. \A p, q \in Running' \cup timers' :
                p # q => KeyOf[p] = NoKey \/ KeyOf[p] # KeyOf[q]
            BY <1>2, <1>4, <2>2, <3>1, <3>2 DEF ProcessedOnce, Running
        <3> QED
            BY <3>3 DEF ProcessedOnce, Running
    <2> QED
        BY <2>1, <2>2
<1>11. DatabaseOutlivesRequests'
    <2>1. In(Underway)' \subseteq In(Underway)
        BY <1>1 DEF In, Becomes, Underway
    <2>2. history'.unclosed = history.unclosed
        BY DEF Enter, TypeOK
    <2> QED
        BY <2>1, <2>2, NoneComesIn DEF Enter, shutdown
<1> QED
    BY <1>5, <1>6, <1>7, <1>8, <1>9, <1>10, <1>11

LEMMA SucceedKeeps ==
    ASSUME IInv, NEW r \in Requests, Succeed(r) PROVE IInv'
<1> USE DEF IInv
<1>1. /\ request[r] = "running" /\ Becomes(r, "done")
      /\ request \in [Requests -> {"new"} \cup Underway \cup Answers]
    BY DEF Succeed, TypeOK
<1>2. /\ r \in Busy /\ Busy' = Busy \ {r}
      /\ r \in Running /\ Running' = Running \ {r}
      /\ In({"done"})' = In({"done"}) \cup {r}
    BY <1>1 DEF Busy, Running, In, Becomes
<1>3. /\ inFlight' = inFlight \ {KeyOf[r]}
      /\ cache' = cache \cup ({KeyOf[r]} \ {NoKey})
      /\ timers' = IF KeyOf[r] = NoKey THEN timers ELSE timers \cup {r}
      /\ history' = history
    BY RequestAssumption DEF Succeed, TypeOK
<1>4. TypeOK'
    <2>1. request' \in [Requests -> {"new"} \cup Underway \cup Answers]
        BY <1>1 DEF Becomes, Answers
    <2>2. slots' \in 0 .. MaxConcurrent
        BY LimitAssumption DEF GiveBack, TypeOK, Succeed
    <2>3. inFlight' \subseteq Keys /\ cache' \subseteq Keys
        BY <1>3, RequestAssumption DEF TypeOK
    <2>4. timers' \subseteq In({"done"})'
        BY <1>2, <1>3 DEF TypeOK
    <2> QED
        BY <2>1, <2>2, <2>3, <2>4 DEF TypeOK, Succeed, shutdown
<1>5. SlotsReturned'
    <2>1. slots \in Nat /\ slots <= Cardinality(Busy) /\ GiveBack(2)
        BY DEF TypeOK, SlotsReturned, Busy, Succeed
    <2> QED
        BY <2>1, <1>2, LeavingGivesBack DEF SlotsReturned, Busy
<1>6. KeysReturned'
    BY <1>2, <1>3 DEF KeysReturned, Running
<1>7. TimersKeyed'
    BY <1>3 DEF TimersKeyed
<1>8. Covered' /\ ProcessedOnce'
    <2>1. CASE history.overflowed
        BY <2>1, <1>3 DEF Covered, ProcessedOnce
    <2>2. CASE ~ history.overflowed
        <3>1. \A p, q \in Running \cup timers :
                p # q => KeyOf[p] = NoKey \/ KeyOf[p] # KeyOf[q]
            BY <2>2 DEF ProcessedOnce, Running
        <3>2. Covered'
            BY <1>2, <1>3, <2>2, <3>1 DEF Covered, TimersKeyed
        <3>3. Running' \cup timers' \subseteq Running \cup timers
            BY <1>2, <1>3
        <3> QED
            BY <3>1, <3>2, <3>3 DEF ProcessedOnce, Running
    <2> QED
        BY <2>1, <2>2
<1>9. DatabaseOutlivesRequests'
    <2>1. In(Underway)' \subseteq In(Underway)
        BY <1>1 DEF In, Becomes, Underway
    <2> QED
        BY <2>1, NoneComesIn DEF Succeed, shutdown
<1> QED
    BY <1>4, <1>5, <1>6, <1>7, <1>8, <1>9

LEMMA FailKeeps ==
    ASSUME IInv, NEW r \in Requests, Fail(r) PROVE IInv'
<1> USE DEF IInv
<1>1. /\ request[r] = "running" /\ Becomes(r, "failed")
      /\ request \in [Requests -> {"new"} \cup Underway \cup Answers]
    BY DEF Fail, TypeOK
<1>2. /\ r \in Busy /\ Busy' = Busy \ {r}
      /\ r \in Running /\ Running' = Running \ {r}
      /\ In({"done"})' = In({"done"})
    BY <1>1 DEF Busy, Running, In, Becomes
<1>3. inFlight' = inFlight \ {KeyOf[r]} /\ UNCHANGED <<cache, timers, history>>
    BY DEF Fail
<1>4. TypeOK'
    <2>1. request' \in [Requests -> {"new"} \cup Underway \cup Answers]
        BY <1>1 DEF Becomes, Answers
    <2>2. slots' \in 0 .. MaxConcurrent
        BY LimitAssumption DEF GiveBack, TypeOK, Fail
    <2> QED
        BY <2>1, <2>2, <1>2, <1>3 DEF TypeOK, Fail, shutdown
<1>5. SlotsReturned'
    <2>1. slots \in Nat /\ slots <= Cardinality(Busy) /\ GiveBack(1)
        BY DEF TypeOK, SlotsReturned, Busy, Fail
    <2> QED
        BY <2>1, <1>2, LeavingGivesBack DEF SlotsReturned, Busy
<1>6. KeysReturned' /\ TimersKeyed'
    BY <1>2, <1>3 DEF KeysReturned, TimersKeyed, Running
<1>7. Covered' /\ ProcessedOnce'
    BY <1>2, <1>3 DEF Covered, ProcessedOnce, Running
<1>8. DatabaseOutlivesRequests'
    <2>1. In(Underway)' \subseteq In(Underway)
        BY <1>1 DEF In, Becomes, Underway
    <2> QED
        BY <2>1, NoneComesIn DEF Fail, shutdown
<1> QED
    BY <1>4, <1>5, <1>6, <1>7, <1>8

(* A timer frees its own key: unless the cache was cleared, no other request  *)
(* has it.                                                                    *)
LEMMA ExpireKeeps ==
    ASSUME IInv, NEW r \in Requests, Expire(r) PROVE IInv'
<1> USE DEF IInv
<1>1. /\ r \in timers /\ timers' = timers \ {r}
      /\ cache' = cache \ {KeyOf[r]} /\ inFlight' = inFlight \ {KeyOf[r]}
      /\ UNCHANGED <<request, slots, shutdown, history>>
    BY DEF Expire
<1>2. Busy' = Busy /\ Running' = Running /\ In(Underway)' = In(Underway)
      /\ In({"done"})' = In({"done"})
    BY <1>1 DEF Busy, Running, In
<1>3. TypeOK'
    BY <1>1, <1>2 DEF TypeOK, shutdown
<1>4. SlotsReturned' /\ KeysReturned' /\ TimersKeyed'
    BY <1>1, <1>2 DEF SlotsReturned, KeysReturned, TimersKeyed, Busy, Running
<1>5. r \notin Running
    BY <1>1 DEF TypeOK, In, Running
<1>6. Covered' /\ ProcessedOnce'
    <2>1. CASE history.overflowed
        BY <2>1, <1>1 DEF Covered, ProcessedOnce
    <2>2. CASE ~ history.overflowed
        <3>1. \A p, q \in Running \cup timers :
                p # q => KeyOf[p] = NoKey \/ KeyOf[p] # KeyOf[q]
            BY <2>2 DEF ProcessedOnce, Running
        <3>2. Covered'
            BY <1>1, <1>2, <1>5, <2>2, <3>1 DEF Covered, TimersKeyed
        <3> QED
            BY <1>1, <1>2, <3>1, <3>2 DEF ProcessedOnce, Running
    <2> QED
        BY <2>1, <2>2
<1>7. DatabaseOutlivesRequests'
    BY <1>1, <1>2 DEF DatabaseOutlivesRequests, shutdown
<1> QED
    BY <1>3, <1>4, <1>6, <1>7

(* The shutdown touches no request and nothing that is counted of them.       *)
LEMMA ShutdownKeeps ==
    ASSUME IInv, Signal \/ StopDraining \/ CloseFastify \/ Exit \/ ForceExit
    PROVE  IInv'
<1> USE DEF IInv
<1>1. UNCHANGED edge /\ Busy' = Busy /\ Running' = Running /\ In(Underway)' = In(Underway)
      /\ In({"done"})' = In({"done"})
    BY DEF Signal, StopDraining, CloseFastify, Exit, ForceExit, edge, Busy, Running, In
<1>2. /\ history' \in [overflowed: BOOLEAN, unclosed: BOOLEAN]
      /\ history'.overflowed = history.overflowed
    BY DEF Signal, StopDraining, CloseFastify, Exit, ForceExit, TypeOK
<1>3. /\ phase' \in {"up", "draining", "closing", "disconnecting", "exited"}
      /\ armed' \in BOOLEAN
    BY DEF Signal, StopDraining, CloseFastify, Exit, ForceExit, TypeOK
<1>4. TypeOK'
    BY <1>1, <1>2, <1>3 DEF TypeOK, edge
<1>5. DatabaseOutlivesRequests'
    <2>1. CASE CloseFastify
        BY <2>1, <1>1 DEF CloseFastify, DatabaseOutlivesRequests, TypeOK
    <2>2. CASE ~ CloseFastify
        BY <2>2 DEF Signal, StopDraining, Exit, ForceExit, DatabaseOutlivesRequests
    <2> QED
        BY <2>1, <2>2
<1> QED
    BY <1>1, <1>2, <1>4, <1>5, Uncounted DEF edge

LEMMA StutterKeeps == ASSUME IInv, UNCHANGED vars PROVE IInv'
<1>1. Busy' = Busy /\ Running' = Running /\ In(Underway)' = In(Underway)
      /\ In({"done"})' = In({"done"})
    BY DEF vars, Busy, Running, In
<1>2. TypeOK' /\ DatabaseOutlivesRequests'
    BY <1>1 DEF IInv, vars, TypeOK, DatabaseOutlivesRequests
<1> QED
    BY <1>1, <1>2, Uncounted DEF vars

LEMMA IInvInductive == IInv /\ [Next]_vars => IInv'
<1> SUFFICES ASSUME IInv, [Next]_vars PROVE IInv'
    OBVIOUS
<1>1. ASSUME NEW r \in Requests, RequestStep(r) PROVE IInv'
    <2>1. CASE Receive(r)
        BY <2>1, ReceiveKeeps
    <2>2. CASE Admit(r)
        BY <2>2, AdmitKeeps
    <2>3. CASE TurnAway(r)
        BY <2>3, TurnAwayKeeps
    <2>4. CASE Conflict(r)
        BY <2>4, AnswerKeeps DEF Conflict
    <2>5. CASE Replay(r)
        BY <2>5, AnswerKeeps DEF Replay
    <2>6. CASE Enter(r)
        BY <2>6, EnterKeeps
    <2>7. CASE Succeed(r)
        BY <2>7, SucceedKeeps
    <2>8. CASE Fail(r)
        BY <2>8, FailKeeps
    <2>9. CASE Expire(r)
        BY <2>9, ExpireKeeps
    <2> QED
        BY <1>1, <2>1, <2>2, <2>3, <2>4, <2>5, <2>6, <2>7, <2>8, <2>9 DEF RequestStep
<1>2. CASE UNCHANGED vars
    BY <1>2, StutterKeeps
<1> QED
    BY <1>1, <1>2, ShutdownKeeps DEF Next

LEMMA IInvHolds == Spec => []IInv
    BY Initially, IInvInductive, PTL DEF Spec

--------------------------------------------------------------------------------
(* The counters and collections of the node keep their types: in particular   *)
(* currentRequests stays between zero and MAX_CONCURRENT.                     *)
THEOREM TypeCorrect == Spec => []TypeOK
<1>1. IInv => TypeOK
    BY DEF IInv
<1> QED
    BY <1>1, IInvHolds, PTL

(* However many requests there are and however they end, no slot is lost: the *)
(* node never counts more than it is processing.                              *)
THEOREM NoSlotLost == Spec => []SlotsReturned
<1>1. IInv => SlotsReturned
    BY DEF IInv
<1> QED
    BY <1>1, IInvHolds, PTL

(* A key in flight is always that of a request being processed.               *)
THEOREM NoKeyLost == Spec => []KeysReturned
<1>1. IInv => KeysReturned
    BY DEF IInv
<1> QED
    BY <1>1, IInvHolds, PTL

(* No two requests with one key are processed, nor one while the answer of    *)
(* another is kept, as long as the cache has not been cleared.                *)
THEOREM OneProcessing == Spec => []ProcessedOnce
<1>1. IInv => ProcessedOnce
    BY DEF IInv
<1> QED
    BY <1>1, IInvHolds, PTL

(* The database is disconnected when every request has been answered, or the  *)
(* server could not be closed.                                                *)
THEOREM DatabaseLast == Spec => []DatabaseOutlivesRequests
<1>1. IInv => DatabaseOutlivesRequests
    BY DEF IInv
<1> QED
    BY <1>1, IInvHolds, PTL
================================================================================
