---------------------------------- MODULE HttpEdge ----------------------------------
(***************************************************************************)
(* One node between its load balancer and its handlers: the two interceptors *)
(* that keep state in its memory, RequestSemaphoreInterceptor and inside it  *)
(* IdempotencyInterceptor (src/src/common/interceptors), and its shutdown:   *)
(* ShutdownService (src/src/lifecycle/shutdown.service.ts) with the hook and *)
(* the ShutdownDrainMiddleware that refuse requests meanwhile.               *)
(*                                                                         *)
(* A handler ends by a value followed at once by completion, or by an error. *)
(* The semaphore gives a slot back for each of the three, so that a success  *)
(* gives back two.  No queue and no Redis client is ever registered with     *)
(* ShutdownService: there is nothing it pauses or quits.                     *)
(*                                                                         *)
(* AdmitOneMore, FailKeepingSlot, EnterUnlessCached, FailKeepingKey,         *)
(* StopDrainingAndDisarm and StopDrainingUnclosed are defective variants of  *)
(* the definitions that follow them.                                         *)
(***************************************************************************)
EXTENDS Integers, FiniteSets

CONSTANTS
    Requests,       \* requests the node may receive
    RfRequests,     \* those to /rf/ or /scanner/
    Keys, NoKey,
    KeyOf,          \* computeIdempotencyKey of each; NoKey for a GET, or no body
    MaxConcurrent,  \* MAX_CONCURRENT
    CacheOverflows  \* may the cache exceed 10000 entries?

ASSUME RequestAssumption ==
    /\ IsFiniteSet(Requests) /\ RfRequests \subseteq Requests
    /\ NoKey \notin Keys /\ KeyOf \in [Requests -> Keys \cup {NoKey}]
ASSUME LimitAssumption == MaxConcurrent \in Nat /\ CacheOverflows \in BOOLEAN

VARIABLES
    request,  \* how far every request is, or how it was answered
    slots,    \* currentRequests
    inFlight, \* keys being processed
    cache,    \* keys with a cached answer
    timers,   \* requests whose answer has a timer that will remove it
    phase,    \* how far the shutdown is
    armed,    \* is the timer set that forces the exit?
    history   \* see NoHistory

vars == <<request, slots, inFlight, cache, timers, phase, armed, history>>

edge == <<request, slots, inFlight, cache, timers>>
shutdown == <<phase, armed>>

--------------------------------------------------------------------------------
Underway == {"received", "admitted", "running"}
Answers == {"done", "failed", "replayed", "conflict", "busy", "saturated", "draining", "refused"}
In(stages) == {r \in Requests : request[r] \in stages}

NoHistory == [overflowed |-> FALSE,   \* the cache was cleared
              unclosed |-> FALSE]     \* the server could not be closed

Init ==
    /\ request = [r \in Requests |-> "new"]
    /\ slots = 0
    /\ inFlight = {}
    /\ cache = {}
    /\ timers = {}
    /\ phase = "up"
    /\ armed = FALSE
    /\ history = NoHistory

Becomes(r, stage) == request' = [request EXCEPT ![r] = stage]
GiveBack(n) == slots' = IF slots > n THEN slots - n ELSE 0

--------------------------------------------------------------------------------
(* A request reaches the guards of its route, unless the node is draining      *)
(* (RF requests are told to retry, others that it is unavailable) or closed.   *)
Receive(r) ==
    /\ request[r] = "new" /\ phase # "exited"
    /\ Becomes(r, IF phase = "up" THEN "received"
                  ELSE IF phase = "draining" /\ r \in RfRequests THEN "draining"
                  ELSE "refused")
    /\ UNCHANGED <<slots, inFlight, cache, timers, shutdown, history>>

AdmitOneMore(r) ==
    /\ request[r] = "received" /\ phase # "exited"
    /\ slots <= MaxConcurrent
    /\ slots' = slots + 1
    /\ Becomes(r, "admitted")
    /\ UNCHANGED <<inFlight, cache, timers, shutdown, history>>

(* RequestSemaphoreInterceptor *)
Admit(r) ==
    /\ request[r] = "received" /\ phase # "exited"
    /\ slots < MaxConcurrent
    /\ slots' = slots + 1
    /\ Becomes(r, "admitted")
    /\ UNCHANGED <<inFlight, cache, timers, shutdown, history>>

(* All slots are taken, or the monitor of the pool says it is saturated. *)
TurnAway(r) ==
    /\ request[r] = "received" /\ phase # "exited"
    /\ \/ slots >= MaxConcurrent /\ Becomes(r, "busy")
       \/ Becomes(r, "saturated")
    /\ UNCHANGED <<slots, inFlight, cache, timers, shutdown, history>>

--------------------------------------------------------------------------------
(* IdempotencyInterceptor *)

Conflict(r) ==
    /\ request[r] = "admitted" /\ phase # "exited"
    /\ KeyOf[r] \in inFlight
    /\ GiveBack(1)
    /\ Becomes(r, "conflict")
    /\ UNCHANGED <<inFlight, cache, timers, shutdown, history>>

(* The cached answer, as a value and completion. *)
Replay(r) ==
    /\ request[r] = "admitted" /\ phase # "exited"
    /\ KeyOf[r] \in cache \ inFlight
    /\ GiveBack(2)
    /\ Becomes(r, "replayed")
    /\ UNCHANGED <<inFlight, cache, timers, shutdown, history>>

EnterUnlessCached(r) ==
    /\ request[r] = "admitted" /\ phase # "exited"
    /\ KeyOf[r] \notin cache
    /\ inFlight' = inFlight \cup ({KeyOf[r]} \ {NoKey})
    /\ Becomes(r, "running")
    /\ UNCHANGED <<slots, cache, timers, shutdown, history>>

(* The handler starts.  At most once a minute the cache is cleared if it has *)
(* grown too large.                                                           *)
Enter(r) ==
    /\ request[r] = "admitted" /\ phase # "exited"
    /\ KeyOf[r] \notin inFlight \cup cache
    /\ inFlight' = inFlight \cup ({KeyOf[r]} \ {NoKey})
    /\ \/ UNCHANGED <<cache, history>>
       \/ /\ CacheOverflows /\ cache # {} /\ KeyOf[r] # NoKey
          /\ cache' = {}
          /\ history' = [history EXCEPT !.overflowed = TRUE]
    /\ Becomes(r, "running")
    /\ UNCHANGED <<slots, timers, shutdown>>

Succeed(r) ==
    /\ request[r] = "running" /\ phase # "exited"
    /\ GiveBack(2)
    /\ IF KeyOf[r] = NoKey THEN UNCHANGED <<inFlight, cache, timers>>
       ELSE /\ inFlight' = inFlight \ {KeyOf[r]}
            /\ cache' = cache \cup {KeyOf[r]}
            /\ timers' = timers \cup {r}
    /\ Becomes(r, "done")
    /\ UNCHANGED <<shutdown, history>>

FailKeepingSlot(r) ==
    /\ request[r] = "running" /\ phase # "exited"
    /\ inFlight' = inFlight \ {KeyOf[r]}
    /\ Becomes(r, "failed")
    /\ UNCHANGED <<slots, cache, timers, shutdown, history>>

FailKeepingKey(r) ==
    /\ request[r] = "running" /\ phase # "exited"
    /\ GiveBack(1)
    /\ Becomes(r, "failed")
    /\ UNCHANGED <<inFlight, cache, timers, shutdown, history>>

(* An error is not cached. *)
Fail(r) ==
    /\ request[r] = "running" /\ phase # "exited"
    /\ GiveBack(1)
    /\ inFlight' = inFlight \ {KeyOf[r]}
    /\ Becomes(r, "failed")
    /\ UNCHANGED <<cache, timers, shutdown, history>>

(* The timer of an answer takes its key off both collections, whoever has it *)
(* by then.                                                                   *)
Expire(r) ==
    /\ r \in timers /\ phase # "exited"
    /\ timers' = timers \ {r}
    /\ cache' = cache \ {KeyOf[r]}
    /\ inFlight' = inFlight \ {KeyOf[r]}
    /\ UNCHANGED <<request, slots, shutdown, history>>

--------------------------------------------------------------------------------
(* gracefulShutdown *)

(* A second signal is ignored. *)
Signal ==
    /\ phase = "up"
    /\ phase' = "draining"
    /\ armed' = TRUE
    /\ UNCHANGED <<edge, history>>

StopDrainingAndDisarm ==
    /\ phase = "draining"
    /\ phase' = "closing"
    /\ armed' = FALSE
    /\ UNCHANGED <<edge, history>>

StopDrainingUnclosed ==
    /\ phase = "draining"
    /\ phase' = "disconnecting"
    /\ UNCHANGED <<edge, armed, history>>

(* With no queue to pause, draining ends before the server is closed. *)
StopDraining ==
    /\ phase = "draining"
    /\ phase' = "closing"
    /\ UNCHANGED <<edge, armed, history>>

(* The server has answered what it had received, or cannot be closed; that is *)
(* logged and the shutdown goes on.                                            *)
CloseFastify ==
    /\ phase = "closing"
    /\ \/ In(Underway) = {} /\ UNCHANGED history
       \/ history' = [history EXCEPT !.unclosed = TRUE]
    /\ phase' = "disconnecting"
    /\ UNCHANGED <<edge, armed>>

(* Prisma has disconnected, or thrown; the process exits with 0 or 1. *)
Exit ==
    /\ phase = "disconnecting"
    /\ phase' = "exited"
    /\ armed' = FALSE
    /\ UNCHANGED <<edge, history>>

(* The timer of SHUTDOWN_TIMEOUT_MS: the process exits with 1. *)
ForceExit ==
    /\ armed
    /\ phase' = "exited"
    /\ armed' = FALSE
    /\ UNCHANGED <<edge, history>>

--------------------------------------------------------------------------------
RequestStep(r) ==
    \/ Receive(r) \/ Admit(r) \/ TurnAway(r)
    \/ Conflict(r) \/ Replay(r) \/ Enter(r) \/ Succeed(r) \/ Fail(r) \/ Expire(r)

Next ==
    \/ \E r \in Requests : RequestStep(r)
    \/ Signal \/ StopDraining \/ CloseFastify \/ Exit \/ ForceExit

(* A timer that is set fires; nothing obliges a handler to end, or the      *)
(* database to let go.                                                       *)
Spec == Init /\ [][Next]_vars /\ WF_vars(ForceExit)

--------------------------------------------------------------------------------
TypeOK ==
    /\ request \in [Requests -> {"new"} \cup Underway \cup Answers]
    /\ slots \in 0 .. MaxConcurrent
    /\ inFlight \subseteq Keys /\ cache \subseteq Keys
    /\ timers \subseteq In({"done"})
    /\ phase \in {"up", "draining", "closing", "disconnecting", "exited"}
    /\ armed \in BOOLEAN
    /\ history \in [overflowed: BOOLEAN, unclosed: BOOLEAN]

(* No slot is lost, however requests end: never are more taken than there    *)
(* are requests between the semaphore and their answer, so that requests are *)
(* turned away only while that many are being processed                      *)
(* (request-semaphore.interceptor.ts:52-67).                                  *)
SlotsReturned == slots <= Cardinality(In({"admitted", "running"}))

(* While a request with a key is processed, or its answer is to be kept, no  *)
(* other with that key is processed, unless the cache was cleared meanwhile  *)
(* (idempotency.interceptor.ts:50-71, 80-91): then the timer of a forgotten   *)
(* answer frees the key of a later request.                                  *)
ProcessedOnce ==
    history.overflowed
    \/ \A q, r \in In({"running"}) \cup timers :
          q # r => KeyOf[q] = NoKey \/ KeyOf[q] # KeyOf[r]

(* A key that is in flight belongs to a request being processed: nobody is   *)
(* told to wait for a request that has ended, although nothing ever clears    *)
(* the collection (idempotency.interceptor.ts:71, 91-95, 183-187).            *)
KeysReturned == \A k \in inFlight : \E r \in In({"running"}) : KeyOf[r] = k

(* The database is there until the last request is answered, unless the       *)
(* server could not be closed (shutdown.service.ts:61-72, 85-93).              *)
DatabaseOutlivesRequests ==
    phase = "disconnecting" => In(Underway) = {} \/ history.unclosed

(* Once signalled, the process exits, whatever its handlers and the database *)
(* do (shutdown.service.ts:55-58).                                            *)
Exits == phase = "draining" ~> phase = "exited"
================================================================================
