----------------------------------- MODULE Packing -----------------------------------
(***************************************************************************)
(* Packing at a station: startSession, scanItem, sealContainer and          *)
(* closeSession (src/src/outbound/packing-stations/packing.service.ts), and *)
(* the two RF calls of another service on the same tables, scanIntoContainer *)
(* and sealContainer (src/src/outbound/packing.service.ts).                 *)
(*                                                                         *)
(* None of the station's calls is a transaction: each await is a step, and  *)
(* what was read of the session and its containers may be stale when it is  *)
(* used.  A container keeps its contents in one JSON column, written whole. *)
(* Its code is unique; after the first of a session it is the station and a *)
(* number counted within the session.                                       *)
(*                                                                         *)
(* StartWithoutStation, LookWhateverStatus, LookNumberingShort,             *)
(* WriteItemOnly, and CompleteAdding are defective variants of the          *)
(* definitions that follow them.                                            *)
(***************************************************************************)
EXTENDS Integers, Sequences, FiniteSets, FiniteSetsExt

CONSTANTS
    Sessions,   \* sessions that may be started
    Stations,
    Callers,    \* calls that may be in progress at once
    MaxCalls, MaxContainers,  \* bounds
    NoSession, NoStation

ASSUME BoundAssumption == MaxCalls \in Nat /\ MaxContainers \in Nat
ASSUME NoneAssumption == NoSession \notin Sessions /\ NoStation \notin Stations
ASSUME NamesAssumption == Sessions \cap Stations = {}  \* no session is called like a station

VARIABLES
    session,     \* packing_sessions
    containers,  \* packing_containers, in the order of their creation
    caller,      \* where every call stands
    calls,       \* calls so far; it names the item a call scans
    history      \* see NoHistory

vars == <<session, containers, caller, calls, history>>

--------------------------------------------------------------------------------
NewSession == [status |-> "NONE", station |-> NoStation, cartonsPacked |-> 0, itemsPacked |-> 0]
Idle == [stage |-> "idle", session |-> NoSession, container |-> 0, contents |-> {}, item |-> 0,
         number |-> 0, todo |-> {}]

NoHistory ==
    [raced |-> {},       \* containers two calls had read and not yet written
     overlapped |-> {},  \* sessions two calls were in progress on at once
     cut |-> {}]         \* sessions a call on which ended half way

ContainerIds == 1 .. Len(containers)
Of(s) == {c \in ContainerIds : containers[c].session = s}
With(s, status) == {c \in Of(s) : containers[c].status = status}

Started(s) == session[s].status # "NONE"
Code(s, number) == <<session[s].station, number>>
Free(code) == \A c \in ContainerIds : containers[c].code # code
NewContainer(s, code) == [session |-> s, code |-> code, status |-> "ACTIVE", contents |-> {}]

Init ==
    /\ session = [s \in Sessions |-> NewSession]
    /\ containers = << >>
    /\ caller = [k \in Callers |-> Idle]
    /\ calls = 0
    /\ history = NoHistory

(* Containers a call has read the contents of, and not written them. *)
Held == {caller[k].container : k \in {j \in Callers : caller[j].item # 0}} \ {0}

(* A call on session s begins. *)
Begin(k, s, call) ==
    /\ caller[k] = Idle
    /\ calls < MaxCalls
    /\ calls' = calls + 1
    /\ caller' = [caller EXCEPT ![k] = [call EXCEPT !.session = s]]
    /\ history' = [history EXCEPT
          !.overlapped = @ \cup ({s} \cap {caller[j].session : j \in Callers} \cap Sessions),
          !.raced = IF call.item = 0 THEN @ ELSE @ \cup ({call.container} \cap Held)]
    /\ UNCHANGED <<session, containers>>

Goes(k, stage) == caller' = [caller EXCEPT ![k].stage = stage]
Ends(k) == caller' = [caller EXCEPT ![k] = Idle]

--------------------------------------------------------------------------------
StartWithoutStation(s, station) ==
    /\ ~Started(s)
    /\ station \in Stations /\ Len(containers) < MaxContainers
    /\ session' = [session EXCEPT ![s].status = "STATION_ASSIGNED"]
    /\ containers' = Append(containers, NewContainer(s, <<s, 1>>))
    /\ UNCHANGED <<caller, calls, history>>

(* startSession: the first container is numbered like the session. *)
StartSession(s, station) ==
    /\ ~Started(s)
    /\ Len(containers) < MaxContainers
    /\ session' = [session EXCEPT ![s].status = "STATION_ASSIGNED", ![s].station = station]
    /\ containers' = Append(containers, NewContainer(s, <<s, 1>>))
    /\ UNCHANGED <<caller, calls, history>>

--------------------------------------------------------------------------------
(* scanItem *)

Scan(c) == [Idle EXCEPT !.stage = "hold", !.container = c, !.contents = containers[c].contents,
                        !.item = calls + 1]
Open(number) == [Idle EXCEPT !.stage = "open", !.number = number, !.item = calls + 1]

LookWhateverStatus(k, s) ==
    /\ Started(s)
    /\ \/ \E c \in Of(s) : Begin(k, s, Scan(c))
       \/ With(s, "ACTIVE") = {} /\ Begin(k, s, Open(Cardinality(Of(s)) + 1))

LookNumberingShort(k, s) ==
    /\ Started(s) /\ session[s].status # "COMPLETED"
    /\ \/ \E c \in Of(s) : Begin(k, s, Scan(c))
       \/ With(s, "ACTIVE") = {} /\ Begin(k, s, Open(Cardinality(Of(s))))

(* The container is one the caller names, whatever its status, or an ACTIVE  *)
(* one; if there is none, a new one is numbered.                              *)
LookForScan(k, s) ==
    /\ Started(s) /\ session[s].status # "COMPLETED"
    /\ \/ \E c \in Of(s) : Begin(k, s, Scan(c))
       \/ With(s, "ACTIVE") = {} /\ Begin(k, s, Open(Cardinality(Of(s)) + 1))

OpenForScan(k) ==
    LET s == caller[k].session
        code == Code(s, caller[k].number)
    IN  /\ caller[k].stage = "open"
        /\ Free(code)
        /\ Len(containers) < MaxContainers
        /\ containers' = Append(containers, NewContainer(s, code))
        /\ caller' = [caller EXCEPT ![k].stage = "hold", ![k].container = Len(containers) + 1]
        /\ UNCHANGED <<session, calls, history>>

WriteItemOnly(k) ==
    /\ caller[k].stage = "hold"
    /\ containers' = [containers EXCEPT ![caller[k].container].contents = {caller[k].item}]
    /\ caller' = [caller EXCEPT ![k].stage = "count", ![k].item = 0]
    /\ UNCHANGED <<session, calls, history>>

(* The contents that were read, and the item. *)
WriteContents(k) ==
    /\ caller[k].stage = "hold"
    /\ containers' = [containers EXCEPT ![caller[k].container].contents =
                        caller[k].contents \cup {caller[k].item}]
    /\ caller' = [caller EXCEPT ![k].stage = "count", ![k].item = 0]
    /\ UNCHANGED <<session, calls, history>>

(* The session is PACKING_ACTIVE, whatever became of it in between. *)
CountItem(k) ==
    /\ caller[k].stage = "count"
    /\ session' = [session EXCEPT ![caller[k].session].status = "PACKING_ACTIVE",
                                  ![caller[k].session].itemsPacked = @ + 1]
    /\ Ends(k)
    /\ UNCHANGED <<containers, calls, history>>

--------------------------------------------------------------------------------
(* sealContainer.  The status of the session is not looked at. *)

Sealing(c) == [Idle EXCEPT !.stage = "seal", !.container = c]

LookForSeal(k, c) ==
    /\ containers[c].status # "SEALED"
    /\ Begin(k, containers[c].session, Sealing(c))

Seal(k) ==
    /\ caller[k].stage = "seal"
    /\ containers' = [containers EXCEPT ![caller[k].container].status = "SEALED"]
    /\ Goes(k, "carton")
    /\ UNCHANGED <<session, calls, history>>

CountCarton(k) ==
    /\ caller[k].stage = "carton"
    /\ session' = [session EXCEPT ![caller[k].session].cartonsPacked = @ + 1]
    /\ Goes(k, "number")
    /\ UNCHANGED <<containers, calls, history>>

NumberNext(k) ==
    /\ caller[k].stage = "number"
    /\ caller' = [caller EXCEPT ![k].stage = "next",
                                ![k].number = Cardinality(Of(caller[k].session)) + 1]
    /\ UNCHANGED <<session, containers, calls, history>>

OpenNext(k) ==
    LET s == caller[k].session
        code == Code(s, caller[k].number)
    IN  /\ caller[k].stage = "next"
        /\ Free(code)
        /\ Len(containers) < MaxContainers
        /\ containers' = Append(containers, NewContainer(s, code))
        /\ Ends(k)
        /\ UNCHANGED <<session, calls, history>>

--------------------------------------------------------------------------------
(* closeSession *)

LookForClose(k, s) ==
    /\ Started(s) /\ session[s].status # "COMPLETED"
    /\ Begin(k, s, [Idle EXCEPT !.stage = "close", !.todo = With(s, "ACTIVE")])

SealForClose(k) ==
    /\ caller[k].stage = "close" /\ caller[k].todo # {}
    /\ LET c == Min(caller[k].todo)
       IN  /\ containers' = [containers EXCEPT ![c].status = "SEALED"]
           /\ caller' = [caller EXCEPT ![k].todo = @ \ {c}]
    /\ UNCHANGED <<session, calls, history>>

CountSealed(k) ==
    /\ caller[k].stage = "close" /\ caller[k].todo = {}
    /\ caller' = [caller EXCEPT ![k].stage = "complete",
                    ![k].number = Cardinality(With(caller[k].session, "SEALED"))]
    /\ UNCHANGED <<session, containers, calls, history>>

CompleteAdding(k) ==
    /\ caller[k].stage = "complete"
    /\ session' = [session EXCEPT ![caller[k].session].status = "COMPLETED",
                                  ![caller[k].session].cartonsPacked = @ + caller[k].number]
    /\ Ends(k)
    /\ UNCHANGED <<containers, calls, history>>

(* The number of sealed containers replaces what sealContainer has counted. *)
Complete(k) ==
    /\ caller[k].stage = "complete"
    /\ session' = [session EXCEPT ![caller[k].session].status = "COMPLETED",
                                  ![caller[k].session].cartonsPacked = caller[k].number]
    /\ Ends(k)
    /\ UNCHANGED <<containers, calls, history>>

--------------------------------------------------------------------------------
(* The other service *)

(* scanIntoContainer: the container is found by its code; nothing is counted,  *)
(* and the LPN is left as it is.                                               *)
LookForLpn(k, c) == Begin(k, NoSession, [Scan(c) EXCEPT !.stage = "lpn"])

AttachLpn(k) ==
    /\ caller[k].stage = "lpn"
    /\ containers' = [containers EXCEPT ![caller[k].container].contents =
                        caller[k].contents \cup {-caller[k].item}]
    /\ Ends(k)
    /\ UNCHANGED <<session, calls, history>>

(* sealContainer of the other service asks for nothing and opens no other. *)
SealOnly(c) ==
    /\ containers' = [containers EXCEPT ![c].status = "SEALED"]
    /\ UNCHANGED <<session, caller, calls, history>>

--------------------------------------------------------------------------------
(* The code of the next container is taken, another statement fails, or the *)
(* node stops.                                                               *)
Cut(k) ==
    /\ caller[k] # Idle
    /\ history' = [history EXCEPT !.cut = @ \cup ({caller[k].session} \ {NoSession})]
    /\ Ends(k)
    /\ UNCHANGED <<session, containers, calls>>

CallerStep(k) ==
    \/ \E s \in Sessions : LookForScan(k, s) \/ LookForClose(k, s)
    \/ \E c \in ContainerIds : LookForSeal(k, c) \/ LookForLpn(k, c)
    \/ OpenForScan(k) \/ WriteContents(k) \/ CountItem(k)
    \/ Seal(k) \/ CountCarton(k) \/ NumberNext(k) \/ OpenNext(k)
    \/ SealForClose(k) \/ CountSealed(k) \/ Complete(k)
    \/ AttachLpn(k)
    \/ Cut(k)

Next ==
    \/ \E s \in Sessions, station \in Stations : StartSession(s, station)
    \/ \E k \in Callers : CallerStep(k)
    \/ \E c \in ContainerIds : SealOnly(c)

Spec == Init /\ [][Next]_vars

--------------------------------------------------------------------------------
Statuses == {"NONE", "STATION_ASSIGNED", "PACKING_ACTIVE", "COMPLETED"}

TypeOK ==
    /\ session \in [Sessions -> [status : Statuses, station : Stations \cup {NoStation},
                                 cartonsPacked : Nat, itemsPacked : Nat]]
    /\ \A c \in ContainerIds :
          /\ Started(containers[c].session)
          /\ containers[c].status \in {"ACTIVE", "SEALED"}
          /\ \A i \in containers[c].contents : i \in -calls .. calls
    /\ \A k \in Callers :
          /\ caller[k].container \in {0} \cup ContainerIds
          /\ caller[k].todo \subseteq ContainerIds
    /\ calls \in 0 .. MaxCalls
    /\ \A s \in Sessions : Started(s) <=> session[s].station # NoStation

(* Items a station scanned; those of the other service are not counted. *)
Scanned(s) == UNION {{i \in containers[c].contents : i > 0} : c \in Of(s)}

(* A session has counted the items that are in its containers, those apart   *)
(* whose call is about to count them, unless two calls held the contents of  *)
(* one container at once or a call was cut (packing.service.ts:87-110).      *)
ItemsAddUp ==
    \A s \in Sessions \ history.cut :
        Of(s) \cap history.raced = {} =>
            Cardinality(Scanned(s)) =
                session[s].itemsPacked
                + Cardinality({k \in Callers : caller[k].session = s /\ caller[k].stage = "count"})

(* When a session has been closed, all its containers are sealed and counted, *)
(* unless two of its calls overlapped: a seal opens the next container after   *)
(* the closing call has read them (packing.service.ts:143-153, 159-184).       *)
ClosedIsSealed ==
    \A s \in Sessions \ history.overlapped :
        session[s].status = "COMPLETED" =>
            /\ With(s, "SEALED") = Of(s)
            /\ session[s].cartonsPacked = Cardinality(Of(s))

(* A closed session stays closed, unless a scan that had read it before writes *)
(* its status afterwards (packing.service.ts:56, 103-106).                      *)
StaysClosed ==
    [][\A s \in Sessions \ history.overlapped :
          session[s].status = "COMPLETED" => session'[s].status = "COMPLETED"]_vars

(* The code of a container about to be created is free, unless calls of the    *)
(* session overlapped, or the station has had another session: numbers start   *)
(* anew with each, codes do not (packing.service.ts:72-73, 140-143).            *)
NumbersFree ==
    \A k \in Callers :
        LET s == caller[k].session
        IN  caller[k].stage \in {"open", "next"} =>
                \/ Free(Code(s, caller[k].number))
                \/ s \in history.overlapped
                \/ \E other \in Sessions \ {s} : session[other].station = session[s].station
================================================================================
