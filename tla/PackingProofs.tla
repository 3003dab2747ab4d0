-------------------------------- MODULE PackingProofs --------------------------------
(***************************************************************************)
(* For any number of sessions, stations and calls: a closed session stays    *)
(* closed, all its containers are sealed and counted, and the number of the  *)
(* next container is free, wherever no two calls of the session overlapped;  *)
(* and a session has counted the items that are in its containers, wherever  *)
(* no two calls held the same one.                                          *)
(*                                                                         *)
(* What a call has read of its session is still so when it writes, because   *)
(* it is the only one (Alone): the session is not closed (Unclosed), what    *)
(* closeSession has yet to seal is all that is ACTIVE (ClosingSeals), and    *)
(* the number of the next container is one beyond those there are            *)
(* (NumberFits).  The count of the items rests on what a call has in its     *)
(* hands (Tallied, second part).                                            *)
(***************************************************************************)
EXTENDS Packing, SequenceTheorems, FiniteSetTheorems, TLAPS

Codes == (Sessions \cup Stations) \X Nat
CallStages ==
    {"idle", "hold", "open", "count", "seal", "carton", "number", "next", "close", "complete",
     "lpn"}
Container ==
    [session : Sessions, code : Codes, status : {"ACTIVE", "SEALED"}, contents : SUBSET Int]
Call ==
    [stage : CallStages, session : Sessions \cup {NoSession}, container : Nat,
     contents : SUBSET Int, item : Nat, number : Nat, todo : SUBSET Nat]
SessionRows ==
    [status : Statuses, station : Stations \cup {NoStation}, cartonsPacked : Nat,
     itemsPacked : Nat]
Histories == [raced : SUBSET Nat, overlapped : SUBSET Sessions, cut : SUBSET Sessions]

AtSession(k) == caller[k].stage \notin {"idle", "lpn"}

(* What a call refers to exists. *)
Refers(k) ==
    /\ caller[k].container \in {0} \cup ContainerIds
    /\ caller[k].todo \subseteq ContainerIds
    /\ caller[k].contents \subseteq -calls .. calls
    /\ caller[k].item <= calls
    /\ AtSession(k) => caller[k].session \in Sessions /\ Started(caller[k].session)

Typed ==
    /\ session \in [Sessions -> SessionRows]
    /\ containers \in Seq(Container)
    /\ caller \in [Callers -> Call]
    /\ calls \in 0 .. MaxCalls
    /\ history \in Histories
    /\ \A s \in Sessions : Started(s) <=> session[s].station # NoStation
    /\ \A c \in ContainerIds :
          /\ Started(containers[c].session)
          /\ containers[c].contents \subseteq -calls .. calls
    /\ \A k \in Callers : Refers(k)

(* A session whose calls never overlapped has one at most. *)
Alone ==
    \A s \in Sessions \ history.overlapped :
        \A j, k \in Callers : caller[j].session = s /\ caller[k].session = s => j = k

(* It is not closed while a call on it goes on. *)
Unclosed ==
    \A k \in Callers :
        AtSession(k) =>
            \/ caller[k].session \in history.overlapped
            \/ session[caller[k].session].status # "COMPLETED"

(* What a closing call has yet to seal is all there is to seal. *)
ClosingSeals ==
    \A k \in Callers :
        LET s == caller[k].session
        IN  s \in Sessions \ history.overlapped =>
              /\ caller[k].stage = "close" => With(s, "ACTIVE") \subseteq caller[k].todo
              /\ caller[k].stage = "complete" =>
                    /\ With(s, "SEALED") = Of(s)
                    /\ caller[k].number = Cardinality(Of(s))

(* A number is one beyond the containers there are. *)
NumberFits ==
    \A k \in Callers :
        caller[k].stage \in {"open", "next"} =>
            \/ caller[k].session \in history.overlapped
            \/ caller[k].number = Cardinality(Of(caller[k].session)) + 1

(* A container is called like its session, or like its station with a number *)
(* that is within those there are.                                           *)
CodeFits(s, code) ==
    \/ code = <<s, 1>>
    \/ /\ code[1] = session[s].station
       /\ s \in history.overlapped \/ code[2] <= Cardinality(Of(s))
CodesFit == \A c \in ContainerIds : CodeFits(containers[c].session, containers[c].code)

IInv ==
    /\ Typed
    /\ Alone
    /\ Unclosed
    /\ ClosingSeals
    /\ ClosedIsSealed
    /\ NumberFits
    /\ CodesFit

--------------------------------------------------------------------------------
LEMMA OfIsFinite ==
    ASSUME containers \in Seq(Container), NEW s
    PROVE  IsFiniteSet(Of(s)) /\ Cardinality(Of(s)) \in Nat
<1>1. Len(containers) \in Nat
    BY LenProperties
<1>2. IsFiniteSet(ContainerIds)
    BY <1>1, FS_Interval DEF ContainerIds
<1>3. Of(s) \subseteq ContainerIds
    BY DEF Of
<1> QED
    BY <1>2, <1>3, FS_Subset, FS_CardinalityType

LEMMA Typing ==
    ASSUME Typed, NEW c \in ContainerIds
    PROVE  /\ containers[c] \in Container /\ containers[c].session \in Sessions
           /\ Len(containers) \in Nat
<1>1. Len(containers) \in Nat /\ containers \in [1 .. Len(containers) -> Container]
    BY LenProperties DEF Typed
<1> QED
    BY <1>1 DEF ContainerIds, Container

(* A container more: the others are as they were. *)
LEMMA Appended ==
    ASSUME Typed, NEW s \in Sessions, NEW code \in Codes,
           containers' = Append(containers, NewContainer(s, code))
    PROVE  LET n == Len(containers) + 1
           IN  /\ containers' \in Seq(Container)
               /\ n \notin ContainerIds /\ ContainerIds' = ContainerIds \cup {n}
               /\ \A c \in ContainerIds : containers'[c] = containers[c]
               /\ containers'[n] = NewContainer(s, code)
               /\ Of(s)' = Of(s) \cup {n}
               /\ Cardinality(Of(s)') = Cardinality(Of(s)) + 1
               /\ \A t \in Sessions \ {s} : Of(t)' = Of(t)
<1> DEFINE n == Len(containers) + 1
<1>1. NewContainer(s, code) \in Container /\ containers \in Seq(Container)
    BY DEF NewContainer, Container, Typed
<1>2. /\ containers' \in Seq(Container) /\ Len(containers') = Len(containers) + 1
      /\ \A c \in 1 .. Len(containers) : containers'[c] = containers[c]
      /\ containers'[n] = NewContainer(s, code)
      /\ Len(containers) \in Nat
    BY <1>1, AppendProperties, LenProperties
<1>3. n \notin ContainerIds /\ ContainerIds' = ContainerIds \cup {n}
    BY <1>2 DEF ContainerIds
<1>4. \A c \in ContainerIds : containers'[c] = containers[c]
    BY <1>2 DEF ContainerIds
<1> HIDE DEF n
<1>5. containers'[n].session = s
    <2>1. NewContainer(s, code).session = s
        BY DEF NewContainer
    <2> QED
        BY <1>2, <2>1
<1>6. Of(s)' = Of(s) \cup {n} /\ n \notin Of(s)
    BY <1>3, <1>4, <1>5 DEF Of
<1>7. \A t \in Sessions \ {s} : Of(t)' = Of(t)
    BY <1>3, <1>4, <1>5 DEF Of
<1>8. Cardinality(Of(s) \cup {n}) = Cardinality(Of(s)) + 1
    BY <1>1, <1>6, OfIsFinite, FS_AddElement
<1> QED
    BY <1>2, <1>3, <1>4, <1>6, <1>7, <1>8 DEF n

(* A container sealed: nothing else changes. *)
LEMMA SealedOne ==
    ASSUME Typed, NEW c, containers' = [containers EXCEPT ![c].status = "SEALED"]
    PROVE  /\ containers' \in Seq(Container) /\ ContainerIds' = ContainerIds
           /\ \A d \in ContainerIds :
                 /\ containers'[d].session = containers[d].session
                 /\ containers'[d].code = containers[d].code
                 /\ containers'[d].contents = containers[d].contents
                 /\ containers'[d].status = IF d = c THEN "SEALED" ELSE containers[d].status
           /\ \A t : Of(t)' = Of(t)
<1>1. Len(containers) \in Nat /\ containers \in [1 .. Len(containers) -> Container]
    BY LenProperties DEF Typed
<1>2. containers' \in [1 .. Len(containers) -> Container]
    BY <1>1 DEF Container
<1>3. containers' \in Seq(Container) /\ Len(containers') = Len(containers)
    BY <1>1, <1>2, IsASeq, LenProperties
<1>4. \A d \in ContainerIds :
         /\ containers'[d].session = containers[d].session
         /\ containers'[d].code = containers[d].code
         /\ containers'[d].contents = containers[d].contents
         /\ containers'[d].status = IF d = c THEN "SEALED" ELSE containers[d].status
    BY <1>1 DEF ContainerIds, Container
<1>5. ContainerIds' = ContainerIds
    BY <1>3 DEF ContainerIds
<1> QED
    BY <1>3, <1>4, <1>5 DEF Of

(* The contents of a container replaced. *)
LEMMA FilledOne ==
    ASSUME Typed, NEW c, NEW contents \in SUBSET Int,
           containers' = [containers EXCEPT ![c].contents = contents]
    PROVE  /\ containers' \in Seq(Container) /\ ContainerIds' = ContainerIds
           /\ \A d \in ContainerIds :
                 /\ containers'[d].session = containers[d].session
                 /\ containers'[d].code = containers[d].code
                 /\ containers'[d].status = containers[d].status
                 /\ containers'[d].contents = IF d = c THEN contents ELSE containers[d].contents
           /\ \A t : Of(t)' = Of(t)
<1>1. Len(containers) \in Nat /\ containers \in [1 .. Len(containers) -> Container]
    BY LenProperties DEF Typed
<1>2. containers' \in [1 .. Len(containers) -> Container]
    BY <1>1 DEF Container
<1>3. containers' \in Seq(Container) /\ Len(containers') = Len(containers)
    BY <1>1, <1>2, IsASeq, LenProperties
<1>4. \A d \in ContainerIds :
         /\ containers'[d].session = containers[d].session
         /\ containers'[d].code = containers[d].code
         /\ containers'[d].status = containers[d].status
         /\ containers'[d].contents = IF d = c THEN contents ELSE containers[d].contents
    BY <1>1 DEF ContainerIds, Container
<1>5. ContainerIds' = ContainerIds
    BY <1>3 DEF ContainerIds
<1> QED
    BY <1>3, <1>4, <1>5 DEF Of

--------------------------------------------------------------------------------
LEMMA Initially == Init => IInv
<1> SUFFICES ASSUME Init PROVE IInv
    OBVIOUS
<1>1. ContainerIds = {} /\ containers \in Seq(Container)
    BY EmptySeq, LenProperties DEF Init, ContainerIds
<1>2. Typed
    <2>1. session \in [Sessions -> SessionRows]
        BY DEF Init, NewSession, SessionRows, Statuses
    <2>2. caller \in [Callers -> Call]
        BY DEF Init, Idle, Call, CallStages
    <2>3. history \in Histories /\ calls \in 0 .. MaxCalls /\ calls = 0
        BY BoundAssumption DEF Init, NoHistory, Histories
    <2>4. \A k \in Callers : caller[k] = Idle
        BY DEF Init
    <2>5. \A s \in Sessions : ~ Started(s) /\ session[s].station = NoStation
        BY DEF Init, Started, NewSession
    <2> QED
        BY <1>1, <2>1, <2>2, <2>3, <2>4, <2>5 DEF Typed, Refers, Idle, AtSession
<1>3. \A k \in Callers : caller[k].stage = "idle" /\ caller[k].session = NoSession
    BY DEF Init, Idle
<1>4. ClosedIsSealed
    BY DEF Init, NewSession, ClosedIsSealed
<1> QED
    BY <1>1, <1>2, <1>3, <1>4, NoneAssumption
    DEF IInv, Alone, Unclosed, ClosingSeals, NumberFits, CodesFit, AtSession

--------------------------------------------------------------------------------
(* What is left to show of the types when a step changes one call at most. *)
LEMMA TypedStep ==
    ASSUME Typed,
           session' \in [Sessions -> SessionRows], containers' \in Seq(Container),
           caller' \in [Callers -> Call], calls' \in 0 .. MaxCalls, history' \in Histories,
           ContainerIds \subseteq ContainerIds', calls <= calls',
           \A s \in Sessions : Started(s)' <=> session'[s].station # NoStation,
           \A s \in Sessions : Started(s) => Started(s)',
           \A c \in ContainerIds' :
              /\ Started(containers[c].session)'
              /\ containers'[c].contents \subseteq -calls' .. calls',
           \A k \in Callers : caller'[k] = caller[k] \/ Refers(k)'
    PROVE  Typed'
<1>1. calls \in Int /\ calls' \in Int /\ (-calls .. calls) \subseteq (-calls' .. calls')
    BY DEF Typed
<1>2. ASSUME NEW k \in Callers, caller'[k] = caller[k] PROVE Refers(k)'
    <2>1. Refers(k) /\ caller[k] \in Call
        BY DEF Typed
    <2>2. caller[k].item \in Nat
        BY <2>1 DEF Call
    <2> QED
        BY <1>1, <1>2, <2>1, <2>2 DEF Refers, AtSession
<1> QED
    BY <1>2 DEF Typed

(* The same when session, containers and calls stay. *)
LEMMA TypedCaller ==
    ASSUME Typed, UNCHANGED <<session, containers, calls>>,
           caller' \in [Callers -> Call], history' \in Histories,
           \A k \in Callers : caller'[k] = caller[k] \/ Refers(k)'
    PROVE  Typed'
<1>1. ContainerIds' = ContainerIds /\ \A s \in Sessions : Started(s)' <=> Started(s)
    BY DEF ContainerIds, Started
<1>2. \A c \in ContainerIds' :
         /\ Started(containers[c].session)'
         /\ containers'[c].contents \subseteq -calls' .. calls'
    BY <1>1 DEF Typed, Started
<1>3. calls <= calls'
    BY DEF Typed
<1> QED
    BY <1>1, <1>2, <1>3, TypedStep DEF Typed

LEMMA IdleRefers ==
    /\ Idle \in Call /\ Idle.stage = "idle" /\ Idle.session = NoSession
    /\ \A k \in Callers : Typed /\ calls \in Nat /\ caller[k] = Idle => Refers(k)
    BY DEF Idle, Call, CallStages, Refers, AtSession

--------------------------------------------------------------------------------
(* A call begins: it is alone on its session or marks it as overlapped. *)
LEMMA BeginKeeps ==
    ASSUME IInv, NEW k \in Callers, NEW s \in Sessions \cup {NoSession}, NEW call \in Call,
           Begin(k, s, call),
           call.container \in {0} \cup ContainerIds, call.todo \subseteq ContainerIds,
           call.contents \subseteq -calls .. calls, call.item <= calls + 1,
           call.stage \notin {"idle", "next", "complete"},
           call.stage # "lpn" =>
              /\ s \in Sessions /\ Started(s)
              /\ s \in history.overlapped \/ session[s].status # "COMPLETED",
           call.stage = "close" => With(s, "ACTIVE") \subseteq call.todo,
           call.stage = "open" => call.number = Cardinality(Of(s)) + 1
    PROVE  IInv'
<1> USE DEF IInv
<1> DEFINE mine == [call EXCEPT !.session = s]
<1>1. /\ caller[k] = Idle /\ calls < MaxCalls /\ calls' = calls + 1
      /\ caller' = [caller EXCEPT ![k] = mine]
      /\ UNCHANGED <<session, containers>>
    BY DEF Begin
<1>2. /\ history'.overlapped =
            history.overlapped \cup ({s} \cap {caller[j].session : j \in Callers} \cap Sessions)
      /\ history' \in Histories
    <2>1. history \in Histories /\ call.container \in Nat
        BY DEF Typed, Call
    <2> QED
        BY <2>1 DEF Begin, Histories
<1>3. /\ mine \in Call /\ mine.session = s /\ mine.stage = call.stage
      /\ mine.container = call.container /\ mine.contents = call.contents
      /\ mine.item = call.item /\ mine.number = call.number /\ mine.todo = call.todo
    BY DEF Call
<1> HIDE DEF mine
<1>4. /\ caller' \in [Callers -> Call] /\ caller'[k] = mine
      /\ \A j \in Callers \ {k} : caller'[j] = caller[j]
    BY <1>1, <1>3 DEF Typed
<1>5. ContainerIds' = ContainerIds /\ \A t : Of(t)' = Of(t)
      /\ \A u, status : With(u, status)' = With(u, status)
    BY <1>1 DEF ContainerIds, Of, With
<1>6. \A t \in Sessions : Started(t)' <=> Started(t)
    BY <1>1 DEF Started
<1>7. Typed'
    <2>1. calls \in Nat /\ calls' \in 0 .. MaxCalls
        BY <1>1, BoundAssumption DEF Typed
    <2>2. Refers(k)'
        BY <1>1, <1>3, <1>4, <1>5, <1>6, <2>1 DEF Refers, AtSession, Call
    <2>3. \A c \in ContainerIds' :
             /\ Started(containers[c].session)'
             /\ containers'[c].contents \subseteq -calls' .. calls'
        BY <1>1, <1>5, <2>1 DEF Typed, Started
    <2> QED
        BY <1>1, <1>2, <1>4, <1>5, <1>6, <2>1, <2>2, <2>3, TypedStep DEF Typed
<1>8. Alone'
    <2>1. \A j \in Callers : caller[j].session = s /\ s \in Sessions => s \in history'.overlapped
        BY <1>2
    <2> QED
        BY <1>2, <1>3, <1>4, <2>1 DEF Alone
<1>9. Unclosed'
    BY <1>1, <1>2, <1>3, <1>4 DEF Unclosed, AtSession
<1>10. ClosingSeals'
    BY <1>2, <1>3, <1>4, <1>5 DEF ClosingSeals
<1>11. ClosedIsSealed'
    BY <1>1, <1>2, <1>5 DEF ClosedIsSealed
<1>12. NumberFits'
    BY <1>2, <1>3, <1>4, <1>5 DEF NumberFits
<1>13. CodesFit'
    BY <1>1, <1>2, <1>5 DEF CodesFit, CodeFits
<1> QED
    BY <1>7, <1>8, <1>9, <1>10, <1>11, <1>12, <1>13

--------------------------------------------------------------------------------
(* A call of session s at a stage that refers to it. *)
LEMMA AtStage ==
    ASSUME IInv, NEW k \in Callers, AtSession(k)
    PROVE  /\ caller[k] \in Call /\ caller[k].session \in Sessions
           /\ Started(caller[k].session)
           /\ session[caller[k].session] \in SessionRows
           /\ session[caller[k].session].station \in Stations
           /\ \/ caller[k].session \in history.overlapped
              \/ session[caller[k].session].status # "COMPLETED"
    BY DEF IInv, Typed, Refers, Unclosed, SessionRows

LEMMA WithType ==
    ASSUME Typed, NEW s, NEW status
    PROVE  With(s, status) \subseteq Of(s) /\ Cardinality(With(s, status)) \in Nat
<1>1. IsFiniteSet(Of(s)) /\ With(s, status) \subseteq Of(s)
    BY OfIsFinite DEF Typed, With
<1> QED
    BY <1>1, FS_Subset, FS_CardinalityType

LEMMA StartKeeps ==
    ASSUME IInv, NEW s \in Sessions, NEW station \in Stations, StartSession(s, station)
    PROVE  IInv'
<1> USE DEF IInv
<1> PICK n : n = Len(containers) + 1
    OBVIOUS
<1>1. /\ ~ Started(s) /\ containers' = Append(containers, NewContainer(s, <<s, 1>>))
      /\ session' = [session EXCEPT ![s].status = "STATION_ASSIGNED", ![s].station = station]
      /\ UNCHANGED <<caller, calls, history>>
    BY DEF StartSession
<1>2. /\ containers' \in Seq(Container)
      /\ n \notin ContainerIds /\ ContainerIds' = ContainerIds \cup {n}
      /\ \A c \in ContainerIds : containers'[c] = containers[c]
      /\ containers'[n] = NewContainer(s, <<s, 1>>)
      /\ \A t \in Sessions \ {s} : Of(t)' = Of(t)
    <2>1. <<s, 1>> \in Codes
        BY DEF Codes
    <2> QED
        BY <1>1, <2>1, Appended
<1>3. /\ session' \in [Sessions -> SessionRows]
      /\ session'[s].status = "STATION_ASSIGNED" /\ session'[s].station = station
      /\ \A t \in Sessions \ {s} : session'[t] = session[t]
    BY <1>1 DEF Typed, SessionRows, Statuses
<1>4. /\ \A c \in ContainerIds : containers[c].session \in Sessions \ {s}
      /\ \A j \in Callers : AtSession(j) => caller[j].session \in Sessions \ {s}
    BY <1>1, Typing DEF Typed, Refers
<1>5. containers'[n].session = s /\ containers'[n].code = <<s, 1>> /\ containers'[n].contents = {}
    <2>1. /\ NewContainer(s, <<s, 1>>).session = s /\ NewContainer(s, <<s, 1>>).code = <<s, 1>>
          /\ NewContainer(s, <<s, 1>>).contents = {}
        BY DEF NewContainer
    <2> QED
        BY <1>2, <2>1
<1>6. \A t \in Sessions \ {s} : \A status : With(t, status)' = With(t, status)
    BY <1>2 DEF With, Of
<1>7. /\ Started(s)' /\ \A t \in Sessions \ {s} : Started(t)' <=> Started(t)
      /\ \A t \in Sessions : Started(t)' <=> session'[t].station # NoStation
    BY <1>3, NoneAssumption DEF Started, Typed
<1>8. Typed'
    <2>1. \A c \in ContainerIds' :
             /\ Started(containers[c].session)'
             /\ containers'[c].contents \subseteq -calls' .. calls'
        <3>1. \A c \in ContainerIds : Started(containers[c].session)
                 /\ containers[c].contents \subseteq -calls .. calls
            BY DEF Typed
        <3>2. \A c \in ContainerIds : containers'[c].session \in Sessions \ {s}
            BY <1>2, <1>4
        <3>3. Started(containers[n].session)'
            BY <1>5, <1>7 DEF Started
        <3>4. \A c \in ContainerIds : Started(containers[c].session)'
            BY <1>2, <1>3, <3>1, <3>2 DEF Started
        <3> QED
            BY <1>1, <1>2, <1>5, <3>1, <3>3, <3>4
    <2>2. calls <= calls' /\ calls' \in 0 .. MaxCalls
        BY <1>1 DEF Typed
    <2>3. caller' \in [Callers -> Call] /\ history' \in Histories
        BY <1>1 DEF Typed
    <2> QED
        BY <1>1, <1>2, <1>3, <1>7, <2>1, <2>2, <2>3, TypedStep
<1>9. Alone'
    BY <1>1 DEF Alone
<1>10. Unclosed'
    BY <1>1, <1>3, <1>4 DEF Unclosed, AtSession
<1>11. ClosingSeals'
    BY <1>1, <1>2, <1>4, <1>6 DEF ClosingSeals, AtSession
<1>12. ClosedIsSealed'
    BY <1>1, <1>2, <1>3, <1>6 DEF ClosedIsSealed
<1>13. NumberFits'
    BY <1>1, <1>2, <1>4 DEF NumberFits, AtSession
<1>14. CodesFit'
    <2>1. CodeFits(s, <<s, 1>>)'
        BY DEF CodeFits
    <2>2. ASSUME NEW c \in ContainerIds
          PROVE  CodeFits(containers[c].session, containers[c].code)'
        <3>1. PICK t, code : t = containers[c].session /\ code = containers[c].code
            OBVIOUS
        <3>2. CodeFits(t, code) /\ t \in Sessions \ {s}
            BY <1>4, <3>1 DEF CodesFit
        <3>3. CodeFits(t, code)'
            BY <1>1, <1>2, <1>3, <3>2 DEF CodeFits
        <3> QED
            BY <1>2, <3>1, <3>3 
    <2> QED
        BY <1>2, <1>5, <2>1, <2>2 DEF CodesFit
<1> QED
    BY <1>8, <1>9, <1>10, <1>11, <1>12, <1>13, <1>14

(* A numbered container is created by call k, which goes on or ends. *)
LEMMA OpenKeeps ==
    ASSUME IInv, NEW k \in Callers, OpenForScan(k) \/ OpenNext(k)
    PROVE  IInv'
<1> USE DEF IInv
<1>0. PICK n, s, code : n = Len(containers) + 1 /\ s = caller[k].session
                       /\ code = Code(s, caller[k].number)
    OBVIOUS
<1> DEFINE mine == caller'[k]
<1>1. /\ caller[k].stage \in {"open", "next"}
      /\ containers' = Append(containers, NewContainer(s, code))
      /\ \/ caller' = [caller EXCEPT ![k].stage = "hold", ![k].container = n]
         \/ caller' = [caller EXCEPT ![k] = Idle]
      /\ UNCHANGED <<session, calls, history>>
    BY <1>0 DEF OpenForScan, OpenNext, Ends
<1>2. /\ caller[k] \in Call /\ s \in Sessions /\ Started(s) /\ session[s].station \in Stations
      /\ s \in history.overlapped \/ session[s].status # "COMPLETED"
      /\ caller[k].number \in Nat
    BY <1>0, <1>1, AtStage DEF AtSession, Call
<1>3. code \in Codes /\ code[1] = session[s].station /\ code[2] = caller[k].number
    BY <1>0, <1>2 DEF Code, Codes
<1>4. /\ containers' \in Seq(Container)
      /\ n \notin ContainerIds /\ ContainerIds' = ContainerIds \cup {n}
      /\ \A c \in ContainerIds : containers'[c] = containers[c]
      /\ containers'[n] = NewContainer(s, code)
      /\ Of(s)' = Of(s) \cup {n}
      /\ Cardinality(Of(s)') = Cardinality(Of(s)) + 1
      /\ \A t \in Sessions \ {s} : Of(t)' = Of(t)
    BY <1>0, <1>1, <1>2, <1>3, Appended
<1>5. n \in Nat
    BY <1>0, LenProperties DEF Typed
<1>6. containers'[n].session = s /\ containers'[n].code = code /\ containers'[n].contents = {}
    <2>1. /\ NewContainer(s, code).session = s /\ NewContainer(s, code).code = code
          /\ NewContainer(s, code).contents = {}
        BY DEF NewContainer
    <2> QED
        BY <1>4, <2>1
<1>7. /\ caller' \in [Callers -> Call] /\ mine \in Call
      /\ \A j \in Callers \ {k} : caller'[j] = caller[j]
      /\ \/ /\ mine.stage = "hold" /\ mine.container = n
            /\ mine.session = caller[k].session /\ mine.todo = caller[k].todo
            /\ mine.contents = caller[k].contents /\ mine.item = caller[k].item
         \/ mine = Idle
    <2>1. caller \in [Callers -> Call]
        BY DEF Typed
    <2>2. CASE caller' = [caller EXCEPT ![k] = Idle]
        BY <2>1, <2>2, IdleRefers
    <2>3. CASE caller' = [caller EXCEPT ![k].stage = "hold", ![k].container = n]
        BY <1>2, <1>5, <2>1, <2>3 DEF Call, CallStages
    <2> QED
        BY <1>1, <2>2, <2>3
<1> HIDE DEF mine
<1>8. \A t \in Sessions : Started(t)' <=> Started(t)
    BY <1>1 DEF Started
<1>9. \A t \in Sessions \ {s} : \A status : With(t, status)' = With(t, status)
    BY <1>4 DEF With, Of
<1>10. Cardinality(Of(s)) \in Nat
    BY OfIsFinite DEF Typed
<1>11. Typed'
    <2>1. \A c \in ContainerIds' :
             /\ Started(containers[c].session)'
             /\ containers'[c].contents \subseteq -calls' .. calls'
        <3>1. Started(containers[n].session)'
            BY <1>1, <1>2, <1>6 DEF Started
        <3>2. \A c \in ContainerIds : Started(containers[c].session)'
            BY <1>1, <1>4 DEF Typed, Started
        <3> QED
            BY <1>1, <1>4, <1>6, <3>1, <3>2 DEF Typed
    <2>2. calls <= calls' /\ calls' \in 0 .. MaxCalls /\ calls \in Nat
        BY <1>1, BoundAssumption DEF Typed
    <2>3. Refers(k)'
        <3>1. Refers(k)
            BY DEF Typed
        <3>2. CASE mine = Idle
            BY <1>4, <2>2, <3>2 DEF Refers, AtSession, Idle, mine
        <3>3. CASE mine # Idle
            BY <1>0, <1>1, <1>2, <1>4, <1>7, <1>8, <3>1, <3>3 DEF Refers, AtSession, mine
        <3> QED
            BY <3>2, <3>3
    <2>4. session' \in [Sessions -> SessionRows] /\ history' \in Histories
        BY <1>1 DEF Typed
    <2>5. \A t \in Sessions : Started(t)' <=> session'[t].station # NoStation
        BY <1>1, <1>8 DEF Typed
    <2> QED
        BY <1>4, <1>7, <1>8, <2>1, <2>2, <2>3, <2>4, <2>5, TypedStep
<1>12. mine = Idle => mine.session = NoSession /\ mine.stage = "idle"
    BY IdleRefers
<1>13. Alone'
    BY <1>0, <1>1, <1>7, <1>12, NoneAssumption DEF Alone, mine
<1>14. Unclosed'
    BY <1>0, <1>1, <1>2, <1>7, <1>12 DEF Unclosed, AtSession, mine
<1>15. \A j \in Callers \ {k} : s \in history.overlapped \/ caller[j].session # s
    BY <1>0, <1>2 DEF Alone
<1>16. ClosingSeals'
    BY <1>0, <1>1, <1>4, <1>7, <1>9, <1>12, <1>15 DEF ClosingSeals, mine
<1>17. ClosedIsSealed'
    BY <1>0, <1>1, <1>2, <1>4, <1>9 DEF ClosedIsSealed
<1>18. NumberFits'
    <2>1. \A j \in Callers \ {k} : AtSession(j) => caller[j].session \in Sessions
        BY DEF Typed, Refers
    <2> QED
        BY <1>0, <1>1, <1>4, <1>7, <1>12, <1>15, <2>1 DEF NumberFits, mine, AtSession
<1>19. CodesFit'
    <2>1. CodeFits(s, code)'
        BY <1>0, <1>1, <1>3, <1>4, <1>10 DEF CodeFits, NumberFits
    <2>2. ASSUME NEW c \in ContainerIds
          PROVE  CodeFits(containers[c].session, containers[c].code)'
        <3>1. PICK t, old : t = containers[c].session /\ old = containers[c].code
            OBVIOUS
        <3>2. CodeFits(t, old) /\ t \in Sessions /\ old \in Codes
            BY <3>1, Typing DEF CodesFit, Container
        <3>3. old[2] \in Nat
            BY <3>2 DEF Codes
        <3>4. CodeFits(s, old) => CodeFits(s, old)'
            BY <1>1, <1>4, <1>10, <3>3 DEF CodeFits
        <3>5. t # s => CodeFits(t, old)'
            BY <1>1, <1>4, <3>2 DEF CodeFits
        <3> QED
            BY <1>4, <3>1, <3>2, <3>4, <3>5
    <2> QED
        BY <1>4, <1>6, <2>1, <2>2 DEF CodesFit
<1> QED
    BY <1>11, <1>13, <1>14, <1>16, <1>17, <1>18, <1>19

(* The contents of one container replaced; the call k that does so goes on or *)
(* ends.                                                                      *)
LEMMA FillKeeps ==
    ASSUME IInv, NEW k \in Callers, WriteContents(k) \/ AttachLpn(k)
    PROVE  IInv'
<1> USE DEF IInv
<1> DEFINE mine == caller'[k]
<1>1. PICK c, contents :
         /\ containers' = [containers EXCEPT ![c].contents = contents]
         /\ contents = caller[k].contents \cup {caller[k].item}
            \/ contents = caller[k].contents \cup {-caller[k].item}
    BY DEF WriteContents, AttachLpn
<1>2. /\ UNCHANGED <<session, calls, history>>
      /\ \/ /\ caller[k].stage = "hold"
            /\ caller' = [caller EXCEPT ![k].stage = "count", ![k].item = 0]
         \/ caller' = [caller EXCEPT ![k] = Idle]
    BY DEF WriteContents, AttachLpn, Ends
<1>3. calls \in Nat /\ calls \in 0 .. MaxCalls
    BY BoundAssumption DEF Typed
<1>4. caller[k] \in Call /\ Refers(k)
    BY DEF Typed
<1>5. caller[k].item \in 0 .. calls /\ caller[k].contents \subseteq -calls .. calls
    BY <1>3, <1>4 DEF Call, Refers
<1>6. contents \subseteq -calls .. calls /\ contents \in SUBSET Int
    BY <1>1, <1>3, <1>5
<1>7. /\ containers' \in Seq(Container) /\ ContainerIds' = ContainerIds
      /\ \A d \in ContainerIds :
            /\ containers'[d].session = containers[d].session
            /\ containers'[d].code = containers[d].code
            /\ containers'[d].status = containers[d].status
            /\ containers'[d].contents = IF d = c THEN contents ELSE containers[d].contents
      /\ \A t : Of(t)' = Of(t)
    BY <1>1, <1>6, FilledOne
<1>8. \A t, status : With(t, status)' = With(t, status)
    BY <1>7 DEF With, Of
<1>9. \A t \in Sessions : Started(t)' <=> Started(t)
    BY <1>2 DEF Started
<1>10. /\ caller' \in [Callers -> Call]
       /\ \A j \in Callers \ {k} : caller'[j] = caller[j]
       /\ \/ /\ caller[k].stage = "hold" /\ mine.stage = "count" /\ mine.item = 0
             /\ mine.session = caller[k].session /\ mine.todo = caller[k].todo
             /\ mine.contents = caller[k].contents /\ mine.container = caller[k].container
          \/ mine = Idle
    <2>1. caller \in [Callers -> Call]
        BY DEF Typed
    <2>2. CASE caller' = [caller EXCEPT ![k] = Idle]
        BY <2>1, <2>2, IdleRefers
    <2>3. CASE /\ caller[k].stage = "hold"
               /\ caller' = [caller EXCEPT ![k].stage = "count", ![k].item = 0]
        BY <1>4, <2>1, <2>3 DEF Call, CallStages
    <2> QED
        BY <1>2, <2>2, <2>3
<1> HIDE DEF mine
<1>11. mine = Idle => mine.session = NoSession /\ mine.stage = "idle"
    BY IdleRefers
<1>12. Typed'
    <2>1. \A d \in ContainerIds' :
             /\ Started(containers[d].session)'
             /\ containers'[d].contents \subseteq -calls' .. calls'
        BY <1>2, <1>6, <1>7 DEF Typed, Started
    <2>2. Refers(k)'
        <3>1. CASE mine = Idle
            BY <1>2, <1>3, <1>7, <3>1 DEF Refers, AtSession, Idle, mine
        <3>2. CASE mine # Idle
            BY <1>2, <1>3, <1>4, <1>7, <1>9, <1>10, <3>2 DEF Refers, AtSession, mine
        <3> QED
            BY <3>1, <3>2
    <2>3. session' \in [Sessions -> SessionRows] /\ history' \in Histories
          /\ calls <= calls' /\ calls' \in 0 .. MaxCalls
        BY <1>2, <1>3 DEF Typed
    <2>4. \A t \in Sessions : Started(t)' <=> session'[t].station # NoStation
        BY <1>2, <1>9 DEF Typed
    <2> QED
        BY <1>7, <1>9, <1>10, <2>1, <2>2, <2>3, <2>4, TypedStep
<1>13. Alone'
    BY <1>2, <1>10, <1>11, NoneAssumption DEF Alone, mine
<1>14. Unclosed'
    BY <1>2, <1>10, <1>11 DEF Unclosed, AtSession, mine
<1>15. ClosingSeals'
    BY <1>2, <1>7, <1>8, <1>10, <1>11 DEF ClosingSeals, mine
<1>16. ClosedIsSealed'
    BY <1>2, <1>7, <1>8 DEF ClosedIsSealed
<1>17. NumberFits'
    BY <1>2, <1>7, <1>10, <1>11 DEF NumberFits, mine
<1>18. CodesFit'
    <2>1. \A t, code : CodeFits(t, code) => CodeFits(t, code)'
        BY <1>2, <1>7 DEF CodeFits
    <2> QED
        BY <1>7, <2>1 DEF CodesFit
<1> QED
    BY <1>12, <1>13, <1>14, <1>15, <1>16, <1>17, <1>18

(* The row of the session is written: items or cartons counted.  It is not     *)
(* closed by it.                                                               *)
LEMMA CountKeeps ==
    ASSUME IInv, NEW k \in Callers, CountItem(k) \/ CountCarton(k)
    PROVE  IInv'
<1> USE DEF IInv
<1> DEFINE mine == caller'[k]
<1>1. PICK s : s = caller[k].session
    OBVIOUS
<1>2. /\ AtSession(k)
      /\ \/ /\ session' = [session EXCEPT ![s].status = "PACKING_ACTIVE", ![s].itemsPacked = @ + 1]
            /\ caller' = [caller EXCEPT ![k] = Idle]
         \/ /\ session' = [session EXCEPT ![s].cartonsPacked = @ + 1]
            /\ caller' = [caller EXCEPT ![k].stage = "number"]
      /\ UNCHANGED <<containers, calls, history>>
    BY <1>1 DEF CountItem, CountCarton, AtSession, Ends, Goes
<1>3. /\ caller[k] \in Call /\ s \in Sessions /\ Started(s) /\ session[s] \in SessionRows
      /\ s \in history.overlapped \/ session[s].status # "COMPLETED"
    BY <1>1, <1>2, AtStage
<1>4. /\ session' \in [Sessions -> SessionRows]
      /\ session'[s].status \in {session[s].status, "PACKING_ACTIVE"}
      /\ session'[s].station = session[s].station
      /\ \A t \in Sessions \ {s} : session'[t] = session[t]
    <2>1. session \in [Sessions -> SessionRows]
        BY DEF Typed
    <2> QED
        BY <1>2, <1>3, <2>1 DEF SessionRows, Statuses
<1>5. /\ caller' \in [Callers -> Call]
      /\ \A j \in Callers \ {k} : caller'[j] = caller[j]
      /\ \/ /\ mine.stage = "number" /\ mine.item = caller[k].item
            /\ mine.session = s /\ mine.todo = caller[k].todo
            /\ mine.contents = caller[k].contents /\ mine.container = caller[k].container
         \/ mine = Idle
    <2>1. caller \in [Callers -> Call]
        BY DEF Typed
    <2> QED
        BY <1>1, <1>2, <1>3, <2>1, IdleRefers DEF Call, CallStages
<1> HIDE DEF mine
<1>6. mine = Idle => mine.session = NoSession /\ mine.stage = "idle"
    BY IdleRefers
<1>7. ContainerIds' = ContainerIds /\ (\A t : Of(t)' = Of(t))
      /\ \A t, status : With(t, status)' = With(t, status)
    BY <1>2 DEF ContainerIds, Of, With
<1>8. \A t \in Sessions : Started(t)' <=> Started(t)
    BY <1>3, <1>4 DEF Started
<1>9. Typed'
    <2>1. calls \in Nat /\ calls' = calls /\ calls \in 0 .. MaxCalls
        BY <1>2, BoundAssumption DEF Typed
    <2>2. Refers(k)'
        <3>1. CASE mine = Idle
            BY <1>7, <2>1, <3>1 DEF Refers, AtSession, Idle, mine
        <3>2. CASE mine # Idle
            <4>1. Refers(k)
                BY DEF Typed
            <4> QED
                BY <1>1, <1>2, <1>3, <1>5, <1>7, <1>8, <2>1, <3>2, <4>1
                DEF Refers, AtSession, mine
        <3> QED
            BY <3>1, <3>2
    <2>3. \A c \in ContainerIds' :
             /\ Started(containers[c].session)'
             /\ containers'[c].contents \subseteq -calls' .. calls'
        <3>1. \A c \in ContainerIds : containers'[c].session \in Sessions
            BY <1>2, Typing
        <3> QED
            BY <1>2, <1>7, <1>8, <3>1 DEF Typed, Started
    <2>4. \A t \in Sessions : Started(t)' <=> session'[t].station # NoStation
        BY <1>4, <1>8 DEF Typed
    <2>5. containers' \in Seq(Container) /\ history' \in Histories
        BY <1>2 DEF Typed
    <2> QED
        BY <1>4, <1>5, <1>7, <1>8, <2>1, <2>2, <2>3, <2>4, <2>5, TypedStep
<1>10. Alone'
    BY <1>1, <1>2, <1>5, <1>6, NoneAssumption DEF Alone, mine
<1>11. Unclosed'
    <2>1. ASSUME NEW t \in Sessions, t \in history.overlapped \/ session[t].status # "COMPLETED"
          PROVE  t \in history.overlapped \/ session'[t].status # "COMPLETED"
        BY <1>3, <1>4, <2>1
    <2>2. ASSUME NEW j \in Callers \ {k}, AtSession(j)'
          PROVE  /\ caller'[j].session \in Sessions
                 /\ \/ caller'[j].session \in history.overlapped
                    \/ session[caller'[j].session].status # "COMPLETED"
        <3>1. AtSession(j) /\ caller'[j] = caller[j]
            BY <1>5, <2>2 DEF AtSession
        <3> QED
            BY <3>1, AtStage
    <2>3. AtSession(k)' => caller'[k].session = s
        BY <1>5, <1>6 DEF AtSession, mine
    <2> QED
        BY <1>2, <1>3, <2>1, <2>2, <2>3 DEF Unclosed
<1>12. ClosingSeals'
    BY <1>2, <1>5, <1>6, <1>7 DEF ClosingSeals, mine
<1>13. ClosedIsSealed'
    BY <1>2, <1>3, <1>4, <1>7 DEF ClosedIsSealed
<1>14. NumberFits'
    BY <1>2, <1>5, <1>6, <1>7 DEF NumberFits, mine
<1>15. CodesFit'
    <2>1. ASSUME NEW t \in Sessions, NEW code, CodeFits(t, code) PROVE CodeFits(t, code)'
        BY <1>2, <1>3, <1>4, <1>7, <2>1 DEF CodeFits
    <2> QED
        BY <1>2, <1>7, <2>1, Typing DEF CodesFit
<1> QED
    BY <1>9, <1>10, <1>11, <1>12, <1>13, <1>14, <1>15

(* A container is sealed by call k, or by the other service (SealOnly). *)
LEMMA SealKeeps ==
    ASSUME IInv, NEW c,
           containers' = [containers EXCEPT ![c].status = "SEALED"],
           UNCHANGED <<session, calls, history>>,
           \/ UNCHANGED caller
           \/ \E k \in Callers :
                 \/ caller[k].stage = "seal" /\ caller' = [caller EXCEPT ![k].stage = "carton"]
                 \/ /\ caller[k].stage = "close"
                    /\ caller' = [caller EXCEPT ![k].todo = @ \ {c}]
    PROVE  IInv'
<1> USE DEF IInv
<1>1. /\ containers' \in Seq(Container) /\ ContainerIds' = ContainerIds
      /\ \A d \in ContainerIds :
            /\ containers'[d].session = containers[d].session
            /\ containers'[d].code = containers[d].code
            /\ containers'[d].contents = containers[d].contents
            /\ containers'[d].status = IF d = c THEN "SEALED" ELSE containers[d].status
      /\ \A t : Of(t)' = Of(t)
    BY SealedOne
<1>2. /\ caller' \in [Callers -> Call]
      /\ \A j \in Callers :
            /\ caller'[j].session = caller[j].session /\ caller'[j].number = caller[j].number
            /\ caller'[j].container = caller[j].container /\ caller'[j].item = caller[j].item
            /\ caller'[j].contents = caller[j].contents
            /\ \/ caller'[j].stage = caller[j].stage /\ caller'[j].todo = caller[j].todo
               \/ caller[j].stage = "seal" /\ caller'[j].stage = "carton"
                  /\ caller'[j].todo = caller[j].todo
               \/ caller[j].stage = "close" /\ caller'[j].stage = "close"
                  /\ caller'[j].todo = caller[j].todo \ {c}
    <2>1. caller \in [Callers -> Call]
        BY DEF Typed
    <2>2. CASE UNCHANGED caller
        BY <2>1, <2>2
    <2>3. ASSUME NEW k \in Callers, caller[k].stage = "seal",
                 caller' = [caller EXCEPT ![k].stage = "carton"]
          PROVE  <1>2
        BY <2>1, <2>3 DEF Call, CallStages
    <2>4. ASSUME NEW k \in Callers, caller[k].stage = "close",
                 caller' = [caller EXCEPT ![k].todo = @ \ {c}]
          PROVE  <1>2
        BY <2>1, <2>4 DEF Call, CallStages
    <2> QED
        BY <2>2, <2>3, <2>4
<1>3. \A t : /\ With(t, "ACTIVE")' = With(t, "ACTIVE") \ {c}
             /\ With(t, "SEALED") = Of(t) => With(t, "SEALED")' = Of(t)
    <2>1. \A t : Of(t) \subseteq ContainerIds
        BY DEF Of
    <2> QED
        BY <1>1, <2>1 DEF With
<1>4. \A t \in Sessions : Started(t)' <=> Started(t)
    BY DEF Started
<1>5. Typed'
    <2>1. \A d \in ContainerIds' :
             /\ Started(containers[d].session)'
             /\ containers'[d].contents \subseteq -calls' .. calls'
        BY <1>1 DEF Typed, Started
    <2>2. \A j \in Callers : Refers(j)'
        BY <1>1, <1>2, <1>4 DEF Typed, Refers, AtSession
    <2>3. session' \in [Sessions -> SessionRows] /\ history' \in Histories
          /\ calls <= calls' /\ calls' \in 0 .. MaxCalls
        BY DEF Typed
    <2>4. \A t \in Sessions : Started(t)' <=> session'[t].station # NoStation
        BY <1>4 DEF Typed
    <2> QED
        BY <1>1, <1>2, <1>4, <2>1, <2>2, <2>3, <2>4, TypedStep
<1>6. Alone'
    BY <1>2 DEF Alone
<1>7. Unclosed'
    BY <1>2 DEF Unclosed, AtSession
<1>8. ClosingSeals'
    BY <1>1, <1>2, <1>3 DEF ClosingSeals
<1>9. ClosedIsSealed'
    BY <1>1, <1>3 DEF ClosedIsSealed
<1>10. NumberFits'
    BY <1>1, <1>2 DEF NumberFits
<1>11. CodesFit'
    <2>1. \A t, code : CodeFits(t, code) => CodeFits(t, code)'
        BY <1>1 DEF CodeFits
    <2> QED
        BY <1>1, <2>1 DEF CodesFit
<1> QED
    BY <1>5, <1>6, <1>7, <1>8, <1>9, <1>10, <1>11

(* Only the call changes: it counts what there is, or ends. *)
LEMMA CallerKeeps ==
    ASSUME IInv, NEW k \in Callers, NumberNext(k) \/ CountSealed(k) \/ Cut(k)
    PROVE  IInv'
<1> USE DEF IInv
<1>1. PICK s, mine : s = caller[k].session /\ mine = caller'[k]
    OBVIOUS
<1>2. /\ UNCHANGED <<session, containers, calls>>
      /\ history'.overlapped = history.overlapped /\ history' \in Histories
    <2>1. /\ history \in Histories
          /\ caller[k].session \in Sessions \cup {NoSession}
        BY DEF Typed, Call
    <2> QED
        BY <2>1 DEF NumberNext, CountSealed, Cut, Histories
<1>3. ContainerIds' = ContainerIds /\ (\A t : Of(t)' = Of(t))
      /\ \A t, status : With(t, status)' = With(t, status)
    BY <1>2 DEF ContainerIds, Of, With
<1>4. caller[k] \in Call /\ Refers(k) /\ caller \in [Callers -> Call]
    BY DEF Typed
<1>5. Cardinality(Of(s)) \in Nat /\ Cardinality(With(s, "SEALED")) \in Nat
    BY OfIsFinite, WithType DEF Typed
<1>6. /\ caller' \in [Callers -> Call]
      /\ \A j \in Callers \ {k} : caller'[j] = caller[j]
      /\ mine = Idle
         \/ /\ mine.item = caller[k].item
            /\ mine.session = s /\ mine.todo = caller[k].todo
            /\ mine.contents = caller[k].contents /\ mine.container = caller[k].container
            /\ \/ /\ caller[k].stage = "number" /\ mine.stage = "next"
                  /\ mine.number = Cardinality(Of(s)) + 1
               \/ /\ caller[k].stage = "close" /\ caller[k].todo = {}
                  /\ mine.stage = "complete" /\ mine.number = Cardinality(With(s, "SEALED"))
    <2>1. CASE Cut(k)
        BY <1>1, <1>4, <2>1, IdleRefers DEF Cut, Ends
    <2>2. CASE NumberNext(k)
        <3>1. PICK m : m = Cardinality(Of(s)) + 1
            OBVIOUS
        <3>2. /\ caller[k].stage = "number"
              /\ caller' = [caller EXCEPT ![k].stage = "next", ![k].number = m]
            BY <1>1, <2>2, <3>1 DEF NumberNext
        <3>3. m \in Nat
            BY <1>5, <3>1
        <3> QED
            BY <1>1, <1>4, <3>1, <3>2, <3>3 DEF Call, CallStages
    <2>3. CASE CountSealed(k)
        BY <1>1, <1>4, <1>5, <2>3 DEF CountSealed, Call, CallStages
    <2> QED
        BY <2>1, <2>2, <2>3
<1>7. mine = Idle => mine.session = NoSession /\ mine.stage = "idle"
    BY IdleRefers
<1>8. Typed'
    <2>1. Refers(k)'
        <3>1. CASE mine = Idle
            <4>1. calls \in Nat
                BY BoundAssumption DEF Typed
            <4> QED
                BY <1>1, <1>2, <1>3, <3>1, <4>1 DEF Refers, AtSession, Idle
        <3>2. CASE mine # Idle
            BY <1>1, <1>2, <1>3, <1>4, <1>6, <3>2 DEF Refers, AtSession, Started
        <3> QED
            BY <3>1, <3>2
    <2> QED
        BY <1>2, <1>6, <2>1, TypedCaller
<1>9. Alone'
    BY <1>1, <1>2, <1>6, <1>7, NoneAssumption DEF Alone
<1>10. Unclosed'
    BY <1>1, <1>2, <1>6, <1>7 DEF Unclosed, AtSession
<1>11. ClosingSeals'
    <2>1. ASSUME s \in Sessions, With(s, "ACTIVE") = {} PROVE With(s, "SEALED") = Of(s)
        <3>1. \A d \in ContainerIds : containers[d].status \in {"ACTIVE", "SEALED"}
            BY Typing DEF Container
        <3> QED
            BY <2>1, <3>1 DEF With, Of
    <2>2. ASSUME NEW j \in Callers \ {k}
          PROVE  LET t == caller'[j].session
                 IN  t \in Sessions \ history'.overlapped =>
                       /\ caller'[j].stage = "close" => With(t, "ACTIVE") \subseteq caller'[j].todo
                       /\ caller'[j].stage = "complete" =>
                             /\ With(t, "SEALED") = Of(t)
                             /\ caller'[j].number = Cardinality(Of(t))
        BY <1>2, <1>6 DEF ClosingSeals
    <2>3. s \in Sessions \ history.overlapped /\ mine # Idle /\ mine.stage = "complete" =>
                /\ With(s, "SEALED") = Of(s) /\ mine.number = Cardinality(Of(s))
        BY <1>1, <1>6, <2>1 DEF ClosingSeals
    <2> QED
        BY <1>1, <1>2, <1>3, <1>6, <1>7, <2>2, <2>3 DEF ClosingSeals
<1>12. ClosedIsSealed'
    BY <1>2, <1>3 DEF ClosedIsSealed
<1>13. NumberFits'
    BY <1>1, <1>2, <1>3, <1>6, <1>7 DEF NumberFits
<1>14. CodesFit'
    <2>1. \A t, code : CodeFits(t, code) => CodeFits(t, code)'
        BY <1>2, <1>3 DEF CodeFits
    <2> QED
        BY <1>2, <1>3, <2>1 DEF CodesFit
<1> QED
    BY <1>8, <1>9, <1>10, <1>11, <1>12, <1>13, <1>14

(* The session is closed: what closeSession counted is all it has. *)
LEMMA CompleteKeeps ==
    ASSUME IInv, NEW k \in Callers, Complete(k)
    PROVE  IInv'
<1> USE DEF IInv
<1>1. PICK s : s = caller[k].session
    OBVIOUS
<1>2. /\ caller[k].stage = "complete" /\ AtSession(k)
      /\ session' = [session EXCEPT ![s].status = "COMPLETED",
                                    ![s].cartonsPacked = caller[k].number]
      /\ caller' = [caller EXCEPT ![k] = Idle]
      /\ UNCHANGED <<containers, calls, history>>
    BY <1>1 DEF Complete, Ends, AtSession
<1>3. /\ caller[k] \in Call /\ s \in Sessions /\ Started(s) /\ session[s] \in SessionRows
    BY <1>1, <1>2, AtStage
<1>4. /\ session' \in [Sessions -> SessionRows]
      /\ session'[s].status = "COMPLETED" /\ session'[s].cartonsPacked = caller[k].number
      /\ session'[s].station = session[s].station
      /\ \A t \in Sessions \ {s} : session'[t] = session[t]
    <2>1. session \in [Sessions -> SessionRows]
        BY DEF Typed
    <2> QED
        BY <1>2, <1>3, <2>1 DEF SessionRows, Statuses, Call
<1>5. /\ caller' \in [Callers -> Call] /\ caller'[k] = Idle
      /\ \A j \in Callers \ {k} : caller'[j] = caller[j]
      /\ caller'[k].stage = "idle" /\ caller'[k].session = NoSession
    BY <1>2, IdleRefers DEF Typed
<1>6. ContainerIds' = ContainerIds /\ (\A t : Of(t)' = Of(t))
      /\ \A t, status : With(t, status)' = With(t, status)
    BY <1>2 DEF ContainerIds, Of, With
<1>7. \A t \in Sessions : Started(t)' <=> Started(t)
    BY <1>3, <1>4 DEF Started
<1>8. Typed'
    <2>1. calls \in Nat /\ calls' = calls /\ calls \in 0 .. MaxCalls
        BY <1>2, BoundAssumption DEF Typed
    <2>2. Refers(k)'
        BY <1>5, <1>6, <2>1 DEF Refers, AtSession, Idle
    <2>3. \A c \in ContainerIds' :
             /\ Started(containers[c].session)'
             /\ containers'[c].contents \subseteq -calls' .. calls'
        <3>1. \A c \in ContainerIds : containers'[c].session \in Sessions
            BY <1>2, Typing
        <3> QED
            BY <1>2, <1>6, <1>7, <3>1 DEF Typed, Started
    <2>4. \A t \in Sessions : Started(t)' <=> session'[t].station # NoStation
        BY <1>4, <1>7 DEF Typed
    <2>5. containers' \in Seq(Container) /\ history' \in Histories
        BY <1>2 DEF Typed
    <2> QED
        BY <1>4, <1>5, <1>6, <1>7, <2>1, <2>2, <2>3, <2>4, <2>5, TypedStep
<1>9. Alone'
    BY <1>2, <1>5, NoneAssumption DEF Alone
<1>10. Unclosed'
    <2>1. ASSUME NEW j \in Callers \ {k}, AtSession(j)'
          PROVE  \/ caller[j].session \in history.overlapped
                 \/ session'[caller[j].session].status # "COMPLETED"
        <3>1. AtSession(j)
            BY <1>5, <2>1 DEF AtSession
        <3>2. CASE caller[j].session = s
            BY <1>1, <1>3, <3>2 DEF Alone
        <3>3. CASE caller[j].session # s
            BY <1>4, <3>1, <3>3, AtStage
        <3> QED
            BY <3>2, <3>3
    <2> QED
        BY <1>2, <1>5, <2>1 DEF Unclosed, AtSession
<1>11. ClosingSeals'
    BY <1>2, <1>5, <1>6 DEF ClosingSeals
<1>12. ClosedIsSealed'
    <2>1. s \in history.overlapped
          \/ /\ With(s, "SEALED") = Of(s) /\ caller[k].number = Cardinality(Of(s))
        BY <1>1, <1>2, <1>3 DEF ClosingSeals
    <2> QED
        BY <1>2, <1>4, <1>6, <2>1 DEF ClosedIsSealed
<1>13. NumberFits'
    BY <1>2, <1>5, <1>6 DEF NumberFits
<1>14. CodesFit'
    <2>1. ASSUME NEW t \in Sessions, NEW code, CodeFits(t, code) PROVE CodeFits(t, code)'
        BY <1>2, <1>3, <1>4, <1>6, <2>1 DEF CodeFits
    <2> QED
        BY <1>2, <1>6, <2>1, Typing DEF CodesFit
<1> QED
    BY <1>8, <1>9, <1>10, <1>11, <1>12, <1>13, <1>14

LEMMA Stuttering == IInv /\ UNCHANGED vars => IInv'
<1> SUFFICES ASSUME IInv, UNCHANGED vars PROVE IInv'
    OBVIOUS
<1>1. UNCHANGED <<session, containers, caller, calls, history>>
    BY DEF vars
<1>2. ContainerIds' = ContainerIds /\ (\A t : Of(t)' = Of(t))
      /\ \A t, status : With(t, status)' = With(t, status)
    BY <1>1 DEF ContainerIds, Of, With
<1>3. Typed'
    BY <1>1, TypedCaller DEF IInv, Typed
<1>4. Alone' /\ Unclosed' /\ NumberFits'
    BY <1>1, <1>2 DEF IInv, Alone, Unclosed, AtSession, NumberFits
<1>5. ClosingSeals' /\ ClosedIsSealed'
    BY <1>1, <1>2 DEF IInv, ClosingSeals, ClosedIsSealed
<1>6. CodesFit'
    BY <1>1, <1>2 DEF IInv, CodesFit, CodeFits
<1> QED
    BY <1>3, <1>4, <1>5, <1>6 DEF IInv

--------------------------------------------------------------------------------
(* A call may begin as the code lets it. *)
LEMMA LookKeeps ==
    ASSUME IInv, NEW k \in Callers,
           \/ \E s \in Sessions : LookForScan(k, s) \/ LookForClose(k, s)
           \/ \E c \in ContainerIds : LookForSeal(k, c) \/ LookForLpn(k, c)
    PROVE  IInv'
<1> USE DEF IInv
<1>1. calls \in Nat /\ {} \subseteq -calls .. calls
    BY BoundAssumption DEF Typed
<1>2. /\ Idle \in Call /\ Idle.container = 0 /\ Idle.todo = {} /\ Idle.contents = {}
      /\ Idle.item = 0
    BY IdleRefers DEF Idle
<1>3. ASSUME NEW c \in ContainerIds, NEW call, call = Scan(c)
      PROVE  /\ call \in Call /\ call.container = c /\ call.todo = {}
             /\ call.contents \subseteq -calls .. calls
             /\ call.item = calls + 1 /\ call.stage = "hold"
    <2>1. PICK contents, item : contents = containers[c].contents /\ item = calls + 1
        OBVIOUS
    <2>2. contents \subseteq -calls .. calls /\ contents \in SUBSET Int /\ c \in Nat /\ item \in Nat
        BY <1>1, <2>1, Typing DEF Typed, Container, ContainerIds
    <2>3. call = [stage |-> "hold", session |-> NoSession, container |-> c, contents |-> contents,
                  item |-> item, number |-> 0, todo |-> {}]
        BY <1>3, <2>1 DEF Scan, Idle
    <2> QED
        BY <2>1, <2>2, <2>3 DEF Call, CallStages
<1>4. ASSUME NEW s \in Sessions, LookForScan(k, s) PROVE IInv'
    <2>1. CASE \E c \in Of(s) : Begin(k, s, Scan(c))
        <3>1. PICK c \in ContainerIds : Begin(k, s, Scan(c))
            BY <2>1 DEF Of
        <3>2. PICK call : call = Scan(c)
            OBVIOUS
        <3>3. /\ call \in Call /\ call.container = c /\ call.todo = {}
              /\ call.contents \subseteq -calls .. calls
              /\ call.item = calls + 1 /\ call.stage = "hold"
            BY <1>3, <3>1, <3>2
        <3> QED
            BY <1>1, <1>4, <3>1, <3>2, <3>3, BeginKeeps DEF LookForScan
    <2>2. CASE Begin(k, s, Open(Cardinality(Of(s)) + 1))
        <3>1. PICK m : m = Cardinality(Of(s)) + 1
            OBVIOUS
        <3>2. m \in Nat
            BY <3>1, OfIsFinite DEF Typed
        <3>3. PICK call : call = Open(m)
            OBVIOUS
        <3>4. /\ call \in Call /\ call.container = 0 /\ call.todo = {}
              /\ call.contents = {} /\ call.item = calls + 1
              /\ call.stage = "open" /\ call.number = m
            <4>1. PICK item : item = calls + 1 /\ item \in Nat
                BY <1>1
            <4>2. call = [stage |-> "open", session |-> NoSession, container |-> 0,
                             contents |-> {}, item |-> item, number |-> m, todo |-> {}]
                BY <3>3, <4>1 DEF Open, Idle
            <4> QED
                BY <3>2, <4>1, <4>2 DEF Call, CallStages
        <3> QED
            BY <1>1, <1>4, <2>2, <3>1, <3>3, <3>4, BeginKeeps DEF LookForScan
    <2> QED
        BY <1>4, <2>1, <2>2 DEF LookForScan
<1>5. ASSUME NEW s \in Sessions, LookForClose(k, s) PROVE IInv'
    <2>1. PICK todo, call : /\ todo = With(s, "ACTIVE")
                            /\ call = [Idle EXCEPT !.stage = "close", !.todo = todo]
        OBVIOUS
    <2>2. todo \subseteq ContainerIds /\ todo \in SUBSET Nat
        BY <2>1 DEF With, Of, ContainerIds
    <2>3. /\ call \in Call /\ call.container = 0 /\ call.todo = todo /\ call.contents = {}
          /\ call.item = 0 /\ call.stage = "close"
        BY <1>2, <2>1, <2>2 DEF Idle, Call, CallStages
    <2> QED
        <3>1. Begin(k, s, call) /\ Started(s) /\ session[s].status # "COMPLETED"
            BY <1>5, <2>1 DEF LookForClose
        <3>2. /\ call.container \in {0} \cup ContainerIds /\ call.todo \subseteq ContainerIds
              /\ call.contents \subseteq -calls .. calls /\ call.item <= calls + 1
              /\ call.stage \notin {"idle", "next", "complete", "lpn", "open"}
              /\ With(s, "ACTIVE") \subseteq call.todo /\ s \in Sessions \cup {NoSession}
            BY <1>1, <1>5, <2>1, <2>2, <2>3
        <3> HIDE DEF IInv
        <3> QED
            BY <1>5, <2>3, <3>1, <3>2, BeginKeeps
<1>6. ASSUME NEW c \in ContainerIds, LookForSeal(k, c) PROVE IInv'
    <2>1. PICK s : s = containers[c].session
        OBVIOUS
    <2>2. s \in Sessions /\ Started(s) /\ c \in Nat
        BY <2>1, Typing DEF Typed, ContainerIds
    <2>3. s \in history.overlapped \/ session[s].status # "COMPLETED"
        <3>1. c \in Of(s) /\ c \notin With(s, "SEALED")
            BY <1>6, <2>1 DEF LookForSeal, With, Of
        <3> QED
            BY <2>2, <3>1 DEF ClosedIsSealed
    <2>4. /\ Sealing(c) \in Call /\ Sealing(c).container = c /\ Sealing(c).todo = {}
          /\ Sealing(c).contents = {} /\ Sealing(c).item = 0 /\ Sealing(c).stage = "seal"
        BY <1>2, <2>2 DEF Sealing, Idle, Call, CallStages
    <2> QED
        BY <1>1, <1>6, <2>1, <2>2, <2>3, <2>4, BeginKeeps DEF LookForSeal
<1>7. ASSUME NEW c \in ContainerIds, LookForLpn(k, c) PROVE IInv'
    <2>1. PICK scan, call : scan = Scan(c) /\ call = [scan EXCEPT !.stage = "lpn"]
        OBVIOUS
    <2>2. /\ call \in Call /\ call.container = c /\ call.todo = {}
          /\ call.contents \subseteq -calls .. calls
          /\ call.item = calls + 1 /\ call.stage = "lpn"
        <3>1. /\ scan \in Call /\ scan.container = c /\ scan.todo = {}
              /\ scan.contents \subseteq -calls .. calls /\ scan.item = calls + 1
            BY <1>3, <2>1
        <3> QED
            BY <2>1, <3>1 DEF Call, CallStages
    <2>3. Begin(k, NoSession, call)
        BY <1>7, <2>1 DEF LookForLpn
    <2> QED
        BY <1>1, <1>7, <2>2, <2>3, BeginKeeps
<1> QED
    BY <1>4, <1>5, <1>6, <1>7

LEMMA IInvInductive == IInv /\ [Next]_vars => IInv'
<1> SUFFICES ASSUME IInv, [Next]_vars PROVE IInv'
    OBVIOUS
<1>1. ASSUME NEW s \in Sessions, NEW station \in Stations, StartSession(s, station) PROVE IInv'
    BY <1>1, StartKeeps
<1>2. ASSUME NEW k \in Callers, CallerStep(k) PROVE IInv'
    <2>1. CASE \/ \E s \in Sessions : LookForScan(k, s) \/ LookForClose(k, s)
               \/ \E c \in ContainerIds : LookForSeal(k, c) \/ LookForLpn(k, c)
        BY <2>1, LookKeeps
    <2>2. CASE OpenForScan(k) \/ OpenNext(k)
        BY <2>2, OpenKeeps
    <2>3. CASE WriteContents(k) \/ AttachLpn(k)
        BY <2>3, FillKeeps
    <2>4. CASE CountItem(k) \/ CountCarton(k)
        BY <2>4, CountKeeps
    <2>5. CASE Seal(k)
        BY <2>5, SealKeeps DEF Seal, Goes
    <2>6. CASE SealForClose(k)
        BY <2>6, SealKeeps DEF SealForClose
    <2>7. CASE NumberNext(k) \/ CountSealed(k) \/ Cut(k)
        BY <2>7, CallerKeeps
    <2>8. CASE Complete(k)
        BY <2>8, CompleteKeeps
    <2> QED
        BY <1>2, <2>1, <2>2, <2>3, <2>4, <2>5, <2>6, <2>7, <2>8 DEF CallerStep
<1>3. ASSUME NEW c \in ContainerIds, SealOnly(c) PROVE IInv'
    BY <1>3, SealKeeps DEF SealOnly
<1> QED
    BY <1>1, <1>2, <1>3, Stuttering DEF Next

THEOREM Invariance == Spec => []IInv
    BY Initially, IInvInductive, PTL DEF Spec

--------------------------------------------------------------------------------
(* Rows and calls have their types, what a call or a container refers to      *)
(* exists, and a session has a station as soon as it has been started.         *)
THEOREM TypeCorrect == Spec => []TypeOK
<1>1. IInv => TypeOK
    <2> SUFFICES ASSUME IInv PROVE TypeOK
        OBVIOUS
    <2>1. ASSUME NEW c \in ContainerIds
          PROVE  /\ Started(containers[c].session)
                 /\ containers[c].status \in {"ACTIVE", "SEALED"}
                 /\ \A i \in containers[c].contents : i \in -calls .. calls
        BY Typing DEF IInv, Typed, Container
    <2> QED
        BY <2>1 DEF IInv, Typed, TypeOK, Refers, SessionRows
<1> QED
    BY <1>1, Invariance, PTL

(* When a session has been closed, all its containers are sealed and counted, *)
(* unless two of its calls overlapped (packing.service.ts:143-153, 159-184).   *)
THEOREM ClosedAllSealed == Spec => []ClosedIsSealed
<1>1. IInv => ClosedIsSealed
    BY DEF IInv
<1> QED
    BY <1>1, Invariance, PTL

(* A closed session stays closed unless two of its calls overlapped: whoever   *)
(* writes its row as the only call on it has seen it open (packing.service.ts: *)
(* 56, 103-106, 171-184).                                                      *)
THEOREM ClosedStaysClosed == Spec => StaysClosed
<1> DEFINE Stays == \A s \in Sessions \ history.overlapped :
                       session[s].status = "COMPLETED" => session'[s].status = "COMPLETED"
<1>1. IInv /\ [Next]_vars => Stays
    <2> SUFFICES ASSUME IInv, [Next]_vars, NEW s \in Sessions \ history.overlapped,
                        session[s].status = "COMPLETED"
                 PROVE  session'[s].status = "COMPLETED"
        OBVIOUS
    <2>1. session \in [Sessions -> SessionRows]
        BY DEF IInv, Typed
    <2>2. ASSUME NEW t \in Sessions, NEW station, StartSession(t, station)
          PROVE  session'[s].status = "COMPLETED"
        BY <2>1, <2>2 DEF StartSession, Started
    <2>3. ASSUME NEW k \in Callers, CountItem(k) \/ CountCarton(k) \/ Complete(k)
          PROVE  session'[s].status = "COMPLETED"
        <3>1. AtSession(k)
            BY <2>3 DEF AtSession, CountItem, CountCarton, Complete
        <3>2. caller[k].session # s
            BY <3>1, AtStage
        <3> QED
            BY <2>1, <2>3, <3>2 DEF CountItem, CountCarton, Complete
    <2>4. CASE UNCHANGED session
        BY <2>4
    <2>5. ASSUME NEW k \in Callers, CallerStep(k)
          PROVE  UNCHANGED session \/ CountItem(k) \/ CountCarton(k) \/ Complete(k)
        BY <2>5 DEF CallerStep, Begin, LookForScan, LookForClose, LookForSeal, LookForLpn,
                    OpenForScan, WriteContents, Seal, NumberNext, OpenNext, SealForClose,
                    CountSealed, AttachLpn, Cut
    <2>6. ASSUME NEW c \in ContainerIds, SealOnly(c) PROVE UNCHANGED session
        BY <2>6 DEF SealOnly
    <2> QED
        BY <2>2, <2>3, <2>4, <2>5, <2>6 DEF Next, vars
<1> QED
    BY <1>1, Invariance, PTL DEF Spec, StaysClosed

(* The code of a container about to be created is free, unless calls of the    *)
(* session overlapped, or the station has had another session                  *)
(* (packing.service.ts:72-73, 140-143).                                        *)
THEOREM NumberIsFree == Spec => []NumbersFree
<1>1. IInv => NumbersFree
    <2> SUFFICES ASSUME IInv, NEW k \in Callers, caller[k].stage \in {"open", "next"},
                        caller[k].session \notin history.overlapped,
                        \A other \in Sessions \ {caller[k].session} :
                            session[other].station # session[caller[k].session].station,
                        NEW c \in ContainerIds
                 PROVE  containers[c].code # Code(caller[k].session, caller[k].number)
        BY DEF NumbersFree, Free
    <2>1. PICK s, m, t, code : /\ s = caller[k].session /\ m = caller[k].number
                               /\ t = containers[c].session /\ code = containers[c].code
        OBVIOUS
    <2>2. /\ s \in Sessions /\ session[s].station \in Stations
          /\ t \in Sessions /\ code \in Codes /\ CodeFits(t, code)
        BY <2>1, AtStage, Typing DEF AtSession, IInv, CodesFit, Container
    <2>3. m = Cardinality(Of(s)) + 1 /\ Cardinality(Of(s)) \in Nat
        BY <2>1, OfIsFinite DEF IInv, NumberFits, Typed
    <2>4. CASE code = <<t, 1>>
        BY <2>1, <2>2, <2>4, NamesAssumption DEF Code
    <2>5. CASE code[1] = session[t].station /\ t # s
        BY <2>1, <2>2, <2>5 DEF Code
    <2>6. CASE code[2] <= Cardinality(Of(s)) /\ t = s
        BY <2>1, <2>3, <2>6 DEF Code
    <2> QED
        BY <2>1, <2>2, <2>4, <2>5, <2>6 DEF CodeFits
<1> QED
    BY <1>1, Invariance, PTL
--------------------------------------------------------------------------------
(* The count of the items.  An item that is not yet written is nowhere        *)
(* (ItemsFresh), and what its call has read of the container is still in it   *)
(* (HandsKnow), unless another call held it too.                              *)
Counting(s) == {k \in Callers : caller[k].session = s /\ caller[k].stage = "count"}
Holds(k) == caller[k].item # 0

HandsOwn ==
    \A k \in Callers :
        /\ Holds(k) <=> caller[k].stage \in {"hold", "open", "lpn"}
        /\ caller[k].stage \in {"hold", "lpn"} => caller[k].container \in ContainerIds
        /\ caller[k].stage = "hold" =>
              containers[caller[k].container].session = caller[k].session
        /\ caller[k].stage = "open" => caller[k].container = 0 /\ caller[k].contents = {}

ItemsFresh ==
    \A k \in Callers :
        Holds(k) =>
            /\ \A c \in ContainerIds : caller[k].item \notin containers[c].contents
            /\ \A j \in Callers :
                  /\ caller[k].item \notin caller[j].contents
                  /\ j # k => caller[j].item # caller[k].item

HandsKnow ==
    \A k \in Callers :
        LET c == caller[k].container
        IN  Holds(k) /\ c # 0 /\ c \notin history.raced =>
              /\ caller[k].contents = containers[c].contents
              /\ \A j \in Callers \ {k} : Holds(j) => caller[j].container # c

CountingFew == \A s \in Sessions : IsFiniteSet(Counting(s))

Tallied ==
    /\ HandsOwn
    /\ ItemsFresh
    /\ HandsKnow
    /\ CountingFew
    /\ ItemsAddUp

(* The equation of ItemsAddUp for one session. *)
AddsUp(s) ==
    Of(s) \cap history.raced = {} =>
        Cardinality(Scanned(s)) = session[s].itemsPacked + Cardinality(Counting(s))

LEMMA EachAddsUp ==
    /\ ItemsAddUp <=> \A s \in Sessions \ history.cut : AddsUp(s)
    /\ ItemsAddUp' <=> \A s \in Sessions \ history'.cut : AddsUp(s)'
    BY DEF ItemsAddUp, AddsUp, Counting

(* What has been scanned is finite. *)
LEMMA ScannedIsFinite ==
    ASSUME Typed, NEW s
    PROVE  IsFiniteSet(Scanned(s)) /\ Scanned(s) \subseteq 1 .. calls
<1>1. calls \in Nat
    BY BoundAssumption DEF Typed
<1>2. Scanned(s) \subseteq 1 .. calls
    BY <1>1 DEF Scanned, Of, Typed
<1>3. IsFiniteSet(1 .. calls)
    BY <1>1, FS_Interval
<1> QED
    BY <1>2, <1>3, FS_Subset

(* Who holds an item, holds a positive one, and a container that there is. *)
LEMMA ItemTyped ==
    ASSUME Typed, HandsOwn, NEW k \in Callers, Holds(k)
    PROVE  /\ caller[k].item \in Nat /\ caller[k].item > 0 /\ caller[k].item \in Int
           /\ caller[k].contents \in SUBSET Int
           /\ caller[k].container # 0 => caller[k].container \in ContainerIds
    BY DEF Typed, Refers, Call, Holds

(* A call goes on, or ends, without an item in its hands; if it was about to   *)
(* count one, that is known.                                                  *)
Empties(k) ==
    /\ caller'[k].item = 0
    /\ caller'[k].stage \notin {"hold", "open", "lpn"}
    /\ caller'[k].contents \subseteq caller[k].contents

(* The containers there are keep their contents; new ones have none. *)
ContentsKept ==
    /\ ContainerIds \subseteq ContainerIds'
    /\ \A c \in ContainerIds :
          /\ containers'[c].session = containers[c].session
          /\ containers'[c].contents = containers[c].contents
    /\ \A c \in ContainerIds' \ ContainerIds : containers'[c].contents = {}

LEMMA ScannedKept ==
    ASSUME ContentsKept, NEW s
    PROVE  Scanned(s)' = Scanned(s) /\ Of(s) \subseteq Of(s)'
<1>1. /\ \A c \in Of(s) : c \in Of(s)' /\ containers'[c].contents = containers[c].contents
      /\ \A c \in Of(s)' : c \in Of(s) \/ containers'[c].contents = {}
    BY DEF ContentsKept, Of
<1>2. \A i : i \in Scanned(s)' <=> i \in Scanned(s)
    BY <1>1 DEF Scanned
<1> QED
    BY <1>1, <1>2

(* No call takes an item into its hands. *)
LEMMA HandsKept ==
    ASSUME Typed, HandsOwn, ItemsFresh, HandsKnow, ContentsKept,
           history'.raced = history.raced,
           \A j \in Callers : caller'[j] = caller[j] \/ Empties(j)
    PROVE  HandsOwn' /\ ItemsFresh' /\ HandsKnow'
<1>1. ASSUME NEW k \in Callers, Holds(k)'
      PROVE  caller'[k] = caller[k] /\ Holds(k)
    BY <1>1 DEF Holds, Empties
<1>2. \A j \in Callers : caller'[j].contents \subseteq caller[j].contents
    BY DEF Empties
<1>3. HandsOwn'
    <2>1. ASSUME NEW k \in Callers, caller'[k] = caller[k]
          PROVE  /\ Holds(k)' <=> caller'[k].stage \in {"hold", "open", "lpn"}
                 /\ caller'[k].stage \in {"hold", "lpn"} => caller'[k].container \in ContainerIds'
                 /\ caller'[k].stage = "hold" =>
                       containers'[caller'[k].container].session = caller'[k].session
                 /\ caller'[k].stage = "open" =>
                       caller'[k].container = 0 /\ caller'[k].contents = {}
        BY <2>1 DEF HandsOwn, Holds, ContentsKept
    <2>2. ASSUME NEW k \in Callers, Empties(k)
          PROVE  caller'[k].stage \notin {"hold", "open", "lpn"} /\ ~ Holds(k)'
        BY <2>2 DEF Empties, Holds
    <2> QED
        BY <2>1, <2>2 DEF HandsOwn
<1>4. ItemsFresh'
    <2> SUFFICES ASSUME NEW k \in Callers, Holds(k)'
                 PROVE  /\ \A c \in ContainerIds' : caller'[k].item \notin containers'[c].contents
                        /\ \A j \in Callers :
                              /\ caller'[k].item \notin caller'[j].contents
                              /\ j # k => caller'[j].item # caller'[k].item
        BY DEF ItemsFresh
    <2>1. caller'[k] = caller[k] /\ Holds(k) /\ caller[k].item # 0
        BY <1>1 DEF Holds
    <2>2. \A c \in ContainerIds' : caller'[k].item \notin containers'[c].contents
        BY <2>1 DEF ItemsFresh, ContentsKept
    <2>3. \A j \in Callers : j # k => caller'[j].item # caller'[k].item
        BY <2>1 DEF ItemsFresh, Empties
    <2> QED
        BY <1>2, <2>1, <2>2, <2>3 DEF ItemsFresh
<1>5. HandsKnow'
    <2> SUFFICES ASSUME NEW k \in Callers, NEW c, c = caller'[k].container,
                        Holds(k)', c # 0, c \notin history'.raced
                 PROVE  /\ caller'[k].contents = containers'[c].contents
                        /\ \A j \in Callers \ {k} : Holds(j)' => caller'[j].container # c
        BY DEF HandsKnow
    <2>1. caller'[k] = caller[k] /\ Holds(k)
        BY <1>1
    <2>2. c \in ContainerIds
        BY <2>1, ItemTyped
    <2>3. /\ caller[k].contents = containers[c].contents
          /\ \A j \in Callers \ {k} : Holds(j) => caller[j].container # c
        BY <2>1 DEF HandsKnow
    <2> QED
        BY <1>1, <2>1, <2>2, <2>3 DEF ContentsKept
<1> QED
    BY <1>3, <1>4, <1>5

(* Nor does one write an item, or count it: a call about to count is cut. *)
LEMMA QuietKeeps ==
    ASSUME Typed, Tallied, ContentsKept,
           history'.raced = history.raced, history.cut \subseteq history'.cut,
           \A s \in Sessions : session'[s].itemsPacked = session[s].itemsPacked,
           \A j \in Callers :
              \/ caller'[j] = caller[j]
              \/ /\ Empties(j) /\ caller'[j].stage # "count"
                 /\ caller[j].stage = "count" => caller[j].session \in history'.cut
    PROVE  Tallied'
<1>1. HandsOwn' /\ ItemsFresh' /\ HandsKnow'
    BY HandsKept DEF Tallied
<1>2. ASSUME NEW s \in Sessions
      PROVE  /\ Counting(s)' \subseteq Counting(s)
             /\ s \notin history'.cut => Counting(s)' = Counting(s)
    BY DEF Counting
<1>3. CountingFew'
    BY <1>2, FS_Subset DEF Tallied, CountingFew
<1>4. ASSUME NEW s \in Sessions \ history'.cut PROVE AddsUp(s)'
    <2>1. s \in Sessions \ history.cut /\ AddsUp(s)
        BY EachAddsUp DEF Tallied
    <2>2. Scanned(s)' = Scanned(s) /\ Of(s) \subseteq Of(s)' /\ Counting(s)' = Counting(s)
        BY <1>2, ScannedKept
    <2> QED
        BY <2>1, <2>2 DEF AddsUp
<1> QED
    BY <1>1, <1>3, <1>4, EachAddsUp DEF Tallied

(* A call begins with an item nobody has, and what its container holds. *)
LEMMA TakeKeeps ==
    ASSUME Typed, Tallied, NEW k \in Callers, NEW s, NEW call \in Call, Begin(k, s, call),
           call.item = calls + 1, call.stage \in {"hold", "open", "lpn"},
           call.stage = "open" => call.container = 0 /\ call.contents = {},
           call.stage # "open" =>
              /\ call.container \in ContainerIds
              /\ call.contents = containers[call.container].contents,
           call.stage = "hold" => containers[call.container].session = s
    PROVE  Tallied'
<1> DEFINE mine == [call EXCEPT !.session = s]
<1>1. /\ caller[k] = Idle /\ calls \in Nat
      /\ caller' = [caller EXCEPT ![k] = mine] /\ UNCHANGED <<session, containers>>
      /\ history'.cut = history.cut
      /\ history'.raced = history.raced \cup ({call.container} \cap Held)
    <2>1. calls + 1 # 0 /\ calls \in Nat
        BY BoundAssumption DEF Typed
    <2> QED
        BY <2>1 DEF Begin, Typed, Histories
<1>2. /\ mine.session = s /\ mine.stage = call.stage /\ mine.container = call.container
      /\ mine.contents = call.contents /\ mine.item = call.item
    BY DEF Call
<1> HIDE DEF mine
<1>3. caller'[k] = mine /\ \A j \in Callers \ {k} : caller'[j] = caller[j]
    BY <1>1 DEF Typed
<1>4. ContainerIds' = ContainerIds /\ (\A t : Of(t)' = Of(t)) /\ \A t : Scanned(t)' = Scanned(t)
    BY <1>1 DEF ContainerIds, Of, Scanned
<1>5. ~ Holds(k) /\ caller[k].stage = "idle"
    BY <1>1 DEF Holds, Idle
<1>6. /\ caller'[k].item = calls + 1 /\ caller'[k].stage = call.stage
      /\ caller'[k].container = call.container /\ caller'[k].contents = call.contents
      /\ caller'[k].session = s
    BY <1>2, <1>3
<1>7. \A j \in Callers \ {k} : Holds(j)' <=> Holds(j)
    BY <1>3 DEF Holds
<1>8. HandsOwn'
    <2>1. Holds(k)'
        BY <1>1, <1>6 DEF Holds
    <2>2. \A j \in Callers \ {k} :
             /\ Holds(j)' <=> caller'[j].stage \in {"hold", "open", "lpn"}
             /\ caller'[j].stage \in {"hold", "lpn"} => caller'[j].container \in ContainerIds'
             /\ caller'[j].stage = "hold" =>
                   containers'[caller'[j].container].session = caller'[j].session
             /\ caller'[j].stage = "open" => caller'[j].container = 0 /\ caller'[j].contents = {}
        BY <1>1, <1>3, <1>4, <1>7 DEF Tallied, HandsOwn
    <2>3. /\ caller'[k].stage \in {"hold", "lpn"} => caller'[k].container \in ContainerIds'
          /\ caller'[k].stage = "hold" =>
                containers'[caller'[k].container].session = caller'[k].session
          /\ caller'[k].stage = "open" => caller'[k].container = 0 /\ caller'[k].contents = {}
        BY <1>1, <1>4, <1>6
    <2> QED
        BY <1>6, <2>1, <2>2, <2>3 DEF HandsOwn
<1>9. ItemsFresh'
    <2>1. PICK new : new = calls + 1
        OBVIOUS
    <2>2. new \notin -calls .. calls
        BY <1>1, <2>1
    <2>3. \A c \in ContainerIds : new \notin containers[c].contents
        BY <2>2 DEF Typed
    <2>4. \A j \in Callers : new \notin caller[j].contents
        BY <2>2 DEF Typed, Refers
    <2>5. \A j \in Callers : caller[j].item # new
        <3>1. \A j \in Callers : caller[j].item \in Nat /\ caller[j].item <= calls
            BY DEF Typed, Refers, Call
        <3> QED
            BY <1>1, <2>1, <3>1
    <2>6. \A j \in Callers : \A i \in caller'[j].contents :
             \/ i \in caller[j].contents
             \/ \E c \in ContainerIds : i \in containers[c].contents
        BY <1>3, <1>6
    <2>7. ASSUME NEW j \in Callers, Holds(j)'
          PROVE  /\ \A c \in ContainerIds : caller'[j].item \notin containers[c].contents
                 /\ \A i \in Callers : caller'[j].item \notin caller[i].contents
                 /\ \A i \in Callers : i # j => caller'[i].item # caller'[j].item
        <3>1. CASE j = k
            BY <1>3, <1>6, <2>1, <2>3, <2>4, <2>5, <3>1
        <3>2. CASE j # k
            BY <1>3, <1>6, <1>7, <2>1, <2>5, <2>7, <3>2 DEF Tallied, ItemsFresh
        <3> QED
            BY <3>1, <3>2
    <2> QED
        BY <1>1, <1>4, <2>6, <2>7 DEF ItemsFresh
<1>10. HandsKnow'
    <2>1. ASSUME call.container \notin history'.raced, call.container # 0
          PROVE  \A j \in Callers : Holds(j) => caller[j].container # call.container
        BY <1>1, <2>1 DEF Held, Holds
    <2>2. ASSUME NEW j \in Callers, NEW c, c = caller'[j].container,
                 Holds(j)', c # 0, c \notin history'.raced
          PROVE  /\ caller'[j].contents = containers[c].contents
                 /\ \A i \in Callers \ {j} : Holds(i)' => caller'[i].container # c
        <3>1. CASE j = k
            BY <1>3, <1>6, <1>7, <2>1, <2>2, <3>1
        <3>2. CASE j # k
            <4>1. caller'[j] = caller[j] /\ Holds(j) /\ c \notin history.raced
                BY <1>1, <1>3, <1>7, <2>2, <3>2
            <4>2. /\ caller[j].contents = containers[c].contents
                  /\ \A i \in Callers \ {j} : Holds(i) => caller[i].container # c
                BY <2>2, <4>1 DEF Tallied, HandsKnow
            <4>3. caller'[k].container # c
                BY <1>6, <2>1, <2>2, <4>1
            <4> QED
                BY <1>3, <1>7, <4>1, <4>2, <4>3
        <3> QED
            BY <3>1, <3>2
    <2> QED
        BY <1>1, <2>2 DEF HandsKnow
<1>11. \A t : Counting(t)' = Counting(t)
    BY <1>3, <1>5, <1>6 DEF Counting
<1>12. CountingFew'
    BY <1>11 DEF Tallied, CountingFew
<1>13. ItemsAddUp'
    <2>1. ASSUME NEW t \in Sessions \ history'.cut PROVE AddsUp(t)'
        <3>1. AddsUp(t) /\ session'[t].itemsPacked = session[t].itemsPacked
            BY <1>1, EachAddsUp DEF Tallied
        <3> QED
            BY <1>1, <1>4, <1>11, <3>1 DEF AddsUp
    <2> QED
        BY <2>1, EachAddsUp
<1> QED
    BY <1>8, <1>9, <1>10, <1>12, <1>13 DEF Tallied

(* A call begins without an item. *)
LEMMA BeginQuiet ==
    ASSUME Typed, Tallied, NEW k \in Callers, NEW s, NEW call \in Call, Begin(k, s, call),
           call.item = 0, call.contents = {}, call.stage \notin {"hold", "open", "lpn", "count"}
    PROVE  Tallied'
<1>1. /\ caller[k] = Idle /\ UNCHANGED <<session, containers>>
      /\ caller' = [caller EXCEPT ![k] = [call EXCEPT !.session = s]]
      /\ history'.cut = history.cut /\ history'.raced = history.raced
    BY DEF Begin, Typed, Histories
<1>2. ContentsKept
    BY <1>1 DEF ContentsKept, ContainerIds
<1>3. /\ \A j \in Callers \ {k} : caller'[j] = caller[j]
      /\ Empties(k) /\ caller'[k].stage # "count" /\ caller[k].stage # "count"
    <2>1. /\ \A j \in Callers \ {k} : caller'[j] = caller[j]
          /\ caller'[k] = [call EXCEPT !.session = s]
        BY <1>1 DEF Typed
    <2>2. /\ caller'[k].item = 0 /\ caller'[k].contents = {} /\ caller'[k].stage = call.stage
        BY <2>1 DEF Call
    <2>3. caller[k].stage = "idle"
        BY <1>1 DEF Idle
    <2> QED
        BY <2>1, <2>2, <2>3 DEF Empties
<1> QED
    BY <1>1, <1>2, <1>3, QuietKeeps

LEMMA LookTallies ==
    ASSUME Typed, Tallied, NEW k \in Callers,
           \/ \E s \in Sessions : LookForScan(k, s) \/ LookForClose(k, s)
           \/ \E c \in ContainerIds : LookForSeal(k, c) \/ LookForLpn(k, c)
    PROVE  Tallied'
<1>1. calls \in Nat
    BY BoundAssumption DEF Typed
<1>2. Idle \in Call /\ Idle.contents = {} /\ Idle.item = 0
    BY IdleRefers DEF Idle
<1>3. ASSUME NEW c \in ContainerIds, NEW call, call = Scan(c)
      PROVE  /\ call \in Call /\ call.container = c /\ call.contents = containers[c].contents
             /\ call.item = calls + 1 /\ call.stage = "hold"
    <2>1. PICK contents, item : contents = containers[c].contents /\ item = calls + 1
        OBVIOUS
    <2>2. contents \in SUBSET Int /\ c \in Nat /\ item \in Nat
        BY <1>1, <2>1, Typing DEF Container, ContainerIds
    <2>3. call = [stage |-> "hold", session |-> NoSession, container |-> c, contents |-> contents,
                  item |-> item, number |-> 0, todo |-> {}]
        BY <1>3, <2>1 DEF Scan, Idle
    <2> QED
        BY <2>1, <2>2, <2>3 DEF Call, CallStages
<1>4. ASSUME NEW s \in Sessions, LookForScan(k, s) PROVE Tallied'
    <2>1. ASSUME NEW c \in Of(s), Begin(k, s, Scan(c)) PROVE Tallied'
        <3>1. PICK call : call = Scan(c)
            OBVIOUS
        <3>2. c \in ContainerIds /\ containers[c].session = s /\ Begin(k, s, call)
            BY <2>1, <3>1 DEF Of
        <3>3. /\ call \in Call /\ call.container = c /\ call.contents = containers[c].contents
              /\ call.item = calls + 1 /\ call.stage = "hold"
            BY <1>3, <3>1, <3>2
        <3> QED
            BY <3>2, <3>3, TakeKeeps
    <2>2. ASSUME Begin(k, s, Open(Cardinality(Of(s)) + 1)) PROVE Tallied'
        <3>1. PICK m : m = Cardinality(Of(s)) + 1
            OBVIOUS
        <3>2. m \in Nat
            BY <3>1, OfIsFinite DEF Typed
        <3>3. PICK call : call = Open(m)
            OBVIOUS
        <3>4. /\ call \in Call /\ call.container = 0 /\ call.contents = {}
              /\ call.item = calls + 1 /\ call.stage = "open"
            <4>1. PICK item : item = calls + 1 /\ item \in Nat
                BY <1>1
            <4>2. call = [stage |-> "open", session |-> NoSession, container |-> 0,
                             contents |-> {}, item |-> item, number |-> m, todo |-> {}]
                BY <3>3, <4>1 DEF Open, Idle
            <4> QED
                BY <3>2, <4>1, <4>2 DEF Call, CallStages
        <3>5. Begin(k, s, call)
            BY <2>2, <3>1, <3>3
        <3> QED
            BY <3>4, <3>5, TakeKeeps
    <2> QED
        BY <1>4, <2>1, <2>2 DEF LookForScan
<1>5. ASSUME NEW s \in Sessions, LookForClose(k, s) PROVE Tallied'
    <2>1. PICK todo, call : /\ todo = With(s, "ACTIVE")
                            /\ call = [Idle EXCEPT !.stage = "close", !.todo = todo]
        OBVIOUS
    <2>2. todo \in SUBSET Nat
        BY <2>1 DEF With, Of, ContainerIds
    <2>3. call \in Call /\ call.contents = {} /\ call.item = 0 /\ call.stage = "close"
        BY <1>2, <2>1, <2>2 DEF Idle, Call, CallStages
    <2>4. Begin(k, s, call)
        BY <1>5, <2>1 DEF LookForClose
    <2> QED
        BY <2>3, <2>4, BeginQuiet
<1>6. ASSUME NEW c \in ContainerIds, LookForSeal(k, c) PROVE Tallied'
    <2>1. PICK call, s : call = Sealing(c) /\ s = containers[c].session
        OBVIOUS
    <2>2. call \in Call /\ call.contents = {} /\ call.item = 0 /\ call.stage = "seal"
        <3>1. c \in Nat
            BY Typing DEF ContainerIds
        <3> QED
            BY <1>2, <2>1, <3>1 DEF Sealing, Idle, Call, CallStages
    <2>3. Begin(k, s, call)
        BY <1>6, <2>1 DEF LookForSeal
    <2> QED
        BY <2>2, <2>3, BeginQuiet
<1>7. ASSUME NEW c \in ContainerIds, LookForLpn(k, c) PROVE Tallied'
    <2>1. PICK scan, call : scan = Scan(c) /\ call = [scan EXCEPT !.stage = "lpn"]
        OBVIOUS
    <2>2. /\ call \in Call /\ call.container = c /\ call.contents = containers[c].contents
          /\ call.item = calls + 1 /\ call.stage = "lpn"
        <3>1. /\ scan \in Call /\ scan.container = c /\ scan.contents = containers[c].contents
              /\ scan.item = calls + 1
            BY <1>3, <2>1
        <3> QED
            BY <2>1, <3>1 DEF Call, CallStages
    <2>3. Begin(k, NoSession, call)
        BY <1>7, <2>1 DEF LookForLpn
    <2> QED
        BY <2>2, <2>3, TakeKeeps
<1> QED
    BY <1>4, <1>5, <1>6, <1>7

(* The container of a scan is opened: it is empty, and nobody else has it. *)
LEMMA OpenTallies ==
    ASSUME IInv, Tallied, NEW k \in Callers, OpenForScan(k)
    PROVE  Tallied'
<1>1. Typed /\ AtSession(k)
    BY DEF IInv, OpenForScan, AtSession
<1> PICK n, s, code : /\ n = Len(containers) + 1 /\ s = caller[k].session
                      /\ code = Code(s, caller[k].number)
    OBVIOUS
<1>2. /\ containers' = Append(containers, NewContainer(s, code))
      /\ caller' = [caller EXCEPT ![k].stage = "hold", ![k].container = n]
      /\ UNCHANGED <<session, calls, history>> /\ caller[k].stage = "open"
    BY DEF OpenForScan
<1>3. s \in Sessions /\ code \in Codes
    <2>1. s \in Sessions /\ caller[k].number \in Nat /\ session[s].station \in Stations
        BY <1>1, AtStage DEF Call
    <2> QED
        BY <2>1 DEF Code, Codes
<1>4. /\ n \notin ContainerIds /\ ContainerIds' = ContainerIds \cup {n}
      /\ \A c \in ContainerIds : containers'[c] = containers[c]
      /\ containers'[n] = NewContainer(s, code) /\ n # 0
    <2>1. Len(containers) \in Nat
        BY <1>1, LenProperties DEF Typed
    <2>2. n # 0
        BY <2>1
    <2> QED
        BY <1>1, <1>2, <1>3, <2>2, Appended
<1>5. containers'[n].session = s /\ containers'[n].contents = {}
    BY <1>4 DEF NewContainer
<1>6. ContentsKept
    BY <1>4, <1>5 DEF ContentsKept
<1>7. /\ caller'[k].stage = "hold" /\ caller'[k].container = n /\ caller'[k].session = s
      /\ caller'[k].contents = caller[k].contents /\ caller'[k].item = caller[k].item
      /\ \A j \in Callers \ {k} : caller'[j] = caller[j]
    BY <1>1, <1>2 DEF Typed, Call
<1>8. \A j \in Callers : (Holds(j)' <=> Holds(j)) /\ caller'[j].item = caller[j].item
                         /\ caller'[j].contents = caller[j].contents
    BY <1>7 DEF Holds
<1>9. Holds(k) /\ caller[k].contents = {}
    BY <1>2 DEF Tallied, HandsOwn
<1>10. HandsOwn'
    <2>1. \A j \in Callers \ {k} :
             /\ Holds(j)' <=> caller'[j].stage \in {"hold", "open", "lpn"}
             /\ caller'[j].stage \in {"hold", "lpn"} => caller'[j].container \in ContainerIds'
             /\ caller'[j].stage = "hold" =>
                   containers'[caller'[j].container].session = caller'[j].session
             /\ caller'[j].stage = "open" => caller'[j].container = 0 /\ caller'[j].contents = {}
        BY <1>4, <1>7, <1>8 DEF Tallied, HandsOwn
    <2> QED
        BY <1>4, <1>5, <1>7, <1>8, <1>9, <2>1 DEF HandsOwn
<1>11. ItemsFresh'
    <2>1. \A c \in ContainerIds' : containers'[c].contents = {} \/
             (c \in ContainerIds /\ containers'[c].contents = containers[c].contents)
        BY <1>4, <1>5
    <2> QED
        BY <1>8, <2>1 DEF Tallied, ItemsFresh
<1>12. HandsKnow'
    <2>1. \A j \in Callers \ {k} : Holds(j) => caller'[j].container # n
        BY <1>1, <1>4, <1>7, ItemTyped DEF Tallied
    <2>2. ASSUME NEW j \in Callers, NEW c, c = caller'[j].container,
                 Holds(j)', c # 0, c \notin history'.raced
          PROVE  /\ caller'[j].contents = containers'[c].contents
                 /\ \A i \in Callers \ {j} : Holds(i)' => caller'[i].container # c
        <3>1. CASE j = k
            BY <1>5, <1>7, <1>8, <1>9, <2>1, <2>2, <3>1
        <3>2. CASE j # k
            <4>1. caller'[j] = caller[j] /\ Holds(j) /\ c \notin history.raced
                BY <1>2, <1>7, <1>8, <2>2, <3>2
            <4>2. /\ caller[j].contents = containers[c].contents
                  /\ \A i \in Callers \ {j} : Holds(i) => caller[i].container # c
                BY <2>2, <4>1 DEF Tallied, HandsKnow
            <4>3. c \in ContainerIds
                BY <1>1, <2>2, <4>1, ItemTyped DEF Tallied
            <4> QED
                BY <1>4, <1>7, <1>8, <4>1, <4>2, <4>3
        <3> QED
            BY <3>1, <3>2
    <2> QED
        BY <2>2 DEF HandsKnow
<1>13. \A t : Counting(t)' = Counting(t)
    BY <1>2, <1>7 DEF Counting
<1>14. CountingFew'
    BY <1>13 DEF Tallied, CountingFew
<1>15. ItemsAddUp'
    <2>1. ASSUME NEW t \in Sessions \ history'.cut PROVE AddsUp(t)'
        <3>1. AddsUp(t) /\ Scanned(t)' = Scanned(t) /\ Of(t) \subseteq Of(t)'
            BY <1>2, <1>6, ScannedKept, EachAddsUp DEF Tallied
        <3> QED
            BY <1>2, <1>13, <3>1 DEF AddsUp
    <2> QED
        BY <2>1, EachAddsUp
<1> QED
    BY <1>10, <1>11, <1>12, <1>14, <1>15 DEF Tallied

(* A call writes what it has read and its item, as it is or marked as the     *)
(* other service's, and lets it go.                                           *)
Writes(k, i) ==
    LET c == caller[k].container
    IN  /\ Holds(k) /\ c \in ContainerIds
        /\ i \in {caller[k].item, -caller[k].item}
        /\ containers' = [containers EXCEPT ![c].contents = caller[k].contents \cup {i}]
        /\ \A j \in Callers \ {k} : caller'[j] = caller[j]
        /\ Empties(k)
        /\ UNCHANGED history

LEMMA WriteKeeps ==
    ASSUME Typed, Tallied, NEW k \in Callers, NEW i, Writes(k, i),
           NEW c, c = caller[k].container
    PROVE  /\ HandsOwn' /\ ItemsFresh' /\ HandsKnow'
           /\ \A t : Of(t)' = Of(t)
           /\ \A d \in ContainerIds \ {c} : containers'[d].contents = containers[d].contents
           /\ containers'[c].contents = caller[k].contents \cup {i}
<1>0. /\ Holds(k) /\ c \in ContainerIds /\ i \in {caller[k].item, -caller[k].item}
      /\ \A j \in Callers \ {k} : caller'[j] = caller[j]
      /\ Empties(k) /\ UNCHANGED history
    BY DEF Writes
<1>1. /\ caller[k].item \in Nat /\ caller[k].item > 0 /\ i \in Int
      /\ caller[k].contents \in SUBSET Int
    BY <1>0, ItemTyped DEF Tallied
<1>2. /\ ContainerIds' = ContainerIds
      /\ \A d \in ContainerIds :
            /\ containers'[d].session = containers[d].session
            /\ containers'[d].contents =
                  IF d = c THEN caller[k].contents \cup {i} ELSE containers[d].contents
      /\ \A t : Of(t)' = Of(t)
    <2>1. PICK d, contents : d = c /\ contents = caller[k].contents \cup {i}
        OBVIOUS
    <2>2. /\ containers' = [containers EXCEPT ![d].contents = contents]
          /\ contents \in SUBSET Int
        BY <1>1, <2>1 DEF Writes
    <2>3. /\ containers' \in Seq(Container) /\ ContainerIds' = ContainerIds
          /\ \A e \in ContainerIds :
                /\ containers'[e].session = containers[e].session
                /\ containers'[e].code = containers[e].code
                /\ containers'[e].status = containers[e].status
                /\ containers'[e].contents = IF e = d THEN contents ELSE containers[e].contents
          /\ \A t : Of(t)' = Of(t)
        BY <2>2, FilledOne
    <2> QED
        BY <2>1, <2>3
<1>3. ~ Holds(k)' /\ \A j \in Callers \ {k} : Holds(j)' <=> Holds(j)
    BY <1>0 DEF Holds, Empties
<1>4. HandsOwn'
    BY <1>0, <1>2, <1>3 DEF Tallied, HandsOwn, Empties
<1>5. ItemsFresh'
    <2> SUFFICES ASSUME NEW j \in Callers \ {k}, Holds(j)
                 PROVE  /\ \A d \in ContainerIds : caller[j].item \notin containers'[d].contents
                        /\ \A h \in Callers :
                              /\ caller[j].item \notin caller'[h].contents
                              /\ h # j => caller'[h].item # caller[j].item
        BY <1>0, <1>2, <1>3 DEF ItemsFresh
    <2>1. caller[j].item \in Nat /\ caller[j].item > 0
        BY ItemTyped DEF Tallied
    <2>2. /\ \A d \in ContainerIds : caller[j].item \notin containers[d].contents
          /\ \A h \in Callers : /\ caller[j].item \notin caller[h].contents
                                /\ h # j => caller[h].item # caller[j].item
        BY DEF Tallied, ItemsFresh
    <2>3. caller[j].item # i
        BY <1>0, <1>1, <2>1, <2>2
    <2> QED
        BY <1>0, <1>2, <2>1, <2>2, <2>3 DEF Empties
<1>6. HandsKnow'
    <2> SUFFICES ASSUME NEW j \in Callers, NEW d, d = caller'[j].container,
                        Holds(j)', d # 0, d \notin history'.raced
                 PROVE  /\ caller'[j].contents = containers'[d].contents
                        /\ \A h \in Callers \ {j} : Holds(h)' => caller'[h].container # d
        BY DEF HandsKnow
    <2>1. j # k /\ caller'[j] = caller[j] /\ Holds(j) /\ d \notin history.raced
        BY <1>0, <1>3
    <2>2. /\ caller[j].contents = containers[d].contents
          /\ \A h \in Callers \ {j} : Holds(h) => caller[h].container # d
        BY <2>1 DEF Tallied, HandsKnow
    <2>3. d \in ContainerIds /\ d # c
        BY <1>0, <2>1, <2>2, ItemTyped DEF Tallied
    <2> QED
        BY <1>0, <1>2, <1>3, <2>1, <2>2, <2>3
<1> QED
    BY <1>0, <1>2, <1>4, <1>5, <1>6

(* The item of a scan is added to its session, which is about to count it. *)
LEMMA ContentsTallied ==
    ASSUME IInv, Tallied, NEW k \in Callers, WriteContents(k)
    PROVE  Tallied'
<1>1. Typed /\ AtSession(k)
    BY DEF IInv, WriteContents, AtSession
<1> PICK s, c, i : /\ s = caller[k].session /\ c = caller[k].container /\ i = caller[k].item
    OBVIOUS
<1>2. /\ caller[k].stage = "hold" /\ UNCHANGED <<session, calls, history>>
      /\ containers' = [containers EXCEPT ![c].contents = caller[k].contents \cup {i}]
      /\ caller' = [caller EXCEPT ![k].stage = "count", ![k].item = 0]
    BY DEF WriteContents
<1>3. /\ caller'[k].stage = "count" /\ caller'[k].item = 0 /\ caller'[k].session = s
      /\ caller'[k].contents = caller[k].contents
      /\ \A j \in Callers \ {k} : caller'[j] = caller[j]
    BY <1>1, <1>2 DEF Typed, Call
<1>4. /\ Holds(k) /\ c \in ContainerIds /\ containers[c].session = s /\ s \in Sessions
    BY <1>1, <1>2, AtStage DEF Tallied, HandsOwn
<1>5. Writes(k, i)
    BY <1>2, <1>3, <1>4 DEF Writes, Empties
<1>6. /\ HandsOwn' /\ ItemsFresh' /\ HandsKnow'
      /\ \A t : Of(t)' = Of(t)
      /\ \A d \in ContainerIds \ {c} : containers'[d].contents = containers[d].contents
      /\ containers'[c].contents = caller[k].contents \cup {i}
    BY <1>1, <1>5, WriteKeeps
<1>7. /\ Counting(s)' = Counting(s) \cup {k} /\ k \notin Counting(s)
      /\ \A t \in Sessions \ {s} : Counting(t)' = Counting(t)
    BY <1>2, <1>3 DEF Counting
<1>8. \A t \in Sessions : IsFiniteSet(Counting(t))
    BY DEF Tallied, CountingFew
<1>9. /\ IsFiniteSet(Counting(s)') /\ Cardinality(Counting(s)') = Cardinality(Counting(s)) + 1
    BY <1>4, <1>7, <1>8, FS_AddElement
<1>10. CountingFew'
    BY <1>7, <1>8, <1>9 DEF CountingFew
<1>11. ASSUME Of(s) \cap history.raced = {}
       PROVE  Cardinality(Scanned(s)') = Cardinality(Scanned(s)) + 1
    <2>1. c \in Of(s) /\ c \notin history.raced /\ c # 0
        <3>1. c \in Of(s)
            BY <1>4 DEF Of
        <3>2. c # 0
            BY <1>4 DEF ContainerIds
        <3> QED
            BY <1>11, <3>1, <3>2
    <2>2. containers'[c].contents = containers[c].contents \cup {i}
        BY <1>4, <1>6, <2>1 DEF Tallied, HandsKnow
    <2>3. i > 0 /\ \A d \in ContainerIds : i \notin containers[d].contents
        BY <1>1, <1>4, ItemTyped DEF Tallied, ItemsFresh
    <2>4. Scanned(s)' = Scanned(s) \cup {i}
        <3>1. Of(s) \subseteq ContainerIds /\ Of(s)' = Of(s)
            BY <1>6 DEF Of
        <3>2. \A d \in Of(s)' : \A j : j \in containers'[d].contents <=>
                 j \in containers[d].contents \/ (d = c /\ j = i)
            BY <1>6, <2>2, <3>1
        <3>3. \A j : j \in Scanned(s)' <=> j \in Scanned(s) \/ j = i
            BY <2>1, <2>3, <3>1, <3>2 DEF Scanned
        <3> QED
            BY <3>3
    <2>5. i \notin Scanned(s)
        BY <2>3 DEF Scanned, Of
    <2> QED
        BY <1>1, <2>4, <2>5, ScannedIsFinite, FS_AddElement
<1>12. \A t \in Sessions \ {s} : Scanned(t)' = Scanned(t)
    <2>1. \A t \in Sessions \ {s} : c \notin Of(t) /\ Of(t) \subseteq ContainerIds
        BY <1>4 DEF Of
    <2> QED
        BY <1>6, <2>1 DEF Scanned
<1>13. ASSUME NEW t \in Sessions \ history'.cut PROVE AddsUp(t)'
    <2>1. AddsUp(t)
        BY <1>2, EachAddsUp DEF Tallied
    <2>2. CASE t = s
        <3>1. SUFFICES ASSUME Of(s) \cap history.raced = {}
                       PROVE  Cardinality(Scanned(s)') =
                                session[s].itemsPacked + Cardinality(Counting(s)')
            BY <1>2, <1>6, <2>2 DEF AddsUp
        <3>2. PICK a, b, n : /\ a = Cardinality(Scanned(s)) /\ b = Cardinality(Counting(s))
                             /\ n = session[s].itemsPacked
            OBVIOUS
        <3>3. a = n + b
            BY <2>1, <2>2, <3>1, <3>2 DEF AddsUp
        <3>4. b \in Nat /\ n \in Nat
            <4>1. IsFiniteSet(Counting(s)) /\ session[s] \in SessionRows
                BY <1>1, <1>4, <1>8 DEF Typed
            <4> QED
                BY <3>2, <4>1, FS_CardinalityType DEF SessionRows
        <3>5. Cardinality(Scanned(s)') = a + 1 /\ Cardinality(Counting(s)') = b + 1
            BY <1>9, <1>11, <3>1, <3>2
        <3> QED
            BY <3>2, <3>3, <3>4, <3>5
    <2>3. CASE t # s
        BY <1>2, <1>6, <1>7, <1>12, <2>1, <2>3 DEF AddsUp
    <2> QED
        BY <2>2, <2>3
<1> QED
    BY <1>6, <1>10, <1>13, EachAddsUp DEF Tallied

(* The item of the other service is no item of the station. *)
LEMMA AttachTallied ==
    ASSUME Typed, Tallied, NEW k \in Callers, AttachLpn(k)
    PROVE  Tallied'
<1> PICK c, i : c = caller[k].container /\ i = -caller[k].item
    OBVIOUS
<1>1. /\ caller[k].stage = "lpn" /\ UNCHANGED <<session, calls, history>>
      /\ containers' = [containers EXCEPT ![c].contents = caller[k].contents \cup {i}]
      /\ caller' = [caller EXCEPT ![k] = Idle]
    BY DEF AttachLpn, Ends
<1>2. /\ Empties(k) /\ caller'[k].stage = "idle"
      /\ \A j \in Callers \ {k} : caller'[j] = caller[j]
    BY <1>1 DEF Typed, Idle, Empties
<1>3. Holds(k) /\ c \in ContainerIds
    BY <1>1 DEF Tallied, HandsOwn
<1>4. Writes(k, i)
    BY <1>1, <1>2, <1>3 DEF Writes
<1>5. /\ HandsOwn' /\ ItemsFresh' /\ HandsKnow'
      /\ \A t : Of(t)' = Of(t)
      /\ \A d \in ContainerIds \ {c} : containers'[d].contents = containers[d].contents
      /\ containers'[c].contents = caller[k].contents \cup {i}
    BY <1>4, WriteKeeps
<1>6. \A t : Counting(t)' = Counting(t)
    BY <1>1, <1>2 DEF Counting
<1>7. CountingFew'
    BY <1>6 DEF Tallied, CountingFew
<1>8. ASSUME NEW t, Of(t) \cap history.raced = {} PROVE Scanned(t)' = Scanned(t)
    <2>1. i \in Int /\ ~ (i > 0)
        BY <1>3, ItemTyped DEF Tallied
    <2>2. c \in Of(t) => containers'[c].contents = containers[c].contents \cup {i}
        <3>1. c # 0
            BY <1>3 DEF ContainerIds
        <3> QED
            BY <1>3, <1>5, <1>8, <3>1 DEF Tallied, HandsKnow
    <2>3. \A d \in Of(t) : \A j : j \in containers'[d].contents <=>
             j \in containers[d].contents \/ (d = c /\ j = i)
        BY <1>5, <2>2 DEF Of
    <2>4. \A j : j \in Scanned(t)' <=> j \in Scanned(t)
        BY <1>5, <2>1, <2>3 DEF Scanned
    <2> QED
        BY <2>4
<1>9. ASSUME NEW t \in Sessions \ history'.cut PROVE AddsUp(t)'
    <2>1. AddsUp(t)
        BY <1>1, EachAddsUp DEF Tallied
    <2> QED
        BY <1>1, <1>5, <1>6, <1>8, <2>1 DEF AddsUp
<1> QED
    BY <1>5, <1>7, <1>9, EachAddsUp DEF Tallied

(* An item is counted: it is no longer about to be. *)
LEMMA CountTallies ==
    ASSUME IInv, Tallied, NEW k \in Callers, CountItem(k)
    PROVE  Tallied'
<1>1. Typed /\ AtSession(k)
    BY DEF IInv, CountItem, AtSession
<1> PICK s : s = caller[k].session
    OBVIOUS
<1>2. /\ caller[k].stage = "count" /\ UNCHANGED <<containers, calls, history>>
      /\ session' = [session EXCEPT ![s].status = "PACKING_ACTIVE", ![s].itemsPacked = @ + 1]
      /\ caller' = [caller EXCEPT ![k] = Idle]
    BY DEF CountItem, Ends
<1>3. s \in Sessions /\ session[s] \in SessionRows
    BY <1>1, AtStage
<1>4. /\ session'[s].itemsPacked = session[s].itemsPacked + 1
      /\ \A t \in Sessions \ {s} : session'[t] = session[t]
    BY <1>1, <1>2, <1>3 DEF Typed, SessionRows
<1>5. /\ Empties(k) /\ caller'[k].stage = "idle"
      /\ \A j \in Callers \ {k} : caller'[j] = caller[j]
    BY <1>1, <1>2 DEF Typed, Idle, Empties
<1>6. ContentsKept /\ \A t : Of(t)' = Of(t)
    BY <1>2 DEF ContentsKept, ContainerIds, Of
<1>7. HandsOwn' /\ ItemsFresh' /\ HandsKnow'
    BY <1>1, <1>2, <1>5, <1>6, HandsKept DEF Tallied
<1>8. /\ Counting(s)' = Counting(s) \ {k} /\ k \in Counting(s)
      /\ \A t \in Sessions \ {s} : Counting(t)' = Counting(t)
    BY <1>2, <1>5 DEF Counting
<1>9. \A t \in Sessions : IsFiniteSet(Counting(t))
    BY DEF Tallied, CountingFew
<1>10. /\ IsFiniteSet(Counting(s)') /\ Cardinality(Counting(s)') = Cardinality(Counting(s)) - 1
    BY <1>3, <1>8, <1>9, FS_RemoveElement
<1>11. CountingFew'
    BY <1>8, <1>9, <1>10 DEF CountingFew
<1>12. ASSUME NEW t \in Sessions \ history'.cut PROVE AddsUp(t)'
    <2>1. AddsUp(t) /\ Scanned(t)' = Scanned(t)
        BY <1>2, <1>6, ScannedKept, EachAddsUp DEF Tallied
    <2>2. CASE t = s
        <3>1. SUFFICES ASSUME Of(s) \cap history.raced = {}
                       PROVE  Cardinality(Scanned(s)') =
                                session'[s].itemsPacked + Cardinality(Counting(s)')
            BY <1>2, <1>6, <2>2 DEF AddsUp
        <3>2. PICK a, b, n : /\ a = Cardinality(Scanned(s)) /\ b = Cardinality(Counting(s))
                             /\ n = session[s].itemsPacked
            OBVIOUS
        <3>3. a = n + b
            BY <2>1, <2>2, <3>1, <3>2 DEF AddsUp
        <3>4. b \in Nat /\ n \in Nat
            <4>1. IsFiniteSet(Counting(s))
                BY <1>3, <1>9
            <4> QED
                BY <1>3, <3>2, <4>1, FS_CardinalityType DEF SessionRows
        <3>5. /\ Cardinality(Scanned(s)') = a /\ Cardinality(Counting(s)') = b - 1
              /\ session'[s].itemsPacked = n + 1
            BY <1>4, <1>10, <2>1, <2>2, <3>2
        <3> QED
            BY <3>3, <3>4, <3>5
    <2>3. CASE t # s
        BY <1>2, <1>4, <1>6, <1>8, <2>1, <2>3 DEF AddsUp
    <2> QED
        BY <2>2, <2>3
<1> QED
    BY <1>7, <1>11, <1>12, EachAddsUp DEF Tallied

(* The other steps put no item anywhere, and only a cut one forgets an item    *)
(* about to be counted.                                                       *)
LEMMA RestTallies ==
    ASSUME IInv, Tallied,
           \/ \E s \in Sessions, station \in Stations : StartSession(s, station)
           \/ \E k \in Callers :
                 \/ Seal(k) \/ CountCarton(k) \/ NumberNext(k) \/ OpenNext(k)
                 \/ SealForClose(k) \/ CountSealed(k) \/ Complete(k) \/ Cut(k)
           \/ \E c \in ContainerIds : SealOnly(c)
           \/ UNCHANGED vars
    PROVE  Tallied'
<1>1. Typed /\ history \in Histories
    BY DEF IInv, Typed
<1>2. history'.raced = history.raced /\ history.cut \subseteq history'.cut
    BY <1>1 DEF StartSession, Seal, CountCarton, NumberNext, OpenNext, SealForClose, CountSealed,
                Complete, Cut, SealOnly, vars, Histories
<1>3. ContentsKept
    <2>1. CASE UNCHANGED containers
        BY <2>1 DEF ContentsKept, ContainerIds
    <2>2. ASSUME NEW c, containers' = [containers EXCEPT ![c].status = "SEALED"]
          PROVE  ContentsKept
        BY <1>1, <2>2, SealedOne DEF ContentsKept
    <2>3. ASSUME NEW s \in Sessions, NEW code \in Codes,
                 containers' = Append(containers, NewContainer(s, code))
          PROVE  ContentsKept
        <3>1. PICK n : n = Len(containers) + 1
            OBVIOUS
        <3>2. /\ ContainerIds' = ContainerIds \cup {n}
              /\ \A c \in ContainerIds : containers'[c] = containers[c]
              /\ containers'[n] = NewContainer(s, code)
            BY <1>1, <2>3, <3>1, Appended
        <3> QED
            BY <3>2 DEF ContentsKept, NewContainer
    <2>4. ASSUME NEW s \in Sessions, NEW station, StartSession(s, station) PROVE ContentsKept
        <3>1. <<s, 1>> \in Codes
            BY DEF Codes
        <3> QED
            BY <2>3, <2>4, <3>1 DEF StartSession
    <2>5. ASSUME NEW k \in Callers, OpenNext(k) PROVE ContentsKept
        <3>1. PICK s, code : s = caller[k].session /\ code = Code(s, caller[k].number)
            OBVIOUS
        <3>2. AtSession(k) /\ containers' = Append(containers, NewContainer(s, code))
            BY <2>5, <3>1 DEF OpenNext, AtSession
        <3>3. s \in Sessions /\ session[s].station \in Stations /\ caller[k].number \in Nat
            BY <3>1, <3>2, AtStage DEF Call
        <3>4. code \in Codes
            BY <3>1, <3>3 DEF Code, Codes
        <3> QED
            BY <2>3, <3>2, <3>3, <3>4
    <2>6. ASSUME NEW k \in Callers, Seal(k) \/ SealForClose(k) PROVE ContentsKept
        BY <2>2, <2>6 DEF Seal, SealForClose
    <2>7. ASSUME NEW c \in ContainerIds, SealOnly(c) PROVE ContentsKept
        BY <2>2, <2>7 DEF SealOnly
    <2>8. ASSUME NEW k \in Callers,
                 CountCarton(k) \/ NumberNext(k) \/ CountSealed(k) \/ Complete(k) \/ Cut(k)
          PROVE  UNCHANGED containers
        BY <2>8 DEF CountCarton, NumberNext, CountSealed, Complete, Cut
    <2>9. UNCHANGED vars => UNCHANGED containers
        BY DEF vars
    <2> QED
        BY <2>1, <2>4, <2>5, <2>6, <2>7, <2>8, <2>9
<1>4. \A s \in Sessions : session'[s].itemsPacked = session[s].itemsPacked
    <2>1. session \in [Sessions -> SessionRows]
        BY <1>1 DEF Typed
    <2>2. ASSUME NEW t \in Sessions, NEW station, StartSession(t, station)
          PROVE  \A s \in Sessions : session'[s].itemsPacked = session[s].itemsPacked
        BY <2>1, <2>2 DEF StartSession, SessionRows
    <2>3. ASSUME NEW k \in Callers, CountCarton(k)
          PROVE  \A s \in Sessions : session'[s].itemsPacked = session[s].itemsPacked
        BY <2>1, <2>3 DEF CountCarton, SessionRows
    <2>4. ASSUME NEW k \in Callers, Complete(k)
          PROVE  \A s \in Sessions : session'[s].itemsPacked = session[s].itemsPacked
        BY <2>1, <2>4 DEF Complete, SessionRows
    <2>5. ASSUME NEW k \in Callers,
                 \/ Seal(k) \/ NumberNext(k) \/ OpenNext(k) \/ SealForClose(k) \/ CountSealed(k)
                 \/ Cut(k)
          PROVE  UNCHANGED session
        BY <2>5 DEF Seal, NumberNext, OpenNext, SealForClose, CountSealed, Cut
    <2>6. ASSUME NEW c, SealOnly(c) PROVE UNCHANGED session
        BY <2>6 DEF SealOnly
    <2>7. UNCHANGED vars => UNCHANGED session
        BY DEF vars
    <2> QED
        BY <2>2, <2>3, <2>4, <2>5, <2>6, <2>7
<1>5. \A j \in Callers :
         \/ caller'[j] = caller[j]
         \/ /\ Empties(j) /\ caller'[j].stage # "count"
            /\ caller[j].stage = "count" => caller[j].session \in history'.cut
    <2>1. ASSUME NEW k \in Callers, Ends(k)
          PROVE  /\ Empties(k) /\ caller'[k].stage # "count"
                 /\ \A j \in Callers \ {k} : caller'[j] = caller[j]
        BY <1>1, <2>1 DEF Ends, Idle, Empties, Typed
    <2>2. ASSUME NEW k \in Callers, NEW stage \in CallStages, Goes(k, stage), ~ Holds(k),
                 stage \notin {"hold", "open", "lpn", "count"}
          PROVE  /\ Empties(k) /\ caller'[k].stage # "count"
                 /\ \A j \in Callers \ {k} : caller'[j] = caller[j]
        BY <1>1, <2>2 DEF Goes, Empties, Typed, Call, Holds
    <2>3. ASSUME NEW k \in Callers, Seal(k) \/ CountCarton(k)
          PROVE  /\ Empties(k) /\ caller'[k].stage # "count" /\ caller[k].stage # "count"
                 /\ \A j \in Callers \ {k} : caller'[j] = caller[j]
        <3>1. ~ Holds(k) /\ caller[k].stage # "count"
            BY <2>3 DEF Seal, CountCarton, Tallied, HandsOwn
        <3> QED
            BY <2>2, <2>3, <3>1 DEF Seal, CountCarton, CallStages
    <2>4. ASSUME NEW k \in Callers, NumberNext(k) \/ SealForClose(k) \/ CountSealed(k)
          PROVE  /\ Empties(k) /\ caller'[k].stage # "count" /\ caller[k].stage # "count"
                 /\ \A j \in Callers \ {k} : caller'[j] = caller[j]
        <3>1. ~ Holds(k) /\ caller[k].stage # "count"
            BY <2>4 DEF NumberNext, SealForClose, CountSealed, Tallied, HandsOwn
        <3>2. caller \in [Callers -> Call] /\ caller[k].item = 0
            BY <1>1, <3>1 DEF Typed, Holds
        <3>3. CASE NumberNext(k)
            BY <3>1, <3>2, <3>3 DEF NumberNext, Empties, Call
        <3>4. CASE SealForClose(k)
            BY <3>1, <3>2, <3>4 DEF SealForClose, Empties, Call
        <3>5. CASE CountSealed(k)
            BY <3>1, <3>2, <3>5 DEF CountSealed, Empties, Call
        <3> QED
            BY <2>4, <3>3, <3>4, <3>5
    <2>5. ASSUME NEW k \in Callers, OpenNext(k) \/ Complete(k)
          PROVE  Ends(k) /\ caller[k].stage # "count"
        BY <2>5 DEF OpenNext, Complete
    <2>6. ASSUME NEW k \in Callers, Cut(k)
          PROVE  Ends(k) /\ (caller[k].stage = "count" => caller[k].session \in history'.cut)
        <3>1. caller[k].stage = "count" => caller[k].session \in Sessions
            BY AtStage DEF AtSession
        <3>2. caller[k].stage = "count" => caller[k].session # NoSession
            BY <3>1, NoneAssumption
        <3> QED
            BY <1>1, <2>6, <3>2 DEF Cut, Histories
    <2>7. ASSUME UNCHANGED caller PROVE \A j \in Callers : caller'[j] = caller[j]
        BY <2>7
    <2> QED
        BY <2>1, <2>3, <2>4, <2>5, <2>6, <2>7 DEF StartSession, SealOnly, vars
<1> QED
    BY <1>1, <1>2, <1>3, <1>4, <1>5, QuietKeeps

LEMMA TalliedInitially == Init => Tallied
<1> SUFFICES ASSUME Init PROVE Tallied
    OBVIOUS
<1>1. ContainerIds = {}
    BY EmptySeq, LenProperties DEF Init, ContainerIds
<1>2. \A k \in Callers : caller[k].stage = "idle" /\ caller[k].item = 0
    BY DEF Init, Idle
<1>3. \A s \in Sessions : session[s].itemsPacked = 0 /\ Counting(s) = {} /\ Scanned(s) = {}
    BY <1>1, <1>2 DEF Init, NewSession, Counting, Scanned, Of
<1>4. Cardinality({}) = 0 /\ IsFiniteSet({})
    BY FS_EmptySet
<1>5. \A s \in Sessions : AddsUp(s)
    BY <1>3, <1>4 DEF AddsUp
<1>6. CountingFew /\ ItemsAddUp
    BY <1>3, <1>4, <1>5, EachAddsUp DEF CountingFew
<1> QED
    BY <1>2, <1>6 DEF Tallied, HandsOwn, ItemsFresh, HandsKnow, Holds

LEMMA TalliedInductive == IInv /\ Tallied /\ [Next]_vars => Tallied'
<1> SUFFICES ASSUME IInv, Tallied, [Next]_vars PROVE Tallied'
    OBVIOUS
<1>1. Typed
    BY DEF IInv
<1>2. ASSUME NEW k \in Callers,
             \/ \E s \in Sessions : LookForScan(k, s) \/ LookForClose(k, s)
             \/ \E c \in ContainerIds : LookForSeal(k, c) \/ LookForLpn(k, c)
      PROVE  Tallied'
    BY <1>1, <1>2, LookTallies
<1>3. ASSUME NEW k \in Callers, OpenForScan(k) PROVE Tallied'
    BY <1>3, OpenTallies
<1>4. ASSUME NEW k \in Callers, WriteContents(k) PROVE Tallied'
    BY <1>4, ContentsTallied
<1>5. ASSUME NEW k \in Callers, CountItem(k) PROVE Tallied'
    BY <1>5, CountTallies
<1>6. ASSUME NEW k \in Callers, AttachLpn(k) PROVE Tallied'
    BY <1>1, <1>6, AttachTallied
<1> QED
    BY <1>2, <1>3, <1>4, <1>5, <1>6, RestTallies DEF Next, CallerStep

(* A session has counted the items that are in its containers, those apart     *)
(* whose call is about to count them, unless two calls held the contents of    *)
(* one container at once or a call was cut (packing.service.ts:87-110).        *)
THEOREM CountsAddUp == Spec => []ItemsAddUp
<1>1. Tallied => ItemsAddUp
    BY DEF Tallied
<1> QED
    BY <1>1, Invariance, TalliedInitially, TalliedInductive, PTL DEF Spec
================================================================================
