----------------------------- MODULE LpnHierarchyProofs -----------------------------
(***************************************************************************)
(* For any number of packages, desks and calls: no package gets inside      *)
(* itself, and NESTED packages are exactly those inside another, until two  *)
(* nestings overlap or a status is given regardless.                        *)
(*                                                                         *)
(* The inductive invariant says why, and it is not the walk: a desk that is *)
(* nesting holds on to a parent that was at the root when it was read, and  *)
(* only another nesting, or a status given regardless, could have put that  *)
(* parent inside something since.  The walk adds that the package and its   *)
(* parent are not the same.                                                 *)
(***************************************************************************)
EXTENDS LpnHierarchy, TLAPS

Sound ==
    /\ status \in [Lpns -> Statuses \cup {"ABSENT"}]
    /\ parent \in [Lpns -> Lpns \cup {NoLpn}]
    /\ desk \in [Desks -> Calls \cup {Idle}]
    /\ overlapped \in BOOLEAN /\ relabelled \in BOOLEAN

(* Unless nestings overlapped, one desk at most is nesting. *)
OneNesting ==
    overlapped \/ \A d, e \in Nesting : d = e

(* The parent a desk has read is still at the root. *)
ParentAtRoot ==
    \/ overlapped \/ relabelled
    \/ \A d \in Nesting : parent[desk[d].parent] = NoLpn

(* The walk has told the package from its parent. *)
WalkTells == \A d \in Desks : desk[d].stage = "walked" => desk[d].child # desk[d].parent

IInv ==
    /\ Sound
    /\ NestedIsInside
    /\ NoneInsideItself
    /\ OneNesting
    /\ ParentAtRoot
    /\ WalkTells

--------------------------------------------------------------------------------
(* The first package of a walk is where it starts. *)
LEMMA WalkStarts ==
    ASSUME Sound, NEW p \in Lpns
    PROVE  Inside(p, p)
<1>1. Walk(p)[1] = p
    BY DEF Walk
<1>2. 1 \in 1 .. MaxNestingDepth + 1
    BY DEF MaxNestingDepth
<1>3. p # NoLpn
    BY NoLpnAssumption
<1> QED
    BY <1>1, <1>2, <1>3 DEF Inside, Walked

(* Putting a package into another that is at the root closes no cycle. *)
LEMMA RootClosesNoCycle ==
    ASSUME Sound, Acyclic,
           NEW child \in Lpns, NEW container \in Lpns,
           child # container, parent[container] = NoLpn,
           parent' = [parent EXCEPT ![child] = container]
    PROVE  Acyclic'
<1> SUFFICES ASSUME NEW S \in SUBSET Lpns, S # {}
             PROVE  \E p \in S : parent'[p] \notin S
    BY DEF Acyclic
<1>1. CASE container \in S
    <2>1. parent'[container] = NoLpn
        BY DEF Sound
    <2> QED
        BY <1>1, <2>1, NoLpnAssumption
<1>2. CASE container \notin S
    <2>1. PICK p \in S : parent[p] \notin S
        BY DEF Acyclic
    <2>2. parent'[p] \notin S
        BY <1>2, <2>1 DEF Sound
    <2> QED
        BY <2>2
<1> QED
    BY <1>1, <1>2

(* Taking a package out closes no cycle either. *)
LEMMA RootingClosesNoCycle ==
    ASSUME Sound, Acyclic, NEW child \in Lpns,
           parent' = [parent EXCEPT ![child] = NoLpn]
    PROVE  Acyclic'
<1> SUFFICES ASSUME NEW S \in SUBSET Lpns, S # {}
             PROVE  \E p \in S : parent'[p] \notin S
    BY DEF Acyclic
<1>1. PICK p \in S : parent[p] \notin S
    BY DEF Acyclic
<1>2. parent'[p] \notin S
    BY <1>1, NoLpnAssumption DEF Sound
<1> QED
    BY <1>2

--------------------------------------------------------------------------------
LEMMA Initially == Init => IInv
<1> SUFFICES ASSUME Init PROVE IInv
    OBVIOUS
<1>1. Sound
    BY DEF Init, Sound
<1>2. NestedIsInside
    BY DEF Init, NestedIsInside
<1>3. NoneInsideItself
    BY NoLpnAssumption DEF Init, NoneInsideItself, Acyclic
<1>4. Nesting = {} /\ WalkTells
    BY DEF Init, Nesting, Idle, WalkTells
<1> QED
    BY <1>1, <1>2, <1>3, <1>4 DEF IInv, OneNesting, ParentAtRoot

(* What a call in hand is about. *)
LEMMA CallInHand ==
    ASSUME Sound, NEW d \in Desks
    PROVE  /\ desk[d].stage \in {"nest", "walked"} =>
                  desk[d].child \in Lpns /\ desk[d].parent \in Lpns
           /\ desk[d].stage \in {"unnest", "delete"} => desk[d].child \in Lpns
           /\ desk[d].stage \in {"idle", "nest", "walked", "unnest", "delete"}
BY DEF Sound, Calls, Idle

(* A desk that ends its call, or has none to do with a nesting, leaves the    *)
(* nestings in hand as they are, or one fewer.                                *)
LEMMA FewerNestings ==
    ASSUME IInv, NEW d \in Desks, NEW call, call.stage \notin {"nest", "walked"},
           desk' = [desk EXCEPT ![d] = call],
           overlapped' = overlapped
    PROVE  /\ Nesting' \subseteq Nesting
           /\ \A e \in Nesting' : desk'[e] = desk[e]
           /\ OneNesting' /\ WalkTells'
<1>1. \A e \in Desks : desk'[e] = IF e = d THEN call ELSE desk[e]
    BY DEF IInv, Sound
<1>2. Nesting' \subseteq Nesting /\ \A e \in Nesting' : desk'[e] = desk[e]
    BY <1>1 DEF Nesting
<1>3. OneNesting'
    BY <1>2 DEF OneNesting, IInv
<1>4. WalkTells'
    BY <1>1 DEF WalkTells, IInv
<1> QED
    BY <1>2, <1>3, <1>4

(* Calls that change no package. *)
LEMMA QuietStep ==
    ASSUME IInv, NEW d \in Desks, NEW call \in Calls \cup {Idle},
           call.stage \notin {"nest", "walked"},
           desk' = [desk EXCEPT ![d] = call],
           UNCHANGED <<status, parent, overlapped, relabelled>>
    PROVE  IInv'
<1>1. Sound'
    BY DEF IInv, Sound
<1>2. OneNesting' /\ WalkTells' /\ Nesting' \subseteq Nesting /\ \A e \in Nesting' : desk'[e] = desk[e]
    BY FewerNestings
<1>3. ParentAtRoot'
    BY <1>2 DEF ParentAtRoot, IInv
<1>4. NestedIsInside' /\ NoneInsideItself'
    BY DEF IInv, NestedIsInside, NoneInsideItself, Acyclic, Exists
<1> QED
    BY <1>1, <1>2, <1>3, <1>4 DEF IInv

(* A package that leaves its container, or goes altogether. *)
LEMMA RootingStep ==
    ASSUME IInv, NEW d \in Desks, NEW p \in Lpns, NEW new \in {"STORED", "ABSENT"},
           Exists(p), new = "ABSENT" => Children(p) = {},
           parent' = [parent EXCEPT ![p] = NoLpn],
           status' = [status EXCEPT ![p] = new],
           desk' = [desk EXCEPT ![d] = Idle],
           UNCHANGED <<overlapped, relabelled>>
    PROVE  IInv'
<1>1. Sound /\ Sound'
    BY DEF IInv, Sound, Statuses
<1>2. OneNesting' /\ WalkTells' /\ Nesting' \subseteq Nesting /\ \A e \in Nesting' : desk'[e] = desk[e]
    BY FewerNestings DEF Idle
<1>3. ParentAtRoot'
    BY <1>1, <1>2, CallInHand DEF ParentAtRoot, IInv, Sound, Nesting
<1>4. NoneInsideItself'
    BY <1>1, RootingClosesNoCycle DEF IInv, NoneInsideItself
<1>5. NestedIsInside'
    <2> SUFFICES ASSUME ~relabelled, NEW q \in Lpns
                 PROVE  /\ status'[q] = "NESTED" <=> parent'[q] # NoLpn
                        /\ parent'[q] # NoLpn => Exists(parent[q])' 
        BY DEF NestedIsInside
    <2>1. /\ status[q] = "NESTED" <=> parent[q] # NoLpn
          /\ parent[q] # NoLpn => Exists(parent[q])
        BY DEF IInv, NestedIsInside
    <2>2. CASE q = p
        BY <1>1, <2>2 DEF Sound
    <2>3. CASE q # p
        <3>1. parent'[q] = parent[q] /\ status'[q] = status[q]
            BY <1>1, <2>3 DEF Sound
        <3>2. parent[q] # NoLpn => status'[parent[q]] # "ABSENT"
            BY <1>1, <2>1, <3>1 DEF Sound, Exists, Children
        <3> QED
            BY <2>1, <3>1, <3>2 DEF Exists
    <2> QED
        BY <2>2, <2>3
<1> QED
    BY <1>1, <1>2, <1>3, <1>4, <1>5 DEF IInv

(* A status given to a package that exists. *)
LEMMA RelabelStep ==
    ASSUME IInv, NEW p \in Lpns, NEW new \in Statuses, Relabel(p, new)
    PROVE  IInv'
<1>1. Sound /\ Sound'
    BY DEF Relabel, IInv, Sound
<1>2. NoneInsideItself' /\ OneNesting' /\ ParentAtRoot' /\ WalkTells'
    BY DEF Relabel, IInv, NoneInsideItself, Acyclic, OneNesting, ParentAtRoot, WalkTells, Nesting
<1>3. NestedIsInside'
    <2> SUFFICES ASSUME ~relabelled', NEW q \in Lpns
                 PROVE  /\ status'[q] = "NESTED" <=> parent[q] # NoLpn
                        /\ parent[q] # NoLpn => status'[parent[q]] # "ABSENT"
        BY DEF NestedIsInside, Relabel, Exists
    <2>1. ~relabelled /\ ((new = "NESTED") <=> (parent[p] # NoLpn))
        BY <1>1 DEF Relabel, Sound
    <2>2. /\ status[q] = "NESTED" <=> parent[q] # NoLpn
          /\ parent[q] # NoLpn => Exists(parent[q])
        BY <2>1 DEF IInv, NestedIsInside
    <2>3. \A r \in Lpns : status'[r] = IF r = p THEN new ELSE status[r]
        BY <1>1 DEF Relabel, Sound
    <2>4. parent[q] \in Lpns \cup {NoLpn} /\ new # "ABSENT"
        BY <1>1 DEF Sound, Statuses
    <2> QED
        BY <2>1, <2>2, <2>3, <2>4 DEF Exists
<1> QED
    BY <1>1, <1>2, <1>3 DEF IInv

LEMMA CreateStep ==
    ASSUME IInv, NEW p \in Lpns, Create(p)
    PROVE  IInv'
<1>1. Sound /\ Sound'
    BY DEF Create, IInv, Sound, Statuses
<1>2. NoneInsideItself' /\ OneNesting' /\ ParentAtRoot' /\ WalkTells'
    BY DEF Create, IInv, NoneInsideItself, Acyclic, OneNesting, ParentAtRoot, WalkTells, Nesting
<1>3. NestedIsInside'
    BY <1>1 DEF Create, IInv, Sound, NestedIsInside, Exists
<1> QED
    BY <1>1, <1>2, <1>3 DEF IInv

LEMMA StartNestStep ==
    ASSUME IInv, NEW d \in Desks, NEW p \in Lpns, NEW q \in Lpns, StartNest(d, p, q)
    PROVE  IInv'
<1> DEFINE call == [stage |-> "nest", child |-> p, parent |-> q]
<1>1. Sound /\ Sound'
    BY DEF StartNest, IInv, Sound, Calls
<1>2. \A e \in Desks : desk'[e] = IF e = d THEN call ELSE desk[e]
    BY <1>1 DEF StartNest, Sound
<1>3. Nesting' = Nesting \cup {d}
    BY <1>2 DEF Nesting
<1>4. OneNesting' /\ WalkTells'
    BY <1>1, <1>2, <1>3 DEF StartNest, OneNesting, WalkTells, IInv, Nesting, Sound
<1>5. ParentAtRoot'
    <2> SUFFICES ASSUME ~overlapped', ~relabelled'
                 PROVE  \A e \in Nesting' : parent'[desk'[e].parent] = NoLpn
        BY DEF ParentAtRoot
    <2>1. Nesting = {} /\ ~relabelled
        BY <1>1 DEF StartNest, Sound
    <2>2. status[q] # "NESTED"
        BY DEF StartNest, DockParents, WarehouseParents
    <2>3. parent[q] = NoLpn
        BY <2>1, <2>2 DEF IInv, NestedIsInside
    <2> QED
        BY <1>2, <1>3, <2>1, <2>3 DEF StartNest
<1>6. NestedIsInside' /\ NoneInsideItself'
    BY <1>1 DEF StartNest, IInv, NestedIsInside, NoneInsideItself, Acyclic, Exists, Sound
<1> QED
    BY <1>1, <1>4, <1>5, <1>6 DEF IInv

LEMMA WalkUpStep ==
    ASSUME IInv, NEW d \in Desks, WalkUp(d)
    PROVE  IInv'
<1>1. Sound /\ desk[d].stage = "nest" /\ desk[d] \in Calls
    BY DEF WalkUp, IInv, Sound, Idle
<1>2. desk[d].child \in Lpns /\ desk[d].parent \in Lpns
    BY <1>1, CallInHand
<1>3. desk[d].child # desk[d].parent
    BY <1>1, <1>2, WalkStarts DEF WalkUp
<1> DEFINE call == [desk[d] EXCEPT !.stage = "walked"]
<1>4. call \in Calls /\ call.child = desk[d].child /\ call.parent = desk[d].parent
      /\ call.stage = "walked"
    BY <1>1 DEF Calls
<1>5. \A e \in Desks : desk'[e] = IF e = d THEN call ELSE desk[e]
    BY <1>1 DEF WalkUp, Sound
<1>6. Sound'
    BY <1>1, <1>4, <1>5 DEF WalkUp, Sound
<1>7. Nesting' = Nesting
    BY <1>1, <1>4, <1>5 DEF Nesting
<1>8. OneNesting' /\ ParentAtRoot'
    BY <1>4, <1>5, <1>7 DEF WalkUp, OneNesting, ParentAtRoot, IInv, Nesting
<1>9. WalkTells'
    BY <1>3, <1>4, <1>5 DEF WalkTells, IInv
<1>10. NestedIsInside' /\ NoneInsideItself'
    BY DEF WalkUp, IInv, NestedIsInside, NoneInsideItself, Acyclic, Exists
<1> QED
    BY <1>6, <1>8, <1>9, <1>10 DEF IInv

LEMMA CommitNestStep ==
    ASSUME IInv, NEW d \in Desks, CommitNest(d)
    PROVE  IInv'
<1> DEFINE p == desk[d].child
           q == desk[d].parent
<1>1. Sound /\ d \in Nesting /\ p \in Lpns /\ q \in Lpns /\ p # q
    BY CallInHand DEF CommitNest, IInv, Nesting, WalkTells
<1>2. Sound'
    BY <1>1 DEF CommitNest, Sound, Statuses
<1>3. OneNesting' /\ WalkTells' /\ Nesting' \subseteq Nesting /\ \A e \in Nesting' : desk'[e] = desk[e]
    BY FewerNestings DEF CommitNest, Idle
<1>4. d \notin Nesting'
    BY <1>1 DEF CommitNest, Nesting, Idle, Sound
<1>5. ParentAtRoot'
    BY <1>1, <1>3, <1>4 DEF OneNesting, ParentAtRoot, IInv, CommitNest
<1>6. NoneInsideItself'
    <2> SUFFICES ASSUME ~overlapped, ~relabelled PROVE Acyclic'
        BY DEF NoneInsideItself, CommitNest
    <2>1. parent[q] = NoLpn /\ Acyclic
        BY <1>1 DEF IInv, ParentAtRoot, NoneInsideItself
    <2> QED
        BY <1>1, <2>1, RootClosesNoCycle DEF CommitNest
<1>7. NestedIsInside'
    <2> SUFFICES ASSUME ~relabelled, NEW r \in Lpns
                 PROVE  /\ status'[r] = "NESTED" <=> parent'[r] # NoLpn
                        /\ parent'[r] # NoLpn => status'[parent'[r]] # "ABSENT"
        BY DEF NestedIsInside, CommitNest, Exists
    <2>1. \A s \in Lpns : /\ status'[s] = IF s = p THEN "NESTED" ELSE status[s]
                          /\ parent'[s] = IF s = p THEN q ELSE parent[s]
        BY <1>1 DEF CommitNest, Sound
    <2>2. /\ status[r] = "NESTED" <=> parent[r] # NoLpn
          /\ parent[r] # NoLpn => Exists(parent[r])
        BY DEF IInv, NestedIsInside
    <2>3. parent[r] \in Lpns \cup {NoLpn} /\ q # NoLpn /\ status[q] # "ABSENT"
        BY <1>1, NoLpnAssumption DEF Sound, CommitNest, Exists
    <2> QED
        BY <1>1, <2>1, <2>2, <2>3 DEF Exists
<1> QED
    BY <1>2, <1>3, <1>5, <1>6, <1>7 DEF IInv

--------------------------------------------------------------------------------
LEMMA IInvInductive == IInv /\ [Next]_vars => IInv'
<1> SUFFICES ASSUME IInv, [Next]_vars PROVE IInv'
    OBVIOUS
<1>1. CASE UNCHANGED vars
    BY <1>1 DEF vars, IInv, Sound, NestedIsInside, NoneInsideItself, Acyclic, Exists, OneNesting,
                ParentAtRoot, WalkTells, Nesting
<1>2. ASSUME NEW p \in Lpns, Create(p) PROVE IInv'
    BY <1>2, CreateStep
<1>3. ASSUME NEW p \in Lpns, NEW new \in Statuses, Relabel(p, new) PROVE IInv'
    BY <1>3, RelabelStep
<1>4. ASSUME NEW d \in Desks, DeskStep(d) PROVE IInv'
    <2>1. ASSUME NEW p \in Lpns, NEW q \in Lpns, StartNest(d, p, q) PROVE IInv'
        BY <2>1, StartNestStep
    <2>2. CASE WalkUp(d)
        BY <2>2, WalkUpStep
    <2>3. CASE CommitNest(d)
        BY <2>3, CommitNestStep
    <2>4. ASSUME NEW p \in Lpns, StartUnnest(d, p) \/ StartDelete(d, p) PROVE IInv'
        <3>1. PICK stage \in {"unnest", "delete"} :
                desk' = [desk EXCEPT ![d] = [stage |-> stage, child |-> p, parent |-> NoLpn]]
            BY <2>4 DEF StartUnnest, StartDelete
        <3> DEFINE call == [stage |-> stage, child |-> p, parent |-> NoLpn]
        <3>2. call \in Calls /\ call.stage \notin {"nest", "walked"}
            BY DEF Calls
        <3>3. UNCHANGED <<status, parent, overlapped, relabelled>>
            BY <2>4 DEF StartUnnest, StartDelete
        <3> HIDE DEF call
        <3> QED
            BY <3>1, <3>2, <3>3, QuietStep DEF call
    <2>5. CASE CommitUnnest(d)
        <3>1. desk[d].child \in Lpns
            BY <2>5, CallInHand DEF CommitUnnest, IInv
        <3> QED
            BY <2>5, <3>1, RootingStep DEF CommitUnnest
    <2>6. CASE CommitDelete(d)
        <3>1. desk[d].child \in Lpns
            BY <2>6, CallInHand DEF CommitDelete, IInv
        <3> QED
            BY <2>6, <3>1, RootingStep DEF CommitDelete, Restricted
    <2>7. CASE GiveUp(d)
        BY <2>7, QuietStep DEF GiveUp, Idle
    <2> QED
        BY <1>4, <2>1, <2>2, <2>3, <2>4, <2>5, <2>6, <2>7 DEF DeskStep
<1> QED
    BY <1>1, <1>2, <1>3, <1>4 DEF Next

(* No package is ever inside itself, however many packages and desks there    *)
(* are and however their calls interleave, unless two nestings overlapped or  *)
(* a status was given regardless of the parent.                               *)
THEOREM NeverInsideItself == Spec => []NoneInsideItself
<1>1. IInv => NoneInsideItself
    BY DEF IInv
<1> QED
    BY <1>1, Initially, IInvInductive, PTL DEF Spec

(* NESTED packages are exactly those inside a package that exists, until a    *)
(* status is given regardless of the parent.                                  *)
THEOREM MarkedAsNested == Spec => []NestedIsInside
<1>1. IInv => NestedIsInside
    BY DEF IInv
<1> QED
    BY <1>1, Initially, IInvInductive, PTL DEF Spec

(* At every commit of a nesting the new parent is at the root of its tree,    *)
(* unless nestings overlapped or a status was given regardless.               *)
THEOREM ParentsAreRoots == Spec => OnlyRootsTakeIn
<1> DEFINE Grows ==
      \A p \in Lpns :
          parent'[p] \notin {NoLpn, parent[p]} =>
              parent[parent'[p]] = NoLpn \/ overlapped \/ relabelled
<1>1. IInv /\ [Next]_vars => [Grows]_vars
    <2> SUFFICES ASSUME IInv, Next, NEW p \in Lpns, parent'[p] \notin {NoLpn, parent[p]}
                 PROVE  parent[parent'[p]] = NoLpn \/ overlapped \/ relabelled
        OBVIOUS
    <2>1. PICK d \in Desks : CommitNest(d) \/ CommitUnnest(d) \/ CommitDelete(d)
        BY DEF Next, DeskStep, Create, Relabel, StartNest, WalkUp, StartUnnest, StartDelete, GiveUp
    <2>2. Sound
        BY DEF IInv
    <2>3. CommitNest(d)
        BY <2>1, <2>2, CallInHand DEF CommitUnnest, CommitDelete, Sound
    <2>4. parent'[p] = desk[d].parent /\ d \in Nesting
        BY <2>2, <2>3 DEF CommitNest, Sound, Nesting
    <2> QED
        BY <2>4 DEF IInv, ParentAtRoot
<1> QED
    BY <1>1, Initially, IInvInductive, PTL DEF Spec, OnlyRootsTakeIn
--------------------------------------------------------------------------------
(* What a desk is about to nest fits its container. *)
Fits == \A d \in Nesting : Rank[desk[d].parent] >= Rank[desk[d].child]

(* For any number of packages and any ranks, the variables keep their types   *)
(* and a package is only inside one of the same or a larger type.             *)
THEOREM TypeCorrect == Spec => []TypeOK
<1> DEFINE TInv == TypeOK /\ Fits
<1>1. Init => TInv
    <2> SUFFICES ASSUME Init PROVE TInv
        OBVIOUS
    <2>1. Nesting = {}
        BY DEF Init, Nesting, Idle
    <2>2. \A p \in Lpns : parent[p] = NoLpn
        BY DEF Init
    <2>3. calls \in 0 .. MaxCalls
        BY CallAssumption DEF Init
    <2>4. Sound
        BY Initially DEF IInv
    <2>5. TypeOK
        BY <2>2, <2>3, <2>4 DEF TypeOK, Sound
    <2> QED
        BY <2>1, <2>5 DEF Fits
<1>2. TInv /\ [Next]_vars => TInv'
    <2> SUFFICES ASSUME TInv, [Next]_vars PROVE TInv'
        OBVIOUS
    <2>1. Sound
        BY DEF TypeOK, Sound
    <2> USE CallAssumption
    <2>2. CASE UNCHANGED vars
        BY <2>2 DEF vars, TypeOK, Fits, Nesting
    <2>3. ASSUME NEW p \in Lpns, Create(p) PROVE TInv'
        BY <2>3 DEF Create, TypeOK, Fits, Nesting, Statuses
    <2>4. ASSUME NEW p \in Lpns, NEW new \in Statuses, Relabel(p, new) PROVE TInv'
        BY <2>4 DEF Relabel, Started, TypeOK, Fits, Nesting
    <2>5. ASSUME NEW d \in Desks, DeskStep(d) PROVE TInv'
        <3>1. ASSUME NEW p \in Lpns, NEW q \in Lpns, StartNest(d, p, q) PROVE TInv'
            BY <3>1 DEF StartNest, Started, TypeOK, Fits, Nesting, Calls, Holds
        <3>2. CASE WalkUp(d)
            BY <3>2, <2>1, CallInHand DEF WalkUp, TypeOK, Fits, Nesting, Calls, Idle
        <3>3. CASE CommitNest(d)
            <4>1. desk[d].child \in Lpns /\ desk[d].parent \in Lpns
                BY <3>3, <2>1, CallInHand DEF CommitNest
            <4>2. Rank[desk[d].parent] >= Rank[desk[d].child]
                BY <3>3 DEF CommitNest, Fits, Nesting
            <4> QED
                BY <3>3, <4>1, <4>2 DEF CommitNest, TypeOK, Fits, Nesting, Idle, Statuses
        <3>4. ASSUME NEW p \in Lpns, StartUnnest(d, p) \/ StartDelete(d, p) PROVE TInv'
            BY <3>4 DEF StartUnnest, StartDelete, Started, TypeOK, Fits, Nesting, Calls
        <3>5. CASE CommitUnnest(d) \/ CommitDelete(d)
            <4>1. desk[d].child \in Lpns
                BY <3>5, <2>1, CallInHand DEF CommitUnnest, CommitDelete
            <4> QED
                BY <3>5, <4>1, NoLpnAssumption
                   DEF CommitUnnest, CommitDelete, TypeOK, Fits, Nesting, Idle, Statuses
        <3>6. CASE GiveUp(d)
            BY <3>6 DEF GiveUp, TypeOK, Fits, Nesting, Idle
        <3> QED
            BY <2>5, <3>1, <3>2, <3>3, <3>4, <3>5, <3>6 DEF DeskStep
    <2> QED
        BY <2>2, <2>3, <2>4, <2>5 DEF Next
<1>3. TInv => TypeOK
    OBVIOUS
<1> QED
    BY <1>1, <1>2, <1>3, PTL DEF Spec
================================================================================
