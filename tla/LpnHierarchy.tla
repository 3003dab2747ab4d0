-------------------------------- MODULE LpnHierarchy --------------------------------
(***************************************************************************)
(* Packages inside packages: nestLpn of the dock (src/src/inbound/          *)
(* lpn.service.ts) and of the warehouse (src/src/warehouse/lpn/             *)
(* lpn.service.ts), unnestLpn, update, create and delete, and the services  *)
(* that give a package a new status without looking at its parent: scans,   *)
(* putaway, quality control, picking.                                       *)
(*                                                                         *)
(* nestLpn is a transaction of three reads and a write under READ           *)
(* COMMITTED: it reads child and parent, walks up from the child, and       *)
(* writes the child.  The walk is meant to find a cycle, but it is the      *)
(* parent's ancestors that would have to be walked; what keeps packages out *)
(* of themselves is that a NESTED package may not become a parent.          *)
(*                                                                         *)
(* HoldsAnything, InsideAbove, AnyParents and Unrestricted are defective    *)
(* variants of definitions that follow them.                                *)
(***************************************************************************)
EXTENDS Integers, FiniteSets

CONSTANTS
    Lpns,         \* packages that may exist
    Rank,         \* LPN_TYPE_RANK of their types
    Desks,        \* callers of the LPN services
    MaxCalls,     \* bound: calls started and statuses given
    NoLpn

ASSUME RankAssumption == Rank \in [Lpns -> Nat]
ASSUME CallAssumption == MaxCalls \in Nat
ASSUME NoLpnAssumption == NoLpn \notin Lpns

VARIABLES
    status,       \* license_plate_numbers.status, ABSENT if there is no row
    parent,       \* license_plate_numbers.parent_lpn_id
    desk,         \* the call every desk has in hand
    calls,        \* calls started and statuses given so far
    overlapped,   \* history: two nestings were in progress at once
    relabelled    \* history: a status was given regardless of the parent

vars == <<status, parent, desk, calls, overlapped, relabelled>>

--------------------------------------------------------------------------------
(* OTHER stands for the statuses that no guard here names. *)
Statuses == {"RECEIVED", "IN_STAGING", "STORED", "NESTED", "OTHER"}

(* Packages of these statuses may take others in. *)
DockParents == {"RECEIVED", "IN_STAGING"}
AnyParents == Statuses
WarehouseParents == {"RECEIVED", "IN_STAGING", "STORED"}

HoldsAnything(container, child) == TRUE
Holds(container, child) == Rank[container] >= Rank[child]

MaxNestingDepth == 3

Idle == [stage |-> "idle", child |-> NoLpn, parent |-> NoLpn]

Exists(p) == status[p] # "ABSENT"
Children(p) == {q \in Lpns : parent[q] = p}
Unrestricted(p) == FALSE
Restricted(p) == Children(p) # {}
Nesting == {d \in Desks : desk[d].stage \in {"nest", "walked"}}

(* The walk: the child, its parent, and so on, one more than MaxNestingDepth *)
(* rows at most, so that a cycle among them ends it as well.                  *)
Up(p) == IF p = NoLpn THEN NoLpn ELSE parent[p]
Walk(p) == <<p, Up(p), Up(Up(p)), Up(Up(Up(p)))>>
Walked(p) == {Walk(p)[depth] : depth \in 1 .. MaxNestingDepth + 1} \ {NoLpn}
InsideAbove(p, q) == q \in Walked(p) \ {p}
Inside(p, q) == q \in Walked(p)
DepthReached(p) == Cardinality({depth \in 1 .. MaxNestingDepth + 1 : Walk(p)[depth] # NoLpn})

Init ==
    /\ status = [p \in Lpns |-> "ABSENT"]
    /\ parent = [p \in Lpns |-> NoLpn]
    /\ desk = [d \in Desks |-> Idle]
    /\ calls = 0
    /\ overlapped = FALSE
    /\ relabelled = FALSE

Started == calls < MaxCalls /\ calls' = calls + 1

--------------------------------------------------------------------------------
Create(p) ==
    /\ ~Exists(p)
    /\ status' = [status EXCEPT ![p] = "RECEIVED"]
    /\ UNCHANGED <<parent, desk, calls, overlapped, relabelled>>

(* The reads of child and parent; the child's own status is not asked for. *)
StartNest(d, child, container) ==
    /\ Started
    /\ desk[d] = Idle
    /\ Exists(child)
    /\ \E validParentStatuses \in {DockParents, WarehouseParents} :
          status[container] \in validParentStatuses
    /\ Holds(container, child)
    /\ desk' = [desk EXCEPT ![d] = [stage |-> "nest", child |-> child, parent |-> container]]
    /\ overlapped' = (overlapped \/ Nesting # {})
    /\ UNCHANGED <<status, parent, relabelled>>

(* The walk finds neither the parent above the child nor too many ancestors. *)
WalkUp(d) ==
    /\ desk[d].stage = "nest"
    /\ ~Inside(desk[d].child, desk[d].parent)
    /\ DepthReached(desk[d].child) < MaxNestingDepth
    /\ desk' = [desk EXCEPT ![d].stage = "walked"]
    /\ UNCHANGED <<status, parent, calls, overlapped, relabelled>>

(* The update of the child; a foreign key holds the parent. *)
CommitNest(d) ==
    /\ desk[d].stage = "walked"
    /\ Exists(desk[d].child) /\ Exists(desk[d].parent)
    /\ parent' = [parent EXCEPT ![desk[d].child] = desk[d].parent]
    /\ status' = [status EXCEPT ![desk[d].child] = "NESTED"]
    /\ desk' = [desk EXCEPT ![d] = Idle]
    /\ UNCHANGED <<calls, overlapped, relabelled>>

(* unnestLpn finds the package NESTED ... *)
StartUnnest(d, p) ==
    /\ Started
    /\ desk[d] = Idle
    /\ status[p] = "NESTED"
    /\ desk' = [desk EXCEPT ![d] = [stage |-> "unnest", child |-> p, parent |-> NoLpn]]
    /\ UNCHANGED <<status, parent, overlapped, relabelled>>

(* ... and takes it out of whatever it is in by then. *)
CommitUnnest(d) ==
    /\ desk[d].stage = "unnest"
    /\ Exists(desk[d].child)
    /\ parent' = [parent EXCEPT ![desk[d].child] = NoLpn]
    /\ status' = [status EXCEPT ![desk[d].child] = "STORED"]
    /\ desk' = [desk EXCEPT ![d] = Idle]
    /\ UNCHANGED <<calls, overlapped, relabelled>>

(* delete counts the children ... *)
StartDelete(d, p) ==
    /\ Started
    /\ desk[d] = Idle
    /\ Exists(p)
    /\ ~Restricted(p)
    /\ desk' = [desk EXCEPT ![d] = [stage |-> "delete", child |-> p, parent |-> NoLpn]]
    /\ UNCHANGED <<status, parent, overlapped, relabelled>>

(* ... and removes the row, which the foreign key of a child restricts. *)
CommitDelete(d) ==
    /\ desk[d].stage = "delete"
    /\ Exists(desk[d].child)
    /\ ~Restricted(desk[d].child)
    /\ status' = [status EXCEPT ![desk[d].child] = "ABSENT"]
    /\ parent' = [parent EXCEPT ![desk[d].child] = NoLpn]
    /\ desk' = [desk EXCEPT ![d] = Idle]
    /\ UNCHANGED <<calls, overlapped, relabelled>>

(* A check refuses the call, a statement fails, or the node does. *)
GiveUp(d) ==
    /\ desk[d] # Idle
    /\ desk' = [desk EXCEPT ![d] = Idle]
    /\ UNCHANGED <<status, parent, calls, overlapped, relabelled>>

(* A scan, a putaway, a disposition, a pick or the office gives a status. *)
Relabel(p, new) ==
    /\ Started
    /\ Exists(p)
    /\ status' = [status EXCEPT ![p] = new]
    /\ relabelled' = (relabelled \/ (new = "NESTED") # (parent[p] # NoLpn))
    /\ UNCHANGED <<parent, desk, overlapped>>

--------------------------------------------------------------------------------
DeskStep(d) ==
    \/ \E p, q \in Lpns : StartNest(d, p, q)
    \/ WalkUp(d) \/ CommitNest(d)
    \/ \E p \in Lpns : StartUnnest(d, p) \/ StartDelete(d, p)
    \/ CommitUnnest(d) \/ CommitDelete(d)
    \/ GiveUp(d)

Next ==
    \/ \E p \in Lpns : Create(p)
    \/ \E p \in Lpns, new \in Statuses : Relabel(p, new)
    \/ \E d \in Desks : DeskStep(d)

Spec == Init /\ [][Next]_vars

--------------------------------------------------------------------------------
Calls ==
    [stage: {"nest", "walked"}, child: Lpns, parent: Lpns]
    \cup [stage: {"unnest", "delete"}, child: Lpns, parent: {NoLpn}]

(* A package of a type is only inside one of the same or a larger type. *)
TypeOK ==
    /\ status \in [Lpns -> Statuses \cup {"ABSENT"}]
    /\ parent \in [Lpns -> Lpns \cup {NoLpn}]
    /\ \A p \in Lpns : parent[p] # NoLpn => Rank[parent[p]] >= Rank[p]
    /\ desk \in [Desks -> Calls \cup {Idle}]
    /\ calls \in 0 .. MaxCalls
    /\ overlapped \in BOOLEAN /\ relabelled \in BOOLEAN

(* In every set of packages some package is not inside another of the set. *)
Acyclic == \A S \in SUBSET Lpns : S # {} => \E p \in S : parent[p] \notin S

(* No package is inside itself, however deep, whatever calls interleave with  *)
(* a nesting: unless two nestings overlapped, or a package that is inside     *)
(* another was given a status other than NESTED (or the reverse).  getChildren *)
(* and getHierarchy never return from a cycle.                                *)
NoneInsideItself == Acyclic \/ overlapped \/ relabelled

(* A package is marked NESTED exactly while it is inside another that exists, *)
(* with any calls at once, until a status is given regardless: this is what   *)
(* the search for available packages and the nesting itself rely on.          *)
NestedIsInside ==
    \/ relabelled
    \/ \A p \in Lpns :
          /\ status[p] = "NESTED" <=> parent[p] # NoLpn
          /\ parent[p] # NoLpn => Exists(parent[p])

(* What takes a package in is not itself inside another when the update       *)
(* commits, and not only when it was read: nestings, unnestings and deletions *)
(* in between included, unless nestings overlapped or a status was given      *)
(* regardless.  Of the package put in nothing is said, as nothing is asked of *)
(* it: it may come out of another one, and has in it what it had.             *)
OnlyRootsTakeIn ==
    [][\A p \in Lpns :
          parent'[p] \notin {NoLpn, parent[p]} =>
              parent[parent'[p]] = NoLpn \/ overlapped \/ relabelled]_vars
================================================================================
