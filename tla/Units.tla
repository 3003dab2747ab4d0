---------------------------------- MODULE Units ----------------------------------
(***************************************************************************)
(* Sums of quantities as numbers of things: a quantity is a set of units,  *)
(* numbered from 1, and the units of several entries of a table are those  *)
(* of each.  Their number is the sum of the quantities.                    *)
(***************************************************************************)
EXTENDS Integers

Units(quantity, entries) == UNION {{x} \X (1 .. quantity[x]) : x \in entries}
================================================================================
