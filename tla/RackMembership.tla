--------------------------- MODULE RackMembership ---------------------------
(***************************************************************************)
(* What the scaling of a rack promises, whatever the operator does: size   *)
(* is the StatefulSet's replicas, node[o] the state of the node of ordinal *)
(* o.  A member is only ever removed by leaving the cluster first, a rack  *)
(* only shrinks below nodes that have left, a volume is only reclaimed     *)
(* from a node that has left and is scaled away, and an ordinal is only    *)
(* reused by a new, empty node.                                            *)
(***************************************************************************)
EXTENDS Integers

CONSTANT MaxNodes
VARIABLES size, node

Ord == 0 .. (MaxNodes - 1)

Init == /\ size \in 0 .. MaxNodes
        /\ node = [o \in Ord |-> IF o < size THEN "member" ELSE "none"]

Grow(n) == n > size /\ size' = n /\ UNCHANGED node

Shrink(n) == /\ n < size
             /\ \A o \in Ord : n <= o /\ o < size => node[o] = "left"
             /\ size' = n /\ UNCHANGED node

Move(o, from, to) == /\ node[o] = from
                     /\ node' = [node EXCEPT ![o] = to]
                     /\ UNCHANGED size

Provision(o) == o < size /\ Move(o, "none", "fresh")
Join(o) == o < size /\ Move(o, "fresh", "member")
Leave(o) == o < size /\ Move(o, "member", "left")
Reclaim(o) == o >= size /\ Move(o, "left", "none")

Next == \/ \E n \in 0 .. MaxNodes : Grow(n) \/ Shrink(n)
        \/ \E o \in Ord : Provision(o) \/ Join(o) \/ Leave(o) \/ Reclaim(o)

Spec == Init /\ [][Next]_<<size, node>>
=============================================================================
