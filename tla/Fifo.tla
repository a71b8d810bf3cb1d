-------------------------------- MODULE Fifo --------------------------------
(***************************************************************************)
(* What a work queue promises its users: the items come out in the order   *)
(* in which they went in, each of them once, and nothing else comes out.   *)
(***************************************************************************)
EXTENDS Naturals, Sequences

CONSTANT Items
VARIABLES accepted, delivered

Init == accepted = <<>> /\ delivered = <<>>

Put(x) == accepted' = Append(accepted, x) /\ UNCHANGED delivered

Get ==
    /\ Len(delivered) < Len(accepted)
    /\ delivered' = Append(delivered, accepted[Len(delivered) + 1])
    /\ UNCHANGED accepted

Next == Get \/ \E x \in Items : Put(x)

Spec == Init /\ [][Next]_<<accepted, delivered>>

=============================================================================
