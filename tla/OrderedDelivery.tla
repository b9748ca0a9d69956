--------------------------- MODULE OrderedDelivery ---------------------------
(***************************************************************************)
(* What packet sync promises, without packets being lost, repeated,        *)
(* reordered or damaged: every sender publishes a numbered list, and the   *)
(* receiver's list grows one slot at a time, slot n being filled by the    *)
(* n-th publication of some sender and never changed afterwards.  With one *)
(* sender this is delivery in order, exactly once.                         *)
(***************************************************************************)
EXTENDS Naturals, Sequences

CONSTANT Senders

VARIABLES published, delivered

vars == <<published, delivered>>

Init == /\ published = [s \in Senders |-> <<>>]
        /\ delivered = <<>>

\* Any message may be published; it is the one that ends the new list.
Publish(s) ==
  /\ Len(published'[s]) = Len(published[s]) + 1
  /\ published' = [published EXCEPT ![s] = Append(@, published'[s][Len(@) + 1])]
  /\ UNCHANGED delivered

Deliver(s) == /\ Len(delivered) < Len(published[s])
              /\ delivered' = Append(delivered, published[s][Len(delivered) + 1])
              /\ UNCHANGED published

Next == \E s \in Senders : Publish(s) \/ Deliver(s)

Spec == Init /\ [][Next]_vars
=============================================================================
