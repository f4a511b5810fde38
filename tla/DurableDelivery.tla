--------------------------- MODULE DurableDelivery ---------------------------
(***************************************************************************)
(* What a durable outbox promises its users, with no worker, lease, clock  *)
(* or retry in sight.  An item is published together with the change that  *)
(* caused it, stays open until it is settled, and is settled either as     *)
(* delivered, which the receiver must have acknowledged, or as needing     *)
(* attention, which an operator may reopen.  Delivery is at least once: a  *)
(* receiver may accept an item at any time after publication, even after   *)
(* the item was settled, because a request in flight cannot be recalled.   *)
(***************************************************************************)
CONSTANT Item

VARIABLES phase,     \* what the outbox says of an item
          accepted   \* the items the receiver has accepted at least once

vars == <<phase, accepted>>

Phase == {"absent", "open", "delivered", "attention"}

TypeOK == /\ phase \in [Item -> Phase]
          /\ accepted \in SUBSET Item

Init == /\ phase = [i \in Item |-> "absent"]
        /\ accepted = {}

Move(i, from, to) == /\ phase[i] = from
                     /\ phase' = [phase EXCEPT ![i] = to]
                     /\ UNCHANGED accepted

Publish(i) == Move(i, "absent", "open")

Accept(i) == /\ phase[i] # "absent"
             /\ accepted' = accepted \cup {i}
             /\ UNCHANGED phase

Deliver(i) == i \in accepted /\ Move(i, "open", "delivered")

GiveUp(i) == Move(i, "open", "attention")

Reopen(i) == Move(i, "attention", "open")

Settle(i) == Deliver(i) \/ GiveUp(i)

Next == \E i \in Item : Publish(i) \/ Accept(i) \/ Settle(i) \/ Reopen(i)

Safety == Init /\ [][Next]_vars

\* An open item does not stay open forever.
Spec == Safety /\ \A i \in Item : WF_vars(Settle(i))
=============================================================================
