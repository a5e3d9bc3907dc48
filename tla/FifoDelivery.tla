---------------------------- MODULE FifoDelivery ----------------------------
(***************************************************************************)
(* What api.ClientTransport promises the router: a message that Send took  *)
(* is delivered in the order it was taken, once, or not at all when the    *)
(* connection breaks; after Close or a break nothing is taken.             *)
(***************************************************************************)
EXTENDS Naturals, Sequences

CONSTANT Messages

VARIABLES accepted,   \* the messages Send took, in order
          sent,       \* the messages the client received, in order
          closed,     \* Send refuses
          broken      \* the connection failed: what is not delivered is lost

vars == <<accepted, sent, closed, broken>>

Init == accepted = <<>> /\ sent = <<>> /\ closed = FALSE /\ broken = FALSE

Take(m) ==
    /\ ~closed
    /\ accepted' = Append(accepted, m)
    /\ UNCHANGED <<sent, closed, broken>>

Deliver ==
    /\ ~broken /\ Len(sent) < Len(accepted)
    /\ sent' = Append(sent, accepted[Len(sent) + 1])
    /\ UNCHANGED <<accepted, closed, broken>>

Close == ~closed /\ closed' = TRUE /\ UNCHANGED <<accepted, sent, broken>>
Break == ~broken /\ broken' = TRUE /\ closed' = TRUE /\ UNCHANGED <<accepted, sent>>

Next == (\E m \in Messages : Take(m)) \/ Deliver \/ Close \/ Break

Spec == Init /\ [][Next]_vars
=============================================================================
