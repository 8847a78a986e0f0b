----------------------------- MODULE PacketPipe -----------------------------
(***************************************************************************)
(* What one direction of a connection promises: the packets of one sender  *)
(* arrive whole, once and in the order in which they were sent, and while  *)
(* the session lasts every one of them does arrive.  Packets of different  *)
(* senders may overtake each other.                                        *)
(***************************************************************************)
EXTENDS Naturals, Sequences

CONSTANT Senders

VARIABLES
    announced, \* sender -> how many packets it has sent
    arrived,   \* sender -> the numbers of those that arrived, in that order
    lasts      \* the session: it is over once

vars == <<announced, arrived, lasts>>

Init ==
    /\ announced = [s \in Senders |-> 0]
    /\ arrived = [s \in Senders |-> <<>>]
    /\ lasts = TRUE

Announce(s) ==
    /\ announced' = [announced EXCEPT ![s] = @ + 1]
    /\ UNCHANGED <<arrived, lasts>>

\* What was under way when the session ended may still arrive.
Arrive(s) ==
    /\ Len(arrived[s]) < announced[s]
    /\ arrived' = [arrived EXCEPT ![s] = Append(@, Len(@) + 1)]
    /\ UNCHANGED <<announced, lasts>>

End ==
    /\ lasts /\ lasts' = FALSE
    /\ UNCHANGED <<announced, arrived>>

Next == End \/ \E s \in Senders : Announce(s) \/ Arrive(s)

Spec ==
    /\ Init /\ [][Next]_vars
    /\ \A s \in Senders : WF_vars(lasts /\ Arrive(s))
=============================================================================
