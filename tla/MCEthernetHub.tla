---------------------------- MODULE MCEthernetHub ---------------------------
(* Instances of EthernetHub: three ports, one or two of which send.          *)
EXTENDS EthernetHub

ThreePorts == {"p1", "p2", "p3"}
Budgets(one, two) == [p \in ThreePorts |-> CASE p = "p1" -> one [] p = "p2" -> two [] OTHER -> 0]

\* One sender and two listeners, one of which may leave.
OneSender == Budgets(2, 0)
Listener == {"p3"}

\* Two senders towards a listener that stays.
TwoSenders == Budgets(1, 1)
Nobody == {}
=============================================================================
