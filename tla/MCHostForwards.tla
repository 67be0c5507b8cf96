--------------------------- MODULE MCHostForwards ---------------------------
(* Lists of two forwards: every way two can collide in name, guest port or   *)
(* host port, with and without the protocol, and malformed ones.             *)
EXTENDS HostForwards

Good == {[name |-> n, protocol |-> p, guest |-> g, host |-> h] :
            n \in {"a", "b"}, p \in {"tcp", "udp"}, g \in {22, 80}, h \in {AutoPort, 2222}}
Bad == {[name |-> "9", protocol |-> "tcp", guest |-> 22, host |-> AutoPort],
        [name |-> "a", protocol |-> "sctp", guest |-> 22, host |-> AutoPort],
        [name |-> "a", protocol |-> "tcp", guest |-> 65536, host |-> AutoPort],
        [name |-> "a", protocol |-> "tcp", guest |-> 22, host |-> 65536]}
MCLists == {<<r>> : r \in Good \cup Bad} \cup {<<r, s>> : r, s \in Good}
=============================================================================
