----------------------------- MODULE MCQemuLab ------------------------------
(* A router on both networks between two VMs on one each.                     *)
EXTENDS QemuLab

MCParticipants == <<"client", "router", "server">>
MCNicsOf == [vm \in VMs |-> CASE vm = "client" -> {"lan"}
                              [] vm = "server" -> {"wan"}
                              [] OTHER -> {"lan", "wan"}]
=============================================================================
