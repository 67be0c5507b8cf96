------------------------------- MODULE MCRunner ------------------------------
(* Instances of Runner: which targets are run together. *)
EXTENDS Runner

\* A target without monitor, companion, failure_pattern or events but RESETs.
Plain(kind, phases, tokens) ==
    [kind |-> kind, phases |-> phases, shot |-> FALSE, hostfwd |-> FALSE,
     companion |-> FALSE, accept |-> FALSE, failure |-> FALSE, chatty |-> FALSE,
     tokens |-> tokens]

\* No monitor: only the serial pipe and the exit status.
SerialTargets == {[Plain("legacy", 1, 3) EXCEPT !.failure = TRUE, !.accept = TRUE],
                  [Plain("ordered", 1, 3) EXCEPT !.failure = TRUE]}
\* The monitor's end of file against an accepted exit status.
ExitStatusTargets == {[Plain("legacy", 1, 2) EXCEPT !.failure = TRUE, !.hostfwd = TRUE,
                                                    !.accept = TRUE, !.chatty = TRUE]}
\* A companion, with and without a screendump.
CompanionTargets ==
    {[Plain("legacy", 1, 2) EXCEPT !.failure = TRUE, !.hostfwd = TRUE, !.companion = TRUE,
                                   !.accept = TRUE],
     [Plain("ordered", 1, 2) EXCEPT !.hostfwd = TRUE, !.companion = TRUE, !.shot = TRUE]}
\* Two boots, and QEMU sends nothing but their RESETs.
RebootTargets == {Plain("phases", 2, 2)}
\* Two boots, with other events among the RESETs.
ChattyTargets == {[Plain("phases", 2, 3) EXCEPT !.chatty = TRUE]}

AllTargets == SerialTargets \cup ExitStatusTargets \cup CompanionTargets \cup RebootTargets
=============================================================================
