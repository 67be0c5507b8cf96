------------------------------- MODULE TestRun -------------------------------
(***************************************************************************)
(* What one run of a uefi_test promises, whatever happens to its           *)
(* processes: it gives one verdict and keeps it, it passes only when       *)
(* nothing is owed any more, it returns only with a verdict and with       *)
(* nothing left running (Spec), and it does return (Ends).  Runner is      *)
(* shown to implement Spec, and Ends with one exception.                   *)
(***************************************************************************)
CONSTANTS Goals,         \* what a test may have to show
          Processes      \* what a run may start

VARIABLES owed,          \* the goals the test still has to reach
          live,          \* the processes of the run that are running
          verdict,       \* "none", "pass" or "fail"
          returned       \* the run is over

vars == <<owed, live, verdict, returned>>

Init ==
    /\ owed \in (SUBSET Goals) \ {{}}
    /\ live = {} /\ verdict = "none" /\ returned = FALSE

\* Processes are started as long as there is no verdict; they may exit at any time.
Launch(p) ==
    /\ ~returned /\ verdict = "none" /\ p \notin live
    /\ live' = live \cup {p}
    /\ UNCHANGED <<owed, verdict, returned>>

Exit(p) ==
    /\ p \in live
    /\ live' = live \ {p}
    /\ owed' \subseteq owed
    /\ UNCHANGED <<verdict, returned>>

Reach(g) ==
    /\ ~returned /\ g \in owed
    /\ owed' = owed \ {g}
    /\ UNCHANGED <<live, verdict, returned>>

\* The verdict; output read in the same step may reach a goal as well.
Decide(v) ==
    /\ ~returned /\ verdict = "none"
    /\ v = "pass" => owed = {}
    /\ verdict' = v
    /\ owed' \subseteq owed
    /\ UNCHANGED <<live, returned>>

\* The end: an error is a verdict too, but only a failing one.
Return ==
    /\ ~returned /\ returned' = TRUE
    /\ live' = {}
    /\ verdict' = IF verdict = "none" THEN "fail" ELSE verdict
    /\ owed' \subseteq owed

Next ==
    \/ \E p \in Processes : Launch(p) \/ Exit(p)
    \/ \E g \in Goals : Reach(g)
    \/ \E v \in {"pass", "fail"} : Decide(v)
    \/ Return

Spec == Init /\ [][Next]_vars

\* The promise to end is stated as such: who keeps it is the implementation's affair.
Ends == <>returned

=============================================================================
