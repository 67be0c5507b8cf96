---------------------------- MODULE ProcessGroup ----------------------------
(***************************************************************************)
(* Ending a child that leads its own process group, three ways:            *)
(*   stop_process_group        (qemu_runner_support.py), for QEMU;         *)
(*   run_failure_hook          (same file), which waits and then stops;    *)
(*   OneShotCompanion          (managed_network.py), wait and terminate,   *)
(*                             and run_one_shot_companion, which starts    *)
(*                             it, waits and always terminates it.         *)
(*                                                                         *)
(* The leader is the runner's child: once it has exited it is a zombie,    *)
(* which still counts as a member of the group, until the runner reaps it. *)
(* Its descendants may fork and ignore SIGTERM.  A timer stands for the    *)
(* timeout of the wait or the loop under way.                              *)
(***************************************************************************)
EXTENDS Integers, FiniteSets

CONSTANTS Leader, Descendants,   \* the members of the group
          Operations             \* the operations to run

Proc == {Leader} \cup Descendants

ASSUME GroupAssumption ==
    /\ Leader \notin Descendants
    /\ Operations \subseteq {"stop", "hook", "wait", "terminate", "run"}

VARIABLES op,            \* the operation under way
          at,            \* where it is
          state,         \* of each process: "unborn", "running", "zombie" or "gone"
          terminated,    \* processes SIGTERM was sent to
          killed,        \* processes SIGKILL was sent to
          timer,         \* has the current timeout passed?
          overdue,       \* the timeouts that passed, by the label they passed at
          returncode,    \* of the leader, as Popen knows it: "none" or "known"
          status,        \* the status the leader ends with
          log,           \* the companion's log: "none", "open" or "closed"
          result         \* how wait() ended: "none", "success", "exit", "timeout", "start"
                         \* or "raised"

companionVars == <<log, result>>
groupVars == <<op, at, state, terminated, killed, timer, overdue, returncode, status, companionVars>>

\* When the operation starts the child is running, or has ended unnoticed, or an
\* earlier poll() has reaped it; only "run" starts it itself.
GroupInit ==
    /\ op \in Operations
    /\ at = CASE op = "stop" -> "poll" [] op = "terminate" -> "group" [] op = "run" -> "start"
              [] OTHER -> "wait"
    /\ state \in [Proc -> {"unborn", "running", "zombie", "gone"}]
    /\ IF op = "run" THEN \A p \in Proc : state[p] = "unborn" ELSE state[Leader] # "unborn"
    /\ \A p \in Descendants : state[p] # "zombie"
    /\ terminated = {} /\ killed = {}
    /\ timer = FALSE /\ overdue = {}
    /\ returncode = IF state[Leader] = "gone" THEN "known" ELSE "none"
    /\ status \in 0..1 /\ log = (IF op \in {"wait", "terminate"} THEN "open" ELSE "none")
    /\ result = "none"

-----------------------------------------------------------------------------
(***************************************************************************)
(* The processes (external): they end on their own, from SIGTERM unless    *)
(* they ignore it, and from SIGKILL; init reaps the descendants at once.   *)
(***************************************************************************)
Ends(p) ==
    /\ state[p] = "running"
    /\ state' = [state EXCEPT ![p] = IF p = Leader THEN "zombie" ELSE "gone"]
    /\ UNCHANGED <<op, at, terminated, killed, timer, overdue, returncode, status, companionVars>>

\* A process with SIGKILL pending does not get to fork.
Forks(p) ==
    /\ \E q \in Proc \ killed : state[q] = "running"
    /\ state[p] = "unborn"
    /\ state' = [state EXCEPT ![p] = "running"]
    /\ UNCHANGED <<op, at, terminated, killed, timer, overdue, returncode, status, companionVars>>

TimePasses ==
    /\ ~timer
    /\ at \in {"wait", "term loop", "kill loop", "stop wait", "grace", "reap", "last wait"}
    /\ timer' = TRUE /\ overdue' = overdue \cup {at}
    /\ UNCHANGED <<op, at, state, terminated, killed, returncode, status, companionVars>>

-----------------------------------------------------------------------------
Members == {p \in Proc : state[p] \in {"running", "zombie"}}
\* Mutant: the group is taken to end with its leader.
GroupExists_Leader == Leader \in Members

GroupExists == Members # {}

\* process.poll() or wait(): reaps the leader if it has exited.
Reap ==
    /\ state' = IF state[Leader] = "zombie" THEN [state EXCEPT ![Leader] = "gone"] ELSE state
    /\ returncode' = IF state[Leader] \in {"zombie", "gone"} THEN "known" ELSE "none"
NoReap == UNCHANGED <<state, returncode>>

Polled == state[Leader] # "running"     \* poll() returns a status
Goto(label) == at' = label /\ timer' = FALSE
SendTerm == terminated' = terminated \cup Members /\ UNCHANGED killed
SendKill == killed' = killed \cup Members /\ UNCHANGED terminated
NoSignal == UNCHANGED <<terminated, killed>>
rest == <<op, overdue, status, companionVars>>

(***************************************************************************)
(* stop_process_group                                                      *)
(***************************************************************************)
StopBegins ==
    /\ at = "poll"
    /\ Reap /\ NoSignal /\ Goto("term")
    /\ UNCHANGED rest

StopTerm ==
    /\ at = "term"
    /\ SendTerm /\ NoReap /\ Goto("term loop")
    /\ UNCHANGED rest

\* One iteration of the loop after SIGTERM, or its end.
TermLoop ==
    /\ at = "term loop"
    /\ IF GroupExists /\ ~timer THEN Reap /\ UNCHANGED <<at, timer>>
       ELSE NoReap /\ Goto(IF GroupExists THEN "kill" ELSE "stop wait")
    /\ NoSignal /\ UNCHANGED rest

StopKill ==
    /\ at = "kill"
    /\ SendKill /\ NoReap /\ Goto("kill loop")
    /\ UNCHANGED rest

KillLoop ==
    /\ at = "kill loop"
    /\ IF GroupExists /\ ~timer THEN Reap /\ UNCHANGED <<at, timer>>
       ELSE NoReap /\ Goto("stop wait")
    /\ NoSignal /\ UNCHANGED rest

\* The last wait gives up silently.
StopReturns ==
    /\ at = "stop wait"
    /\ Polled \/ timer
    /\ Reap /\ NoSignal /\ Goto("returned")
    /\ UNCHANGED rest

(***************************************************************************)
(* run_failure_hook and OneShotCompanion.wait                              *)
(***************************************************************************)
\* Mutant: wait() without its timeout.
WaitEnds_Untimed ==
    /\ at = "wait" /\ Polled
    /\ Reap /\ NoSignal
    /\ Goto(IF op = "hook" THEN "poll" ELSE "group")
    /\ UNCHANGED rest

\* wait(timeout) returns the status, or the timeout ends the operation early.
WaitEnds ==
    /\ at = "wait"
    /\ Polled \/ timer
    /\ Reap /\ NoSignal
    /\ Goto(IF op = "hook" THEN "poll" ELSE "group")
    /\ UNCHANGED rest

(***************************************************************************)
(* OneShotCompanion._terminate_process_group and terminate                 *)
(***************************************************************************)
\* wait() is done with the group when it has the leader's status; terminate(), also
\* as called by wait() after a timeout and by run_one_shot_companion at the end, reaps
\* the leader next.
AfterGroup ==
    IF op \in {"wait", "run"} /\ returncode = "known" /\ result = "none" THEN "settle" ELSE "reap"

GroupTerm ==
    /\ at = "group"
    /\ IF GroupExists THEN SendTerm /\ Goto("grace") ELSE NoSignal /\ Goto(AfterGroup)
    /\ NoReap /\ UNCHANGED rest

\* Mutant: SIGKILL follows SIGTERM at once.
GroupGrace_None ==
    /\ at = "grace"
    /\ IF GroupExists THEN SendKill ELSE NoSignal
    /\ NoReap /\ Goto(AfterGroup)
    /\ UNCHANGED rest

\* This loop does not poll: a leader that has exited keeps the group in existence.
GroupGrace ==
    /\ at = "grace"
    /\ ~GroupExists \/ timer
    /\ IF GroupExists THEN SendKill ELSE NoSignal
    /\ NoReap /\ Goto(AfterGroup)
    /\ UNCHANGED rest

CompanionReap ==
    /\ at = "reap"
    /\ Polled \/ timer
    /\ Reap
    /\ IF Polled THEN NoSignal /\ Goto("close") ELSE SendKill /\ Goto("last wait")
    /\ UNCHANGED rest

\* The finally of run_one_shot_companion: terminate() once more.
AfterWait == IF op = "run" /\ result = "none" THEN "group" ELSE "returned"

\* process.wait(timeout=2) after SIGKILL is not guarded: the log stays open.
LastWait ==
    /\ at = "last wait"
    /\ Polled \/ timer
    /\ Reap /\ NoSignal
    /\ \/ Polled /\ Goto("close") /\ UNCHANGED result
       \/ ~Polled /\ AfterWait = "group" /\ Goto("group") /\ result' = "raised"
       \/ ~Polled /\ AfterWait # "group" /\ Goto("raised") /\ UNCHANGED result
    /\ UNCHANGED <<op, overdue, status, log>>

\* _close_log and _make_result: at the end of wait(), with the leader's status, or at
\* the end of terminate(), which wait() turns into a CompanionTimeoutError.
CloseLog ==
    /\ at \in {"settle", "close"}
    /\ log' = "closed"
    /\ result' = CASE at = "settle" -> IF status = 0 THEN "success" ELSE "exit"
                   [] at = "close" /\ op # "terminate" /\ result = "none" -> "timeout"
                   [] OTHER -> result
    /\ Goto(AfterWait)
    /\ NoReap /\ NoSignal /\ UNCHANGED <<op, overdue, status>>

\* OneShotCompanion.start; a Popen that fails has nothing to terminate.
CompanionStart ==
    /\ at = "start"
    /\ \/ /\ state' = [state EXCEPT ![Leader] = "running"]
          /\ log' = "open" /\ Goto("wait") /\ UNCHANGED result
       \/ log' = "closed" /\ result' = "start" /\ Goto("returned") /\ UNCHANGED state
    /\ NoSignal /\ UNCHANGED <<op, overdue, status, returncode>>

Returned == at \in {"returned", "raised"} /\ UNCHANGED groupVars

Runner ==
    \/ StopBegins \/ StopTerm \/ TermLoop \/ StopKill \/ KillLoop \/ StopReturns
    \/ WaitEnds \/ GroupTerm \/ GroupGrace \/ CompanionReap \/ LastWait
    \/ CloseLog \/ CompanionStart

GroupNext ==
    \/ \E p \in Proc : Ends(p) \/ Forks(p)
    \/ TimePasses \/ Runner \/ Returned

\* The runner runs and timeouts pass; nothing is assumed of the processes.
GroupSpec == GroupInit /\ [][GroupNext]_groupVars /\ WF_groupVars(Runner) /\ WF_groupVars(TimePasses)

-----------------------------------------------------------------------------
\* Type invariant.
GroupTypeOK ==
    /\ op \in Operations
    /\ at \in {"poll", "term", "term loop", "kill", "kill loop", "stop wait", "wait",
               "group", "grace", "reap", "last wait", "start", "settle", "close", "returned", "raised"}
    /\ state \in [Proc -> {"unborn", "running", "zombie", "gone"}]
    /\ terminated \subseteq Proc /\ killed \subseteq Proc
    /\ timer \in BOOLEAN /\ returncode \in {"none", "known"}
    /\ returncode = "known" <=> state[Leader] = "gone"
    /\ status \in 0..1 /\ log \in {"none", "open", "closed"}
    /\ result \in {"none", "success", "exit", "timeout", "start", "raised"}

NoSurvivor ==
    at \in {"returned", "raised"} => \A p \in Proc : state[p] = "running" => p \in killed

\* A companion that is done has its leader reaped and its log closed, and was a success
\* only with status 0.
Settled ==
    /\ at = "returned" /\ op \in {"wait", "run", "terminate"} =>
           log = "closed" /\ state[Leader] \in {"gone", "unborn"}
    /\ result = "success" => status = 0 /\ state[Leader] = "gone"

\* When an operation is over, whatever is left of the group has been sent SIGKILL,
\* descendants forked during the grace period included: no descendant outlives the
\* test by ignoring SIGTERM or by outliving the leader.  A companion's end, however
\* it came about and however often it is terminated, leaves no zombie and no open log.
EndIsClean == NoSurvivor /\ Settled

\* A member is killed only after it, or the member that forked it, had the whole
\* grace period: SIGKILL follows a SIGTERM whose timeout has passed.
KilledAfterGrace ==
    killed # {} => overdue \cap {"term loop", "grace", "reap"} # {}

\* Every operation ends although nothing is assumed of the processes.
OperationEnds == <>(at \in {"returned", "raised"})

=============================================================================
