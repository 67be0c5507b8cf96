---------------------------- MODULE HostForwards ----------------------------
(***************************************************************************)
(* Host forwards from their declaration to the ports a test talks to.      *)
(*                                                                         *)
(* uefi_test checks the list when the target is loaded (_validate_hostfwd, *)
(* defs.bzl), UefiQemuConfig.from_namespace checks it again and puts it on *)
(* QEMU's command line, and once QEMU runs _run_qemu parses it a third     *)
(* time (parse_host_forwards) and matches it with the rows of QEMU's       *)
(* "info usernet" (resolve_host_forwards, managed_network.py).  A script   *)
(* built on QemuSession skips the first and the third check and has a      *)
(* resolver of its own (_resolve_host_forwards, qemu.py).                  *)
(*                                                                         *)
(* Text and ports are small sets; a row is what the regular expression for *)
(* a HOST_FORWARD line extracts.                                           *)
(***************************************************************************)
EXTENDS Integers, Sequences, SequencesExt

CONSTANTS Lists,       \* the lists of forwards declared
          GoodNames,   \* names of the form [A-Za-z][A-Za-z0-9_.-]*
          FreePorts    \* host ports QEMU may pick

AutoPort == 0          \* host = "auto"
Request == [name : STRING, protocol : STRING, guest : Int, host : Int]

ASSUME ForwardAssumption ==
    /\ Lists \subseteq Seq(Request) \ {<<>>}
    /\ GoodNames \subseteq STRING
    /\ FreePorts \subseteq Nat \ {AutoPort}

VARIABLES user,        \* "uefi_test" or "script"
          requests,    \* the declared forwards
          pc,          \* the stage reached, or how it ended
          bound,       \* the host port QEMU listens on for each request
          rows,        \* the HOST_FORWARD rows of info usernet
          faithful,    \* history: rows say what QEMU did
          resolved     \* the resolved forwards so far

forwardVars == <<user, requests, pc, bound, rows, faithful, resolved>>

ForwardInit ==
    /\ user \in {"uefi_test", "script"}
    /\ requests \in Lists
    /\ pc = IF user = "uefi_test" THEN "load" ELSE "config"
    /\ bound = <<>> /\ rows = <<>> /\ faithful = TRUE /\ resolved = <<>>

-----------------------------------------------------------------------------
(***************************************************************************)
(* The three checks of a list.                                             *)
(***************************************************************************)
PortOK(port) == port \in 1..65535

\* qemu_hostfwd, HostForwardRequest and HostForward check one forward alike.
WellFormed(request) ==
    /\ request.name \in GoodNames
    /\ request.protocol \in {"tcp", "udp"}
    /\ PortOK(request.guest)
    /\ request.host = AutoPort \/ PortOK(request.host)

GuestEndpoint(request) == <<request.protocol, request.guest>>
HostEndpoint(request) == <<request.protocol, request.host>>

\* No two forwards of list agree on the name, the guest's endpoint or a fixed
\* endpoint of the host.
NamesApart(list) == IsInjective([i \in DOMAIN list |-> list[i].name])
GuestsApart(list) == IsInjective([i \in DOMAIN list |-> GuestEndpoint(list[i])])
StaticApart(list) ==
    LET static == {i \in DOMAIN list : list[i].host # AutoPort}
    IN  IsInjective([i \in static |-> HostEndpoint(list[i])])

ListOK(list) ==
    /\ \A i \in DOMAIN list : WellFormed(list[i])
    /\ NamesApart(list) /\ GuestsApart(list) /\ StaticApart(list)

\* _validate_hostfwd, when the target is loaded.
Load ==
    /\ pc = "load"
    /\ pc' = IF ListOK(requests) THEN "config" ELSE "not loaded"
    /\ UNCHANGED <<user, requests, bound, rows, faithful, resolved>>

\* The loop over --ostest-hostfwd in from_namespace.
FromNamespace ==
    /\ pc = "config"
    /\ pc' = IF ListOK(requests) THEN "start" ELSE "bad config"
    /\ UNCHANGED <<user, requests, bound, rows, faithful, resolved>>

\* parse_host_forwards
ParseHostForwards(list) == ListOK(list)

\* Its call in _run_qemu, with QEMU already running.
Parse ==
    /\ pc = "parse"
    /\ pc' = IF ParseHostForwards(requests) THEN "query" ELSE "not parsed"
    /\ UNCHANGED <<user, requests, bound, rows, faithful, resolved>>

-----------------------------------------------------------------------------
(***************************************************************************)
(* QEMU (external): it binds every forward or exits.                       *)
(***************************************************************************)
QemuBinds ==
    /\ pc = "start"
    /\ \E ports \in [DOMAIN requests -> FreePorts \cup {requests[i].host : i \in DOMAIN requests}] :
           /\ \A i \in DOMAIN requests :
                  ports[i] \in IF requests[i].host = AutoPort THEN FreePorts ELSE {requests[i].host}
           /\ \A i, j \in DOMAIN requests :
                  i # j /\ requests[i].protocol = requests[j].protocol => ports[i] # ports[j]
           /\ bound' = ports
    /\ pc' = IF user = "uefi_test" THEN "parse"
             ELSE IF \E i \in DOMAIN requests : requests[i].host = AutoPort THEN "query"
             ELSE "resolve"
    /\ UNCHANGED <<user, requests, rows, faithful, resolved>>

QemuExits ==
    /\ pc = "start"
    /\ pc' = "no qemu"
    /\ UNCHANGED <<user, requests, bound, rows, faithful, resolved>>

Row(i) == [protocol |-> requests[i].protocol, source |-> "127.0.0.1", host |-> bound[i],
           target |-> "10.0.2.15", guest |-> requests[i].guest]

\* What one fault makes of a row: any field of it may be wrong.
Faults(row) ==
    {[row EXCEPT !.source = "0.0.0.0"], [row EXCEPT !.target = "10.0.2.99"],
     [row EXCEPT !.protocol = IF @ = "tcp" THEN "udp" ELSE "tcp"]}
    \cup {[row EXCEPT !.host = port] : port \in FreePorts \ {row.host}}
    \cup ({[row EXCEPT !.guest = requests[i].guest + n] : i \in DOMAIN requests, n \in 0..1} \ {row})

\* The answer to info usernet: what QEMU did, or with a row missing, a wrong one in
\* its place, or one too many, right or wrong.
Answer(answer, exact) ==
    /\ rows' = answer /\ faithful' = exact
    /\ pc' = "resolve"
    /\ UNCHANGED <<user, requests, bound, resolved>>

Reports ==
    pc = "query" /\
    LET exact == [i \in DOMAIN requests |-> Row(i)]
    IN  \/ Answer(exact, TRUE)
        \/ \E i \in DOMAIN exact :
              \/ Answer(RemoveAt(exact, i), FALSE)
              \/ \E row \in Faults(exact[i]) : Answer([exact EXCEPT ![i] = row], FALSE)
              \/ \E row \in Faults(exact[i]) \cup {exact[i]} : Answer(Append(exact, row), FALSE)

-----------------------------------------------------------------------------
(***************************************************************************)
(* The resolvers, one request at a time.                                   *)
(***************************************************************************)
Current == requests[Len(resolved) + 1]

\* A script also removes the row it takes; guest endpoints are distinct, so no
\* later request could have matched it.
Candidates(request) ==
    {i \in DOMAIN rows : rows[i].protocol = request.protocol /\ rows[i].guest = request.guest}

\* Mutant: a script looks static ports up too, without asking for the rows.
Looked_Always == TRUE

\* Whether the resolver looks at the rows: a script takes a static port on trust.
Looked == user = "uefi_test" \/ Current.host = AutoPort

\* The only row there is has the addresses, and the port, that were asked for.
Suitable(found) ==
    \E i \in DOMAIN rows :
        /\ found = {i}
        /\ rows[i].source = "127.0.0.1"
        /\ rows[i].target = "10.0.2.15"
        /\ Current.host # AutoPort => rows[i].host = Current.host

Unresolvable == Looked /\ ~Suitable(Candidates(Current))

\* Mutant: the port asked for is returned, not the one found.
ResolvedPort_Asked == Current.host

ResolvedPort ==
    IF Looked THEN rows[CHOOSE i \in Candidates(Current) : TRUE].host ELSE Current.host

Resolve ==
    /\ pc = "resolve" /\ Len(resolved) < Len(requests)
    /\ ~Unresolvable
    /\ resolved' = Append(resolved, [name |-> Current.name, protocol |-> Current.protocol,
                                     guest |-> Current.guest, host |-> ResolvedPort])
    /\ UNCHANGED <<user, requests, pc, bound, rows, faithful>>

ResolveRaises ==
    /\ pc = "resolve" /\ Len(resolved) < Len(requests)
    /\ Unresolvable
    /\ pc' = "unresolved"
    /\ UNCHANGED <<user, requests, bound, rows, faithful, resolved>>

AllResolved ==
    /\ pc = "resolve" /\ Len(resolved) = Len(requests)
    /\ pc' = "resolved"
    /\ UNCHANGED <<user, requests, bound, rows, faithful, resolved>>

Ends == {"not loaded", "bad config", "not parsed", "no qemu", "unresolved", "resolved"}
Ended == pc \in Ends /\ UNCHANGED forwardVars

ForwardNext ==
    \/ Load \/ FromNamespace \/ QemuBinds \/ QemuExits \/ Parse \/ Reports
    \/ Resolve \/ ResolveRaises \/ AllResolved \/ Ended
ForwardSpec == ForwardInit /\ [][ForwardNext]_forwardVars

-----------------------------------------------------------------------------
\* The report has one row for forward i, whose port was left to QEMU, and the row is
\* right but for the port it names.  Nothing else tells the test that port.
Misreported(i, port) ==
    /\ requests[i].host = AutoPort
    /\ \E j \in DOMAIN rows :
           /\ rows[j] = [Row(i) EXCEPT !.host = port]
           /\ \A k \in DOMAIN rows \ {j} : GuestEndpoint(rows[k]) # GuestEndpoint(requests[i])

\* A forward a test is told of is one QEMU listens on, for that protocol and that
\* guest port, whatever QEMU's report leaves out, adds or gets wrong, for the test's
\* own forwards or others: a fixed port always, a port left to QEMU unless the very
\* row that states it is wrong about it and about nothing else, which both resolvers
\* take on trust.
ResolvedAreBound ==
    \A i \in DOMAIN resolved :
        /\ resolved[i].name = requests[i].name
        /\ GuestEndpoint(resolved[i]) = GuestEndpoint(requests[i])
        /\ resolved[i].host = bound[i] \/ Misreported(i, resolved[i].host)

\* Resolution is never ambiguous by the list's own doing: a list that was let
\* through resolves from every faithful report.
FaithfulReportResolves == pc = "unresolved" => ~faithful

=============================================================================
