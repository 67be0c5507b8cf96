-------------------------- MODULE MCSerialAssertion --------------------------
(* Instances of SerialAssertion: two bytes, markers that overlap each other *)
(* and themselves, every way to cut a stream into chunks of at most three.  *)
EXTENDS SerialAssertion

a == "a"
b == "b"

MCByte == {a, b}
MCChunks == UNION {[1..n -> MCByte] : n \in 1..3}

\* A reboot phase of two markers sharing bytes, then a final phase.
MCPhases == << << <<a, b>>, <<b, a>> >>, << <<a, a, b>> >> >>
MCForbidden == << <<b, b, b>>, <<a, b, a, b>> >>

=============================================================================
