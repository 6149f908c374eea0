----------------------------- MODULE MCPortPool -----------------------------
(***************************************************************************)
(* Instances of PortPool for TLC: every specification of at most two       *)
(* chunks, with ports 0 to 5 of which 5 is beyond the last port number.    *)
(***************************************************************************)
EXTENDS PortPool

SystemPort == [kind |-> "auto", low |-> 0, high |-> 0]
Text == [kind |-> "text", low |-> 0, high |-> 0]
Span(a, b) == [kind |-> "number", low |-> a, high |-> b]
Port(n) == Span(n, n)

MCChunks == {SystemPort, Text, Port(0), Port(2), Port(5), Span(1, 4), Span(3, 2)}

MCSpecs == {<<>>} \cup {<<c>> : c \in MCChunks}
           \cup {<<c, d>> : c \in MCChunks, d \in MCChunks}

MCSettings == [service : {"capitalia"}, fromPool : BOOLEAN, spec : MCSpecs]
              \cup [service : {"csharp"}, fromPool : {TRUE}, spec : MCSpecs]
=============================================================================
