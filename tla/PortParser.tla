------------------------------ MODULE PortParser ------------------------------
(***************************************************************************)
(* How the programs read a port specification such as "8000-8100,9000" or  *)
(* "auto": Capitalia (config.py), the router (router.py) and the purchase  *)
(* requests service (Program.cs) each have a parser of their own.  A step  *)
(* is one turn of a parser's loops.                                        *)
(*                                                                         *)
(* A specification is a sequence of chunks, the comma-separated pieces     *)
(* that are not blank.  "text" stands for a piece that is no number and no *)
(* range of two numbers; a single port is a range of one.                  *)
(***************************************************************************)
EXTENDS Naturals, SequencesExt

CONSTANTS
    MaxPort,      \* the highest port number, 65535
    Settings      \* [service, fromPool, spec]: what the environment configures

Chunks == [kind : {"number", "auto", "text"}, low : Nat, high : Nat]

ASSUME MaxPortAssumption == MaxPort \in Nat \ {0}

(* The purchase requests service has no PORT_POOL of its own: fromPool     *)
(* tells for Capitalia whether the text is that of PORT_POOL or of PORT.   *)
ASSUME SettingsAssumption ==
    \A s \in Settings :
        /\ s.service \in {"capitalia", "csharp"} /\ s.fromPool \in BOOLEAN
        /\ s.spec \in Seq(Chunks)

VARIABLES
    setting,      \* the configuration, the same for every instance
    reader        \* how far each parser is in the text, and the ports it has

(* The instances of a service read the same text with the same result, so  *)
(* one reading stands for them all.                                        *)
Readers == {"service", "router"}

spec == setting.spec
Program(r) == IF r = "router" THEN "router" ELSE setting.service

Reader(pc, chunk, port, ports) == [pc |-> pc, chunk |-> chunk, port |-> port, ports |-> ports]

ReadInit ==
    /\ setting \in Settings
    /\ reader = [r \in Readers |-> Reader("text", 1, 0, <<>>)]

Over(r) == reader[r].pc \in {"done", "refused"}

(* _coerce_port and the check of the bounds raise ValueError; the router   *)
(* knows neither "auto" nor port 0; C# skips what it cannot read.          *)
Lowest(program) == IF program = "router" THEN 1 ELSE 0

MalformedAtLast(program, c) ==      \* variant: the last port number is refused
    /\ program # "csharp"
    /\ c.kind = "auto" => program = "router"
    /\ c.kind = "number" => ~(Lowest(program) <= c.low /\ c.low <= c.high /\ c.high < MaxPort)

Malformed(program, c) ==
    /\ program # "csharp"
    /\ c.kind = "auto" => program = "router"
    /\ c.kind = "number" => ~(Lowest(program) <= c.low /\ c.low <= c.high /\ c.high <= MaxPort)

(* The ports of a chunk: "auto" is 0, text has none, and C# turns the      *)
(* bounds of a range round.                                                *)
Turned(program, c) == program = "csharp" /\ c.high < c.low
Lower(program, c) ==
    CASE c.kind = "auto" -> 0
      [] c.kind = "text" -> 1
      [] OTHER -> IF Turned(program, c) THEN c.high ELSE c.low
Upper(program, c) ==
    CASE c.kind # "number" -> 0
      [] OTHER -> IF Turned(program, c) THEN c.low ELSE c.high

(* Capitalia and the router keep each port once, where it is first named.  *)
AppendNew(program, ports, p) ==
    IF program # "csharp" /\ p \in ToSet(ports) THEN ports ELSE Append(ports, p)

-----------------------------------------------------------------------------
(* The parsers share nothing: the router's turn after the service's stands *)
(* for every order.                                                        *)
Reads(r, pc) ==
    /\ reader[r].pc = pc
    /\ r = "router" => Over("service")

Becomes(r, new) == reader' = [reader EXCEPT ![r] = new] /\ UNCHANGED setting

(* The next piece of the text, or ValueError.                              *)
OpenChunk(r) ==
    /\ Reads(r, "text")
    /\ reader[r].chunk <= Len(spec)
    /\ LET c == spec[reader[r].chunk]
       IN  Becomes(r, IF Malformed(Program(r), c) THEN Reader("refused", reader[r].chunk, 0, <<>>)
                      ELSE Reader("range", reader[r].chunk, Lower(Program(r), c), reader[r].ports))

(* The next port of a piece, and after the last one the next piece.        *)
ReadPort(r) ==
    /\ Reads(r, "range")
    /\ LET n == reader[r].chunk
           p == reader[r].port
           ports == reader[r].ports
       IN  Becomes(r, IF p <= Upper(Program(r), spec[n])
                      THEN Reader("range", n, p + 1, AppendNew(Program(r), ports, p))
                      ELSE Reader("text", n + 1, 0, ports))

(* Variant: 0 is appended after PORT_POOL too.                             *)
OpenAlways(r, ports) ==
    IF Program(r) = "capitalia" THEN AppendNew("capitalia", ports, 0) ELSE ports

(* The end of the text.  Config: PORT_POOL must name a port; PORT gets 0,  *)
(* a port of the system's choice, as a last candidate.                     *)
Open(r, ports) ==
    IF Program(r) = "capitalia" /\ ~setting.fromPool
    THEN AppendNew("capitalia", ports, 0) ELSE ports

Close(r) ==
    /\ Reads(r, "text")
    /\ reader[r].chunk > Len(spec)
    /\ LET ports == Open(r, reader[r].ports)
       IN  Becomes(r, Reader(IF Program(r) = "capitalia" /\ ports = <<>> THEN "refused" ELSE "done",
                             reader[r].chunk, 0, ports))

Read == \E r \in Readers : OpenChunk(r) \/ ReadPort(r) \/ Close(r)

-----------------------------------------------------------------------------
(* What a chunk says, whoever reads it; a reversed range is one to C#.     *)
Meant(c) ==
    CASE c.kind = "auto" -> {0}
      [] c.kind = "text" -> {}
      [] OTHER -> (c.low..c.high) \cup (c.high..c.low)

MeantBy(s) == UNION {Meant(s[n]) : n \in DOMAIN s}

(* A piece a program can use: for C# any, for Capitalia a port of the      *)
(* system's choice, for it and the router a range that is the right way    *)
(* round and names port numbers only, of which 0 is none to the router.    *)
Sound(program, c) ==
    \/ program = "csharp"
    \/ program = "capitalia" /\ c.kind = "auto"
    \/ /\ c.kind = "number" /\ c.low <= c.high
       /\ Meant(c) \subseteq (IF program = "router" THEN 1 ELSE 0)..MaxPort

(* Whatever ranges overlap, the ports a parser ends with are those its     *)
(* text names (and 0 after PORT), each once for Capitalia and the router   *)
(* (_append_port_if_new, seen); a text with a piece that is not sound, and *)
(* only such a text or one of PORT_POOL that names no port, is refused.    *)
CandidatesAsMeant ==
    \A r \in Readers :
        LET bad == \/ \E n \in DOMAIN spec : ~Sound(Program(r), spec[n])
                   \/ Program(r) = "capitalia" /\ setting.fromPool /\ spec = <<>>
            open == Program(r) = "capitalia" /\ ~setting.fromPool
        IN  /\ Over(r) => (reader[r].pc = "refused" <=> bad)
            /\ reader[r].pc = "done" =>
                   /\ Program(r) # "csharp" => IsInjective(reader[r].ports)
                   /\ ToSet(reader[r].ports) = MeantBy(spec) \cup (IF open THEN {0} ELSE {})
=============================================================================
