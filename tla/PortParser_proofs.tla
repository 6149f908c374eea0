-------------------------- MODULE PortParser_proofs --------------------------
(***************************************************************************)
(* Proofs about PortParser: for every text, however its pieces overlap,    *)
(* each parser ends with the ports the text names, or refuses it because   *)
(* it is malformed.                                                        *)
(***************************************************************************)
EXTENDS PortParser, TLAPS

(* The ports of the chunks before chunk m.                                 *)
UpTo(m) == UNION {Meant(spec[n]) : n \in 1..(m - 1)}

AllRight(r, m) == \A n \in 1..(m - 1) : ~Malformed(Program(r), spec[n])

EndsOpen(r) == Program(r) = "capitalia" /\ ~setting.fromPool

(* What is wrong with a text that is refused.                              *)
Bad(r) ==
    \/ \E n \in DOMAIN spec : Malformed(Program(r), spec[n])
    \/ Program(r) = "capitalia" /\ setting.fromPool /\ spec = <<>>

ReaderType == [pc : {"text", "range", "done", "refused"}, chunk : Nat \ {0},
               port : Nat, ports : Seq(Nat)]

Unrepeated(r) == Program(r) # "csharp" => IsInjective(reader[r].ports)

(* The loop invariant of the parsers: the list holds the ports of the      *)
(* chunks that are read and of the part of the present one that is.        *)
Progress(r, pc, m, p, ports) ==
    /\ pc = "text" =>
           /\ m <= Len(spec) + 1
           /\ AllRight(r, m)
           /\ ToSet(ports) = UpTo(m)
    /\ pc = "range" =>
           /\ m <= Len(spec)
           /\ AllRight(r, m + 1)
           /\ LET c == spec[m]
              IN  /\ Lower(Program(r), c) <= p /\ p <= Upper(Program(r), c) + 1
                  /\ ToSet(ports) = UpTo(m) \cup (Lower(Program(r), c)..(p - 1))
    /\ pc = "done" =>
           /\ ~Bad(r)
           /\ ToSet(ports) = MeantBy(spec) \cup (IF EndsOpen(r) THEN {0} ELSE {})
           /\ EndsOpen(r) /\ 0 \notin MeantBy(spec) =>
                  /\ Len(ports) > 0 /\ ports[Len(ports)] = 0
    /\ pc = "refused" => Bad(r) /\ ports = <<>>

ReaderOK(r) ==
    /\ Unrepeated(r)
    /\ Progress(r, reader[r].pc, reader[r].chunk, reader[r].port, reader[r].ports)

ReadOK ==
    /\ setting \in Settings
    /\ reader \in [Readers -> ReaderType]
    /\ \A r \in Readers : ReaderOK(r)

-----------------------------------------------------------------------------
(* The text is a sequence of chunks, read by one of three programs.        *)
LEMMA Text ==
    ASSUME setting \in Settings, NEW r \in Readers
    PROVE  /\ spec \in Seq(Chunks) /\ Len(spec) \in Nat /\ DOMAIN spec = 1..Len(spec)
           /\ \A n \in 1..Len(spec) : spec[n] \in Chunks
           /\ Program(r) \in {"capitalia", "csharp", "router"}
           /\ setting.fromPool \in BOOLEAN
  BY SettingsAssumption DEF spec, Program, Readers

(* A chunk that is accepted means the ports the loop runs through; only C# *)
(* takes one without any port.                                             *)
LEMMA ChunkMeans ==
    ASSUME NEW program \in {"capitalia", "csharp", "router"}, NEW c \in Chunks,
           ~Malformed(program, c)
    PROVE  /\ Lower(program, c) \in Nat /\ Upper(program, c) \in Nat
           /\ Lower(program, c) <= Upper(program, c) + 1
           /\ Meant(c) = Lower(program, c)..Upper(program, c)
           /\ program # "csharp" => Lower(program, c) <= Upper(program, c)
           /\ Meant(c) \subseteq Nat
<1>1. c.kind \in {"auto", "text", "number"} /\ c.low \in Nat /\ c.high \in Nat
  BY DEF Chunks
<1>2. CASE c.kind = "auto"
  BY <1>2 DEF Lower, Upper, Meant
<1>3. CASE c.kind = "text"
  BY <1>3 DEF Lower, Upper, Meant, Malformed
<1>4. CASE c.kind = "number" /\ program = "csharp"
  BY <1>1, <1>4 DEF Lower, Upper, Meant, Turned
<1>5. CASE c.kind = "number" /\ program # "csharp"
  BY <1>1, <1>5 DEF Lower, Upper, Meant, Turned, Malformed
<1> QED
  BY <1>1, <1>2, <1>3, <1>4, <1>5

(* Appending a port adds it to the set, and does not repeat it.            *)
LEMMA Appends ==
    ASSUME NEW program, NEW ports \in Seq(Nat), NEW p \in Nat
    PROVE  LET new == AppendNew(program, ports, p)
           IN  /\ new \in Seq(Nat)
               /\ ToSet(new) = ToSet(ports) \cup {p}
               /\ program # "csharp" /\ IsInjective(ports) => IsInjective(new)
               /\ p \notin ToSet(ports) => Len(new) > 0 /\ new[Len(new)] = p
<1> DEFINE more == Append(ports, p)
<1>1. /\ more \in Seq(Nat) /\ Len(more) = Len(ports) + 1 /\ more[Len(more)] = p
      /\ DOMAIN more = DOMAIN ports \cup {Len(more)} /\ Len(more) \notin DOMAIN ports
      /\ \A k \in DOMAIN ports : more[k] = ports[k]
      /\ Len(more) > 0
  OBVIOUS
<1> HIDE DEF more
<1>2. ToSet(more) = ToSet(ports) \cup {p}
  BY <1>1 DEF ToSet
<1>3. p \notin ToSet(ports) /\ IsInjective(ports) => IsInjective(more)
  BY <1>1 DEF ToSet, IsInjective
<1>4. \/ AppendNew(program, ports, p) = more
      \/ /\ AppendNew(program, ports, p) = ports
         /\ program # "csharp" /\ p \in ToSet(ports)
  BY DEF AppendNew, more
<1>5. program # "csharp" /\ p \in ToSet(ports) => AppendNew(program, ports, p) = ports
  BY DEF AppendNew
<1> QED
  BY <1>1, <1>2, <1>3, <1>4, <1>5

(* One chunk more.                                                         *)
LEMMA UpToNext ==
    ASSUME NEW m \in Nat \ {0}
    PROVE  UpTo(m + 1) = UpTo(m) \cup Meant(spec[m])
<1>1. 1..(m + 1 - 1) = (1..(m - 1)) \cup {m}
  OBVIOUS
<1> QED
  BY <1>1 DEF UpTo

-----------------------------------------------------------------------------
(* A turn of a loop changes one reader.                                    *)
LEMMA BecomesKeeps ==
    ASSUME ReadOK, NEW r \in Readers, NEW pc \in {"text", "range", "done", "refused"},
           NEW m \in Nat \ {0}, NEW p \in Nat, NEW ports \in Seq(Nat),
           Becomes(r, Reader(pc, m, p, ports)),
           Program(r) # "csharp" => IsInjective(ports),
           Progress(r, pc, m, p, ports)
    PROVE  ReadOK'
<1> DEFINE new == Reader(pc, m, p, ports)
<1>1. /\ new \in ReaderType
      /\ new.pc = pc /\ new.chunk = m /\ new.port = p /\ new.ports = ports
  BY DEF Reader, ReaderType
<1>2. reader' = [reader EXCEPT ![r] = new] /\ setting' = setting
  BY DEF Becomes
<1> HIDE DEF new
<1>3. reader \in [Readers -> ReaderType] /\ reader' \in [Readers -> ReaderType]
  BY <1>1, <1>2 DEF ReadOK
<1>4. ASSUME NEW q \in Readers
      PROVE  ReaderOK(q)'
  <2> DEFINE was == IF q = r THEN new ELSE reader[q]
  <2>1. reader'[q] = was
    BY <1>2, <1>3
  <2>2. /\ Program(q) # "csharp" => IsInjective(was.ports)
        /\ Progress(q, was.pc, was.chunk, was.port, was.ports)
    BY <1>1 DEF ReadOK, ReaderOK, Unrepeated
  <2> HIDE DEF was
  <2>3. Unrepeated(q)'
    BY <1>2, <2>1, <2>2 DEF Unrepeated, Program
  <2>4. ASSUME NEW k \in Nat
        PROVE  AllRight(q, k)' = AllRight(q, k) /\ UpTo(k)' = UpTo(k)
    BY <1>2 DEF AllRight, UpTo, Program, spec
  <2>5. /\ spec' = spec /\ Program(q)' = Program(q)
        /\ Bad(q)' = Bad(q) /\ EndsOpen(q)' = EndsOpen(q)
    BY <1>2 DEF Bad, EndsOpen, Program, spec
  <2>6. was.chunk \in Nat /\ was.chunk + 1 \in Nat
    BY <1>1, <1>3 DEF was, ReadOK, ReaderType
  <2>7. Progress(q, reader[q].pc, reader[q].chunk, reader[q].port, reader[q].ports)'
    BY <2>1, <2>2, <2>4, <2>5, <2>6 DEF Progress
  <2> QED
    BY <2>3, <2>7 DEF ReaderOK
<1> QED
  BY <1>2, <1>3, <1>4 DEF ReadOK

(* Nothing of it depends on anything but the text and the readers.         *)
LEMMA ReadStays ==
    ASSUME ReadOK, UNCHANGED <<setting, reader>>
    PROVE  ReadOK'
<1>1. ASSUME NEW q \in Readers
      PROVE  ReaderOK(q)'
  <2>1. Unrepeated(q)'
    BY DEF ReadOK, ReaderOK, Unrepeated, Program
  <2>2. ASSUME NEW k \in Nat
        PROVE  AllRight(q, k)' = AllRight(q, k) /\ UpTo(k)' = UpTo(k)
    BY DEF AllRight, UpTo, Program, spec
  <2>3. /\ spec' = spec /\ Program(q)' = Program(q)
        /\ Bad(q)' = Bad(q) /\ EndsOpen(q)' = EndsOpen(q)
    BY DEF Bad, EndsOpen, Program, spec
  <2>4. reader[q].chunk \in Nat /\ reader[q].chunk + 1 \in Nat
    BY DEF ReadOK, ReaderType
  <2>5. Progress(q, reader[q].pc, reader[q].chunk, reader[q].port, reader[q].ports)
    BY DEF ReadOK, ReaderOK
  <2>6. Progress(q, reader[q].pc, reader[q].chunk, reader[q].port, reader[q].ports)'
    BY <2>2, <2>3, <2>4, <2>5 DEF Progress
  <2> QED
    BY <2>1, <2>6 DEF ReaderOK
<1> QED
  BY <1>1 DEF ReadOK

(* A chunk is opened, or refused.                                          *)
LEMMA OpenChunkKeeps ==
    ASSUME ReadOK, NEW r \in Readers, OpenChunk(r)
    PROVE  ReadOK'
<1> DEFINE m == reader[r].chunk
           ports == reader[r].ports
           c == spec[m]
<1>1. /\ m \in Nat \ {0} /\ ports \in Seq(Nat) /\ setting \in Settings
      /\ reader[r].pc = "text" /\ m <= Len(spec)
      /\ Unrepeated(r) /\ Progress(r, "text", m, reader[r].port, ports)
  BY DEF ReadOK, ReaderType, ReaderOK, OpenChunk, Reads
<1>2. /\ DOMAIN spec = 1..Len(spec) /\ Len(spec) \in Nat /\ c \in Chunks
      /\ Program(r) \in {"capitalia", "csharp", "router"}
  BY <1>1, Text
<1>3. CASE Malformed(Program(r), c)
  <2>1. Becomes(r, Reader("refused", m, 0, <<>>))
    BY <1>3 DEF OpenChunk
  <2>2. Progress(r, "refused", m, 0, <<>>)
    BY <1>1, <1>2, <1>3 DEF Progress, Bad
  <2>3. <<>> \in Seq(Nat) /\ IsInjective(<<>>)
    BY DEF IsInjective
  <2> HIDE DEF m
  <2> QED
    BY <1>1, <2>1, <2>2, <2>3, BecomesKeeps
<1>4. CASE ~Malformed(Program(r), c)
  <2> DEFINE p == Lower(Program(r), c)
  <2>1. Becomes(r, Reader("range", m, p, ports))
    BY <1>4 DEF OpenChunk
  <2>2. p \in Nat /\ p <= Upper(Program(r), c) + 1 /\ Lower(Program(r), c) <= p
    BY <1>2, <1>4, ChunkMeans
  <2>3. AllRight(r, m + 1)
    BY <1>1, <1>4 DEF AllRight, Progress
  <2>4. p..(p - 1) = {}
    BY <2>2
  <2>5. Progress(r, "range", m, p, ports)
    BY <1>1, <2>2, <2>3, <2>4 DEF Progress
  <2>6. Program(r) # "csharp" => IsInjective(ports)
    BY <1>1 DEF Unrepeated
  <2> HIDE DEF m, ports, p
  <2> QED
    BY <1>1, <2>1, <2>2, <2>5, <2>6, BecomesKeeps
<1> QED
  BY <1>3, <1>4

(* A port of the chunk is read, or the chunk is over.                      *)
LEMMA ReadPortKeeps ==
    ASSUME ReadOK, NEW r \in Readers, ReadPort(r)
    PROVE  ReadOK'
<1> DEFINE m == reader[r].chunk
           p == reader[r].port
           ports == reader[r].ports
           c == spec[m]
           low == Lower(Program(r), c)
           high == Upper(Program(r), c)
<1>1. /\ m \in Nat \ {0} /\ p \in Nat /\ ports \in Seq(Nat) /\ setting \in Settings
      /\ reader[r].pc = "range"
      /\ Unrepeated(r) /\ Progress(r, "range", m, p, ports)
  BY DEF ReadOK, ReaderType, ReaderOK, ReadPort, Reads
<1>2. /\ m <= Len(spec) /\ AllRight(r, m + 1) /\ low <= p /\ p <= high + 1
      /\ ToSet(ports) = UpTo(m) \cup (low..(p - 1))
  BY <1>1 DEF Progress
<1>3. /\ Len(spec) \in Nat /\ c \in Chunks
      /\ Program(r) \in {"capitalia", "csharp", "router"}
  BY <1>1, <1>2, Text
<1>4. ~Malformed(Program(r), c)
  BY <1>1, <1>2 DEF AllRight
<1>5. low \in Nat /\ high \in Nat /\ Meant(c) = low..high
  BY <1>3, <1>4, ChunkMeans
<1>6. Program(r) # "csharp" => IsInjective(ports)
  BY <1>1 DEF Unrepeated
<1>7. CASE p <= high
  <2> DEFINE more == AppendNew(Program(r), ports, p)
  <2>1. Becomes(r, Reader("range", m, p + 1, more))
    BY <1>7 DEF ReadPort
  <2> HIDE DEF m, p, ports, c, low, high
  <2>2. /\ more \in Seq(Nat) /\ ToSet(more) = ToSet(ports) \cup {p}
        /\ Program(r) # "csharp" => IsInjective(more)
    BY <1>1, <1>6, Appends
  <2> HIDE DEF more
  <2>3. low..(p + 1 - 1) = (low..(p - 1)) \cup {p} /\ p + 1 <= high + 1 /\ low <= p + 1
    BY <1>1, <1>2, <1>5, <1>7
  <2>4. ToSet(more) = UpTo(m) \cup (low..(p + 1 - 1))
    BY <1>2, <2>2, <2>3
  <2>5. Progress(r, "range", m, p + 1, more) /\ p + 1 \in Nat
    BY <1>1, <1>2, <2>3, <2>4 DEF Progress, c, low, high
  <2> QED
    BY <1>1, <2>1, <2>2, <2>5, BecomesKeeps
<1>8. CASE ~(p <= high)
  <2>1. Becomes(r, Reader("text", m + 1, 0, ports))
    BY <1>8 DEF ReadPort
  <2> HIDE DEF m, p, ports, c, low, high
  <2>2. p - 1 = high /\ m + 1 <= Len(spec) + 1 /\ m + 1 \in Nat \ {0}
    BY <1>1, <1>2, <1>3, <1>5, <1>8
  <2>3. ToSet(ports) = UpTo(m + 1)
    BY <1>1, <1>2, <1>5, <2>2, UpToNext DEF c
  <2>4. Progress(r, "text", m + 1, 0, ports)
    BY <1>2, <2>2, <2>3 DEF Progress
  <2> QED
    BY <1>1, <1>6, <2>1, <2>2, <2>4, BecomesKeeps
<1> QED
  BY <1>7, <1>8

(* The text is over: what is read is what it means.                        *)
LEMMA CloseKeeps ==
    ASSUME ReadOK, NEW r \in Readers, Close(r)
    PROVE  ReadOK'
<1> DEFINE m == reader[r].chunk
           ports == reader[r].ports
           last == Open(r, ports)
           pc == IF Program(r) = "capitalia" /\ last = <<>> THEN "refused" ELSE "done"
<1>1. /\ m \in Nat \ {0} /\ ports \in Seq(Nat) /\ setting \in Settings
      /\ reader[r].pc = "text" /\ m > Len(spec)
      /\ Unrepeated(r) /\ Progress(r, "text", m, reader[r].port, ports)
  BY DEF ReadOK, ReaderType, ReaderOK, Close, Reads
<1>2. /\ Len(spec) \in Nat /\ DOMAIN spec = 1..Len(spec) /\ spec \in Seq(Chunks)
      /\ \A n \in 1..Len(spec) : spec[n] \in Chunks
      /\ Program(r) \in {"capitalia", "csharp", "router"}
  BY <1>1, Text
<1>3. m = Len(spec) + 1 /\ 1..(m - 1) = DOMAIN spec
  BY <1>1, <1>2 DEF Progress
<1>4. /\ \A n \in DOMAIN spec : ~Malformed(Program(r), spec[n])
      /\ ToSet(ports) = MeantBy(spec)
  BY <1>1, <1>3 DEF Progress, AllRight, UpTo, MeantBy
<1>5. Becomes(r, Reader(pc, m, 0, last))
  BY DEF Close
<1>6. Program(r) # "csharp" => IsInjective(ports)
  BY <1>1 DEF Unrepeated
<1> HIDE DEF m, ports
<1>7. CASE EndsOpen(r)
  <2>1. last = AppendNew("capitalia", ports, 0)
    BY <1>7 DEF Open, EndsOpen
  <2> HIDE DEF last
  <2>0. 0 \in Nat /\ IsInjective(ports)
    BY <1>6, <1>7 DEF EndsOpen
  <2>2. /\ last \in Seq(Nat) /\ ToSet(last) = MeantBy(spec) \cup {0}
        /\ IsInjective(last)
        /\ 0 \notin MeantBy(spec) => Len(last) > 0 /\ last[Len(last)] = 0
    <3>1. /\ last \in Seq(Nat) /\ ToSet(last) = ToSet(ports) \cup {0}
          /\ "capitalia" # "csharp" /\ IsInjective(ports) => IsInjective(last)
          /\ 0 \notin ToSet(ports) => Len(last) > 0 /\ last[Len(last)] = 0
      <4> DEFINE new(program) == AppendNew(program, ports, 0)
      <4>1. ASSUME NEW program
            PROVE  /\ new(program) \in Seq(Nat)
                   /\ ToSet(new(program)) = ToSet(ports) \cup {0}
                   /\ program # "csharp" /\ IsInjective(ports) => IsInjective(new(program))
                   /\ 0 \notin ToSet(ports) =>
                          Len(new(program)) > 0 /\ new(program)[Len(new(program))] = 0
        BY <1>1, <2>0, Appends
      <4> QED
        BY <2>1, <4>1
    <3> QED
      BY <1>4, <2>0, <3>1
  <2>3. last # <<>>
    BY <2>2 DEF ToSet
  <2>4. pc = "done"
    BY <2>3
  <2> HIDE DEF pc
  <2>5. Progress(r, pc, m, 0, last)
    BY <1>4, <1>7, <2>2, <2>4 DEF Progress, Bad, EndsOpen
  <2> QED
    BY <1>1, <1>5, <2>2, <2>4, <2>5, BecomesKeeps
<1>8. CASE ~EndsOpen(r)
  <2>1. last = ports
    BY <1>8 DEF Open, EndsOpen
  <2>2. Program(r) = "capitalia" /\ spec # <<>> => ports # <<>>
    <3> SUFFICES ASSUME Program(r) = "capitalia", spec # <<>>
                 PROVE  ports # <<>>
      OBVIOUS
    <3>1. 1 \in DOMAIN spec /\ spec[1] \in Chunks /\ ~Malformed(Program(r), spec[1])
      BY <1>2, <1>4
    <3>2. Lower(Program(r), spec[1]) \in Meant(spec[1])
      BY <1>2, <3>1, ChunkMeans
    <3>3. Lower(Program(r), spec[1]) \in ToSet(ports)
      BY <1>4, <3>1, <3>2 DEF MeantBy
    <3> QED
      BY <3>3 DEF ToSet
  <2>3. spec = <<>> => ports = <<>>
    <3> SUFFICES ASSUME spec = <<>>
                 PROVE  ports = <<>>
      OBVIOUS
    <3>1. DOMAIN spec = {}
      OBVIOUS
    <3>2. ToSet(ports) = {}
      BY <1>4, <3>1 DEF MeantBy
    <3>3. DOMAIN ports = {}
      BY <3>2 DEF ToSet
    <3> QED
      BY <1>1, <3>3
  <2>4. CASE Program(r) = "capitalia" /\ ports = <<>>
    <3>1. pc = "refused" /\ Bad(r)
      BY <1>8, <2>1, <2>2, <2>4, <1>1, Text DEF Bad, EndsOpen
    <3> HIDE DEF last, pc
    <3>2. Progress(r, pc, m, 0, last)
      BY <2>1, <2>4, <3>1 DEF Progress
    <3> QED
      BY <1>1, <1>5, <1>6, <2>1, <3>1, <3>2, BecomesKeeps
  <2>5. CASE ~(Program(r) = "capitalia" /\ ports = <<>>)
    <3>1. pc = "done" /\ ~Bad(r)
      BY <1>4, <2>1, <2>3, <2>5 DEF Bad
    <3> HIDE DEF last, pc
    <3>2. Progress(r, pc, m, 0, last)
      BY <1>4, <1>8, <2>1, <3>1 DEF Progress
    <3> QED
      BY <1>1, <1>5, <1>6, <2>1, <3>1, <3>2, BecomesKeeps
  <2> QED
    BY <2>4, <2>5
<1> QED
  BY <1>7, <1>8

(* The invariant holds when nothing is read and after every turn.          *)
LEMMA ReadKeeps ==
    /\ ReadInit => ReadOK
    /\ ReadOK /\ Read => ReadOK'
<1>1. ASSUME ReadInit
      PROVE  ReadOK
  <2>1. /\ setting \in Settings
        /\ \A r \in Readers : reader[r] = Reader("text", 1, 0, <<>>)
    BY <1>1 DEF ReadInit
  <2>2. reader \in [Readers -> ReaderType]
    BY <1>1 DEF ReadInit, Reader, ReaderType
  <2>3. ASSUME NEW r \in Readers
        PROVE  ReaderOK(r)
    <3>1. /\ reader[r].pc = "text" /\ reader[r].chunk = 1 /\ reader[r].ports = <<>>
      BY <2>1 DEF Reader
    <3>2. IsInjective(<<>>) /\ ToSet(<<>>) = {}
      BY DEF IsInjective, ToSet
    <3>3. UpTo(1) = {} /\ AllRight(r, 1)
      BY DEF UpTo, AllRight
    <3>4. 1 <= Len(spec) + 1
      BY <2>1, Text
    <3> QED
      BY <3>1, <3>2, <3>3, <3>4 DEF ReaderOK, Unrepeated, Progress
  <2> QED
    BY <2>1, <2>2, <2>3 DEF ReadOK
<1> QED
  BY <1>1, OpenChunkKeeps, ReadPortKeeps, CloseKeeps DEF Read

(* The bounds a parser tests are those of a sound piece.                   *)
LEMMA MalformedIsUnsound ==
    ASSUME NEW program \in {"capitalia", "csharp", "router"}, NEW c \in Chunks
    PROVE  Malformed(program, c) <=> ~Sound(program, c)
<1>1. c.kind \in {"auto", "text", "number"} /\ c.low \in Nat /\ c.high \in Nat
  BY DEF Chunks
<1>2. CASE c.kind # "number"
  BY <1>1, <1>2 DEF Malformed, Sound
<1>3. CASE c.kind = "number" /\ c.low <= c.high
  <2> DEFINE lowest == IF program = "router" THEN 1 ELSE 0
  <2>1. Meant(c) = c.low..c.high
    BY <1>1, <1>3 DEF Meant
  <2>2. c.low..c.high \subseteq lowest..MaxPort <=> lowest <= c.low /\ c.high <= MaxPort
    <3>1. c.low \in c.low..c.high /\ c.high \in c.low..c.high
      BY <1>1, <1>3
    <3> QED
      BY <1>1, <3>1, MaxPortAssumption
  <2>3. Lowest(program) = lowest
    BY DEF Lowest
  <2> HIDE DEF lowest
  <2>4. Sound(program, c) <=> program = "csharp" \/ c.low..c.high \subseteq lowest..MaxPort
    BY <1>3, <2>1 DEF Sound, lowest
  <2> QED
    BY <1>3, <2>2, <2>3, <2>4 DEF Malformed
<1>4. CASE c.kind = "number" /\ ~(c.low <= c.high)
  BY <1>4 DEF Malformed, Sound
<1> QED
  BY <1>2, <1>3, <1>4

LEMMA BadIsUnsound ==
    ASSUME setting \in Settings, NEW r \in Readers
    PROVE  Bad(r) <=> \/ \E n \in DOMAIN spec : ~Sound(Program(r), spec[n])
                      \/ Program(r) = "capitalia" /\ setting.fromPool /\ spec = <<>>
<1>1. Program(r) \in {"capitalia", "csharp", "router"}
  BY SettingsAssumption DEF Program, Readers
<1>2. \A n \in DOMAIN spec : Malformed(Program(r), spec[n]) <=> ~Sound(Program(r), spec[n])
  BY <1>1, Text, MalformedIsUnsound
<1> QED
  BY <1>2 DEF Bad

(* What the invariant says of a parser that is done.                       *)
LEMMA ReadAsMeant == ReadOK => CandidatesAsMeant
<1> SUFFICES ASSUME ReadOK, NEW r \in Readers
             PROVE  /\ Over(r) => (reader[r].pc = "refused" <=> Bad(r))
                    /\ reader[r].pc = "done" =>
                           /\ Program(r) # "csharp" => IsInjective(reader[r].ports)
                           /\ ToSet(reader[r].ports)
                                  = MeantBy(spec) \cup (IF EndsOpen(r) THEN {0} ELSE {})
  BY BadIsUnsound DEF CandidatesAsMeant, EndsOpen, ReadOK
<1> QED
  BY DEF ReadOK, ReaderOK, Unrepeated, Progress, Over

(* A port is no 0 to the router.                                           *)
LEMMA RouterHasNoZero ==
    ASSUME setting \in Settings, ~Bad("router")
    PROVE  0 \notin MeantBy(spec) /\ MeantBy(spec) \subseteq Nat
<1> SUFFICES ASSUME NEW n \in DOMAIN spec
             PROVE  0 \notin Meant(spec[n]) /\ Meant(spec[n]) \subseteq Nat
  BY DEF MeantBy
<1>1. spec[n] \in Chunks /\ ~Malformed("router", spec[n])
  BY Text DEF Bad, Program, Readers
<1>2. /\ spec[n].kind = "number" /\ spec[n].low \in Nat /\ spec[n].high \in Nat
      /\ 1 <= spec[n].low /\ spec[n].low <= spec[n].high
      \/ spec[n].kind = "text"
  BY <1>1 DEF Malformed, Chunks, Lowest
<1>3. CASE spec[n].kind = "text"
  BY <1>3 DEF Meant
<1>4. CASE spec[n].kind = "number"
  BY <1>2, <1>4 DEF Meant
<1> QED
  BY <1>2, <1>3, <1>4
=============================================================================
