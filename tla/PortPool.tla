------------------------------- MODULE PortPool -------------------------------
(***************************************************************************)
(* Several instances of one service started on one host with the same port *)
(* specification (docker-compose.yml: host network, --scale app=4), each   *)
(* looking for a port of its own.  Capitalia walks its candidates with     *)
(* bind and listen (main.py, app/server.py); the purchase requests service *)
(* reserves a port with a listener, closes it, and lets its web server     *)
(* bind the port again (Program.cs).  Instances die and are started again. *)
(***************************************************************************)
EXTENDS PortParser, FiniteSets

CONSTANTS
    Instances,
    Foreign       \* ports on which other programs listen

ASSUME PortPoolAssumption == IsFiniteSet(Instances) /\ Foreign \subseteq Nat \ {0}

VARIABLE inst     \* where each process is, and which candidate it is at

config == <<setting, reader>>
vars == <<config, inst>>

(* The candidate list of an instance, and the ports the router probes,     *)
(* given the same text; both empty after ValueError.                       *)
candidates == reader["service"].ports
watched == ToSet(reader["router"].ports)

(* off: not running; bound: bound but not listening yet; reserved,         *)
(* released: held by the reservation, given back; exhausted, failed: ended *)
(* with an exception.                                                      *)
PCs == {"off", "trying", "bound", "reserved", "released", "serving", "exhausted", "failed"}

Off == [pc |-> "off", place |-> 0]
At(pc, k) == [pc |-> pc, place |-> k]

Init == ReadInit /\ inst = [i \in Instances |-> Off]

-----------------------------------------------------------------------------
(* The port an instance is at; 0 is a port of the system's choice, which   *)
(* nobody else has.                                                        *)
PortOf(i) == candidates[inst[i].place]

Holds(i, p) ==
    /\ inst[i].pc \in {"reserved", "serving"}
    /\ inst[i].place \in DOMAIN candidates
    /\ PortOf(i) = p

Taken(p) == p # 0 /\ (p \in Foreign \/ \E j \in Instances : Holds(j, p))

Move(i, pc) == inst' = [inst EXCEPT ![i] = At(pc, inst[i].place)] /\ UNCHANGED config
NextPlace(i) ==
    inst' = [inst EXCEPT ![i] = At("trying", inst[i].place + 1)] /\ UNCHANGED config

(* The process starts; Config() may have refused the specification.        *)
Start(i) ==
    /\ \A r \in Readers : Over(r)
    /\ inst[i].pc = "off"
    /\ inst' = [inst EXCEPT ![i] = IF reader["service"].pc = "done" THEN At("trying", 1)
                                   ELSE At("failed", 0)]
    /\ UNCHANGED config

Trying(i, service) ==
    /\ setting.service = service
    /\ inst[i].pc = "trying"
    /\ inst[i].place <= Len(candidates)

(* Variant: EADDRINUSE of bind ends the instance.                          *)
BindOnce(i) ==
    /\ Trying(i, "capitalia")
    /\ IF Taken(PortOf(i)) THEN Move(i, "failed") ELSE Move(i, "bound")

(* Variant: a port in use costs two candidates.                            *)
BindSkipping(i) ==
    /\ Trying(i, "capitalia")
    /\ IF Taken(PortOf(i))
       THEN inst' = [inst EXCEPT ![i] = At("trying", inst[i].place + 2)] /\ UNCHANGED config
       ELSE Move(i, "bound")

(* sock.bind with SO_REUSEADDR: fails only when someone listens there.     *)
Bind(i) ==
    /\ Trying(i, "capitalia")
    /\ IF Taken(PortOf(i)) THEN NextPlace(i) ELSE Move(i, "bound")

(* sock.listen: of several that are bound to a port, the first to listen   *)
(* gets it and the others have EADDRINUSE here.                            *)
Listen(i) ==
    /\ inst[i].pc = "bound"
    /\ IF Taken(PortOf(i)) THEN NextPlace(i) ELSE Move(i, "serving")

(* ReservePort: TcpListener.Start on each candidate; a number that is no   *)
(* port is not a SocketException and ends the process.                     *)
Reserve(i) ==
    /\ Trying(i, "csharp")
    /\ \/ PortOf(i) > MaxPort /\ Move(i, "failed")
       \/ PortOf(i) <= MaxPort /\ Taken(PortOf(i)) /\ NextPlace(i)
       \/ PortOf(i) <= MaxPort /\ ~Taken(PortOf(i)) /\ Move(i, "reserved")

(* binding.Reservation?.Dispose().                                         *)
Release(i) ==
    /\ inst[i].pc = "reserved"
    /\ Move(i, "released")

(* app.Run() binds the port by its number; it may be gone.                 *)
Rebind(i) ==
    /\ inst[i].pc = "released"
    /\ \/ ~Taken(PortOf(i)) /\ Move(i, "serving")
       \/ (Taken(PortOf(i)) \/ PortOf(i) = 0) /\ Move(i, "failed")

(* "No available ports to bind", "Nenhuma porta disponível".               *)
GiveUp(i) ==
    /\ inst[i].pc = "trying"
    /\ inst[i].place > Len(candidates)
    /\ Move(i, "exhausted")

(* The process is stopped, is killed, or has ended.                        *)
Die(i) ==
    /\ inst[i].pc # "off"
    /\ inst' = [inst EXCEPT ![i] = Off]
    /\ UNCHANGED config

Run(i) == Bind(i) \/ Listen(i) \/ Reserve(i) \/ Release(i) \/ Rebind(i) \/ GiveUp(i)

Next ==
    \/ Read /\ UNCHANGED inst
    \/ \E i \in Instances : Start(i) \/ Run(i) \/ Die(i)

Spec == Init /\ [][Next]_vars

(* A process that runs goes on; nothing says that one is ever started.     *)
FairSpec == Spec /\ \A i \in Instances : WF_vars(Run(i))

-----------------------------------------------------------------------------
(* Every variable keeps its type; nobody starts before the text is read;   *)
(* a place is a candidate's or one past the last.                          *)
TypeOK ==
    /\ setting \in Settings
    /\ reader \in [Readers -> [pc : {"text", "range", "done", "refused"}, chunk : Nat \ {0},
                              port : Nat, ports : Seq(Nat)]]
    /\ inst \in [Instances -> [pc : PCs, place : Nat]]
    /\ \A i \in Instances :
           /\ IF inst[i].pc = "off" THEN inst[i].place = 0 ELSE \A r \in Readers : Over(r)
           /\ inst[i].pc \notin {"off", "failed"} => inst[i].place \in 1..(Len(candidates) + 1)
           /\ inst[i].pc \in {"bound", "reserved", "released", "serving"} =>
                  inst[i].place \in DOMAIN candidates
           /\ inst[i].pc = "exhausted" => inst[i].place > Len(candidates)

FreePlaces(m) == {k \in 1..m : candidates[k] \notin Foreign}

(* There is a free candidate for each instance.                            *)
Enough ==
    /\ IsInjective(candidates)
    /\ Cardinality(Instances) <= Cardinality(FreePlaces(Len(candidates)))

(* However the instances race for the ports, die and start again, none of  *)
(* them runs out of candidates ("No available ports to bind", main.py:31)  *)
(* while there are enough for all.                                         *)
NobodyGivesUp == Enough => \A i \in Instances : inst[i].pc # "exhausted"

(* "mantenha ranges explícitos para coincidir com o que ele monitora"      *)
(* (README.md, PORT and PORT_POOL): with the same text as BACKEND_PORTS,   *)
(* the router watches every port an instance serves on: always when        *)
(* PORT_POOL is used, and with PORT when its ports suffice.                *)
Discoverable ==
    /\ reader["router"].pc = "done"
    /\ \/ setting.service = "csharp"
       \/ setting.fromPool
       \/ Cardinality(Instances) <= Cardinality(watched \ Foreign)
    => \A i \in Instances :
           inst[i].pc = "serving" => PortOf(i) \in watched

(* With enough candidates every start of Capitalia that is not killed ends *)
(* in service: losing a port between bind and listen costs it one          *)
(* candidate, never the start.                                             *)
StartsServe ==
    \A i \in Instances :
        setting.service = "capitalia" /\ Enough /\ inst[i].pc = "trying"
            ~> inst[i].pc \in {"serving", "off"}
=============================================================================
