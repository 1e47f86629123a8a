----------------------------- MODULE MainProofs -----------------------------
(***************************************************************************)
(* Theorems about main: what Lifecycle says of its calls before and after  *)
(* the poll loop, for any processes and interfaces, and what EventLoop     *)
(* says of the loop, for any clients, queue and interval.                  *)
(***************************************************************************)
EXTENDS Lifecycle, EventLoop, TLAPS

(* Lifecycle.  The inductive invariant: what is claimed, and what each process is
   known to own at each point of its life. *)

\* Before it asks for an egress filter a process has none; afterwards it has the
\* filter or counts as lame, and so does one whose filter a lame one has emptied.
EgressHeld == \A p \in Proc :
  /\ pc[p] \in {"signals", "load", "attach_in", "attach_eg"} => ~has_egress[p]
  /\ pc[p] \in {"engine", "ring", "cli", "prom", "run", "destroy_in", "destroy_eg"} =>
       \/ has_egress[p] /\ filter[iface[p]]["egress"] = p
       \/ iface[p] \in lame

\* A filter belongs to a process that has yet to empty its direction.
FilterOwned == \A p \in Proc, i \in Iface, d \in Direction : filter[i][d] = p =>
  /\ iface[p] = i
  /\ Observing(p) \/ (pc[p] = "destroy_eg" /\ d = "egress")

\* The socket path belongs to a process that will remove it.
PathOwned == \A p \in Proc : sock_path = p =>
  has_cli[p] /\ pc[p] \in {"prom", "run", "destroy_in", "destroy_eg", "close_cli"}

Orphans ==
  /\ \A i \in Iface, d \in Direction : filter[i][d] = Orphan => i \in accident
  /\ sock_path = Orphan => crashed

IInv == TypeOK /\ IngressKept /\ EgressHeld /\ FilterOwned /\ PathOwned /\ Orphans
-----------------------------------------------------------------------------
\* Nothing is owned at first.
LEMMA InitInv == Init => IInv
<1> SUFFICES ASSUME Init PROVE IInv
  OBVIOUS
<1>1. TypeOK
  BY OwnerAssumption DEF Init, TypeOK, PC, Owner
<1>2. IngressKept
  BY OwnerAssumption DEF Init, Direction, IngressKept, Observing
<1>3. EgressHeld
  BY OwnerAssumption DEF Init, Direction, EgressHeld
<1>4. FilterOwned
  BY OwnerAssumption DEF Init, Direction, FilterOwned, Observing
<1>5. PathOwned
  BY OwnerAssumption DEF Init, PathOwned
<1>6. Orphans
  BY OwnerAssumption DEF Init, Direction, Orphans, FilterOwned, Observing, PathOwned
<1> QED
  BY <1>1, <1>2, <1>3, <1>4, <1>5, <1>6 DEF IInv

\* What putting owner o in direction d of p's interface does.
LEMMA FilterPut ==
  ASSUME TypeOK, NEW p \in Proc, NEW d \in Direction, NEW o \in Owner,
         filter' = [filter EXCEPT ![iface[p]][d] = o]
  PROVE  /\ filter' \in [Iface -> [Direction -> Owner]]
         /\ \A i \in Iface, e \in Direction :
              filter'[i][e] = IF i = iface[p] /\ e = d THEN o ELSE filter[i][e]
<1>1. iface[p] \in Iface /\ filter[iface[p]] \in [Direction -> Owner]
  BY DEF TypeOK
<1>2. [filter[iface[p]] EXCEPT ![d] = o] \in [Direction -> Owner]
  BY <1>1
<1> QED
  BY <1>1, <1>2 DEF TypeOK

\* A process starts with nothing.
LEMMA StartInv ==
  ASSUME IInv, NEW p \in Proc, NEW i \in Iface, Start(p, i)
  PROVE  IInv'
<1> USE OwnerAssumption DEF IInv, TypeOK, Direction, Start, Goes,
           fds, history
<1>1. TypeOK'
  BY DEF PC, Owner
<1>2. IngressKept'
  BY DEF IngressKept, Observing
<1>3. EgressHeld'
  BY DEF EgressHeld
<1>4. FilterOwned'
  BY DEF FilterOwned, Observing
<1>5. PathOwned'
  BY DEF PathOwned
<1>6. Orphans'
  BY DEF Orphans, FilterOwned, Observing, PathOwned
<1> QED
  BY <1>1, <1>2, <1>3, <1>4, <1>5, <1>6

\* Its signal handler is installed.
LEMMA SignalsInv ==
  ASSUME IInv, NEW p \in Proc, Signals(p)
  PROVE  IInv'
<1> USE OwnerAssumption DEF IInv, TypeOK, Direction, Signals, Goes,
           fds, history
<1>1. TypeOK'
  BY DEF PC, Owner
<1>2. IngressKept'
  BY DEF IngressKept, Observing
<1>3. EgressHeld'
  BY DEF EgressHeld
<1>4. FilterOwned'
  BY DEF FilterOwned, Observing
<1>5. PathOwned'
  BY DEF PathOwned
<1>6. Orphans'
  BY DEF Orphans, FilterOwned, Observing, PathOwned
<1> QED
  BY <1>1, <1>2, <1>3, <1>4, <1>5, <1>6

\* A signal ends only a process that owns nothing yet.
LEMMA SignalInv ==
  ASSUME IInv, NEW p \in Proc, Signal(p)
  PROVE  IInv'
<1> USE DEF IInv
<1>0. /\ pc' \in [Proc -> PC] /\ running' \in [Proc -> BOOLEAN]
      /\ pc' = pc \/ (pc[p] = "signals" /\ pc' = [pc EXCEPT ![p] = "off"])
      /\ filter' = filter
      /\ UNCHANGED <<iface, has_egress, has_cli, has_prom, sock_path, prom_port,
                    accident, crashed, lame>>
  <2>1. pc' = pc \/ (pc[p] = "signals" /\ pc' = [pc EXCEPT ![p] = "off"])
    BY DEF Signal, Handled, Goes
  <2>2. CASE Handled(p)
    BY <2>2, <2>1 DEF Signal, fds, TypeOK, PC
  <2>3. CASE ~Handled(p)
    <3>1. \A i \in Iface, d \in Direction : filter[i][d] # p
      BY <2>3 DEF Handled, FilterOwned, Observing
    <3>2. Abandoned(p) = filter
      BY <3>1 DEF Abandoned, TypeOK
    <3> QED
      BY <2>3, <2>1, <3>2 DEF Signal, fds, TypeOK, PC
  <2> QED
    BY <2>2, <2>3
<1>1. TypeOK'
  BY <1>0 DEF TypeOK
<1>2. IngressKept'
  BY <1>0 DEF IngressKept, Observing, TypeOK
<1>3. EgressHeld'
  BY <1>0 DEF EgressHeld, TypeOK
<1>4. FilterOwned'
  BY <1>0 DEF FilterOwned, Observing, TypeOK
<1>5. PathOwned'
  BY <1>0 DEF PathOwned, TypeOK
<1>6. Orphans'
  BY <1>0 DEF Orphans
<1> QED
  BY <1>1, <1>2, <1>3, <1>4, <1>5, <1>6

\* What a failed start leaves behind is an accident.
LEMMA LoadStepInv ==
  ASSUME IInv, NEW p \in Proc, LoadStep(p)
  PROVE  IInv'
<1> USE OwnerAssumption DEF IInv, TypeOK, Direction, LoadStep, Goes, Exits, Abandoned, Accident,
           fds, history
<1>1. TypeOK'
  <2>1. CASE Exits(p)
    BY <2>1 DEF PC, Owner
  <2>2. CASE ~Exits(p)
    BY <2>2 DEF PC, Owner
  <2> QED
    BY <2>1, <2>2
<1>2. IngressKept'
  BY DEF IngressKept, Observing
<1>3. EgressHeld'
  BY DEF EgressHeld
<1>4. FilterOwned'
  BY DEF FilterOwned, Observing
<1>5. PathOwned'
  BY DEF PathOwned
<1>6. Orphans'
  BY DEF Orphans, FilterOwned, Observing, PathOwned
<1> QED
  BY <1>1, <1>2, <1>3, <1>4, <1>5, <1>6

\* Nobody's ingress filter is displaced.
LEMMA AttachIngressInv ==
  ASSUME IInv, NEW p \in Proc, AttachIngress(p)
  PROVE  IInv'
<1> USE OwnerAssumption DEF IInv, TypeOK, Direction, AttachIngress, Attaches, Goes,
           fds, history
<1> DEFINE Attached ==
      /\ filter' \in [Iface -> [Direction -> Owner]]
      /\ \A i \in Iface, e \in Direction :
           filter'[i][e] = IF i = iface[p] /\ e = "ingress" THEN p ELSE filter[i][e]
<1>0. \/ Attaches(iface[p], "ingress") /\ Goes(p, "attach_eg") /\ Attached
      \/ Goes(p, "off") /\ UNCHANGED filter
  <2>1. "ingress" \in Direction /\ p \in Owner
    BY DEF Owner
  <2>2. filter' = [filter EXCEPT ![iface[p]]["ingress"] = p] => Attached
    BY <2>1, FilterPut
  <2> QED
    BY <2>2
<1>1. TypeOK'
  BY <1>0 DEF PC
<1>2. IngressKept'
  BY <1>0 DEF IngressKept, Observing
<1>3. EgressHeld'
  BY <1>0 DEF EgressHeld
<1>4. FilterOwned'
  BY <1>0 DEF FilterOwned, Observing
<1>5. PathOwned'
  BY DEF PathOwned
<1>6. Orphans'
  BY DEF Orphans, FilterOwned, Observing, PathOwned
<1> QED
  BY <1>1, <1>2, <1>3, <1>4, <1>5, <1>6

\* Nobody's egress filter is displaced, and whoever gets none is lame.
LEMMA AttachEgressInv ==
  ASSUME IInv, NEW p \in Proc, AttachEgress(p)
  PROVE  IInv'
<1> USE OwnerAssumption DEF IInv, TypeOK, Direction, AttachEgress, Attaches, Goes,
           fds, history
<1> DEFINE Attached ==
      /\ filter' \in [Iface -> [Direction -> Owner]]
      /\ \A i \in Iface, e \in Direction :
           filter'[i][e] = IF i = iface[p] /\ e = "egress" THEN p ELSE filter[i][e]
<1>0. \/ /\ Attaches(iface[p], "egress") /\ Attached
         /\ has_egress' = [has_egress EXCEPT ![p] = TRUE] /\ UNCHANGED lame
      \/ lame' = lame \cup {iface[p]} /\ UNCHANGED <<filter, has_egress>>
  <2>1. "egress" \in Direction /\ p \in Owner
    BY DEF Owner
  <2>2. filter' = [filter EXCEPT ![iface[p]]["egress"] = p] => Attached
    BY <2>1, FilterPut
  <2> QED
    BY <2>2
<1>1. TypeOK'
  BY <1>0 DEF PC
<1>2. IngressKept'
  BY <1>0 DEF IngressKept, Observing
<1>3. EgressHeld'
  BY <1>0 DEF EgressHeld
<1>4. FilterOwned'
  BY <1>0 DEF FilterOwned, Observing
<1>5. PathOwned'
  BY DEF PathOwned
<1>6. Orphans'
  BY <1>0 DEF Orphans, FilterOwned, Observing, PathOwned
<1> QED
  BY <1>1, <1>2, <1>3, <1>4, <1>5, <1>6

\* The socket path changes hands.
LEMMA OpenCliInv ==
  ASSUME IInv, NEW p \in Proc, OpenCli(p)
  PROVE  IInv'
<1> USE OwnerAssumption DEF IInv, TypeOK, Direction, OpenCli, Goes,
           fds, history
<1>1. TypeOK'
  <2>1. CASE sock_path' = p
    BY <2>1 DEF PC, Owner
  <2>2. CASE sock_path' # p
    BY <2>2 DEF PC, Owner
  <2> QED
    BY <2>1, <2>2
<1>2. IngressKept'
  BY DEF IngressKept, Observing
<1>3. EgressHeld'
  BY DEF EgressHeld
<1>4. FilterOwned'
  BY DEF FilterOwned, Observing
<1>5. PathOwned'
  BY DEF PathOwned
<1>6. Orphans'
  BY DEF Orphans, FilterOwned, Observing, PathOwned
<1> QED
  BY <1>1, <1>2, <1>3, <1>4, <1>5, <1>6

\* The port is taken when it is free.
LEMMA OpenPromInv ==
  ASSUME IInv, NEW p \in Proc, OpenProm(p)
  PROVE  IInv'
<1> USE OwnerAssumption DEF IInv, TypeOK, Direction, OpenProm, Goes,
           fds, history
<1>1. TypeOK'
  <2>1. CASE prom_port = NoProc
    BY <2>1 DEF PC, Owner
  <2>2. CASE prom_port # NoProc
    BY <2>2 DEF PC, Owner
  <2> QED
    BY <2>1, <2>2
<1>2. IngressKept'
  BY DEF IngressKept, Observing
<1>3. EgressHeld'
  BY DEF EgressHeld
<1>4. FilterOwned'
  BY DEF FilterOwned, Observing
<1>5. PathOwned'
  BY DEF PathOwned
<1>6. Orphans'
  BY DEF Orphans, FilterOwned, Observing, PathOwned
<1> QED
  BY <1>1, <1>2, <1>3, <1>4, <1>5, <1>6

\* The loop ends.
LEMMA LeaveLoopInv ==
  ASSUME IInv, NEW p \in Proc, LeaveLoop(p)
  PROVE  IInv'
<1> USE OwnerAssumption DEF IInv, TypeOK, Direction, LeaveLoop, Goes,
           fds, history
<1>1. TypeOK'
  BY DEF PC, Owner
<1>2. IngressKept'
  BY DEF IngressKept, Observing
<1>3. EgressHeld'
  BY DEF EgressHeld
<1>4. FilterOwned'
  BY DEF FilterOwned, Observing
<1>5. PathOwned'
  BY DEF PathOwned
<1>6. Orphans'
  BY DEF Orphans, FilterOwned, Observing, PathOwned
<1> QED
  BY <1>1, <1>2, <1>3, <1>4, <1>5, <1>6

\* A process empties a hook that is its own, or lame.
LEMMA DestroyHookInv ==
  ASSUME IInv, NEW p \in Proc, DestroyHook(p)
  PROVE  IInv'
<1> USE OwnerAssumption DEF IInv, TypeOK, Direction, DestroyHook, Destroyed, Goes,
           fds, history
<1>1. TypeOK'
  BY DEF PC, Owner
<1>2. IngressKept'
  BY DEF IngressKept, Observing
<1>3. EgressHeld'
  BY DEF EgressHeld
<1>4. FilterOwned'
  BY DEF FilterOwned, Observing
<1>5. PathOwned'
  BY DEF PathOwned
<1>6. Orphans'
  BY DEF Orphans, FilterOwned, Observing, PathOwned
<1> QED
  BY <1>1, <1>2, <1>3, <1>4, <1>5, <1>6

\* The socket path is removed.
LEMMA CloseCliInv ==
  ASSUME IInv, NEW p \in Proc, CloseCli(p)
  PROVE  IInv'
<1> USE OwnerAssumption DEF IInv, TypeOK, Direction, CloseCli, Goes,
           fds, history
<1>1. TypeOK'
  BY DEF PC, Owner
<1>2. IngressKept'
  BY DEF IngressKept, Observing
<1>3. EgressHeld'
  BY DEF EgressHeld
<1>4. FilterOwned'
  BY DEF FilterOwned, Observing
<1>5. PathOwned'
  BY DEF PathOwned
<1>6. Orphans'
  BY DEF Orphans, FilterOwned, Observing, PathOwned
<1> QED
  BY <1>1, <1>2, <1>3, <1>4, <1>5, <1>6

\* A process that gets to its end owns nothing.
LEMMA ExitInv ==
  ASSUME IInv, NEW p \in Proc, Exit(p)
  PROVE  IInv'
<1> USE OwnerAssumption DEF IInv, TypeOK, Direction, Exit, Exits, Goes, Abandoned,
           fds, history
<1>1. TypeOK'
  BY DEF PC, Owner
<1>2. IngressKept'
  BY DEF IngressKept, Observing
<1>3. EgressHeld'
  BY DEF EgressHeld
<1>4. FilterOwned'
  BY DEF FilterOwned, Observing
<1>5. PathOwned'
  BY DEF PathOwned
<1>6. Orphans'
  <2>1. pc[p] = "exit" /\ sock_path # p
    BY DEF PathOwned
  <2>2. \A i \in Iface, d \in Direction : filter[i][d] # p
    BY <2>1 DEF FilterOwned, Observing
  <2>3. \A i \in Iface, d \in Direction : filter'[i][d] = filter[i][d]
    BY <2>2
  <2>4. sock_path' = sock_path
    BY <2>1
  <2> QED
    BY <2>3, <2>4 DEF Orphans
<1> QED
  BY <1>1, <1>2, <1>3, <1>4, <1>5, <1>6

\* What a crash leaves behind is an accident.
LEMMA CrashInv ==
  ASSUME IInv, NEW p \in Proc, Crash(p)
  PROVE  IInv'
<1> USE OwnerAssumption DEF IInv, TypeOK, Direction, Crash, Exits, Goes, Abandoned, Accident,
           fds, history
<1>1. TypeOK'
  BY DEF PC, Owner
<1>2. IngressKept'
  BY DEF IngressKept, Observing
<1>3. EgressHeld'
  BY DEF EgressHeld
<1>4. FilterOwned'
  BY DEF FilterOwned, Observing
<1>5. PathOwned'
  BY DEF PathOwned
<1>6. Orphans'
  BY DEF Orphans, FilterOwned, Observing, PathOwned
<1> QED
  BY <1>1, <1>2, <1>3, <1>4, <1>5, <1>6

LEMMA NextInv == IInv /\ [Next]_vars => IInv'
<1> SUFFICES ASSUME IInv, [Next]_vars PROVE IInv'
  OBVIOUS
<1>1. CASE UNCHANGED vars
  BY <1>1 DEF IInv, TypeOK, IngressKept, EgressHeld, FilterOwned, PathOwned, Orphans,
              Observing, vars, fds, history
<1>2. ASSUME NEW p \in Proc, NEW i \in Iface, Start(p, i) PROVE IInv'
  BY <1>2, StartInv
<1>3. ASSUME NEW p \in Proc, Signals(p) \/ Signal(p) \/ Crash(p) PROVE IInv'
  BY <1>3, SignalsInv, SignalInv, CrashInv
<1>4. ASSUME NEW p \in Proc,
             LoadStep(p) \/ AttachIngress(p) \/ AttachEgress(p) \/ OpenCli(p) \/ OpenProm(p)
      PROVE  IInv'
  BY <1>4, LoadStepInv, AttachIngressInv, AttachEgressInv, OpenCliInv, OpenPromInv
<1>5. ASSUME NEW p \in Proc, LeaveLoop(p) \/ DestroyHook(p) \/ CloseCli(p) \/ Exit(p)
      PROVE  IInv'
  BY <1>5, LeaveLoopInv, DestroyHookInv, CloseCliInv, ExitInv
<1> QED
  BY <1>1, <1>2, <1>3, <1>4, <1>5 DEF Next

LEMMA Invariant == Spec => []IInv
BY InitInv, NextInv, PTL DEF Spec

\* However many daemons start, end, fail and crash on however many interfaces, no
\* daemon loses the ingress filter it observes with (main.c:141-145, 265-268).
THEOREM IngressFiltersKept == Spec => []IngressKept
<1>1. IInv => IngressKept
  BY DEF IInv
<1> QED
  BY Invariant, <1>1, PTL

\* And none loses its egress filter, where no daemon runs without one (main.c:146-149,
\* 267-268).
THEOREM EgressFiltersKept == Spec => []EgressKept
<1>1. IInv => EgressKept
  BY DEF IInv, EgressHeld, EgressKept, Observing
<1> QED
  BY Invariant, <1>1, PTL

\* Filters are left behind only by a crash or a failed start, and the socket file
\* only by a crash (main.c:106-107, 159-181 and 261-272).
THEOREM NothingIsLeft == Spec => []NothingLeft
<1>1. IInv => NothingLeft
  BY DEF IInv, FilterOwned, Orphans, NothingLeft, Observing
<1> QED
  BY Invariant, <1>1, PTL
-----------------------------------------------------------------------------
(* EventLoop.  The inductive invariant: what poll reported is still true where it
   is acted on. *)

\* Only the thread takes connections from a backlog.
ReportsFresh ==
  \A s \in Server :
    /\ Reported(s)
    /\ call \in {"drain", s} \/ (s = "prom" /\ call \in {"cli", "cli_read", "cli_write"})
    => backlog[s] # <<>>

LoopInv == LoopTypeOK /\ ReportsFresh
-----------------------------------------------------------------------------
LEMMA LoopStarts == LoopInit => LoopInv
<1> SUFFICES ASSUME LoopInit PROVE LoopInv
  OBVIOUS
<1>1. LoopTypeOK
  BY LoopAssumption DEF LoopInit, LoopTypeOK, Call, ClientState
<1>2. ReportsFresh
  BY DEF LoopInit, ReportsFresh, Reported
<1> QED
  BY <1>1, <1>2 DEF LoopInv

\* What the rest of the world does fills queues and never empties one, and a poll that
\* fails ends the loop.
LEMMA WorldKeeps ==
  ASSUME LoopInv,
         \/ PollFails \/ Input \/ Second \/ SignalArrives
         \/ \E x \in Client : Connect(x) \/ Request(x) \/ Receive(x) \/ HangUp(x)
  PROVE  LoopInv'
<1> USE LoopAssumption DEF LoopInv, LoopTypeOK, Server, Reported, ReportsFresh,
            sockets, world, Call
<1>0. CASE PollFails
  BY <1>0 DEF PollFails
<1>1. CASE Input
  BY <1>1 DEF Input
<1>2. CASE Second
  BY <1>2 DEF Second
<1>3. CASE SignalArrives
  BY <1>3 DEF SignalArrives, Interrupted, Over
<1>4. ASSUME NEW x \in Client, Connect(x) PROVE LoopInv'
  <2>1. \A s \in Server : backlog'[s] \in Seq(Client)
                          /\ (backlog[s] # <<>> => backlog'[s] # <<>>)
    <3> HIDE DEF ReportsFresh, Server, Call
    <3> QED BY <1>4 DEF Connect
  <2>2. LoopTypeOK'
    BY <1>4, <2>1 DEF Connect, ClientState
  <2> QED
    BY <1>4, <2>1, <2>2 DEF Connect
<1>5. ASSUME NEW x \in Client, Request(x) \/ Receive(x) \/ HangUp(x)
      PROVE  LoopInv'
  BY <1>5 DEF Request, Receive, HangUp, ClientState
<1> QED
  BY <1>0, <1>1, <1>2, <1>3, <1>4, <1>5

\* A step of the thread that takes no connection.
LEMMA RoundKeeps ==
  ASSUME LoopInv,
         \/ While \/ Poll \/ Take \/ Drained \/ Age
         \/ \E s \in Server : Pass(s)
  PROVE  LoopInv'
<1> USE LoopAssumption DEF LoopInv, LoopTypeOK, Server, Reported, ReportsFresh,
            sockets, world, Call
<1>1. CASE While
  BY <1>1 DEF While
<1>2. CASE Poll
  BY <1>2 DEF Poll, Ready
<1>3. CASE Take
  BY <1>3 DEF Take, Draining
<1>4. CASE Drained
  BY <1>4 DEF Drained
<1>5. CASE Age
  BY <1>5 DEF Age, NextAge
<1>6. ASSUME NEW s \in Server, Pass(s) PROVE LoopInv'
  BY <1>6 DEF Pass, AfterTurn
<1> QED
  BY <1>1, <1>2, <1>3, <1>4, <1>5, <1>6

\* A handler takes one connection of its own server, and its turn is over.
LEMMA HandlerKeeps ==
  ASSUME LoopInv, NEW s \in Server,
         Accept(s) \/ Read(s) \/ Write(s)
  PROVE  LoopInv'
<1> USE LoopAssumption DEF LoopInv, LoopTypeOK, Server, Reported, ReportsFresh,
            sockets, world, Call
<1>1. CASE Accept(s) /\ backlog[s] # <<>>
  <2>1. Head(backlog[s]) \in Client /\ Tail(backlog[s]) \in Seq(Client)
    BY <1>1
  <2>2. /\ call = s /\ call' = Reading(s) /\ cfd' = Head(backlog[s])
        /\ backlog' = [backlog EXCEPT ![s] = Tail(backlog[s])]
        /\ UNCHANGED <<program, g_running, revents, client, world, elapsed>>
    BY <1>1 DEF Accept
  <2> QED
    BY <2>1, <2>2 DEF Reading
<1>2. CASE Accept(s) /\ backlog[s] = <<>>
  BY <1>2 DEF Accept, AfterTurn
<1>3. CASE Read(s)
  BY <1>3 DEF Read, Reading, Writing, AfterTurn, Readable,
              GivesUp, ClientState
<1>4. CASE Write(s)
  BY <1>4 DEF Write, Writing, AfterTurn, ClientState
<1> QED
  BY <1>1, <1>2, <1>3, <1>4

LEMMA LoopInvariant == LoopSpec => []LoopInv
<1>1. LoopInv /\ [LoopNext]_loop_vars => LoopInv'
  <2> SUFFICES ASSUME LoopInv, [LoopNext]_loop_vars PROVE LoopInv'
    OBVIOUS
  <2>1. CASE UNCHANGED loop_vars
    BY <2>1 DEF LoopInv, LoopTypeOK, ReportsFresh, Reported, loop_vars
  <2>2. CASE LoopNext
    BY <2>2, WorldKeeps, RoundKeeps, HandlerKeeps DEF LoopNext, Thread
  <2> QED
    BY <2>1, <2>2
<1> QED
  BY LoopStarts, <1>1, PTL DEF LoopSpec

\* Whatever the clients do, each stays in the states of a connection, what waits for
\* the thread stays within its bounds, and the thread is at a call of its own
\* (main.c:225-257, main_noebpf.c:180-270).
THEOREM LoopStaysTyped == LoopSpec => []LoopTypeOK
<1>1. LoopInv => LoopTypeOK
  BY DEF LoopInv
<1> QED
  BY LoopInvariant, <1>1, PTL

\* Whatever clients, packets and signals do, the CLI handler is entered only with a
\* connection waiting, so its accept does not block the loop (unix_socket.c:198).
THEOREM AcceptFindsConnection == LoopSpec => []AcceptNeverBlocks
<1>1. LoopInv => AcceptNeverBlocks
  BY DEF LoopInv, ReportsFresh, AcceptNeverBlocks, Server
<1> QED
  BY LoopInvariant, <1>1, PTL
=============================================================================
