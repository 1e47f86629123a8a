------------------------------ MODULE EventLoop ------------------------------
(***************************************************************************)
(* The poll loop of ndpid (daemon/main.c) and of ndpid-simple              *)
(* (main_noebpf.c), with the handlers it calls for CLI and Prometheus      *)
(* clients (unix_socket.c, prometheus.c), from the first round to the end  *)
(* of the loop.  One thread does everything, and it blocks in poll, in     *)
(* accept, in read and in write; each of these calls is a step of its own, *)
(* since signals, clients and packets come in between.                     *)
(*                                                                         *)
(* What the kernel queues for the thread is counted, not described: input  *)
(* is the ring buffer or the packet socket.  sig_handler installed by      *)
(* signal() restarts the others, and interrupts poll.                      *)
(***************************************************************************)
EXTENDS Integers, Sequences, FiniteSets

CONSTANTS
  CliClient, PromClient,  \* the clients of each server, one connection at a time
  NoClient,
  Programs,               \* subset of {"ndpid", "ndpid-simple"}
  AgeInterval,            \* 10 seconds in the code
  MaxInput                \* bound on the packets queued, and on those that
                          \* come while the thread is taking some

ASSUME LoopAssumption ==
  /\ IsFiniteSet(CliClient) /\ IsFiniteSet(PromClient) /\ CliClient \cap PromClient = {}
  /\ NoClient \notin CliClient \cup PromClient
  /\ Programs \subseteq {"ndpid", "ndpid-simple"}
  /\ AgeInterval \in Nat \ {0} /\ MaxInput \in Nat \ {0}

VARIABLES
  program,   \* which main this is
  call,      \* the call the thread is about to make, or is blocked in
  g_running,
  revents,   \* what poll last reported
  cfd,       \* the client being served
  backlog,   \* server -> connections to be accepted, oldest first
  client,    \* connection -> its state
  input,     \* events in the ring, or packets at the socket
  burst,     \* inputs since the thread began to take some
  elapsed    \* now - last_age, as far as it matters
loop_vars == <<program, call, g_running, revents, cfd, backlog, client, input, burst, elapsed>>

Server == {"cli", "prom"}
Client == CliClient \cup PromClient
ServerOf(x) == IF x \in CliClient THEN "cli" ELSE "prom"

\* "silent": connected, no request sent; "asked": its request is there to be
\* read; "slow": asked, and not yet reading an answer too long for the kernel to
\* buffer; "gone", "left": it has closed its end, without and with a request sent.
\* Served or closed by the daemon, it is "away" again.
ClientState == {"away", "silent", "asked", "slow", "gone", "left"}

Call == {"while", "poll", "drain", "cli", "cli_read", "cli_write",
         "prom", "prom_read", "prom_write", "age", "stopped", "killed"}

LoopInit ==
  /\ program \in Programs
  /\ call = "while"
  /\ g_running = TRUE
  /\ revents = {}
  /\ cfd = NoClient
  /\ backlog = [s \in Server |-> <<>>]
  /\ client = [x \in Client |-> "away"]
  /\ input = 0 /\ burst = 0
  /\ elapsed = 0

Over == call \in {"stopped", "killed"}

sockets == <<cfd, backlog, client>>
world == <<input, burst>>
-----------------------------------------------------------------------------
(* The definitions named <definition>_<fault> are seeded faults, used only to
   show that a property notices them. *)

(* The rest of the world. *)

Connect(x) ==
  /\ client[x] = "away"
  /\ client' = [client EXCEPT ![x] = "silent"]
  /\ backlog' = [backlog EXCEPT ![ServerOf(x)] = Append(@, x)]
  /\ UNCHANGED <<program, call, g_running, revents, cfd, world, elapsed>>

Request(x) ==
  /\ client[x] = "silent"
  /\ \E how \in {"asked", "slow"} : client' = [client EXCEPT ![x] = how]
  /\ UNCHANGED <<program, call, g_running, revents, cfd, backlog, world, elapsed>>

\* A slow client begins to read.
Receive(x) ==
  /\ client[x] = "slow"
  /\ client' = [client EXCEPT ![x] = "asked"]
  /\ UNCHANGED <<program, call, g_running, revents, cfd, backlog, world, elapsed>>

\* A client closes its connection, with or without having asked.
HangUp(x) ==
  /\ client[x] \in {"silent", "asked", "slow"}
  /\ client' = [client EXCEPT ![x] = IF @ = "silent" THEN "gone" ELSE "left"]
  /\ UNCHANGED <<program, call, g_running, revents, cfd, backlog, world, elapsed>>

Input ==
  /\ input < MaxInput
  /\ input' = input + 1
  /\ IF call = "drain" THEN burst < MaxInput /\ burst' = burst + 1 ELSE UNCHANGED burst
  /\ UNCHANGED <<program, call, g_running, revents, sockets, elapsed>>

Second ==
  /\ elapsed < AgeInterval
  /\ elapsed' = elapsed + 1
  /\ UNCHANGED <<program, call, g_running, revents, sockets, world>>

\* What a signal does to a thread blocked in poll: EINTR, and continue.  revents
\* still holds what the poll before it reported.
Interrupted_falls_through == "drain"
Interrupted == "while"

\* sig_handler.  A signal between the test of g_running and the call of poll
\* interrupts nothing.
SignalArrives ==
  /\ g_running /\ ~Over
  /\ g_running' = FALSE
  /\ call' \in {call} \cup (IF call = "poll" THEN {Interrupted} ELSE {})
  /\ UNCHANGED <<program, revents, sockets, world, elapsed>>
-----------------------------------------------------------------------------
(* The thread. *)

\* while (g_running), then the cleanup.
While ==
  /\ call = "while"
  /\ call' = IF g_running THEN "poll" ELSE "stopped"
  /\ UNCHANGED <<program, g_running, revents, sockets, world, elapsed>>

Ready == {s \in Server : backlog[s] # <<>>} \cup (IF input > 0 THEN {"input"} ELSE {})

\* Whether poll may return with nothing ready: after its 200 ms.
TimesOut_never == FALSE
TimesOut == TRUE

Poll ==
  /\ call = "poll"
  /\ Ready # {} \/ TimesOut
  /\ revents' = Ready
  /\ call' = "drain"
  /\ UNCHANGED <<program, g_running, sockets, world, elapsed>>

\* An error other than EINTR: out of the loop.
PollFails ==
  /\ call = "poll"
  /\ call' = "stopped"
  /\ UNCHANGED <<program, g_running, revents, sockets, world, elapsed>>

\* ring_buffer__poll is called every round, recv only when poll says so; both
\* go on for as long as there is something to take.
Draining_without_clients == input > 0 /\ revents \cap Server = {}
Draining == input > 0 /\ (program = "ndpid" \/ "input" \in revents)

Take ==
  /\ call = "drain" /\ Draining
  /\ input' = input - 1
  /\ UNCHANGED <<program, call, g_running, revents, sockets, burst, elapsed>>

Drained ==
  /\ call = "drain" /\ ~Draining
  /\ call' = "cli"
  /\ burst' = 0
  /\ UNCHANGED <<program, g_running, revents, sockets, input, elapsed>>

\* Whether poll reported the listening socket of s.
Reported_first_only(s) == s \in revents /\ (s = "prom" => "cli" \notin revents)
Reported(s) == s \in revents

\* The step after server s has had its turn.
AfterTurn(s) == IF s = "cli" THEN "prom" ELSE "age"
Reading(s) == IF s = "cli" THEN "cli_read" ELSE "prom_read"
Writing(s) == IF s = "cli" THEN "cli_write" ELSE "prom_write"

\* Nothing to do for server s in this round.
Pass(s) ==
  /\ call = s /\ ~Reported(s)
  /\ call' = AfterTurn(s)
  /\ UNCHANGED <<program, g_running, revents, sockets, world, elapsed>>

\* accept: takes the oldest connection.  With none, the CLI socket blocks, and
\* the Prometheus socket, which is non-blocking, has the handler return.
Accept(s) ==
  /\ call = s /\ Reported(s)
  /\ IF backlog[s] # <<>>
     THEN /\ cfd' = Head(backlog[s])
          /\ backlog' = [backlog EXCEPT ![s] = Tail(@)]
          /\ call' = Reading(s)
     ELSE /\ s = "prom"
          /\ call' = AfterTurn(s)
          /\ UNCHANGED <<cfd, backlog>>
  /\ UNCHANGED <<program, g_running, revents, client, world, elapsed>>

\* read returns when there is something to read, or the client has closed.
Readable(x) == client[x] \in {"asked", "slow", "left", "gone"}

\* Only the CLI handler looks at what read returned, and gives up a client that
\* said nothing; the exporter answers anyone.
GivesUp(s) == s = "cli" /\ client[cfd] = "gone"

Read(s) ==
  /\ call = Reading(s) /\ Readable(cfd)
  /\ IF GivesUp(s)
     THEN /\ call' = AfterTurn(s)
          /\ client' = [client EXCEPT ![cfd] = "away"]
          /\ cfd' = NoClient
     ELSE call' = Writing(s) /\ UNCHANGED <<cfd, client>>
  /\ UNCHANGED <<program, g_running, revents, backlog, world, elapsed>>

\* The answer is written, as soon as the client lets it through, and the
\* connection closed.  A write to a client that
\* has closed raises SIGPIPE, which nothing handles: at once on the CLI's Unix
\* socket, and over TCP unless all was written before the peer's reset came.
Write(s) ==
  /\ call = Writing(s) /\ client[cfd] # "slow"
  /\ \/ /\ client[cfd] = "asked" \/ s = "prom"
        /\ call' = AfterTurn(s)
     \/ /\ client[cfd] # "asked"
        /\ call' = "killed"
  /\ client' = [client EXCEPT ![cfd] = "away"]
  /\ cfd' = NoClient
  /\ UNCHANGED <<program, g_running, revents, backlog, world, elapsed>>

\* now - last_age after a round: the clock restarts only with a sweep.
NextAge_every_round == 0
NextAge_adds_interval == elapsed - AgeInterval
NextAge == IF elapsed >= AgeInterval THEN 0 ELSE elapsed

Age ==
  /\ call = "age"
  /\ elapsed' = NextAge
  /\ call' = "while"
  /\ UNCHANGED <<program, g_running, revents, sockets, world>>

Thread ==
  \/ While \/ Poll \/ Take \/ Drained \/ Age
  \/ \E s \in Server : Pass(s) \/ Accept(s) \/ Read(s) \/ Write(s)

LoopNext ==
  \/ Thread \/ PollFails \/ Input \/ Second \/ SignalArrives
  \/ \E x \in Client : Connect(x) \/ Request(x) \/ Receive(x) \/ HangUp(x)

\* The thread is scheduled and time passes.  Nothing makes packets, clients or
\* signals come, a client send or read anything, or poll fail.
Fairness == WF_loop_vars(Thread) /\ WF_loop_vars(Second)

LoopSpec == LoopInit /\ [][LoopNext]_loop_vars /\ Fairness
-----------------------------------------------------------------------------
LoopTypeOK ==
  /\ program \in Programs /\ call \in Call /\ g_running \in BOOLEAN
  /\ revents \subseteq Server \cup {"input"}
  /\ cfd \in Client \cup {NoClient}
  /\ backlog \in [Server -> Seq(Client)]
  /\ client \in [Client -> ClientState]
  /\ input \in 0..MaxInput /\ burst \in 0..MaxInput
  /\ elapsed \in 0..AgeInterval

\* A handler is called for the listening socket that poll has just reported, so
\* the blocking accept of the CLI always finds a connection: revents of an
\* earlier round, left in place by an interrupted poll, must not be acted on
\* (main.c:226-240, unix_socket.c:198).
AcceptNeverBlocks == call = "cli" /\ Reported("cli") => backlog["cli"] # <<>>

\* The thread is in a read or write that only its client can end: neither call
\* has a timeout, and a signal restarts both.
Waiting == \E s \in Server :
  \/ call = Reading(s) /\ ~Readable(cfd)
  \/ call = Writing(s) /\ client[cfd] = "slow"

\* SIGINT and SIGTERM end the loop, also when they come between the test of
\* g_running and the poll that no signal then interrupts; only a client that keeps
\* the thread waiting for ever can prevent it (main.c:225-230).
SignalEndsLoop == ~g_running ~> Over \/ []Waiting

\* Packets are taken from the kernel's queue as long as the loop runs, however
\* many clients come in turn, unless one of them keeps the thread waiting for ever
\* (main.c:233, main_noebpf.c:188-191).
InputTaken == input > 0 ~> input = 0 \/ Over \/ []Waiting

\* Each connection gets an answer or is closed as long as the loop runs, also one
\* whose client has left, and neither server starves the other, unless some client
\* keeps the thread waiting for ever (main.c:235-249).
ClientsServed ==
  \A x \in Client : client[x] # "away" ~> client[x] = "away" \/ Over \/ []Waiting

\* main.c:251, "Age flows every 10 seconds": the flow table is swept again and
\* again for as long as the loop runs.
FlowsAged == []<>(Over \/ (call = "age" /\ elapsed >= AgeInterval))

\* So it is, although a round may take any finite time, unless a client keeps the
\* thread waiting for ever (main.c:252-256).
SweepsRecur == FlowsAged \/ <>[]Waiting
=============================================================================
