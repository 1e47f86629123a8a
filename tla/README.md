# ndpi-observe in TLA+

`ndpi-observe` classifies the traffic of a Linux interface. A TC program in the
kernel tracks flows and counts packets; the first packets of each flow are sent
to a daemon, which asks nDPI (then a guesser and an ML model) what the flow is and
writes a verdict back; from then on the kernel counts the flow on its own.

This directory holds a model of that system: TLA+ modules translated from the
source, TLC configurations that check them on small instances, and theorems that
TLAPS proves for every instance. `PROJECT.json` maps each definition to the lines
it models, and lists the runs, the seeded faults that show each property can fail,
the hazards of the code, and the findings.

## 1. The system

| Component | Source | State | Operations |
|---|---|---|---|
| TC classifier | `bpf/ndpi_observe.bpf.c` | `flow_map`, `verdict_map`, per-CPU `app_counters`, ring `flow_events` | `process_pkt`, once per packet, ingress and egress, on every CPU |
| shared types | `bpf/ndpi_obs_types.h` | - | flow states, the event, `FLOW_MAX_CLASSIFY_PKTS` |
| engine | `daemon/ndpi_engine.c` | `ndpi_engine_t`: flow table, scalar counters, per-application counters, per-method credits, 64 dynamic labels | `ndpi_engine_process`, `ndpi_engine_age`, name and category lookups |
| flow table | `daemon/flow_table.c` | hash chains of `flow_entry_t` | get-or-create, lookup, remove, age, destroy |
| DNS cache | `daemon/ndpi_dns_cache.h` | direct-mapped address-to-name table, each slot with the application id resolved from the name | parse a response, insert, lookup |
| ndpid | `daemon/main.c` | file descriptors, `g_running`, time of the last sweep | start-up, poll loop, clean-up |
| ndpid-simple | `daemon/main_noebpf.c` | a raw packet socket | receive loop; the same engine without a `verdict_map` |
| CLI, Prometheus | `daemon/unix_socket.c`, `daemon/prometheus.c` | a listening socket | accept, read, answer; per-CPU counters are merged on read |
| ML | `daemon/ndpi_ml.c`, `daemon/ndpi_ml_model.c` | none | features to a class or no answer |
| service names | `daemon/ndpi_ai_services.h` | none | host name suffix to application id |
| ndpictl | `cli/ndpictl.c` | none | one request, one answer |

How they interact:

* CPUs share `flow_map` and `verdict_map` with each other and with the daemon and
  take no lock: `bpf_map_lookup_elem` returns a pointer into the map.
* `flow_events` is a queue from the CPUs to the daemon; a full ring drops events.
* `verdict_map` is the only way back. Nothing orders a verdict with packets already
  on a CPU or events already in the ring. Neither `flow_map` nor `verdict_map` is
  ever deleted from, while the daemon does expire its own entries.
* The daemon is one thread: ring callback, CLI, scrape and sweep run in turn.

What makes it hard: unlocked read-modify-write and two-store updates in
`process_pkt`; two thresholds, one on each side of a lossy queue, that should agree;
full maps whose failed updates nobody looks at; credits that move from one counter
to another when a guess is refined; packets credited at the verdict and again at
expiry; blocking reads from clients in the only thread; filters that stay in the
kernel when their process has gone; names taken from messages that may be cut short.

What makes each part correct:

* **TC classifier**: a flow is tracked once, ends once, and is not reopened; its packet
  count cannot wrap; each packet goes to one counter, one event, or one known loss.
* **engine**: each flow has one outcome; the per-method credits say how each flow was
  classified; nothing allocated for nDPI leaks; the published verdict is the flow's.
* **ndpid**: the kernel counts a flow under the id the daemon decided; both sides agree
  on the threshold; no packet vanishes between them.
* **DNS cache**: an entry's id belongs to its name; an answer is stored under the name
  that was asked for.
* **labels**: an id given to a flow goes on standing for its host name.
* **flow table**: a sweep removes exactly the idle flows, wherever they are on a chain.
* **poll loop**: packets are taken, clients served, flows swept and signals acted on.
* **start-up and clean-up**: an observing daemon keeps its filters, and an orderly end
  leaves nothing behind.
* **answers**: each number lies between what the application had when the answer was begun
  and what it has when it is given, and none ever falls.

## 2. Modules

| Module | Models | Uses |
|---|---|---|
| `ObsTypes` | the shared types, and updates of `verdict_map` | |
| `FlowLifecycle` | *abstract*: what a flow may go through | `ObsTypes` |
| `Datapath` | the TC classifier on a set of CPUs | `ObsTypes`; implements `FlowLifecycle` |
| `Engine` | `ndpi_engine_process` and the sweep | `ObsTypes` |
| `NdpiObserve` | `ndpid`'s data path: both together | `INSTANCE`s `Datapath` and `Engine` with their proofs |
| `FlowSet` | *abstract*: a set of flows with idle timeouts | |
| `FlowTable` | `flow_table.c`, pointer by pointer | implements `FlowSet` |
| `EventLoop` | the poll loops, their handlers, clients and signals | |
| `DnsMessage` | what the DNS parser takes from the bytes of a reply | |
| `HostNames` | the DNS cache, the dynamic labels, the id of a host | `DnsMessage` |
| `Lifecycle` | start, attach, crash, clean-up of the daemons of a host | |
| `Views` | the merge of counters for CLI and exporter, the listing | |
| `RecursionTheorems` | lemmas about recursive functions, inductions, and sums over finite sets | |
| `DatapathProofs`, `EngineProofs`, `NdpiObserveProofs`, `FlowTableProofs`, `HostNamesProofs`, `ViewsProofs` | theorems | the module they are named for |
| `MainProofs` | theorems | `Lifecycle` and `EventLoop`, whose names therefore differ |
| `MC...` | constants and symmetry sets for TLC | the module they are named for |

### Datapath

An action is one access to shared memory by one CPU, because that is how far another
CPU can see into `process_pkt`. `cpu[c]` is what CPU `c` holds in registers; `pc`
names its next access:

    Arrive -> InsertNew ----------------------------------> Send
           -> CountFast
           -> LookupVerdict -> Store, Store -> CountNew
                            -> ReadCount -> WriteCount -> Store, Store -> CountNew
                                                       -> Send

* `Arrive` takes any packet that passes the header checks (`bpf.c:113-160`): a key, and
  whether any of its bytes can be captured. It looks the flow up and tests its state;
  the two are one step because entries are never removed.
* `fs->pkt_count++` is `ReadCount` and `WriteCount`; the store wraps at 256.
* `fs->app_id` and `fs->state` are adjacent plain stores. The compiler and the CPU may
  reorder them, so `Store` makes them visible in either order (`pend`).
* A TC program runs with softirqs off, so a CPU runs one packet at a time. Per-CPU
  counters therefore need no finer grain.
* `InsertNew` models `BPF_NOEXIST` and a full map; `Send` models a failed reserve. In the
  code no caller looks at either result.
* A lookup in `verdict_map` and the read through the pointer are one step.

Left out: `fs->bytes`, `fs->packets`, `fs->last_seen_ns` (written, never read) and the
byte counters, which move with the packet counters. In this module the daemon is an
environment: `Consume` takes the oldest event, `WriteVerdict` writes any verdict for a
flow that has sent an event, and `Answer` is a whole callback, which does both.

### Engine

The daemon is single-threaded, so a call of `ndpi_engine_process` is one step, with an
action for each way through it:

| Action | Way through `ndpi_engine_process` |
|---|---|
| `CreateFails` | `calloc` fails (255) |
| `CachedPacket` | the flow has been decided (261) |
| `BarePacket` | nothing was captured (275), threshold included |
| `NdpiAllocFails` | `ndpi_flow_malloc` fails (291) |
| `StillOpen` | scanned, undecided, below the threshold |
| `Detected` | nDPI recognises it (342), a host name may relabel it |
| `Guessed` | guess at the threshold (440), kept |
| `MlClassified` | ML model over a guess or over none (536) |
| `GivesUp` | none of them answers (563) |

libndpi, the ML model, the service tables and the host name caches are outside: each
may answer anything at every call, including ids of 512 and above, which have no
counter slot (`Countable`). `ndpi_engine_age(S)` expires any set of live flows, since
time is not modelled there. The flow table is a function from keys to entries, which
`FlowTable` justifies; the code's
`packets` field of an entry always equals `pkt_count` and is modelled by it.

Left out: per-category counters, which move with the application counters, and the
feature dump. The labels and the DNS cache are `HostNames`; here their answers are free.

### NdpiObserve

`Packet` is a step of the TC program, `ring_buf_cb` hands the oldest event to the
engine, and `Age` is the sweep. `verdict_map` and `flow_events` are the same variables
in both instances. The engine takes the place of `Datapath`'s environment; that it does
no more than `Consume` or `Answer` allows is proved (`KernelRefinesDatapath`).
The loop drains the ring before it ages, but the CPUs go on filling it meanwhile, so
the sweep may come at any time.

### FlowLifecycle

A flow is tracked once and ends once, as classified by an id the daemon wrote or as given
up. Its state, its application and the flow credit of that application change in one
step and never again. `Datapath` implements it on **one** CPU (`FlowEndsOnce`), where a
flow counts as ended when the packet that ended it has been counted. On several CPUs it
does not: two CPUs may both count a flow as new, and two endings may mix (`datapath_torn`);
what remains there is `NeverReopened` and `CountedOncePerCpu`.

### FlowTable

A *ref* is a place that holds a pointer, a bucket or the `next` field of an entry: the
code's `pp`. The heap is a set of nodes, `Free` or holding a key and `last_seen`; a freed
node's `next` holds `NULL`, so that following it loses the rest of the chain and shows.
`Find` follows a chain as the code's loops do. `Turn` is one turn of the loops of
`flow_table_age`, which frees an entry, passes it, or goes on to the next bucket; `age` takes
as many turns as there are refs, which is enough (the last ones change nothing). Each function
is one action, because the table belongs to one thread. `SeeKnown` and `SeeNew` are
`flow_table_get_or_create` with the stamp `ndpi_engine_process` puts on what it gets.
`FlowSet` knows keys and times only. `flow_table_remove` has no caller in the daemon and is
modelled with the rest of the file.

### EventLoop

`call` is the call the thread is about to make or is blocked in. A round is

    while -> poll -> drain -> cli [-> cli_read -> cli_write] -> prom [...] -> age -> while

`ndpid` drains its ring in every round, `ndpid-simple` its socket when `poll` says so
(`Draining`). Both go on for as long as there is something; `burst` bounds what may arrive
meanwhile. `poll`, `accept`, `read` and `write` block, and the rest of the world moves in
between: clients connect, send, delay the reading of an answer that does not fit the socket's
buffer (`slow`), and close with or without a request; packets come; a signal sets
`g_running`. `signal()` restarts the other calls, so a signal interrupts only `poll`. A
write to a client that has left raises SIGPIPE, which nothing handles: `killed`. On the
Unix socket this always happens, over TCP it may. Only the CLI handler looks at what `read`
returned and closes on a client that said nothing; the exporter writes to it all the same. The
daemon stops for that reason, or since `poll` fails (`PollFails`), in some behaviours, and every
liveness property allows for it (`Over`).

### DnsMessage and HostNames

`DnsMessage` reads a sequence of bytes as `dns_cache_update` does, offset by offset:
`QueryName` (with the copy that stops when the buffer is full, and the walk that then goes
on byte by byte), `AnswersFrom`, `ARecords`. `Encode` is the other side, a resolver that
lays out a message by RFC 1035, so that what the parser finds can be compared with what the
message says (`Meaning`). `HostNames` keeps the cache, the labels and the clock:

| Action | Code |
|---|---|
| `Reply(m, n)` | message `m` comes and its first `n` bytes are captured: `dns_cache_update` |
| `BySni(h)` | a flow with server name `h`: `engine_get_dyn_app` |
| `ByDns(ip)` | a flow without one: the entry's id, else the tables, else a label |
| `Tick` | a second passes |

`given` and `answered` are history: every id given with its host, and every answer that has
not expired.

### Lifecycle

One action per call of `main` that can fail or that the kernel remembers, for several
processes on one host. `filter`, `sock_path` and `prom_port` are the kernel's: they survive
a process, as `Orphan`. From libbpf the module takes that an attach without
`BPF_TC_F_REPLACE` fails when the handle is taken; that `bpf_tc_detach` refuses options that
still name the program, as `main`'s do, so that these two calls do nothing; and that
`bpf_tc_hook_destroy` with one direction empties that direction, whoever filled it.
Processes share the CLI path, since it has a default.

### Views

`Copy` takes one CPU's cell of one id, in the order of the code's loops, and the CPUs count
in between. The engine's own totals belong to the same thread and are copied at once. Bytes,
packets and flows are added up alike, so one number stands for them; `told` is the last
answer. `Behind` and `Order` are the insertion sort, `Rows` the cut-off.

## 3. Runs

Keys, CPUs, packets and ids are interchangeable except `Unknown` (0). Where a run uses
symmetry, its properties quantify over the symmetric values; no run with symmetry checks
liveness.

| Run | Checks | Instance |
|---|---|---|
| `datapath_smp` | `TypeOK`, `NeverReopened`, `PktCountBounded`, `CountedOncePerCpu`, `PacketLedger` | 2 CPUs, 2 flows, threshold 3, ring of 1, 6 packets |
| `engine` | `TypeOK`, `CreditConservation`, `OutcomesPartition`, `StatsAgree`, `NoLeak`, `VerdictPublished`, `OutcomeStable`, `CountersNeverFall` | 2 flows, 2 applications, one id without a slot, threshold 2, 4 events |
| `ndpid_up` | `DaemonBelowThreshold`, `KernelFollowsDaemon`, `FlowEndsOnce` (refinement of `FlowLifecycle`) | 1 CPU, 2 flows, threshold 3, 6 packets |
| `ndpid_smp` | `PacketsAccountedFor`, `PacketsCredited` | 2 CPUs, 2 flows, maps and ring of 1, 4 packets |
| `flowtable` | `ChainsSound`, `ImplementsFlowSet` (refinement) | 4 keys, 3 in one bucket, 4 nodes, timeouts 2 and 1, clock to 3, 5 flows |
| `loop` | `LoopTypeOK`, `AcceptNeverBlocks`; liveness `SignalEndsLoop`, `InputTaken`, `ClientsServed`, `SweepsRecur`, each unless a client keeps the thread waiting for ever | both programs, a CLI client and a scraper that come again and again, 2 packets queued, a sweep every 2 seconds |
| `names` | `TypeOK`, `CacheAnswered`, `AnswersCached`, `LabelsSound`, `IdsMeanTheirNames` | 4 messages, 3 addresses in 2 slots, a name longer than the 8-byte buffer, 2 labels, TTL at most 2 |
| `lifecycle` | `IngressKept`, `EgressKept`, `NothingLeft` | 2 processes, 2 interfaces, unbounded restarts |
| `views` | `ListingOnTop`, `AnswerIsRecent`, `CountersNeverFall` | 3 ids, 2 CPUs, 4 counts, limits 1, 2 and 5 |
| `datapath_torn`, `ndpid_gaveup`, `loop_held` | one expectation of the docs each, violated: section 6 | |

Bounds. The classification threshold is 8 in the code and 2 or 3 here: 2 is the least for
which the packet that creates a flow does not end it, and 3 gives a packet that is neither
first nor last. The packets of a behaviour (`MaxPackets`, or `MaxEvents` for the engine
alone) are an unbounded input; 6 packets on 2 CPUs take one flow past its threshold on
both CPUs at once (that takes 5) with a packet of another flow between, and 6 on one CPU end
two flows, or end one and go on in its fast path. 4 events at threshold 2 decide both flows,
or decide one, expire it and decide it again. Map and ring sizes of 1 make each of them
full. Two flows fill a map of one and tell a counter of one application from that of
another; the properties speak of one flow or of sums.

A chain of three has a head, a middle and a tail; with two timeouts and a clock to 3 each
combination of them expires in one sweep, and 5 flows on 4 nodes use a node again.
Two queued packets are enough since the loop looks only at whether there is input; packets
keep coming after it has been taken. A CLI client and a scraper make one server wait for
the other; connections to one server are served in their order, so more of them would only
lengthen the wait. Three addresses in two slots make one
slot shared; the messages have an alias whose text could be taken for an address, a name that does not
fit, and a second question; the cut at 24 bytes ends inside a record. Two labels can be
confused with each other, two hosts share one of them, and a third word finds the pool full. One
tick of the clock ends an answer with a TTL of 1 and none of the others. The lifecycle has no
bound.
Two CPUs and three ids give six cells to count in between.

What some of the properties do not say:

* `PacketsAccountedFor` is an inequality. A packet that an application is given at the verdict and
  again at the expiry makes room for one that would be missing, so it tells of a loss only
  beyond those; and a packet is accounted for wherever it is counted, also under the wrong id.
* `CountedOncePerCpu` is a bound per CPU, not per flow.
* `KernelFollowsDaemon` compares ids only until the daemon first expires a flow. After that a later
  flow of the same tuple may be counted in the kernel under the old id.
* `NothingLeft` excepts the interfaces in `accident` (a crash, or a start that failed after
  attaching) and `EgressKept` those in `lame` (a daemon that got no egress filter, and whose clean-up
  empties the hook of the next one). These two are what the code does: the properties say that
  nothing else loses or leaves a filter.
* In the messages of `names` the owner of a record is a pointer to the question and the high byte
  of class, TTL and length is zero: the compressed form, with small numbers; the parser's
  walk over an owner that is spelled out (`SkipName`) is modelled, but no message has one there.

Deadlock checking is off for the engine, the composed system, the flow table, the names and
the views, whose bounded inputs run out, and for the loop, which ends.

Each property has a seeded fault: a definition named `<definition>_<fault>` replaces the
mapped definition, and TLC must then find the property violated. They stand for plausible
slips (`BPF_ANY` for `BPF_NOEXIST`, `>` for `>=`, a missing `return`, a credit not taken
back, a `free` left out, an infinite poll timeout, `pp` advanced after an unlink).

## 4. Fairness

Only `EventLoop` claims liveness. It assumes

* `WF_loop_vars(Thread)`: the thread, when it is not blocked, is scheduled. Nobody else can
  disable what it is about to do; `poll` never blocks for long, because of its timeout.
* `WF_loop_vars(Second)`: time passes.

Nothing is assumed of clients. The handlers set no timeout, so a client that says nothing, or does
not read a long answer, blocks the only thread in `read` or `write` for as long as it likes, and
a signal restarts these calls. That is `Waiting`, and each of the four liveness properties says
that what it promises happens *or* from some moment on the thread is `Waiting` for ever: nothing
else, no order of clients, packets, signals and timeouts, can prevent it. Without that
exception they are false; `loop_held` shows it for the sweep. (`ndpictl` writes at once, reads to
the end and closes; an HTTP scraper usually has a timeout.)

Nothing makes packets, clients or signals come, or `poll` fail. Every round is finite: that the
drain ends is due to `MaxInput`, which bounds what comes while the thread is taking. It stands for
a thread that is at times faster than its input; `InputTaken` and `SweepsRecur` depend on it.

## 5. Proofs

Each theorem holds for any values of the constants that meet the named assumptions
(`ObsTypes`, `Datapath`, `Engine`, `NdpiObserve`, `FlowTable`, `EventLoop`, `DnsMessage`, `HostNames`,
`Lifecycle`, `Views`), which TLC evaluates for each configuration. Some need a hypothesis more:

* **one CPU** (`CPU = {c}`): what the docs say of a flow's life is true on one CPU only
  (`datapath_torn`);
* **room** (`Cardinality(Key) =< FlowMapSize` or `VerdictMapSize`): the code ignores the
  failure of both map updates, and what is lost then is shown by `ndpid_smp`;
* **every id has a counter** (`Countable = AppId`): packets of an id of 512 and above are
  counted nowhere, so the statement that none is lost is about the others;
* **every address** (`[1..4 -> Byte] \subseteq Ip`, for `TypesHold` alone): a misread reply may
  give any four bytes as an address;
* **one question** (`Len(m.names) = 1`, for the two theorems on the round trip): with more the
  parser looks for the answers in the wrong place (`AnswersFrom`). `AnswersCached` itself speaks of
  messages with one question only;
* **host names** (`Clean`): labels of bytes 1 to 191. The walk over a name too long for the
  buffer takes each byte for a length, and would end at a zero or, as at a pointer, at a byte from
  192 on. Host names have neither;
* **answers of RFC 1035** (`Answers`, for `AnswersAreCached`): an A record has an address of four
  bytes, and the name is not the root, for which the code inserts nothing.

| Theorem | Says |
|---|---|
| `DatapathProofs!TypeCorrect` | `Spec => []TypeOK` |
| `FlowNeverReopened` | `Spec => NeverReopened` |
| `PktCountWithinBound` | `Spec => []PktCountBounded` |
| `PacketsAreAccountedFor` | `Spec => []PacketLedger` |
| `FlowCountedOncePerCpu` | `Spec => []CountedOncePerCpu` |
| `OneCpuImplementsLifecycle` | `Spec => FlowEndsOnce`, the refinement of `FlowLifecycle`, on one CPU |
| `EngineProofs!NoCounterUnderflows` | `Spec => []TypeOK`: no unsigned counter goes below zero |
| `CreditsAreConserved` | `Spec => []CreditConservation` |
| `OneOutcomePerFlow` | `Spec => []OutcomesPartition` |
| `ScalarsCoverCredits` | `Spec => []StatsAgree` |
| `NoNdpiFlowLeaks` | `Spec => []NoLeak` |
| `DecidedFlowsStay` | `Spec => OutcomeStable` |
| `VerdictsArePublished` | `Spec => []VerdictPublished`, given `VerdictFd` and room |
| `NoCounterFalls` | `Spec => CountersNeverFall` |
| `EnginePacketsCredited` | `Spec => []PacketsCredited`, every id having a counter |
| `NdpiObserveProofs!KernelRefinesDatapath` | `Spec => K!Spec`: the composed system is a `Datapath` |
| `DaemonMakesCalls` | `Spec => E!Calls`: and an `Engine`, whatever bounds its events |
| `SystemAccountsForPackets` | `Spec => []PacketsAccountedFor`, every id having a counter |
| `SystemPacketsCredited` | `Spec => []PacketsCredited`, likewise |
| `FlowsEndOnce` | `Spec => FlowEndsOnce`, on one CPU |
| `DaemonStaysBelow` | `Spec => []DaemonBelowThreshold`, on one CPU with room |
| `KernelFollows` | `Spec => []KernelFollowsDaemon`, on one CPU |
| `FlowTableProofs!ChainsStaySound` | `Spec => []ChainsSound` |
| `TableImplementsFlowSet` | `Spec => ImplementsFlowSet`, the refinement of `FlowSet` |
| `MainProofs!IngressFiltersKept`, `EgressFiltersKept`, `NothingIsLeft` | `Spec => []IngressKept`, `[]EgressKept`, `[]NothingLeft` |
| `LoopStaysTyped` | `LoopSpec => []LoopTypeOK` |
| `AcceptFindsConnection` | `LoopSpec => []AcceptNeverBlocks` |
| `HostNamesProofs!LabelsStaySound` | `Spec => []LabelsSound` |
| `IdsKeepTheirMeaning` | `Spec => []IdsMeanTheirNames` |
| `TypesHold` | `Spec => []TypeOK`: names fit the buffer, entries keep to the TTL's cap; `Ip` being all addresses |
| `CacheIsAnswered` | `Spec => []CacheAnswered`, for messages of one question for a host name |
| `AnswersAreCached` | `Spec => AnswersCached`, for host names and IPv4 addresses |
| `ViewsProofs!AnswersAreRecent` | `Spec => AnswerIsRecent` |
| `NoCounterFalls` | `Spec => CountersNeverFall` |
| `ListingsAreOnTop` | `Spec => []ListingOnTop` |

**Recursion.** A recursive function is a `CHOOSE` among the solutions of its equation, so that
there is one must be shown before its equation can be used. `RecursionTheorems` does so once
for each shape the models have: `Iterated` for a step repeated until it stops, `Recursion` for a
walk that gets nearer to its end with each step, `Countdown` for a loop over a counter.
Inductions have the property given as a set (`SetInduction`, `Induction`), since the provers
cannot instantiate an operator.

**Sums.** Counters are added up with the library's `SumFunction`, a recursive function on
sets. `RecursionTheorems` ties its value to the size of a set of pairs, `F[x]` of them for each
`x`; then a sum without one term (`SumWithout`), a changed term (`SumUpdate`) and the sum
of two functions (`SumOfSums`) follow.

**Datapath.** `NeverReopened` needs `TypeOK` and `Ends`: a CPU about to end a flow stores a
terminal state. `flow_map[k].state` is written only by `InsertNew`, on an entry that is not
there, and by `Store`.

`PktCountBounded` is not inductive. A CPU may hold a stale count for as long as it
likes, and a store of that count must stay within the bound. The strengthening,
`Overshoot`, bounds the count in the map *and* each count held in registers by
`Limit(k)`:

* while `k` is in classification, the threshold minus one plus the number of CPUs in
  `GivingUp(k)`: each CPU that pushed the count past the threshold is still on its
  way to end the flow;
* once `k` has ended, the threshold minus one plus the number of CPUs that are *not* in
  `Active(k)`: only CPUs that had found the flow open before it ended can push further,
  each once, because the next packet takes the fast path.

A `WriteCount` at or past the threshold moves its CPU from `Active(k)` to `GivingUp(k)`; the
first `Store` of a state swaps one limit for the other, and the two sets are
disjoint, so the limit does not shrink (`LimitGrows`). `IInv == TypeOK /\ Ends /\
Overshoot` was also checked by TLC on the `datapath_smp` instance. With the code's
threshold of 8 the bound says that fewer than 249 CPUs cannot wrap the `__u8`.

`PacketLedger` is inductive with the types; a step moves a packet between its CPU and one of
the sums. `CountedOncePerCpu` is not: what a CPU has counted must be compared with the flows
it can still claim. `OncePerFlow` says that it has counted no more than the flows that have
ended, the one it is busy with aside (`Claimed`). A flow that another CPU ended meanwhile is
in neither set twice.

On one CPU the refinement of `FlowLifecycle` rests on `Alone`: what the CPU holds of its flow
is what `flow_map` has, up to the stores that are still pending. The mapping shows a flow as
ended when its packet has been counted, so `Store` is a stutter and `CountNew` the step.

**Engine.** `CreditsAreConserved`, `OneOutcomePerFlow` and `NoNdpiFlowLeaks` are one
induction. Each ties a counter to the size of a set of entries, and the proof rests on one
fact about the handler, `ProcessEffect`: a packet either moves no count, or leaves one entry
`f` and moves every count by what `f` adds minus what the entry before it added (`Effect`).
The two refinements that take back a credit are where this could fail; `CreditedValue` and
`UndoneValue` say that they cancel exactly. The strengthening is `Typed` (counters that go
down are integers until they are tied to sets) and `Shape` (a new entry holds no credit;
without it the first decision could overwrite one). The sweep moves what it frees from the
entries to the history variables (`Splits`). `NoCounterFalls` follows from `ProcessEffect` too: an
open flow holds no credit, so what it adds is never less than nothing. `VerdictsArePublished`
needs the room: `PublishFacts` shows that an update can only be refused for a key that is
not yet there when every other key is.

That no counter underflows follows once they are tied to sets. `StatsAgree` compares scalars
with per-application credits that different lines move: `Paid` says that a call that leaves a
credit has moved the scalar it belongs to (`Pays`), through the guess and the ML model that
replaces it. `PacketsCredited` holds at the end of a flow; before, a packet may still be
credited twice. `CreditBound` puts what is `Due` on the other side of the inequality. It
needs `BelowThreshold`, since a wrapped count would lose packets.

The theorems hold for `Calls`, the specification without the bound on events.

**The composed system.** `NdpiObserve` has the instances `K` of `DatapathProofs` and `E` of
`EngineProofs`, so that what is proved there can be cited. A step is a step of both or a
stutter of one: `StepIsCall` is simple, and `StepIsKernel` needs that what the engine does to
`verdict_map` is one `VerdictUpdate` with an id (from `Decision`) of the key whose event was
taken. The joint invariant `Sound` makes each side's types available to the other. On top of it:

* `InRing`: the events sent are those the engine has had and those in the ring. With the ledger
  of the one side and the credit bound of the other, no packet vanishes in between.
* `Received`: for each flow, the daemon's count and what the ring holds for it are at most what
  the kernel has sent. `SentBelow`, of the kernel alone, says that this is less than the
  threshold: each event is for a packet counted in `flow_map`, and the one that reaches the
  threshold is not sent.
* `Follows`: a flow that ended as classified has a verdict; as long as none has expired, a
  verdict is what the daemon has for the flow (`Faithful`) and is not replaced, so that
  what the CPU read is what `verdict_map` has (`SameId`).

**FlowTable.** That following pointers ends, and ends at the right entry, is not a matter of
one step, so the invariant carries a witness of it. `Heap` says that every entry that is
allocated has a single ref pointing to it, one of its own bucket (`Owner`), and that no key has
two. `Ranked` gives each ref a number that grows along every pointer and is different for
each entry of a chain: `NextOf` concludes that a ref is either the last of its
chain or points to the entry with the next higher number. An insertion at the head gets
a number below all others (`PushKeeps`), and unlinking needs none to change (`UnlinkKeeps`).

* `FindFacts`: the walk of `Find` stops at the entry of the key, if there is one, and else at
  the end of the chain. A recursive function is a `CHOOSE`, so that there is one to choose
  must be shown first: `WalkExists`, `Iterated`. The induction is over a set of numbers.
* `Underway` is the invariant of a sweep between two turns: what has been passed is not idle,
  what was dropped was idle and has been reported once, and `Pending`, what is still to be looked
  at, loses a member with each turn (`TurnFacts`). After as many turns as there are refs
  nothing is pending (`AgeFacts`), and so every idle flow is gone and no other is.
* `ChainIs` ties `Chain`, the least set closed under the pointers, to the entries of a bucket.

For the refinement, `Seen` maps a key to the `last_seen` of the entry that `lookup` finds;
`SeenRight` says that it is that of *the* entry of the key, and each call is then a step of
`FlowSet`.

**Lifecycle.** The invariant says what each process owns at each point of its life:
`FilterOwned` (a filter belongs to a process that has yet to empty its direction),
`EgressHeld` (past `attach_eg`, a process has its egress filter or its interface is in
`lame`), `PathOwned` (whoever listens at the path will remove it) and `Orphans`. `IngressKept`
alone is not inductive: that a clean-up empties only its own filter follows from the other
daemon not having attached, which follows from `FilterOwned`. There is one lemma per action.

**EventLoop.** `ReportsFresh` says that a reported server has a connection until its handler
has run: only the thread takes connections, and `poll` makes the report anew in each round.

**HostNames.** A label is appended only if `Position` has not found its word.
`Position` is a least element, so `MinFacts` (from the well-foundedness of `<` on the naturals)
and `PositionFacts` carry the proof. An id that is kept in a cache entry is given again later,
so `IdsMeanTheirNames` needs `Kept`: the id of an entry stands for the name the entry holds,
and goes when a reply replaces that name.

`TypesHold` is about the parser on any bytes at all. `QueryIsWalk` and `SkipNameFacts` show that the
walks end, whatever lengths they meet, because each step moves the offset forward and one past the
copy stops. `NextLabelFacts` bounds what a label may add to the name (`Room`).

The other two theorems need the whole round trip from what a resolver means to what the cache
holds:

* `FlattenFacts` gives each piece of a concatenation its place, from which `NameIsLaid` and
  `RecordsAreLaid` say where every label, dot and field is in an encoded message.
* `NameRead` is the walk over the name. Its invariant has three cases: the walk stands before a
  label with all of the text so far in the buffer (`AtLabel`); the buffer is full and the
  walk is anywhere in the name (`IsFull`), where by `Clean` no byte is a zero or a pointer until
  the one that ends the name; or the copy has ended in the name (`Lost`). So the name is read as
  far as it fits and the walk is right behind it, or nothing will be found.
* `AnswersRead` is the loop over the records, with `ReadUpTo` its invariant: the reader stands at the
  beginning of a record or is through, what it has found are addresses that an answer gives (`Told`), and
  in a whole copy all that were given so far (`Found`). A copy that ends inside a record leaves
  the reader there.
* `ParsedTells` puts these together: of a reply that is cut anywhere, only what it says is parsed, and
  of a whole one all of it. `ReplyInserts` takes that to the slots, where the last address wins.

`CacheAnswered` follows from `Sourced`, which says the same of every slot, whatever address it is
asked for. `AnswersCached` is a statement about the call alone and needs no invariant.

**Views.** An answer is put together cell by cell while the CPUs count. `Between` says that what
has been added up and what is still to be copied are together no less than the totals the
answer began with, and that what has been added up is no more than what has been copied from
has become since.

`ListingOnTop` is about the sort: `SortedStep` says that putting an id behind the last one that
has no less keeps a sequence without gaps or repetitions sorted by amount and then by id, and
`RowsAreFirst` that the cut-off takes a beginning of it that ends where the zeros begin (`Shown`).

Only model-checked:

* liveness (`SignalEndsLoop`, `InputTaken`, `ClientsServed`, `SweepsRecur`), out of the
  provers' reach;
* `CacheAnswered` for a message of two questions, which is in the `names` run: what the parser
  then takes for answers may be any bytes, so that there is nothing general to prove.

Every invariant and action property of the passing runs is stated by a theorem.

## 6. Findings

| Run | The code | What it contradicts |
|---|---|---|
| `datapath_torn` | a verdict and a give-up on two CPUs mix: CLASSIFIED with id 0 | `ndpi_obs_types.h:43`, id valid when CLASSIFIED |
| `ndpid_gaveup` | the packet that reaches the threshold is not sent, and the daemon waits for it | `prometheus.c:74`, flows that hit the give-up threshold |
| `loop_held` | a client that says nothing blocks the only thread in `read`, or in `write` if it does not read, and the sweep with it | `main.c:251`, flows are aged every 10 seconds |

`ndpid_gaveup` has a consequence: with one CPU and room in `flow_map`, the daemon's own
threshold is never reached (`DaemonBelowThreshold`), so the guess and the ML model, which
are asked there, are not asked. They are reached in `ndpid-simple`, or when a flow is
sent in excess: several CPUs that lose increments, or a full `flow_map`.

Other differences between docs and code that the models show as they are, without a run:

* A flow that finds `flow_map` full sends every packet to user space, for good: entries are
  never deleted (`InsertNew`). `README.md:8` promises about 8.
* The service tables are asked only for names from the DNS cache (`ByDns`), never for an SNI
  (`BySni`), so that a flow with the SNI of a listed service gets a label or nDPI's id.
  `ndpi_ai_services.h:2` says "SNI-based AI service detection".
* A flow is added to `app_flows` at its verdict and again at its expiry (`Decide` and
  `ndpi_engine_age`); `PacketsCredited` states the factor of two. `prometheus.c:139` exports
  the sum as flows per application.
* `ndpid-simple` does not count packets after the verdict (`CachedPacket`), although
  `main_noebpf.c:5` says that classified flows are counted in user space.
* A verdict that comes after the kernel gave a flow up is never taken (`Dispatch`), so the
  daemon's CLASSIFIED does not mirror the kernel's state (`flow_table.h:23`).
* Labels group hosts by one word, not by SLD and TLD (`ndpi_engine.c:189`): `a.x` and
  `c.a.y` share a label.
* A daemon on another interface takes over the default CLI path, and removes it when it ends
  (`OpenCli`, `CloseCli`): the other one is not reachable any more.

## 7. Not modelled

* Header parsing, tiered capture sizes, the patching of packet lengths before nDPI: data, of which only
  the key and "some bytes or none" matter to the properties. An event without captured
  bytes has a marker for a length, with which the DNS parser is called all the same.
* nDPI and the service tables: external or constant; any answer is allowed.
* The ML model (`ndpi_ml_model.c`): generated decision trees, more than nine tenths of
  the lines of the daemon and without any state. `ndpi_ml.c` turns their float answer into an id or
  none, which is a free choice in `Engine`. The map therefore covers a small share of all
  lines, and most of the lines outside that file.
* Per-category counters and the feature dump of the engine.
* The text of the CLI and the exporter: widths, the size of the metrics buffer, names that
  occur twice; `show flows`, which lists entries as they are; the terminal side of `ndpictl`.
* Start and end of `ndpid-simple`, which attaches nothing.
* Steps of the wall clock, more than 256 possible CPUs.
* Training, packaging, dashboards.

## 8. Plan

What could follow: `HostNames` composed with `Engine`, so that the ids that relabel flows are
no longer free.
