------------------------------ MODULE Lifecycle ------------------------------
(***************************************************************************)
(* ndpid from start to exit (main of daemon/main.c, with unix_socket_init, *)
(* unix_socket_destroy, prometheus_init and prometheus_destroy), for the   *)
(* processes of one host.  They share what the kernel keeps: the TC        *)
(* filters of each interface, the path of the CLI socket and the           *)
(* Prometheus port.  A process can be killed before any of its calls.      *)
(*                                                                         *)
(* Taken from libbpf: an attach without BPF_TC_F_REPLACE fails when the    *)
(* handle is taken; bpf_tc_detach refuses options that still name the      *)
(* program, as those of main do, so that nothing is detached there; and    *)
(* bpf_tc_hook_destroy removes whatever filters its direction has.  A      *)
(* filter keeps its program and maps when their process has gone.          *)
(***************************************************************************)
EXTENDS Naturals

CONSTANTS
  Proc, Iface,
  NoProc, Orphan   \* no owner, and an owner that is gone

ASSUME OwnerAssumption == NoProc \notin Proc /\ Orphan \notin Proc /\ NoProc # Orphan

VARIABLES
  pc,         \* the next call of each process
  iface,      \* the interface it was started for
  running,    \* its g_running
  has_egress, \* whether its egress filter was attached
  has_cli, has_prom,  \* cli_fd >= 0, prom_fd >= 0
  filter,     \* interface -> direction -> the owner of the filter
  sock_path,  \* who listens at the CLI path; Orphan: a file nobody listens at
  prom_port,
  accident,   \* history: interfaces whose filter lost its process
  crashed,    \* history: some process was killed
  lame        \* history: interfaces some process observes without egress

fds == <<has_cli, has_prom>>
history == <<accident, crashed, lame>>
vars == <<pc, iface, running, has_egress, fds, filter, sock_path, prom_port, history>>

Direction == {"ingress", "egress"}
Owner == Proc \cup {NoProc, Orphan}

PC == {"off", "signals", "load", "attach_in", "attach_eg", "engine", "ring", "cli", "prom",
       "run", "destroy_in", "destroy_eg", "close_cli", "exit"}

Init ==
  /\ pc = [p \in Proc |-> "off"]
  /\ iface \in [Proc -> Iface]
  /\ running = [p \in Proc |-> TRUE]
  /\ has_egress = [p \in Proc |-> FALSE]
  /\ has_cli = [p \in Proc |-> FALSE] /\ has_prom = [p \in Proc |-> FALSE]
  /\ filter = [i \in Iface |-> [d \in Direction |-> NoProc]]
  /\ sock_path = NoProc /\ prom_port = NoProc
  /\ accident = {} /\ crashed = FALSE /\ lame = {}

Goes(p, next) == pc' = [pc EXCEPT ![p] = next]

\* p exits: its descriptors are closed, its filters and its socket file stay.
Abandoned(p) == [i \in Iface |-> [d \in Direction |->
                   IF filter[i][d] = p THEN Orphan ELSE filter[i][d]]]
Exits(p) ==
  /\ Goes(p, "off")
  /\ filter' = Abandoned(p)
  /\ sock_path' = IF sock_path = p THEN Orphan ELSE sock_path
  /\ prom_port' = IF prom_port = p THEN NoProc ELSE prom_port

\* ... and that is an accident for an interface it had a filter on.
Accident(p) ==
  accident' = IF Abandoned(p) = filter THEN accident ELSE accident \cup {iface[p]}
-----------------------------------------------------------------------------
(* The definitions named <definition>_<fault> are seeded faults, used only to
   show that a property notices them. *)

(* Start-up. *)

Start(p, i) ==
  /\ pc[p] = "off"
  /\ Goes(p, "signals")
  /\ iface' = [iface EXCEPT ![p] = i]
  /\ running' = [running EXCEPT ![p] = TRUE]
  /\ has_egress' = [has_egress EXCEPT ![p] = FALSE]
  /\ has_cli' = [has_cli EXCEPT ![p] = FALSE] /\ has_prom' = [has_prom EXCEPT ![p] = FALSE]
  /\ UNCHANGED <<filter, sock_path, prom_port, history>>

Signals(p) ==
  /\ pc[p] = "signals"
  /\ Goes(p, "load")
  /\ UNCHANGED <<iface, running, has_egress, fds, filter, sock_path, prom_port, history>>

\* Whether a signal reaches sig_handler.
Handled_in_loop(p) == pc[p] = "run"
Handled(p) == pc[p] # "signals"

\* SIGINT or SIGTERM.
Signal(p) ==
  /\ pc[p] # "off" /\ running[p]
  /\ IF Handled(p)
     THEN /\ running' = [running EXCEPT ![p] = FALSE]
          /\ UNCHANGED <<pc, filter, sock_path, prom_port, accident>>
     ELSE /\ Goes(p, "off")
          /\ filter' = Abandoned(p)
          /\ UNCHANGED <<running, sock_path, prom_port, accident>>
  /\ UNCHANGED <<iface, has_egress, fds, crashed, lame>>

\* Loading the program, the engine and the ring buffer succeed, or end the
\* process; what is attached by then stays.
LoadStep(p) ==
  /\ pc[p] \in {"load", "engine", "ring"}
  /\ \/ /\ Goes(p, CASE pc[p] = "load" -> "attach_in" [] pc[p] = "engine" -> "ring"
                     [] pc[p] = "ring" -> "cli")
        /\ UNCHANGED <<filter, accident, sock_path, prom_port>>
     \/ Exits(p) /\ Accident(p)
  /\ UNCHANGED <<iface, running, has_egress, fds, crashed, lame>>

\* Whether bpf_tc_attach can succeed; it may fail for other reasons.
Attaches_replacing(i, d) == TRUE
Attaches(i, d) == filter[i][d] = NoProc

AttachIngress(p) ==
  /\ pc[p] = "attach_in"
  /\ \/ /\ Attaches(iface[p], "ingress")
        /\ filter' = [filter EXCEPT ![iface[p]]["ingress"] = p]
        /\ Goes(p, "attach_eg")
     \/ Goes(p, "off") /\ UNCHANGED filter
  /\ UNCHANGED <<iface, running, has_egress, fds, sock_path, prom_port, history>>

\* Without the egress filter the daemon goes on.
AttachEgress(p) ==
  /\ pc[p] = "attach_eg"
  /\ \/ /\ Attaches(iface[p], "egress")
        /\ filter' = [filter EXCEPT ![iface[p]]["egress"] = p]
        /\ has_egress' = [has_egress EXCEPT ![p] = TRUE]
        /\ UNCHANGED lame
     \/ lame' = lame \cup {iface[p]} /\ UNCHANGED <<filter, has_egress>>
  /\ Goes(p, "engine")
  /\ UNCHANGED <<iface, running, fds, sock_path, prom_port, accident, crashed>>

\* unix_socket_init: the path is taken over from whoever has it.  If socket or
\* bind fails the path is gone all the same, and the daemon goes on.
OpenCli(p) ==
  /\ pc[p] = "cli"
  /\ \/ sock_path' = p /\ has_cli' = [has_cli EXCEPT ![p] = TRUE]
     \/ sock_path' = NoProc /\ UNCHANGED has_cli
  /\ Goes(p, "prom")
  /\ UNCHANGED <<iface, running, has_egress, has_prom, filter, prom_port, history>>

\* prometheus_init: the port is left to whoever has it, and the daemon goes on.
OpenProm(p) ==
  /\ pc[p] = "prom"
  /\ IF prom_port = NoProc
     THEN prom_port' = p /\ has_prom' = [has_prom EXCEPT ![p] = TRUE]
     ELSE UNCHANGED <<prom_port, has_prom>>
  /\ Goes(p, "run")
  /\ UNCHANGED <<iface, running, has_egress, has_cli, filter, sock_path, history>>
-----------------------------------------------------------------------------
(* The end. *)

LeaveLoop(p) ==
  /\ pc[p] = "run" /\ ~running[p]
  /\ Goes(p, "destroy_in")
  /\ UNCHANGED <<iface, running, has_egress, fds, filter, sock_path, prom_port, history>>

\* The direction each of the two bpf_tc_hook_destroy calls empties.
Destroyed(step) == IF step = "destroy_in" THEN "ingress" ELSE "egress"

DestroyHook(p) ==
  /\ pc[p] \in {"destroy_in", "destroy_eg"}
  /\ filter' = [filter EXCEPT ![iface[p]][Destroyed(pc[p])] = NoProc]
  /\ Goes(p, IF pc[p] = "destroy_in" THEN "destroy_eg" ELSE "close_cli")
  /\ UNCHANGED <<iface, running, has_egress, fds, sock_path, prom_port, history>>

\* unix_socket_destroy removes the path, whoever listens there by now.
CloseCli(p) ==
  /\ pc[p] = "close_cli"
  /\ sock_path' = IF has_cli[p] THEN NoProc ELSE sock_path
  /\ Goes(p, "exit")
  /\ UNCHANGED <<iface, running, has_egress, fds, filter, prom_port, history>>

\* prometheus_destroy and the return from main.
Exit(p) ==
  /\ pc[p] = "exit"
  /\ Exits(p)
  /\ UNCHANGED <<iface, running, has_egress, fds, history>>

\* SIGKILL, SIGPIPE or a fault.
Crash(p) ==
  /\ pc[p] # "off"
  /\ Exits(p) /\ Accident(p)
  /\ crashed' = TRUE
  /\ UNCHANGED <<iface, running, has_egress, fds, lame>>

Next ==
  \E p \in Proc :
    \/ \E i \in Iface : Start(p, i)
    \/ Signals(p) \/ Signal(p) \/ LoadStep(p) \/ AttachIngress(p) \/ AttachEgress(p)
    \/ OpenCli(p) \/ OpenProm(p) \/ LeaveLoop(p) \/ DestroyHook(p) \/ CloseCli(p)
    \/ Exit(p) \/ Crash(p)

Spec == Init /\ [][Next]_vars
-----------------------------------------------------------------------------
TypeOK ==
  /\ pc \in [Proc -> PC] /\ iface \in [Proc -> Iface] /\ running \in [Proc -> BOOLEAN]
  /\ has_egress \in [Proc -> BOOLEAN] /\ has_cli \in [Proc -> BOOLEAN]
  /\ has_prom \in [Proc -> BOOLEAN]
  /\ filter \in [Iface -> [Direction -> Owner]]
  /\ sock_path \in Owner /\ prom_port \in Proc \cup {NoProc}
  /\ accident \subseteq Iface /\ crashed \in BOOLEAN /\ lame \subseteq Iface

Observing(p) == pc[p] \in {"attach_eg", "engine", "ring", "cli", "prom", "run", "destroy_in"}

\* While a daemon observes, the ingress filter of its interface is its own: no
\* other start displaces it and no other clean-up removes it; so two daemons never
\* observe one interface, however starts, ends and crashes interleave
\* (main.c:141-145 and 265-268).
IngressKept == \A p \in Proc : Observing(p) => filter[iface[p]]["ingress"] = p

\* Nor is its egress filter removed or replaced, unless some daemon had to start
\* without one: that daemon's clean-up empties the egress hook all the same, when
\* the next daemon may have filled it (main.c:146-149 and 267-268).
EgressKept ==
  \A p \in Proc : Observing(p) /\ has_egress[p] =>
    filter[iface[p]]["egress"] = p \/ iface[p] \in lame

\* A process that ends by a signal or on its own leaves nothing that keeps the
\* next one from observing the interface or clients from seeing that nobody
\* listens: filters outlive only a crash and a start that fails after attaching,
\* the socket file only a crash (main.c:106-107, 159-181 and 261-272).
NothingLeft ==
  /\ \A i \in Iface, d \in Direction :
       /\ filter[i][d] = Orphan => i \in accident
       /\ \A p \in Proc : filter[i][d] = p => pc[p] # "off" /\ iface[p] = i
  /\ sock_path = Orphan => crashed
=============================================================================
