----------------------------- MODULE MCHostNames -----------------------------
(***************************************************************************)
(* HostNames for TLC: four messages with an alias, a name longer than the  *)
(* buffer, a shared slot and a second question; two words for one label.   *)
(***************************************************************************)
EXTENDS HostNames

\* "a.x", "b.x", "c.a.y", "n.x", "s.x" and "abcd.efgh.x".
AX == <<<<97>>, <<120>>>>
BX == <<<<98>>, <<120>>>>
CAY == <<<<99>>, <<97>>, <<121>>>>
NX == <<<<110>>, <<120>>>>
SX == <<<<115>>, <<120>>>>
LONG == <<<<97, 98, 99, 100>>, <<101, 102, 103, 104>>, <<120>>>>

\* The third is the text of an alias, "x" and a pointer, and no address.
Ip1 == <<10, 0, 0, 1>>
Ip2 == <<10, 0, 0, 2>>
Alias == <<1, 120, 192, 12>>
MCIp == {Ip1, Ip2, Alias}
MCSlot == {1, 2}
MCHash == [ip \in MCIp |-> IF ip = Alias THEN 2 ELSE 1]

A(ip, ttl) == [type |-> 1, ttl |-> ttl, rdata |-> ip]
CNAME(ttl) == [type |-> 5, ttl |-> ttl, rdata |-> Alias]
MCMessage == {[names |-> <<AX>>, answers |-> <<A(Ip1, 1)>>],
              [names |-> <<SX>>, answers |-> <<CNAME(2), A(Ip2, 3)>>],
              [names |-> <<LONG>>, answers |-> <<A(Ip2, 2), A(Ip1, 2)>>],
              [names |-> <<AX, BX>>, answers |-> <<A(Ip1, 2)>>]}
MCSni == {Text(NX), Text(SX), Text(CAY)}
MCService == [h \in {Text(SX)} |-> 300]
MCNative == [h \in {Text(NX)} |-> 124]
=============================================================================
