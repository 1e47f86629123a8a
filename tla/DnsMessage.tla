----------------------------- MODULE DnsMessage -----------------------------
(***************************************************************************)
(* daemon/ndpi_dns_cache.h: what dns_cache_update takes from the captured  *)
(* bytes of a packet from UDP port 53.                                     *)
(*                                                                         *)
(* A message is its header, reduced to the fields that are looked at, and  *)
(* the bytes after it; the copy of those bytes may end early.  Offsets are *)
(* 1-based and start after the 12-byte header.                             *)
(***************************************************************************)
EXTENDS Integers, Sequences, SequencesExt

CONSTANT NAME_BUF   \* sizeof(qname), 80 in the code

ASSUME NameBufAssumption == NAME_BUF \in Nat /\ NAME_BUF > 2

Byte == 0..255
Dot == 46

IsPointer(byte) == byte >= 192

\* The bytes b[i], b[i+1] as a number.
U16(b, i) == 256 * b[i] + b[i+1]
-----------------------------------------------------------------------------
(* The definitions named <definition>_<fault> are seeded faults, used only to
   show that a property notices them. *)

\* Where the copy of the query name ends for want of bytes.
OutOfBytes_or_room(b, off, name) == off > Len(b) \/ Len(name) >= NAME_BUF - 1
OutOfBytes(b, off, name) == off > Len(b)

\* How much of the buffer is left behind name, which ends in a NUL.
Room_no_terminator(name) == Max({0, NAME_BUF - Len(name)})
Room(name) == Max({0, NAME_BUF - 1 - Len(name)})

\* The name as far as it has been copied, and the offset of the next byte.
Query == [name : Seq(Byte), off : Nat \ {0}]

\* The label at q.off is copied, behind a dot unless it is the first.
NextLabel(b, q) ==
  LET dotted == IF q.name # <<>> /\ Room(q.name) > 0 THEN Append(q.name, Dot) ELSE q.name
      n == Min({b[q.off], Len(b) - q.off, Room(dotted)})
  IN [name |-> dotted \o SubSeq(b, q.off + 1, q.off + n), off |-> q.off + 1 + n]

\* The query name, as far as it fits the buffer, and the offset behind it.  Once
\* the buffer is full the walk takes every byte for a label's length, and goes
\* on byte by byte to the zero that ends the name.
QueryName(b) ==
  LET Copy[q \in Query] ==
        IF OutOfBytes(b, q.off, q.name) THEN q
        ELSE IF b[q.off] = 0 THEN [q EXCEPT !.off = @ + 1]
        ELSE IF IsPointer(b[q.off]) THEN [q EXCEPT !.off = @ + 2]
        ELSE Copy[NextLabel(b, q)]
  IN Copy[[name |-> <<>>, off |-> 1]]

\* The offset behind the name at off.
SkipName(b, off) ==
  LET Skip[i \in Nat \ {0}] == IF i > Len(b) THEN i
                               ELSE IF b[i] = 0 THEN i + 1
                               ELSE IF IsPointer(b[i]) THEN i + 2
                               ELSE Skip[i + 1 + b[i]]
  IN Skip[off]

\* The offset of the answers, when the first question's name ends before off.
\* The names of the q further questions are looked for right there, before the
\* QTYPE and QCLASS of the first question: only one question is skipped right.
AnswersFrom(b, off, qdcount) ==
  LET Skip[q \in 0..(qdcount - 1)] ==
        IF q = 0 THEN off
        ELSE LET i == Skip[q - 1] IN IF i > Len(b) THEN i ELSE SkipName(b, i) + 4
  IN Skip[qdcount - 1] + 4

\* Whether the record whose fixed part is at i gives an IPv4 address.
IsA_any_type(b, i) == U16(b, i + 8) = 4
IsA(b, i) == U16(b, i) = 1 /\ U16(b, i + 8) = 4

\* The record at r.off is read behind those of r.  One that does not fit in the copy
\* ends the parse: it is met again.
NextRecord(b, r) ==
  LET h == SkipName(b, r.off)
      rd == h + 10
      a == [ip |-> SubSeq(b, rd, rd + 3), ttl |-> 65536 * U16(b, h + 4) + U16(b, h + 6)]
  IN IF r.off + 9 > Len(b) \/ h + 9 > Len(b) \/ rd + U16(b, h + 8) - 1 > Len(b) THEN r
     ELSE [found |-> IF IsA(b, h) THEN Append(r.found, a) ELSE r.found,
           off |-> rd + U16(b, h + 8)]

\* The A records from off on.
ARecords(b, off, ancount) ==
  LET Read[a \in 0..ancount] ==
        IF a = 0 THEN [found |-> <<>>, off |-> off] ELSE NextRecord(b, Read[a - 1])
  IN Read[ancount].found

\* dns_cache_update: the name and the addresses it inserts under it, in order.
Parsed(msg) ==
  LET q == QueryName(msg.body)
      from == AnswersFrom(msg.body, q.off, msg.qdcount)
      answered == msg.response /\ msg.ancount > 0 /\ msg.qdcount > 0 /\ q.name # <<>>
  IN [name |-> q.name,
      addresses |-> IF answered THEN ARecords(msg.body, from, msg.ancount) ELSE <<>>]
-----------------------------------------------------------------------------
(* The resolver's side: a message as RFC 1035 lays it out.  A name is a
   sequence of labels; an answer has a type, a ttl and its rdata. *)

Label == {l \in Seq(Byte) : Len(l) \in 1..63}
Answer == {a \in [type : Byte, ttl : Byte, rdata : Seq(Byte)] : Len(a.rdata) \in Byte}

WireName(name) == FlattenSeq([i \in DOMAIN name |-> <<Len(name[i])>> \o name[i]]) \o <<0>>

WireAnswer(a) ==
  <<192, 12, 0, a.type, 0, 1, 0, 0, 0, a.ttl, 0, Len(a.rdata)>> \o a.rdata

Encode(m) ==
  [response |-> TRUE, qdcount |-> Len(m.names), ancount |-> Len(m.answers),
   body |-> FlattenSeq([i \in DOMAIN m.names |-> WireName(m.names[i]) \o <<0, 1, 0, 1>>])
            \o FlattenSeq([i \in DOMAIN m.answers |-> WireAnswer(m.answers[i])])]

\* A name as text, and what is left of it in the buffer.
Text(name) ==
  FlattenSeq([i \in DOMAIN name |-> (IF i = 1 THEN <<>> ELSE <<Dot>>) \o name[i]])
InBuffer(text) == SubSeq(text, 1, Min({Len(text), NAME_BUF - 1}))
=============================================================================
