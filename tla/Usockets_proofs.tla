-------------------------- MODULE Usockets_proofs --------------------------
(***************************************************************************)
(* Theorems about the parts of MCUsockets, for every value of their        *)
(* constants: the addresses told of sockets, the bytes of a stream, the    *)
(* datagrams of a packet buffer, the responses of the server, and the      *)
(* creation of sockets.  Each part has an invariant of its own; the parts  *)
(* share no variable.                                                      *)
(***************************************************************************)
EXTENDS MCUsockets, FiniteSetTheorems, SequenceTheorems, TLAPS

-----------------------------------------------------------------------------
(* Addresses.  The property is inductive once the address structure is     *)
(* known to have its fields, whatever an earlier call left in them, and    *)
(* the sockets to have names.                                              *)

AddressShape ==
    /\ names \in [Sockets -> [Addresses!Ends -> [family : Addresses!Families, port : PortNumbers \cup {None}]]]
    /\ addr = [mem |-> addr.mem, ip |-> addr.ip, ip_length |-> addr.ip_length, port |-> addr.port]

AInv == AddressShape /\ Addresses!AddressIsOwn

\* Before the first call nothing is told.
LEMMA AInit == Addresses!Init => AInv
<1> SUFFICES ASSUME Addresses!Init PROVE AInv
  OBVIOUS
<1>1. asked = Addresses!NothingAsked
  BY DEF Addresses!Init
<1>2. Addresses!AddressIsOwn
  BY <1>1 DEF Addresses!AddressIsOwn
<1>3. names \in [Sockets -> [Addresses!Ends -> [family : Addresses!Families, port : PortNumbers \cup {None}]]]
  BY DEF Addresses!Init, Addresses!Named, Addresses!Families
<1>4. QED
  BY <1>2, <1>3 DEF Addresses!Init, AInv, AddressShape

\* A structure that was filled tells of the very address, whatever it held.
LEMMA Finalized ==
    ASSUME NEW a, a = [mem |-> a.mem, ip |-> a.ip, ip_length |-> a.ip_length, port |-> a.port],
           NEW n, NEW b, b = Addresses!internal_finalize_bsd_addr([a EXCEPT !.mem = n])
    PROVE  /\ b = [mem |-> b.mem, ip |-> b.ip, ip_length |-> b.ip_length, port |-> b.port]
           /\ b.mem = n
           /\ n.family = "unix" => b.ip_length = 0 /\ b.port = -1
           /\ n.family # "unix" => b.ip = n.family /\ b.ip_length = Addresses!HostLength(n.family) /\ b.port = n.port
<1> DEFINE c == [a EXCEPT !.mem = n]
<1>1. c = [mem |-> n, ip |-> a.ip, ip_length |-> a.ip_length, port |-> a.port]
  OBVIOUS
<1>2. c.mem = n
  BY <1>1
<1>3. CASE n.family = "unix"
  <2>1. b = [c EXCEPT !.ip_length = 0, !.port = -1]
    BY <1>2, <1>3 DEF Addresses!internal_finalize_bsd_addr
  <2>2. b = [mem |-> n, ip |-> a.ip, ip_length |-> 0, port |-> -1]
    BY <1>1, <2>1
  <2>3. QED
    BY <1>3, <2>2
<1>4. CASE n.family # "unix"
  <2>1. b = [c EXCEPT !.ip = n.family, !.ip_length = Addresses!HostLength(n.family), !.port = n.port]
    BY <1>2, <1>4 DEF Addresses!internal_finalize_bsd_addr
  <2>2. b = [mem |-> n, ip |-> n.family, ip_length |-> Addresses!HostLength(n.family), port |-> n.port]
    BY <1>1, <2>1
  <2>3. QED
    BY <1>4, <2>2
<1>5. QED
  BY <1>3, <1>4

\* A call that fills the structure.
LEMMA FilledKeeps ==
    ASSUME AInv, NEW s \in Sockets, NEW end \in Addresses!Ends, Addresses!Filled(s, end)
    PROVE  AInv'
<1> DEFINE name == names[s][end]
<1>1. /\ addr' = Addresses!internal_finalize_bsd_addr([addr EXCEPT !.mem = name])
      /\ asked' = [socket |-> s, end |-> end, result |-> 0]
      /\ names' = names
  BY DEF Addresses!Filled
<1>2. addr = [mem |-> addr.mem, ip |-> addr.ip, ip_length |-> addr.ip_length, port |-> addr.port]
  BY DEF AInv, AddressShape
<1>3. PICK b : b = addr'
  OBVIOUS
<1>4. /\ b = [mem |-> b.mem, ip |-> b.ip, ip_length |-> b.ip_length, port |-> b.port]
      /\ b.mem = name
      /\ name.family = "unix" => b.ip_length = 0 /\ b.port = -1
      /\ name.family # "unix" => b.ip = name.family /\ b.ip_length = Addresses!HostLength(name.family) /\ b.port = name.port
  BY <1>1, <1>2, <1>3, Finalized
<1>5. /\ asked'.result = 0
      /\ names'[asked'.socket][asked'.end] = name
  BY <1>1
<1>6. AddressShape'
  BY <1>1, <1>3, <1>4 DEF AInv, AddressShape
<1>7. Addresses!AddressIsOwn'
  BY <1>3, <1>4, <1>5 DEF Addresses!AddressIsOwn, Addresses!us_socket_port, Addresses!us_socket_address_length,
     Addresses!bsd_addr_get_port, Addresses!bsd_addr_get_ip_length, Addresses!bsd_addr_get_ip
<1>8. QED
  BY <1>6, <1>7 DEF AInv

\* A call that fails tells of no address.
LEMMA RefusedKeeps ==
    ASSUME AInv, NEW s \in Sockets, NEW end \in Addresses!Ends, Addresses!Refused(s, end)
    PROVE  AInv'
<1>1. asked' = [socket |-> s, end |-> end, result |-> -1] /\ names' = names /\ addr' = addr
  BY DEF Addresses!Refused
<1>2. asked'.result = -1
  BY <1>1
<1>3. Addresses!AddressIsOwn'
  BY <1>2 DEF Addresses!AddressIsOwn, Addresses!us_socket_port, Addresses!us_socket_address_length
<1>4. QED
  BY <1>1, <1>3 DEF AInv, AddressShape

\* Every step preserves the invariant.
LEMMA ANext == AInv /\ [Addresses!Next]_(Addresses!vars) => AInv'
<1> SUFFICES ASSUME AInv, [Addresses!Next]_(Addresses!vars) PROVE AInv'
  OBVIOUS
<1>1. ASSUME NEW s \in Sockets, Addresses!bsd_local_addr(s) PROVE AInv'
  BY <1>1, FilledKeeps, RefusedKeeps DEF Addresses!bsd_local_addr, Addresses!Ends
<1>2. ASSUME NEW s \in Sockets, Addresses!bsd_remote_addr(s) PROVE AInv'
  BY <1>2, FilledKeeps, RefusedKeeps DEF Addresses!bsd_remote_addr, Addresses!Ends
<1>3. ASSUME NEW s \in Sockets, Addresses!AcceptAddress(s) PROVE AInv'
  BY <1>3, FilledKeeps DEF Addresses!AcceptAddress, Addresses!Ends
<1>4. ASSUME UNCHANGED <<names, addr, asked>> PROVE AInv'
  BY <1>4 DEF AInv, AddressShape, Addresses!AddressIsOwn, Addresses!us_socket_port, Addresses!us_socket_address_length,
     Addresses!bsd_addr_get_port, Addresses!bsd_addr_get_ip_length, Addresses!bsd_addr_get_ip
<1>5. ASSUME NEW s \in Sockets, Addresses!Reset(s) PROVE AInv'
  BY <1>4, <1>5 DEF Addresses!Reset
<1>6. CASE UNCHANGED Addresses!vars
  BY <1>4, <1>6 DEF Addresses!vars
<1>7. QED
  BY <1>1, <1>2, <1>3, <1>5, <1>6 DEF Addresses!Next

\* The port and the host told of a socket are its own, never left over from the
\* socket that was asked before, for any sockets of any families
\* (Addresses!internal_finalize_bsd_addr, Addresses!bsd_local_addr, Addresses!bsd_remote_addr).
THEOREM OwnAddresses == Addresses!Spec => []AddressIsOwn
<1>1. AInv => AddressIsOwn
  BY DEF AInv, AddressIsOwn
<1>2. QED
  BY <1>1, AInit, ANext, PTL DEF Addresses!Spec

-----------------------------------------------------------------------------
(* Streams.  What the reader got, what is under way and what the writer    *)
(* keeps make up what was written; the cork never covers more than the wire.*)

Writes == [header : Seq(Nat), payload : Seq(Nat)]

WTypes ==
    /\ windows \in BOOLEAN /\ shut \in BOOLEAN /\ deaf \in BOOLEAN /\ eof \in BOOLEAN
    /\ pending \in Writes
    /\ submitted \in Seq(Nat) /\ wire \in Seq(Nat) /\ got \in Seq(Nat)
    /\ half \in Nat \cup {-1}
    /\ corked \in Nat /\ corked <= Len(wire)

\* Between the two sends of a write the header is out; after a shutdown nothing
\* is left to send or kept back.
WPhases ==
    /\ half # -1 => windows /\ half = Len(pending.header)
    /\ shut => Streams!Bytes(pending) = <<>> /\ half = -1 /\ corked = 0

\* What the writer still keeps.
Kept == Streams!Bytes(IF half = -1 THEN pending ELSE Streams!Left(pending, half))

WInv == WTypes /\ WPhases /\ got \o wire \o Kept = submitted /\ Streams!EndAfterData

\* The bytes of a write are its header and its payload.
LEMMA BytesType ==
    ASSUME NEW w \in Writes
    PROVE  /\ w.header \in Seq(Nat) /\ w.payload \in Seq(Nat) /\ Streams!Bytes(w) \in Seq(Nat)
           /\ Len(Streams!Bytes(w)) = Len(w.header) + Len(w.payload)
           /\ Len(w.header) \in Nat /\ Len(w.payload) \in Nat
BY ConcatProperties DEF Writes, Streams!Bytes

\* Concatenation is associative.
LEMMA Associative ==
    ASSUME NEW a \in Seq(Nat), NEW b \in Seq(Nat), NEW c \in Seq(Nat)
    PROVE  (a \o b) \o c = a \o (b \o c)
OBVIOUS

\* A sequence is a beginning and the rest, wherever it is cut.
LEMMA CutAnywhere ==
    ASSUME NEW q \in Seq(Nat), NEW n \in 0 .. Len(q)
    PROVE  /\ SubSeq(q, 1, n) \in Seq(Nat) /\ Len(SubSeq(q, 1, n)) = n
           /\ SubSeq(q, n + 1, Len(q)) \in Seq(Nat) /\ Len(SubSeq(q, n + 1, Len(q))) = Len(q) - n
           /\ SubSeq(q, 1, n) \o SubSeq(q, n + 1, Len(q)) = q
<1>1. Len(q) \in Nat /\ 1 \in 1 .. Len(q) + 1 /\ n \in 1 - 1 .. Len(q) /\ Len(q) \in n .. Len(q)
  OBVIOUS
<1>2. SubSeq(q, 1, n) \o SubSeq(q, n + 1, Len(q)) = SubSeq(q, 1, Len(q))
  BY <1>1, ConcatAdjacentSubSeq, Zenon
<1>3. SubSeq(q, 1, Len(q)) = q
  BY SubSeqFull, Zenon
<1>4. /\ SubSeq(q, 1, n) \in Seq(Nat) /\ Len(SubSeq(q, 1, n)) = n
      /\ SubSeq(q, n + 1, Len(q)) \in Seq(Nat) /\ Len(SubSeq(q, n + 1, Len(q))) = Len(q) - n
  BY <1>1
<1>5. QED
  BY <1>2, <1>3, <1>4

\* The part of a concatenation behind its first sequence.
LEMMA BehindFirst ==
    ASSUME NEW a \in Seq(Nat), NEW b \in Seq(Nat), NEW k \in Nat
    PROVE  SubSeq(a \o b, Len(a) + k + 1, Len(a \o b)) = SubSeq(b, k + 1, Len(b))
OBVIOUS

\* Concatenation of four sequences, regrouped.
LEMMA Regrouped ==
    ASSUME NEW a \in Seq(Nat), NEW b \in Seq(Nat), NEW c \in Seq(Nat), NEW d \in Seq(Nat)
    PROVE  (a \o (b \o c)) \o d = (a \o b) \o (c \o d)
<1>0. a \o b \in Seq(Nat)
  OBVIOUS
<1>1. (a \o b) \o c = a \o (b \o c)
  BY Associative, Zenon
<1>2. ((a \o b) \o c) \o d = (a \o b) \o (c \o d)
  BY <1>0, Associative
<1>3. QED
  BY <1>1, <1>2, Zenon

\* Bytes that move from the front of one sequence to the end of the one before
\* it leave the whole as it was.
LEMMA MovedBytes ==
    ASSUME NEW front \in Seq(Nat), NEW back \in Seq(Nat), NEW q \in Seq(Nat), NEW n \in 0 .. Len(q)
    PROVE  (front \o (back \o SubSeq(q, 1, n))) \o SubSeq(q, n + 1, Len(q)) = (front \o back) \o q
<1>1. \A u, v, x, y \in Seq(Nat) : (u \o (v \o x)) \o y = (u \o v) \o (x \o y)
  BY Regrouped
<1>2. \A v, x, y \in Seq(Nat) : (front \o (v \o x)) \o y = (front \o v) \o (x \o y)
  BY <1>1, Zenon
<1>3. \A x, y \in Seq(Nat) : (front \o (back \o x)) \o y = (front \o back) \o (x \o y)
  BY <1>2, Zenon
<1>4. PICK x \in Seq(Nat), y \in Seq(Nat) :
        x = SubSeq(q, 1, n) /\ y = SubSeq(q, n + 1, Len(q)) /\ x \o y = q
  <2>1. /\ SubSeq(q, 1, n) \in Seq(Nat) /\ SubSeq(q, n + 1, Len(q)) \in Seq(Nat)
        /\ SubSeq(q, 1, n) \o SubSeq(q, n + 1, Len(q)) = q
    BY CutAnywhere, Zenon
  <2>2. QED
    BY <2>1, Zenon
<1>5. \A z \in Seq(Nat) : (front \o (back \o x)) \o z = (front \o back) \o (x \o z)
  BY <1>3, Zenon
<1>6. (front \o (back \o x)) \o y = (front \o back) \o (x \o y)
  BY <1>5, Zenon
<1>7. QED
  BY <1>4, <1>6, Zenon

\* What is left of a write is the rest of its bytes.
LEMMA LeftBytes ==
    ASSUME NEW w \in Writes, NEW n \in 0 .. Len(Streams!Bytes(w))
    PROVE  /\ Streams!Left(w, n) \in Writes
           /\ Streams!Bytes(Streams!Left(w, n)) = SubSeq(Streams!Bytes(w), n + 1, Len(Streams!Bytes(w)))
<1>1. PICK h \in Seq(Nat), p \in Seq(Nat) : h = w.header /\ p = w.payload
  BY DEF Writes
<1>2. w = [header |-> h, payload |-> p]
  BY <1>1 DEF Writes
<1>3. Streams!Bytes(w) = h \o p
  BY <1>1 DEF Streams!Bytes
<1>4. Len(h \o p) = Len(h) + Len(p) /\ h \o p \in Seq(Nat)
  OBVIOUS
<1>5. Len(h) \in Nat /\ Len(p) \in Nat /\ n \in Nat /\ n <= Len(h) + Len(p)
  BY <1>3, <1>4
<1>6. CASE n <= Len(h)
  <2>0. n \in 0 .. Len(h)
    BY <1>5, <1>6
  <2>1. PICK r \in Seq(Nat), x \in Seq(Nat) :
          r = SubSeq(h, n + 1, Len(h)) /\ x = SubSeq(h, 1, n) /\ x \o r = h /\ Len(x) = n
    <3>1. /\ SubSeq(h, 1, n) \in Seq(Nat) /\ Len(SubSeq(h, 1, n)) = n
          /\ SubSeq(h, n + 1, Len(h)) \in Seq(Nat)
          /\ SubSeq(h, 1, n) \o SubSeq(h, n + 1, Len(h)) = h
      BY <2>0, CutAnywhere
    <3>2. QED
      BY <3>1
  <2>2. Streams!Left(w, n) = [header |-> r, payload |-> p]
    BY <1>1, <1>2, <1>6, <2>1 DEF Streams!Left
  <2>3. Streams!Left(w, n) \in Writes /\ Streams!Bytes(Streams!Left(w, n)) = r \o p
    <3>1. [header |-> r, payload |-> p] \in Writes
      BY DEF Writes
    <3>2. Streams!Left(w, n).header = r /\ Streams!Left(w, n).payload = p
      BY <2>2
    <3>3. QED
      BY <2>2, <3>1, <3>2, Zenon DEF Streams!Bytes
  <2>4. (x \o r) \o p = x \o (r \o p)
    BY Associative, Zenon
  <2>5. r \o p \in Seq(Nat)
    OBVIOUS
  <2>5a. PICK z \in Seq(Nat) : z = r \o p
    BY <2>5
  <2>6. SubSeq(x \o z, Len(x) + 0 + 1, Len(x \o z)) = SubSeq(z, 0 + 1, Len(z))
    BY BehindFirst
  <2>7. Len(x) + 0 + 1 = n + 1 /\ 0 + 1 = 1
    BY <1>5, <2>1
  <2>8. SubSeq(z, 1, Len(z)) = z
    BY SubSeqFull, Zenon
  <2>9. h \o p = x \o z
    BY <2>1, <2>4, <2>5a, Zenon
  <2>10. SubSeq(h \o p, n + 1, Len(h \o p)) = z
    BY <2>6, <2>7, <2>8, <2>9, Zenon
  <2>11. QED
    BY <1>3, <2>3, <2>5a, <2>10, Zenon
<1>7. CASE n > Len(h)
  <2>0. n - Len(h) \in 0 .. Len(p)
    BY <1>5, <1>7
  <2>1. PICK k \in 0 .. Len(p) : k = n - Len(h)
    BY <2>0
  <2>2. PICK r \in Seq(Nat) : r = SubSeq(p, k + 1, Len(p))
    BY CutAnywhere, Zenon
  <2>3. Streams!Left(w, n) = [header |-> <<>>, payload |-> r]
    BY <1>1, <1>5, <1>7, <2>1, <2>2 DEF Streams!Left
  <2>4. Streams!Left(w, n) \in Writes /\ Streams!Bytes(Streams!Left(w, n)) = r
    BY <2>3 DEF Writes, Streams!Bytes
  <2>5. SubSeq(h \o p, Len(h) + k + 1, Len(h \o p)) = SubSeq(p, k + 1, Len(p))
    BY BehindFirst
  <2>6. Len(h) + k = n
    BY <1>5, <2>1
  <2>7. QED
    BY <1>3, <2>2, <2>4, <2>5, <2>6, Zenon
<1>8. QED
  BY <1>5, <1>6, <1>7

\* Initially nothing was written.
LEMMA WInit == Streams!Init => WInv
<1>1. SUFFICES ASSUME Streams!Init PROVE WInv
  OBVIOUS
<1>2. Streams!Bytes(pending) = <<>> /\ pending \in Writes
  BY <1>1 DEF Streams!Init, Streams!NoWrite, Streams!Bytes, Writes
<1>3. WTypes
  <2>1. <<>> \in Seq(Nat) /\ Len(<<>>) = 0
    OBVIOUS
  <2>2. corked = 0 /\ half = -1 /\ wire = <<>> /\ got = <<>> /\ submitted = <<>>
    BY <1>1 DEF Streams!Init
  <2>3. corked \in Nat /\ half \in Nat \cup {-1} /\ corked <= Len(wire)
    BY <2>1, <2>2
  <2>4. windows \in BOOLEAN /\ shut \in BOOLEAN /\ deaf \in BOOLEAN /\ eof \in BOOLEAN
    BY <1>1 DEF Streams!Init
  <2>5. QED
    BY <1>2, <2>1, <2>2, <2>3, <2>4, Zenon DEF WTypes
<1>4. WPhases /\ Streams!EndAfterData
  BY <1>1 DEF Streams!Init, WPhases, Streams!EndAfterData
<1>5. Kept = <<>>
  BY <1>1, <1>2 DEF Streams!Init, Kept
<1>6. (got \o wire) \o Kept = submitted
  BY <1>1, <1>5 DEF Streams!Init
<1>7. QED
  BY <1>3, <1>4, <1>6 DEF WInv

\* The facts of the invariant that every step starts from.
LEMMA WFacts ==
    ASSUME WInv
    PROVE  /\ pending.header \in Seq(Nat) /\ pending.payload \in Seq(Nat)
           /\ Streams!Bytes(pending) \in Seq(Nat) /\ Kept \in Seq(Nat)
           /\ half = -1 => Kept = Streams!Bytes(pending)
           /\ half # -1 => Kept = pending.payload
<1>1. pending \in Writes /\ WPhases
  BY DEF WInv, WTypes
<1>2. /\ pending.header \in Seq(Nat) /\ pending.payload \in Seq(Nat) /\ Streams!Bytes(pending) \in Seq(Nat)
      /\ Len(Streams!Bytes(pending)) = Len(pending.header) + Len(pending.payload)
      /\ Len(pending.header) \in Nat /\ Len(pending.payload) \in Nat
  BY <1>1, BytesType
<1>3. CASE half = -1
  BY <1>2, <1>3 DEF Kept
<1>4. CASE half # -1
  <2>1. half = Len(pending.header)
    BY <1>1, <1>4 DEF WPhases
  <2>2. half \in 0 .. Len(Streams!Bytes(pending))
    <3>1. PICK i \in Nat, j \in Nat : i = Len(pending.header) /\ j = Len(pending.payload)
      BY <1>2
    <3>2. half = i /\ Len(Streams!Bytes(pending)) = i + j
      BY <1>2, <2>1, <3>1, Zenon
    <3>3. QED
      BY <3>2
  <2>3. Kept = SubSeq(Streams!Bytes(pending), half + 1, Len(Streams!Bytes(pending)))
    BY <1>1, <1>4, <2>2, LeftBytes, Zenon DEF Kept
  <2>4. PICK h \in Seq(Nat), p \in Seq(Nat) : h = pending.header /\ p = pending.payload
    BY <1>2
  <2>5. SubSeq(h \o p, Len(h) + 0 + 1, Len(h \o p)) = SubSeq(p, 0 + 1, Len(p))
    BY BehindFirst
  <2>6. Len(h) + 0 + 1 = half + 1 /\ 0 + 1 = 1
    BY <1>2, <2>1, <2>4
  <2>7. SubSeq(p, 1, Len(p)) = p
    BY SubSeqFull, Zenon
  <2>8. Streams!Bytes(pending) = h \o p
    BY <2>4 DEF Streams!Bytes
  <2>9. Kept = pending.payload
    BY <2>3, <2>4, <2>5, <2>6, <2>7, <2>8, Zenon
  <2>10. QED
    BY <1>2, <1>4, <2>9
<1>5. QED
  BY <1>3, <1>4

\* The kernel takes the first n bytes of what the writer keeps, and the writer
\* keeps the others: nothing is lost, and nothing changes its place.
LEMMA SendStep ==
    ASSUME WInv, NEW n \in 0 .. Len(Kept),
           wire' = wire \o SubSeq(Kept, 1, n),
           Kept' = SubSeq(Kept, n + 1, Len(Kept)),
           got' = got, submitted' = submitted
    PROVE  /\ (got' \o wire') \o Kept' = submitted'
           /\ wire' \in Seq(Nat) /\ Len(wire') = Len(wire) + n
<1>1. Kept \in Seq(Nat) /\ got \in Seq(Nat) /\ wire \in Seq(Nat) /\ (got \o wire) \o Kept = submitted
  BY WFacts DEF WInv, WTypes
<1>2. PICK k \in Seq(Nat) : k = Kept
  BY <1>1
<1>3. n \in 0 .. Len(k)
  BY <1>2
<1>4. (got \o (wire \o SubSeq(k, 1, n))) \o SubSeq(k, n + 1, Len(k)) = (got \o wire) \o k
  <2>1. \A q \in Seq(Nat) : \A m \in 0 .. Len(q) :
          (got \o (wire \o SubSeq(q, 1, m))) \o SubSeq(q, m + 1, Len(q)) = (got \o wire) \o q
    BY <1>1, MovedBytes
  <2>2. \A m \in 0 .. Len(k) :
          (got \o (wire \o SubSeq(k, 1, m))) \o SubSeq(k, m + 1, Len(k)) = (got \o wire) \o k
    BY <2>1, Zenon
  <2>3. QED
    BY <1>3, <2>2, Zenon
<1>5. (got' \o wire') \o Kept' = submitted'
  BY <1>1, <1>2, <1>4, Zenon
<1>6. PICK x \in Seq(Nat) : x = SubSeq(k, 1, n) /\ Len(x) = n
  BY <1>3, CutAnywhere
<1>7. wire' = wire \o x
  BY <1>2, <1>6
<1>8. wire' \in Seq(Nat) /\ Len(wire') = Len(wire) + n
  <2>1. wire \o x \in Seq(Nat) /\ Len(wire \o x) = Len(wire) + Len(x)
    BY <1>1, ConcatProperties
  <2>2. QED
    BY <1>6, <1>7, <2>1, Zenon
<1>9. QED
  BY <1>5, <1>8

\* A send leaves the kernel with no more to keep back than there is.
LEMMA CorkedBound ==
    ASSUME WInv, NEW data, NEW n \in Nat, NEW msg_more \in BOOLEAN, Streams!bsd_send(data, n, msg_more),
           Len(wire') = Len(wire) + n
    PROVE  corked' \in Nat /\ corked' <= Len(wire')
<1>1. corked \in Nat /\ corked <= Len(wire) /\ Len(wire) \in Nat
  BY DEF WInv, WTypes
<1>2. corked' = corked \/ corked' = corked + n \/ corked' = 0
  BY DEF Streams!bsd_send
<1>3. QED
  BY <1>1, <1>2

\* A send out of one sequence: us_socket_write, or writev of both parts.
LEMMA WholeSend ==
    ASSUME WInv, NEW n \in 1 .. Room, NEW msg_more \in BOOLEAN, half = -1, Streams!Bytes(pending) # <<>>,
           Streams!bsd_send(Streams!Bytes(pending), n, msg_more), pending' = Streams!Left(pending, n),
           UNCHANGED <<windows, submitted, half, shut, deaf, got, eof>>
    PROVE  WInv'
<1>1. WTypes /\ WPhases /\ Streams!EndAfterData /\ pending \in Writes
  BY DEF WInv, WTypes
<1>2. Kept = Streams!Bytes(pending) /\ Kept \in Seq(Nat)
  BY WFacts
<1>3. n \in 0 .. Len(Streams!Bytes(pending)) /\ n \in Nat
  BY StreamAssumption, <1>2 DEF Streams!bsd_send
<1>4. pending' \in Writes /\ Streams!Bytes(pending') = SubSeq(Kept, n + 1, Len(Kept))
  BY <1>1, <1>2, <1>3, LeftBytes, Zenon
<1>5. Kept' = SubSeq(Kept, n + 1, Len(Kept))
  BY <1>4 DEF Kept
<1>6. wire' = wire \o SubSeq(Kept, 1, n)
  BY <1>2 DEF Streams!bsd_send
<1>7. (got' \o wire') \o Kept' = submitted' /\ wire' \in Seq(Nat) /\ Len(wire') = Len(wire) + n
  <2>1. n \in 0 .. Len(Kept)
    BY <1>2, <1>3, Zenon
  <2>2. got' = got /\ submitted' = submitted
    OBVIOUS
  <2>3. QED
    BY <1>5, <1>6, <2>1, <2>2, SendStep, Zenon
<1>8. corked' \in Nat /\ corked' <= Len(wire')
  BY <1>3, <1>7, CorkedBound
<1>9. ~shut
  BY <1>1 DEF WPhases
<1>10. WTypes'
  BY <1>1, <1>4, <1>7, <1>8 DEF WTypes
<1>11. WPhases' /\ Streams!EndAfterData'
  BY <1>1, <1>9 DEF WPhases, Streams!EndAfterData
<1>12. QED
  BY <1>7, <1>10, <1>11 DEF WInv

\* bsd_write2 on Windows, first send: with a whole header out the payload is
\* what is left of the write; otherwise the writer keeps the rest of both.
LEMMA HeaderSend == ASSUME WInv, Streams!Write2Header PROVE WInv'
<1>1. WTypes /\ WPhases /\ Streams!EndAfterData /\ pending \in Writes
  BY DEF WInv, WTypes
<1>2. half = -1 /\ windows /\ Streams!Bytes(pending) # <<>> /\ ~shut
  BY <1>1 DEF Streams!Write2Header, WPhases
<1>3. /\ pending.header \in Seq(Nat) /\ pending.payload \in Seq(Nat)
      /\ Kept = Streams!Bytes(pending) /\ Kept \in Seq(Nat)
  BY <1>2, WFacts
<1>4. PICK n \in 0 .. Room : /\ Streams!bsd_send(pending.header, n, FALSE)
                             /\ half' = IF Streams!HeaderWhole(n) THEN n ELSE -1
                             /\ pending' = IF Streams!HeaderWhole(n) THEN pending ELSE Streams!Left(pending, n)
  BY Zenon DEF Streams!Write2Header
<1>5. /\ UNCHANGED <<windows, submitted, shut, deaf, got, eof>>
      /\ windows' = windows /\ submitted' = submitted /\ shut' = shut /\ deaf' = deaf
      /\ got' = got /\ eof' = eof
  BY DEF Streams!Write2Header
<1>6. PICK h \in Seq(Nat), p \in Seq(Nat) : h = pending.header /\ p = pending.payload
  BY <1>3
<1>7. Kept = h \o p
  BY <1>3, <1>6 DEF Streams!Bytes
<1>8. n \in 0 .. Len(h) /\ n \in Nat
  <2>1. n <= Len(pending.header)
    BY <1>4, Zenon DEF Streams!bsd_send
  <2>2. QED
    BY <1>6, <2>1, StreamAssumption
<1>9. SubSeq(h, 1, n) = SubSeq(h \o p, 1, n)
  BY <1>8
<1>10. wire' = wire \o SubSeq(Kept, 1, n)
  BY <1>4, <1>6, <1>7, <1>9 DEF Streams!bsd_send
<1>11. n \in 0 .. Len(Kept)
  <2>1. Len(h \o p) = Len(h) + Len(p) /\ Len(h) \in Nat /\ Len(p) \in Nat
    OBVIOUS
  <2>2. QED
    BY <1>7, <1>8, <2>1
<1>12. Streams!Left(pending, n) \in Writes /\ Streams!Bytes(Streams!Left(pending, n)) = SubSeq(Kept, n + 1, Len(Kept))
  BY <1>1, <1>3, <1>11, LeftBytes, Zenon
<1>13. /\ Kept' = Streams!Bytes(Streams!Left(pending, n)) /\ pending' \in Writes
       /\ half' \in Nat \cup {-1} /\ (half' # -1 => windows' /\ half' = Len(pending'.header))
  <2>1. CASE Streams!HeaderWhole(n)
    <3>1. half' = n /\ pending' = pending /\ n = Len(pending.header) /\ n # -1
      <4>1. half' = n /\ pending' = pending /\ n = Len(pending.header)
        BY <1>4, <2>1, Zenon DEF Streams!HeaderWhole
      <4>2. QED
        BY <1>8, <4>1
    <3>2. QED
      BY <1>1, <1>2, <1>5, <1>8, <3>1 DEF Kept
  <2>2. CASE ~Streams!HeaderWhole(n)
    <3>1. half' = -1 /\ pending' = Streams!Left(pending, n)
      BY <1>4, <2>2, Zenon
    <3>2. QED
      BY <1>12, <3>1 DEF Kept
  <2>3. QED
    BY <2>1, <2>2
<1>14. Kept' = SubSeq(Kept, n + 1, Len(Kept))
  BY <1>12, <1>13, Zenon
<1>15. (got' \o wire') \o Kept' = submitted' /\ wire' \in Seq(Nat) /\ Len(wire') = Len(wire) + n
  BY <1>5, <1>10, <1>11, <1>14, SendStep, Zenon
<1>16. corked' \in Nat /\ corked' <= Len(wire')
  BY <1>4, <1>8, <1>15, CorkedBound
<1>17. WTypes'
  BY <1>1, <1>5, <1>13, <1>15, <1>16 DEF WTypes
<1>18. WPhases' /\ Streams!EndAfterData'
  BY <1>1, <1>2, <1>5, <1>13 DEF WPhases, Streams!EndAfterData
<1>19. QED
  BY <1>15, <1>17, <1>18 DEF WInv

\* bsd_write2 on Windows, second send: what it takes is counted on top of the
\* whole header.
LEMMA PayloadSend == ASSUME WInv, Streams!Write2Payload PROVE WInv'
<1>1. WTypes /\ WPhases /\ Streams!EndAfterData /\ pending \in Writes
  BY DEF WInv, WTypes
<1>2. half # -1 /\ half = Len(pending.header) /\ ~shut
  BY <1>1 DEF Streams!Write2Payload, WPhases
<1>3. /\ pending.header \in Seq(Nat) /\ pending.payload \in Seq(Nat)
      /\ Kept = pending.payload /\ Kept \in Seq(Nat)
  BY <1>2, WFacts
<1>4. PICK n \in 0 .. Room : /\ Streams!bsd_send(pending.payload, n, FALSE)
                             /\ pending' = Streams!Left(pending, half + n)
  BY DEF Streams!Write2Payload
<1>5. /\ windows' = windows /\ submitted' = submitted /\ shut' = shut /\ deaf' = deaf
      /\ got' = got /\ eof' = eof /\ half' = -1
  BY DEF Streams!Write2Payload
<1>6. PICK h \in Seq(Nat), p \in Seq(Nat) : h = pending.header /\ p = pending.payload
  BY <1>3
<1>7. Kept = p /\ Streams!Bytes(pending) = h \o p
  BY <1>3, <1>6 DEF Streams!Bytes
<1>8. n \in 0 .. Len(p) /\ n \in Nat
  BY <1>4, <1>6, StreamAssumption DEF Streams!bsd_send
<1>9. wire' = wire \o SubSeq(Kept, 1, n)
  BY <1>3, <1>4 DEF Streams!bsd_send
<1>10. Len(h) + n \in 0 .. Len(h \o p)
  <2>1. Len(h \o p) = Len(h) + Len(p) /\ Len(h) \in Nat /\ Len(p) \in Nat
    OBVIOUS
  <2>2. QED
    BY <1>8, <2>1
<1>11. half + n = Len(h) + n
  BY <1>2, <1>6
<1>12. /\ Streams!Left(pending, Len(h) + n) \in Writes
       /\ Streams!Bytes(Streams!Left(pending, Len(h) + n)) = SubSeq(h \o p, Len(h) + n + 1, Len(h \o p))
  <2>1. PICK m \in 0 .. Len(Streams!Bytes(pending)) : m = Len(h) + n
    BY <1>7, <1>10
  <2>2. Streams!Left(pending, m) \in Writes /\ Streams!Bytes(Streams!Left(pending, m)) = SubSeq(Streams!Bytes(pending), m + 1, Len(Streams!Bytes(pending)))
    BY <1>1, LeftBytes, Zenon
  <2>3. QED
    BY <1>7, <2>1, <2>2, Zenon
<1>13. SubSeq(h \o p, Len(h) + n + 1, Len(h \o p)) = SubSeq(p, n + 1, Len(p))
  BY <1>8, BehindFirst
<1>14. pending' \in Writes /\ Kept' = SubSeq(Kept, n + 1, Len(Kept))
  <2>1. pending' = Streams!Left(pending, Len(h) + n)
    BY <1>4, <1>11, Zenon
  <2>2. Kept' = Streams!Bytes(pending')
    BY <1>5 DEF Kept
  <2>3. QED
    BY <1>7, <1>12, <1>13, <2>1, <2>2, Zenon
<1>15. (got' \o wire') \o Kept' = submitted' /\ wire' \in Seq(Nat) /\ Len(wire') = Len(wire) + n
  <2>1. n \in 0 .. Len(Kept)
    BY <1>7, <1>8, Zenon
  <2>2. QED
    BY <1>5, <1>9, <1>14, <2>1, SendStep, Zenon
<1>16. corked' \in Nat /\ corked' <= Len(wire')
  BY <1>4, <1>8, <1>15, CorkedBound
<1>17. WTypes'
  BY <1>1, <1>5, <1>14, <1>15, <1>16 DEF WTypes
<1>18. WPhases' /\ Streams!EndAfterData'
  BY <1>1, <1>2, <1>5 DEF WPhases, Streams!EndAfterData
<1>19. QED
  BY <1>15, <1>17, <1>18 DEF WInv

\* A read takes the front of the wire, and returns 0 only when nothing is left.
LEMMA ReadStep == ASSUME WInv, NEW length \in 1 .. Room, Streams!bsd_recv(length) PROVE WInv'
<1>1. /\ WTypes /\ WPhases /\ Streams!EndAfterData /\ (got \o wire) \o Kept = submitted
      /\ pending \in Writes /\ wire \in Seq(Nat) /\ got \in Seq(Nat) /\ Kept \in Seq(Nat)
      /\ half = -1 => Kept = Streams!Bytes(pending)
  BY WFacts DEF WInv, WTypes
<1>2. PICK n : n = IF length < Streams!Arrived THEN length ELSE Streams!Arrived
  OBVIOUS
<1>3. /\ n > 0 \/ (Streams!Ended /\ ~eof)
      /\ got' = got \o SubSeq(wire, 1, n)
      /\ wire' = SubSeq(wire, n + 1, Len(wire))
      /\ eof' = (n = 0)
      /\ UNCHANGED <<windows, pending, submitted, half, corked, shut, deaf>>
  BY <1>2 DEF Streams!bsd_recv
<1>4. n \in 0 .. Len(wire) /\ n <= Len(wire) - corked /\ (n = 0 => corked = Len(wire))
  <2>1. corked \in Nat /\ corked <= Len(wire) /\ Len(wire) \in Nat /\ length \in Nat /\ length > 0
    BY <1>1, StreamAssumption DEF WTypes
  <2>2. QED
    BY <1>2, <2>1 DEF Streams!Arrived
<1>5. PICK x \in Seq(Nat), y \in Seq(Nat) :
        /\ x = SubSeq(wire, 1, n) /\ y = SubSeq(wire, n + 1, Len(wire))
        /\ x \o y = wire /\ Len(y) = Len(wire) - n
  <2>1. /\ SubSeq(wire, 1, n) \in Seq(Nat) /\ SubSeq(wire, n + 1, Len(wire)) \in Seq(Nat)
        /\ SubSeq(wire, 1, n) \o SubSeq(wire, n + 1, Len(wire)) = wire
        /\ Len(SubSeq(wire, n + 1, Len(wire))) = Len(wire) - n
    BY <1>1, <1>4, CutAnywhere, Zenon
  <2>2. QED
    BY <2>1, Zenon
<1>6. got' = got \o x /\ wire' = y
  BY <1>3, <1>5, Zenon
<1>7. Kept' = Kept
  BY <1>3 DEF Kept
<1>8. got' \o wire' = got \o wire
  <2>1. \A b, c \in Seq(Nat) : (got \o b) \o c = got \o (b \o c)
    BY <1>1, Associative
  <2>2. \A c \in Seq(Nat) : (got \o x) \o c = got \o (x \o c)
    BY <2>1, Zenon
  <2>3. (got \o x) \o y = got \o (x \o y)
    BY <2>2, Zenon
  <2>4. QED
    BY <1>5, <1>6, <2>3, Zenon
<1>9. (got' \o wire') \o Kept' = submitted'
  BY <1>1, <1>3, <1>7, <1>8, Zenon
<1>10. got' \in Seq(Nat) /\ wire' \in Seq(Nat) /\ eof' \in BOOLEAN
  <2>1. got \o x \in Seq(Nat)
    BY <1>1
  <2>2. QED
    BY <1>3, <1>6, <2>1
<1>11. corked' \in Nat /\ corked' <= Len(wire')
  <2>1. corked \in Nat /\ Len(wire) \in Nat
    BY <1>1 DEF WTypes
  <2>2. QED
    BY <1>3, <1>4, <1>5, <1>6, <2>1
<1>12. WTypes'
  BY <1>1, <1>3, <1>10, <1>11 DEF WTypes
<1>13. WPhases'
  BY <1>1, <1>3 DEF WPhases
<1>14. Streams!EndAfterData'
  <2>1. SUFFICES ASSUME n = 0, ~deaf PROVE shut /\ got' = submitted
    BY <1>3 DEF Streams!EndAfterData
  <2>2. shut
    BY <1>3, <2>1 DEF Streams!Ended
  <2>3. Kept = <<>> /\ corked = 0
    BY <1>1, <2>2 DEF WPhases
  <2>4. Len(wire) = 0
    BY <1>4, <2>1, <2>3
  <2>5. wire = <<>>
    BY <1>1, <2>4
  <2>6. x = <<>>
    BY <1>5, <2>5
  <2>7. got' = got /\ (got \o <<>>) \o <<>> = got
    BY <1>1, <1>6, <2>6
  <2>8. QED
    BY <1>1, <2>2, <2>3, <2>5, <2>7
<1>15. QED
  BY <1>9, <1>12, <1>13, <1>14 DEF WInv

\* The user's next write is appended to everything written before.
LEMMA SubmitStep == ASSUME WInv, NEW h \in Headers, NEW p \in Bodies,
                           Streams!Submit([header |-> h, payload |-> p])
                    PROVE  WInv'
<1>1. WTypes /\ WPhases /\ Streams!EndAfterData /\ (got \o wire) \o Kept = submitted
  BY DEF WInv
<1>2. PICK w \in Writes : w = [header |-> h, payload |-> p]
  BY StreamAssumption DEF Writes
<1>3. /\ Streams!Bytes(pending) = <<>> /\ half = -1 /\ ~shut
      /\ pending' = w /\ submitted' = submitted \o Streams!Bytes(w)
      /\ UNCHANGED <<windows, wire, half, corked, shut, deaf, got, eof>>
  BY <1>2 DEF Streams!Submit
<1>4. Streams!Bytes(w) \in Seq(Nat) /\ submitted \in Seq(Nat) /\ got \in Seq(Nat) /\ wire \in Seq(Nat)
  BY <1>1, BytesType DEF WTypes
<1>5. Kept' = Streams!Bytes(w)
  BY <1>3 DEF Kept
<1>6. got \o wire = submitted
  <2>1. Kept = <<>>
    BY <1>3, WFacts
  <2>2. got \o wire \in Seq(Nat)
    BY <1>4
  <2>3. PICK gw \in Seq(Nat) : gw = got \o wire
    BY <2>2
  <2>4. gw \o <<>> = gw
    OBVIOUS
  <2>5. QED
    BY <1>1, <2>1, <2>3, <2>4, Zenon
<1>7. (got' \o wire') \o Kept' = submitted'
  BY <1>3, <1>5, <1>6, Zenon
<1>8. submitted' \in Seq(Nat)
  BY <1>3, <1>4
<1>9. WTypes'
  BY <1>1, <1>3, <1>8 DEF WTypes
<1>10. WPhases' /\ Streams!EndAfterData'
  BY <1>1, <1>3 DEF WPhases, Streams!EndAfterData
<1>11. QED
  BY <1>7, <1>9, <1>10 DEF WInv

\* The steps that move no bytes.
LEMMA QuietStep ==
    ASSUME WInv, Streams!bsd_socket_flush \/ Streams!bsd_shutdown_socket \/ Streams!bsd_shutdown_socket_read \/ UNCHANGED Streams!vars
    PROVE  WInv'
<1>1. WTypes /\ WPhases /\ Streams!EndAfterData /\ (got \o wire) \o Kept = submitted
  BY DEF WInv
<1>2. UNCHANGED <<windows, pending, submitted, wire, half, got, eof>>
  BY DEF Streams!bsd_socket_flush, Streams!bsd_shutdown_socket, Streams!bsd_shutdown_socket_read, Streams!vars
<1>3. (got' \o wire') \o Kept' = submitted'
  BY <1>1, <1>2 DEF Kept
<1>4. /\ shut' \in BOOLEAN /\ deaf' \in BOOLEAN /\ corked' \in {0, corked}
      /\ (shut => shut') /\ (deaf => deaf') /\ (corked = 0 => corked' = 0)
      /\ (shut' /\ ~shut => Streams!Bytes(pending) = <<>> /\ half = -1 /\ corked' = 0)
  <2>1. shut \in BOOLEAN /\ deaf \in BOOLEAN
    BY <1>1 DEF WTypes
  <2>2. CASE Streams!bsd_socket_flush
    BY <2>1, <2>2, Zenon DEF Streams!bsd_socket_flush
  <2>3. CASE Streams!bsd_shutdown_socket
    BY <2>1, <2>3, Zenon DEF Streams!bsd_shutdown_socket
  <2>4. CASE Streams!bsd_shutdown_socket_read
    BY <2>1, <2>4, Zenon DEF Streams!bsd_shutdown_socket_read
  <2>5. CASE UNCHANGED Streams!vars
    BY <2>1, <2>5, Zenon DEF Streams!vars
  <2>6. QED
    BY <2>2, <2>3, <2>4, <2>5
<1>5. corked' \in Nat /\ corked' <= Len(wire')
  BY <1>1, <1>2, <1>4 DEF WTypes
<1>6. WTypes'
  BY <1>1, <1>2, <1>4, <1>5 DEF WTypes
<1>7. WPhases' /\ Streams!EndAfterData'
  BY <1>1, <1>2, <1>4 DEF WPhases, Streams!EndAfterData
<1>8. QED
  BY <1>3, <1>6, <1>7 DEF WInv

\* Every step of the writer, the kernel and the reader keeps the invariant.
LEMMA WNext == WInv /\ [Streams!Next]_(Streams!vars) => WInv'
<1>1. SUFFICES ASSUME WInv, [Streams!Next]_(Streams!vars) PROVE WInv'
  OBVIOUS
<1>2. CASE \E h \in Headers, p \in Bodies : Streams!Submit([header |-> h, payload |-> p])
  BY <1>1, <1>2, SubmitStep
<1>3. CASE Streams!Write2Gather
  <2>1. PICK n \in 1 .. Room : Streams!bsd_send(Streams!Bytes(pending), n, FALSE) /\ pending' = Streams!Left(pending, n)
    BY <1>3 DEF Streams!Write2Gather
  <2>2. /\ ~windows /\ Streams!Bytes(pending) # <<>>
        /\ UNCHANGED <<windows, submitted, half, shut, deaf, got, eof>>
    BY <1>3 DEF Streams!Write2Gather
  <2>3. half = -1
    BY <1>1, <2>2 DEF WInv, WPhases
  <2>4. FALSE \in BOOLEAN
    OBVIOUS
  <2>5. QED
    BY <1>1, <2>1, <2>2, <2>3, <2>4, WholeSend, Zenon
<1>4. CASE Streams!Write2Header
  BY <1>1, <1>4, HeaderSend
<1>5. CASE Streams!Write2Payload
  BY <1>1, <1>5, PayloadSend
<1>6. CASE \E length \in 1 .. Room : Streams!bsd_recv(length)
  BY <1>1, <1>6, ReadStep
<1>7. CASE \E more \in BOOLEAN : Streams!Write(more)
  <2>1. PICK more \in BOOLEAN : Streams!Write(more)
    BY <1>7
  <2>2. PICK n \in 1 .. Room : Streams!bsd_send(Streams!Bytes(pending), n, more) /\ pending' = Streams!Left(pending, n)
    BY <2>1 DEF Streams!Write
  <2>3. /\ half = -1 /\ Streams!Bytes(pending) # <<>>
        /\ UNCHANGED <<windows, submitted, half, shut, deaf, got, eof>>
    BY <2>1 DEF Streams!Write
  <2>4. QED
    BY <1>1, <2>2, <2>3, WholeSend, Zenon
<1>8. CASE Streams!bsd_socket_flush \/ Streams!bsd_shutdown_socket \/ Streams!bsd_shutdown_socket_read \/ UNCHANGED Streams!vars
  BY <1>1, <1>8, QuietStep
<1>9. QED
  BY <1>1, <1>2, <1>3, <1>4, <1>5, <1>6, <1>7, <1>8 DEF Streams!Next

\* However the kernel cuts writes and reads, the stream arrives in order and
\* without a gap, and its end is reported behind all of its data.
THEOREM StreamsArriveWhole == Streams!Spec => []StreamWhole
<1>1. WInv => StreamWhole
  BY DEF WInv, StreamWhole, Streams!StreamInOrder, Kept
<1>2. QED
  BY WInit, WNext, <1>1, PTL DEF Streams!Spec

-----------------------------------------------------------------------------
(* Datagrams.  A prepared packet holds what its user meant.                *)

MemoryBytes == DatagramBytes \cup {None}

Memories == {m \in Seq(MemoryBytes) : Len(m) = LIBUS_UDP_MAX_SIZE}

Names == [host : Hosts \cup {None}, tail : Tails \cup {None}]

MessageTypes == {"IP_PKTINFO", "IPV6_PKTINFO", "IP_TOS", "IPV6_TCLASS"}

ControlSets == SUBSET [type : MessageTypes, tos : Tos \cup {0}]

Slots == [name : Names, room : 0 .. LIBUS_UDP_MAX_SIZE, len : Nat \cup {None}, controllen : Nat,
          control : ControlSets, base : Memories]

\* Memory holds what was copied to its start.
LEMMA MemoryReads ==
    ASSUME NEW base \in Memories, NEW offset \in Nat, NEW data \in Seq(MemoryBytes),
           offset + Len(data) <= LIBUS_UDP_MAX_SIZE
    PROVE  /\ Packets!Memory(base, offset, data) \in Memories
           /\ SubSeq(Packets!Memory(base, offset, data), 1, offset + Len(data)) = SubSeq(base, 1, offset) \o data
<1>1. base \in Seq(MemoryBytes) /\ Len(base) = LIBUS_UDP_MAX_SIZE /\ LIBUS_UDP_MAX_SIZE \in Nat /\ Len(data) \in Nat
  BY BufferSizes DEF Memories
<1>2. PICK f : f = Packets!Memory(base, offset, data)
  OBVIOUS
<1>3. \A i \in 1 .. LIBUS_UDP_MAX_SIZE :
        f[i] = IF i \in offset + 1 .. offset + Len(data) THEN data[i - offset] ELSE base[i]
  BY <1>2 DEF Packets!Memory
<1>4. \A i \in 1 .. LIBUS_UDP_MAX_SIZE : f[i] \in MemoryBytes
  BY <1>1, <1>3
<1>5. f \in [1 .. LIBUS_UDP_MAX_SIZE -> MemoryBytes]
  BY <1>2, <1>4 DEF Packets!Memory
<1>6. f \in Seq(MemoryBytes) /\ Len(f) = LIBUS_UDP_MAX_SIZE
  BY <1>1, <1>5
<1>7. PICK x, y : x = SubSeq(f, 1, offset + Len(data)) /\ y = SubSeq(base, 1, offset)
  OBVIOUS
<1>8. x \in Seq(MemoryBytes) /\ Len(x) = offset + Len(data) /\ \A i \in 1 .. offset + Len(data) : x[i] = f[i]
  BY <1>1, <1>6, <1>7
<1>9. y \in Seq(MemoryBytes) /\ Len(y) = offset /\ \A i \in 1 .. offset : y[i] = base[i]
  BY <1>1, <1>7
<1>10. x = y \o data
  <2>1. y \o data \in Seq(MemoryBytes) /\ Len(y \o data) = offset + Len(data)
    BY <1>9
  <2>2. \A i \in 1 .. offset + Len(data) : x[i] = (y \o data)[i]
    <3>1. SUFFICES ASSUME NEW i \in 1 .. offset + Len(data) PROVE x[i] = (y \o data)[i]
      OBVIOUS
    <3>2. x[i] = IF i \in offset + 1 .. offset + Len(data) THEN data[i - offset] ELSE base[i]
      BY <1>1, <1>3, <1>8
    <3>3. CASE i <= offset
      BY <1>1, <1>9, <3>2, <3>3
    <3>4. CASE i > offset
      BY <1>1, <1>9, <3>2, <3>4
    <3>5. i <= offset \/ i > offset
      BY <1>1, <3>1
    <3>6. QED
      BY <3>3, <3>4, <3>5, Zenon
  <2>3. QED
    BY <1>8, <2>1, <2>2, SeqEqual
<1>11. QED
  BY <1>2, <1>6, <1>7, <1>10 DEF Memories

\* A beginning of a beginning is a beginning.
LEMMA ShorterBeginning ==
    ASSUME NEW q \in Seq(MemoryBytes), NEW n \in 0 .. Len(q), NEW k \in 0 .. n
    PROVE  /\ SubSeq(SubSeq(q, 1, n), 1, k) = SubSeq(q, 1, k)
           /\ SubSeq(q, 1, n) \in Seq(MemoryBytes) /\ Len(SubSeq(q, 1, n)) = n
OBVIOUS

\* What a prepared packet holds is what its user meant: the payload behind the
\* length the platform sends, and as much of the address as it sends.
Faithful(i) ==
    Packets!Prepared(i) /\ (Packets!Linux \/ meant[i].by = "set") =>
        /\ Packets!Linux => meant[i].data = SubSeq(buffer[i].base, 1, buffer[i].room)
        /\ ~Packets!Linux => buffer[i].len \in Nat /\ meant[i].data = SubSeq(buffer[i].base, 1, buffer[i].len)
        /\ buffer[i].name.host = meant[i].peer.host
        /\ ~Packets!Linux \/ family = "inet" => buffer[i].name = meant[i].peer

\* A packet of the buffer: an IPv4 address has no tail, and the room of a
\* packet nobody prepared is the whole packet.
Sound(i) ==
    /\ family = "inet" => buffer[i].name.tail = None
    /\ i \notin written => buffer[i].room = LIBUS_UDP_MAX_SIZE

PTypes ==
    /\ family \in {"inet", "inet6"}
    /\ buffer \in [Packets!Index -> Slots]
    /\ meant = [i \in Packets!Index |-> meant[i]]

PInv == PTypes /\ (\A i \in Packets!Index : Sound(i) /\ Faithful(i)) /\ Packets!SentAsSet /\ Packets!ReceivedWhole

\* A new buffer is empty, and nothing was prepared in it.
LEMMA PInit == Packets!Init => PInv
<1>1. SUFFICES ASSUME Packets!Init PROVE PInv
  OBVIOUS
<1>2. PICK m : m = [k \in 1 .. LIBUS_UDP_MAX_SIZE |-> None]
  OBVIOUS
<1>3. m \in Memories
  <2>1. m \in [1 .. LIBUS_UDP_MAX_SIZE -> MemoryBytes]
    BY <1>2 DEF MemoryBytes
  <2>2. QED
    BY <2>1, BufferSizes DEF Memories
<1>4. PICK s : s = [name |-> [host |-> None, tail |-> None], room |-> LIBUS_UDP_MAX_SIZE,
                    len |-> None, controllen |-> 256, control |-> {}, base |-> m]
  OBVIOUS
<1>5. s \in Slots /\ s.name.tail = None /\ s.room = LIBUS_UDP_MAX_SIZE
  BY <1>3, <1>4, BufferSizes DEF Slots, Names, ControlSets
<1>6. buffer = [i \in Packets!Index |-> s]
  BY <1>1, <1>2, <1>4 DEF Packets!Init, Packets!bsd_create_udp_packet_buffer
<1>7. PTypes
  BY <1>1, <1>5, <1>6 DEF Packets!Init, PTypes
<1>8. \A i \in Packets!Index : Sound(i) /\ Faithful(i)
  BY <1>1, <1>5, <1>6 DEF Packets!Init, Sound, Faithful, Packets!Prepared
<1>9. Packets!SentAsSet /\ Packets!ReceivedWhole
  BY <1>1 DEF Packets!Init, Packets!NoCall, Packets!SentAsSet, Packets!ReceivedWhole
<1>10. QED
  BY <1>7, <1>8, <1>9 DEF PInv

\* A packet is prepared, or a prepared one is extended.
LEMMA PSet ==
    ASSUME PInv, NEW i \in Packets!Index, NEW offset \in 0 .. LIBUS_UDP_MAX_SIZE, NEW payload \in Payloads,
           NEW peer \in Packets!Addresses, Packets!us_udp_buffer_set_packet_payload(i, offset, payload, peer)
    PROVE  PInv'
<1>1. PTypes /\ \A j \in Packets!Index : Sound(j) /\ Faithful(j)
  BY DEF PInv
<1>2. PICK s \in Slots : s = buffer[i]
  BY <1>1 DEF PTypes
<1>3. /\ offset \in Nat /\ payload \in Seq(MemoryBytes) /\ Len(payload) \in Nat
      /\ offset + Len(payload) <= LIBUS_UDP_MAX_SIZE /\ LIBUS_UDP_MAX_SIZE \in Nat
  <2>1. payload \in Seq(DatagramBytes) /\ DatagramBytes \subseteq MemoryBytes
    BY PayloadsFit DEF MemoryBytes
  <2>2. payload \in Seq(MemoryBytes)
    BY <2>1
  <2>3. offset + Len(payload) <= LIBUS_UDP_MAX_SIZE
    BY DEF Packets!us_udp_buffer_set_packet_payload, Packets!bsd_udp_buffer_set_packet_payload
  <2>4. QED
    BY <2>2, <2>3, BufferSizes
<1>4. PICK at \in Nat : at = IF Packets!Linux THEN offset ELSE 0
  BY <1>3
<1>5. PICK mem : mem = Packets!Memory(s.base, at, payload)
  OBVIOUS
<1>6. mem \in Memories /\ SubSeq(mem, 1, at + Len(payload)) = SubSeq(s.base, 1, at) \o payload
  <2>1. s.base \in Memories
    BY DEF Slots
  <2>2. at + Len(payload) <= LIBUS_UDP_MAX_SIZE
    BY <1>3, <1>4
  <2>3. QED
    BY <1>3, <1>5, <2>1, <2>2, MemoryReads, Zenon
<1>7. PICK t : t = [s EXCEPT !.name = Packets!SetName(@, peer), !.base = mem,
                             !.room = IF Packets!Linux THEN Len(payload) + offset ELSE @,
                             !.controllen = IF Packets!Linux THEN 0 ELSE @,
                             !.len = IF Packets!Linux THEN @ ELSE Len(payload)]
  OBVIOUS
<1>8. buffer' = [buffer EXCEPT ![i] = t]
  BY <1>1, <1>2, <1>4, <1>5, <1>7
     DEF Packets!us_udp_buffer_set_packet_payload, Packets!bsd_udp_buffer_set_packet_payload, PTypes
<1>9. peer \in Names /\ (family = "inet" => peer.tail = None)
  BY <1>1 DEF Packets!Addresses, Names, PTypes
<1>10. s.name \in Names
  BY DEF Slots
<1>11. PICK name \in Names : name = Packets!SetName(s.name, peer)
  BY <1>9, <1>10 DEF Packets!SetName, Names
<1>12. /\ name.host = peer.host /\ (~Packets!Linux => name = peer)
       /\ family = "inet" => name.tail = None /\ name = peer
  <2>1. family = "inet" => s.name.tail = None
    BY <1>1, <1>2 DEF Sound
  <2>2. CASE Packets!Linux
    <3>1. name = [s.name EXCEPT !.host = peer.host]
      BY <1>11, <2>2 DEF Packets!SetName
    <3>2. QED
      BY <1>9, <1>10, <2>1, <2>2, <3>1 DEF Names
  <2>3. CASE ~Packets!Linux
    BY <1>9, <1>11, <2>3 DEF Packets!SetName
  <2>4. QED
    BY <2>2, <2>3
<1>13. t \in Slots /\ t.name = name /\ t.base = mem
  <2>1. Len(payload) + offset \in 0 .. LIBUS_UDP_MAX_SIZE
    BY <1>3
  <2>2. QED
    BY <1>3, <1>6, <1>7, <1>11, <2>1 DEF Slots
<1>14. Packets!Linux => t.room = offset + Len(payload)
  BY <1>3, <1>7 DEF Slots
<1>15. ~Packets!Linux => t.len = Len(payload)
  BY <1>7 DEF Slots
<1>16. PICK d : d = IF offset = 0 THEN payload ELSE SubSeq(meant[i].data, 1, offset) \o payload
  OBVIOUS
<1>17. PICK who : who = IF offset = 0 THEN "set" ELSE "append"
  OBVIOUS
<1>18. /\ meant' = [meant EXCEPT ![i] = [by |-> who, peer |-> peer, data |-> d]]
       /\ written' = written \cup {i} /\ last' = Packets!NoCall /\ platform' = platform /\ family' = family
  BY <1>16, <1>17 DEF Packets!us_udp_buffer_set_packet_payload, Packets!bsd_udp_buffer_set_packet_payload
<1>19. meant'[i] = [by |-> who, peer |-> peer, data |-> d] /\ buffer'[i] = t
  BY <1>1, <1>8, <1>18 DEF PTypes
<1>20. \A j \in Packets!Index : j # i => meant'[j] = meant[j] /\ buffer'[j] = buffer[j]
  BY <1>1, <1>8, <1>18 DEF PTypes
<1>21. PTypes'
  BY <1>1, <1>8, <1>13, <1>18 DEF PTypes
<1>22. SubSeq(s.base, 1, 0) \o payload = payload
  <2>1. SubSeq(s.base, 1, 0) = <<>>
    BY DEF Slots, Memories
  <2>2. QED
    BY <1>3, <2>1
<1>23. Packets!Linux => d = SubSeq(mem, 1, offset + Len(payload))
  <2>1. SUFFICES ASSUME Packets!Linux PROVE d = SubSeq(mem, 1, offset + Len(payload))
    OBVIOUS
  <2>2. at = offset
    BY <1>4, <2>1
  <2>3. CASE offset = 0
    BY <1>6, <1>16, <1>22, <2>2, <2>3, Zenon
  <2>4. CASE offset # 0
    <3>1. Packets!Prepared(i) /\ Len(meant[i].data) >= offset
      BY <1>3, <2>4 DEF Packets!us_udp_buffer_set_packet_payload
    <3>2. meant[i].data = SubSeq(s.base, 1, s.room)
      BY <1>1, <1>2, <2>1, <3>1 DEF Faithful
    <3>3. s.base \in Seq(MemoryBytes) /\ s.room \in 0 .. Len(s.base)
      BY DEF Slots, Memories
    <3>4. Len(SubSeq(s.base, 1, s.room)) = s.room
      BY <3>3, ShorterBeginning
    <3>5. offset \in 0 .. s.room
      BY <1>3, <3>1, <3>2, <3>3, <3>4
    <3>6. SubSeq(SubSeq(s.base, 1, s.room), 1, offset) = SubSeq(s.base, 1, offset)
      BY <3>3, <3>5, ShorterBeginning
    <3>7. QED
      BY <1>6, <1>16, <2>2, <2>4, <3>2, <3>6, Zenon
  <2>5. QED
    BY <2>3, <2>4
<1>24. ~Packets!Linux /\ offset = 0 => d = SubSeq(mem, 1, Len(payload))
  <2>1. SUFFICES ASSUME ~Packets!Linux, offset = 0 PROVE d = SubSeq(mem, 1, Len(payload))
    OBVIOUS
  <2>2. at = 0 /\ d = payload
    BY <1>4, <1>16, <2>1
  <2>3. at + Len(payload) = Len(payload)
    BY <1>3, <2>2
  <2>4. QED
    BY <1>6, <1>22, <2>2, <2>3, Zenon
<1>25. Packets!Linux' = Packets!Linux
  BY <1>18 DEF Packets!Linux
<1>26. Sound(i)' /\ Faithful(i)'
  <2>1. Sound(i)'
    BY <1>12, <1>13, <1>18, <1>19 DEF Sound
  <2>2. /\ meant'[i].by = who /\ meant'[i].peer = peer /\ meant'[i].data = d
        /\ buffer'[i].name = name /\ buffer'[i].base = mem
        /\ buffer'[i].room = t.room /\ buffer'[i].len = t.len
    BY <1>13, <1>19
  <2>3. CASE Packets!Linux
    <3>1. d = SubSeq(mem, 1, t.room)
      BY <1>14, <1>23, <2>3, Zenon
    <3>2. Packets!Linux' /\ meant'[i].data = SubSeq(buffer'[i].base, 1, buffer'[i].room)
      BY <1>25, <2>2, <2>3, <3>1, Zenon
    <3>3. QED
      BY <1>12, <1>18, <2>1, <2>2, <3>2 DEF Faithful
  <2>4. CASE ~Packets!Linux /\ offset = 0
    <3>1. d = SubSeq(mem, 1, t.len) /\ t.len \in Nat
      BY <1>3, <1>15, <1>24, <2>4, Zenon
    <3>2. /\ ~Packets!Linux' /\ buffer'[i].len \in Nat
          /\ meant'[i].data = SubSeq(buffer'[i].base, 1, buffer'[i].len)
      BY <1>25, <2>2, <2>4, <3>1, Zenon
    <3>3. QED
      BY <1>12, <1>18, <2>1, <2>2, <2>4, <3>2 DEF Faithful
  <2>5. CASE ~Packets!Linux /\ offset # 0
    <3>1. meant'[i].by # "set"
      BY <1>17, <2>2, <2>5
    <3>2. ~Packets!Linux'
      BY <1>25, <2>5
    <3>3. QED
      BY <2>1, <3>1, <3>2 DEF Faithful
  <2>6. QED
    BY <2>1, <2>3, <2>4, <2>5
<1>27. \A j \in Packets!Index : j # i => Sound(j)' /\ Faithful(j)'
  <2>1. SUFFICES ASSUME NEW j \in Packets!Index, j # i PROVE Sound(j)' /\ Faithful(j)'
    OBVIOUS
  <2>2. meant'[j] = meant[j] /\ buffer'[j] = buffer[j] /\ Sound(j) /\ Faithful(j) /\ (j \notin written' => j \notin written)
    BY <1>1, <1>18, <1>20, <2>1
  <2>3. Sound(j)'
    BY <1>18, <2>2 DEF Sound
  <2>4. Faithful(j)'
    BY <1>18, <1>25, <2>2, Zenon DEF Faithful, Packets!Prepared
  <2>5. QED
    BY <2>3, <2>4
<1>28. Packets!SentAsSet' /\ Packets!ReceivedWhole'
  <2>1. last'.op # "send" /\ last'.op # "receive"
    BY <1>18 DEF Packets!NoCall
  <2>2. QED
    BY <2>1, Zenon DEF Packets!SentAsSet, Packets!ReceivedWhole
<1>29. \A j \in Packets!Index : Sound(j)' /\ Faithful(j)'
  BY <1>26, <1>27, Zenon
<1>30. QED
  BY <1>21, <1>28, <1>29, Zenon DEF PInv

\* A send hands the kernel what the packets hold, which is what was meant.
LEMMA PSend == ASSUME PInv, NEW num \in Packets!Index, Packets!us_udp_socket_send(num) PROVE PInv'
<1>1. PTypes /\ (\A j \in Packets!Index : Sound(j) /\ Faithful(j)) /\ \A j \in 1 .. num : Packets!Prepared(j)
  BY DEF PInv, Packets!us_udp_socket_send
<1>2. UNCHANGED <<platform, family, buffer, meant, written>>
  BY DEF Packets!us_udp_socket_send, Packets!bsd_sendmmsg
<1>3. PTypes'
  BY <1>1, <1>2 DEF PTypes
<1>4. \A j \in Packets!Index : Sound(j)' /\ Faithful(j)'
  BY <1>1, <1>2, Zenon DEF Sound, Faithful, Packets!Prepared, Packets!Linux
<1>5. PICK n : /\ n \in 0 .. (IF platform = "windows" THEN LIBUS_UDP_MAX_NUM ELSE num)
               /\ last' = [op |-> "send", num |-> num,
                           ret |-> IF n = 0 /\ platform # "windows" THEN -1 ELSE n,
                           moved |-> [i \in 1 .. n |-> IF platform = "apple" THEN None ELSE Packets!Outgoing(i)]]
  BY DEF Packets!us_udp_socket_send, Packets!bsd_sendmmsg
<1>6. Packets!ReceivedWhole'
  BY <1>5 DEF Packets!ReceivedWhole
<1>7. Packets!SentAsSet'
  <2>1. PICK moved : moved = [i \in 1 .. n |-> IF platform = "apple" THEN None ELSE Packets!Outgoing(i)]
    OBVIOUS
  <2>2. last'.num = num /\ last'.moved = moved
    BY <1>5, <2>1
  <2>3. n \in Nat /\ num \in Nat /\ num <= LIBUS_UDP_MAX_NUM
    BY <1>5, BufferSizes DEF Packets!Index
  <2>4. Len(moved) = n
    BY <2>1, <2>3
  <2>5. SUFFICES ASSUME platform # "apple", NEW k \in 1 .. Packets!Least(num, n), Packets!Linux \/ meant[k].by = "set"
                 PROVE  /\ moved[k].data = meant[k].data
                        /\ moved[k].peer.host = meant[k].peer.host
                        /\ family = "inet" => moved[k].peer = meant[k].peer
    BY <1>2, <2>2, <2>4, Zenon DEF Packets!SentAsSet, Packets!Linux
  <2>6. k \in 1 .. n /\ k \in 1 .. num /\ k \in Packets!Index
    <3>1. Packets!Least(num, n) <= num /\ Packets!Least(num, n) <= n /\ Packets!Least(num, n) \in Nat
      BY <2>3 DEF Packets!Least
    <3>2. QED
      BY <2>3, <2>5, <3>1, BufferSizes DEF Packets!Index
  <2>7. moved[k] = Packets!Outgoing(k)
    BY <2>1, <2>5, <2>6
  <2>8. Packets!Prepared(k) /\ Faithful(k) /\ Sound(k)
    BY <1>1, <2>6
  <2>9. PICK s \in Slots : s = buffer[k]
    BY <1>1, <2>6 DEF PTypes
  <2>10. s.name \in Names
    BY DEF Slots
  <2>11. CASE Packets!Linux
    <3>1. Packets!Outgoing(k).data = SubSeq(s.base, 1, s.room) /\ Packets!Outgoing(k).peer = s.name
      BY <2>9, <2>11 DEF Packets!Outgoing
    <3>2. QED
      BY <2>7, <2>8, <2>9, <2>11, <3>1, Zenon DEF Faithful
  <2>12. CASE ~Packets!Linux
    <3>1. /\ s.len \in Nat /\ meant[k].data = SubSeq(s.base, 1, s.len) /\ s.name = meant[k].peer
          /\ family = "inet" => s.name.tail = None
      BY <2>5, <2>8, <2>9, <2>12, Zenon DEF Faithful, Sound
    <3>2. s.len # None
      BY <3>1, JunkIsNoLength
    <3>3. Packets!Outgoing(k).data = SubSeq(s.base, 1, s.len) /\ Packets!Outgoing(k).peer = [s.name EXCEPT !.tail = None]
      BY <2>9, <2>12, <3>2 DEF Packets!Outgoing
    <3>4. /\ [s.name EXCEPT !.tail = None].host = s.name.host
          /\ family = "inet" => [s.name EXCEPT !.tail = None] = s.name
      BY <2>10, <3>1 DEF Names
    <3>5. QED
      BY <2>7, <3>1, <3>3, <3>4, Zenon
  <2>13. QED
    BY <2>11, <2>12
<1>8. QED
  BY <1>3, <1>4, <1>6, <1>7, Zenon DEF PInv

\* Packet s after datagram g was received into it.
Holds(s, g, t) ==
    /\ t \in Slots /\ t.name = g.peer /\ t.room = s.room
    /\ s.room = LIBUS_UDP_MAX_SIZE \/ ~Packets!Linux => SubSeq(t.base, 1, t.len) = g.data
    /\ Packets!Linux => t.controllen > 0 /\ t.control = Packets!ControlOf(g)

\* The kernel stores a datagram in one packet of the buffer.
LEMMA StoredPacket ==
    ASSUME NEW s \in Slots, NEW g \in Packets!Datagrams, NEW t, t = Packets!Stored(Packets!Rearm(s), g)
    PROVE  Holds(s, g, t)
<1>1. PICK r : r = Packets!Rearm(s)
  OBVIOUS
<1>2. /\ r \in Slots /\ r.room = s.room /\ r.base = s.base /\ r.name = s.name
      /\ Packets!Linux => r.controllen = 256
  <2>1. CASE Packets!Linux
    <3>1. r = [s EXCEPT !.controllen = 256]
      BY <1>1, <2>1 DEF Packets!Rearm
    <3>2. QED
      BY <3>1 DEF Slots
  <2>2. CASE ~Packets!Linux
    BY <1>1, <2>2 DEF Packets!Rearm
  <2>3. QED
    BY <2>1, <2>2
<1>3. PICK p \in Payloads : p = g.data
  BY DEF Packets!Datagrams
<1>4. p \in Seq(MemoryBytes) /\ Len(p) \in Nat /\ Len(p) <= LIBUS_UDP_MAX_SIZE /\ LIBUS_UDP_MAX_SIZE \in Nat
  <2>1. p \in Seq(DatagramBytes) /\ DatagramBytes \subseteq MemoryBytes
    BY PayloadsFit DEF MemoryBytes
  <2>2. QED
    BY <2>1, PayloadsFit, BufferSizes
<1>5. PICK n : n = Packets!Least(Len(p), IF Packets!Linux THEN s.room ELSE LIBUS_UDP_MAX_SIZE)
  OBVIOUS
<1>6. /\ n \in 0 .. Len(p) /\ n <= LIBUS_UDP_MAX_SIZE
      /\ s.room = LIBUS_UDP_MAX_SIZE \/ ~Packets!Linux => n = Len(p)
  <2>1. s.room \in 0 .. LIBUS_UDP_MAX_SIZE
    BY DEF Slots
  <2>2. QED
    BY <1>4, <1>5, <2>1 DEF Packets!Least
<1>7. PICK q \in Seq(MemoryBytes) : q = SubSeq(p, 1, n) /\ Len(q) = n
  <2>1. 0 \in 0 .. n
    BY <1>6
  <2>2. SubSeq(p, 1, n) \in Seq(MemoryBytes) /\ Len(SubSeq(p, 1, n)) = n
    BY <1>4, <1>6, <2>1, ShorterBeginning, Zenon
  <2>3. QED
    BY <2>2
<1>8. PICK mem : mem = Packets!Memory(s.base, 0, q)
  OBVIOUS
<1>9. mem \in Memories /\ SubSeq(mem, 1, n) = q
  <2>1. s.base \in Memories /\ s.base \in Seq(MemoryBytes)
    BY DEF Slots, Memories
  <2>2. 0 + Len(q) = n /\ 0 + Len(q) <= LIBUS_UDP_MAX_SIZE /\ 0 \in Nat
    BY <1>4, <1>6, <1>7
  <2>3. mem \in Memories /\ SubSeq(mem, 1, 0 + Len(q)) = SubSeq(s.base, 1, 0) \o q
    BY <1>8, <2>1, <2>2, MemoryReads, Zenon
  <2>4. SubSeq(s.base, 1, 0) = <<>>
    BY <2>1
  <2>5. <<>> \o q = q
    BY <1>7
  <2>6. QED
    BY <2>2, <2>3, <2>4, <2>5, Zenon
<1>10. PICK c : c = IF Packets!Linux /\ r.controllen > 0 THEN Packets!ControlOf(g) ELSE {}
  OBVIOUS
<1>11. t = [r EXCEPT !.name = g.peer, !.len = n, !.base = mem, !.control = c]
  BY <1>1, <1>2, <1>3, <1>5, <1>7, <1>8, <1>10 DEF Packets!Stored, Slots
<1>12. g.peer \in Names /\ n \in Nat
  BY <1>4, <1>6 DEF Packets!Datagrams, Packets!Addresses, Names
<1>13. c \in ControlSets
  <2>1. g.tos \in Tos
    BY DEF Packets!Datagrams
  <2>2. Packets!ControlOf(g) \in ControlSets
    <3>1. PICK u \in MessageTypes, v \in MessageTypes :
            /\ u = IF family = "inet" THEN "IP_PKTINFO" ELSE "IPV6_PKTINFO"
            /\ v = IF family = "inet" THEN "IP_TOS" ELSE "IPV6_TCLASS"
      BY DEF MessageTypes
    <3>2. PICK a, b : a = [type |-> u, tos |-> 0] /\ b = [type |-> v, tos |-> g.tos]
      OBVIOUS
    <3>3. a \in [type : MessageTypes, tos : Tos \cup {0}] /\ b \in [type : MessageTypes, tos : Tos \cup {0}]
      BY <2>1, <3>2
    <3>4. Packets!ControlOf(g) = {a, b}
      BY <3>1, <3>2 DEF Packets!ControlOf
    <3>5. QED
      BY <3>3, <3>4 DEF ControlSets
  <2>3. {} \in ControlSets
    BY DEF ControlSets
  <2>4. QED
    BY <1>10, <2>2, <2>3
<1>14. /\ t \in Slots /\ t.name = g.peer /\ t.room = s.room /\ t.base = mem /\ t.len = n
       /\ t.control = c /\ t.controllen = r.controllen
  <2>1. r \in Slots /\ r.room = s.room /\ mem \in Memories /\ n \in Nat \cup {None}
    BY <1>2, <1>9, <1>12
  <2>2. t \in Slots
    BY <1>11, <1>12, <1>13, <2>1 DEF Slots
  <2>3. /\ t.name = g.peer /\ t.room = r.room /\ t.base = mem /\ t.len = n
        /\ t.control = c /\ t.controllen = r.controllen
    BY <1>11, <2>1 DEF Slots
  <2>4. QED
    BY <2>1, <2>2, <2>3
<1>15. s.room = LIBUS_UDP_MAX_SIZE \/ ~Packets!Linux => SubSeq(t.base, 1, t.len) = g.data
  <2>1. SUFFICES ASSUME s.room = LIBUS_UDP_MAX_SIZE \/ ~Packets!Linux PROVE SubSeq(t.base, 1, t.len) = g.data
    OBVIOUS
  <2>2. n = Len(p)
    BY <1>6, <2>1
  <2>3. SubSeq(p, 1, Len(p)) = p
    BY <1>4, SubSeqFull, Zenon
  <2>4. QED
    BY <1>3, <1>7, <1>9, <1>14, <2>2, <2>3, Zenon
<1>16. Packets!Linux => t.controllen > 0 /\ t.control = Packets!ControlOf(g)
  <2>1. SUFFICES ASSUME Packets!Linux PROVE t.controllen > 0 /\ t.control = Packets!ControlOf(g)
    OBVIOUS
  <2>2. r.controllen > 0
    BY <1>2, <2>1
  <2>3. QED
    BY <1>10, <1>14, <2>1, <2>2
<1>17. QED
  BY <1>14, <1>15, <1>16 DEF Holds

\* A packet's control messages tell its destination address.
LEMMA AddressTold ==
    ASSUME family \in {"inet", "inet6"}, NEW g, NEW S, S = Packets!ControlOf(g)
    PROVE  (CASE \E m \in S : m.type = "IP_PKTINFO"   -> 4
              [] \E m \in S : m.type = "IPV6_PKTINFO" -> 16
              [] OTHER -> 0) = IF family = "inet" THEN 4 ELSE 16
<1>1. PICK a, b : /\ a = [type |-> IF family = "inet" THEN "IP_PKTINFO" ELSE "IPV6_PKTINFO", tos |-> 0]
                  /\ b = [type |-> IF family = "inet" THEN "IP_TOS" ELSE "IPV6_TCLASS", tos |-> g.tos]
  OBVIOUS
<1>2. S = {a, b}
  BY <1>1 DEF Packets!ControlOf
<1>3. (\E m \in S : m.type = "IP_PKTINFO") <=> family = "inet"
  BY <1>1, <1>2
<1>4. (\E m \in S : m.type = "IPV6_PKTINFO") <=> family = "inet6"
  BY <1>1, <1>2
<1>5. QED
  BY <1>3, <1>4

\* The message with the congestion mark that a program finds.
MarkMessage(S) == CHOOSE m \in S : m.type \in {"IP_TOS", "IPV6_TCLASS"}

\* A packet's control messages tell its congestion mark.
LEMMA MarkTold ==
    ASSUME NEW g, NEW S, S = Packets!ControlOf(g)
    PROVE  (\E m \in S : m.type \in {"IP_TOS", "IPV6_TCLASS"}) /\ MarkMessage(S).tos = g.tos
<1>1. PICK a, b : /\ a = [type |-> IF family = "inet" THEN "IP_PKTINFO" ELSE "IPV6_PKTINFO", tos |-> 0]
                  /\ b = [type |-> IF family = "inet" THEN "IP_TOS" ELSE "IPV6_TCLASS", tos |-> g.tos]
  OBVIOUS
<1>2. S = {a, b}
  BY <1>1 DEF Packets!ControlOf
<1>3. /\ b \in S /\ b.type \in {"IP_TOS", "IPV6_TCLASS"}
      /\ \A m \in S : m.type \in {"IP_TOS", "IPV6_TCLASS"} => m = b
  BY <1>1, <1>2
<1>4. MarkMessage(S) = b
  BY <1>3, Zenon DEF MarkMessage
<1>5. b.tos = g.tos
  BY <1>1
<1>6. QED
  BY <1>3, <1>4, <1>5, Zenon

\* A receive fills the packets from the start of the buffer and rearms all.
LEMMA PReceive ==
    ASSUME PInv, NEW n \in 0 .. LIBUS_UDP_MAX_NUM, NEW ds \in [1 .. n -> Packets!Datagrams], Packets!bsd_recvmmsg(ds)
    PROVE  PInv'
<1>1. PTypes /\ \A j \in Packets!Index : Sound(j) /\ Faithful(j)
  BY DEF PInv
<1>2. n \in Nat /\ n <= LIBUS_UDP_MAX_NUM /\ Len(ds) = n
  BY BufferSizes
<1>3. /\ buffer' = [i \in Packets!Index |->
           IF i <= n THEN Packets!Stored(Packets!Rearm(buffer[i]), ds[i]) ELSE Packets!Rearm(buffer[i])]
      /\ meant' = [i \in Packets!Index |->
           IF i <= n THEN [by |-> "receive", peer |-> ds[i].peer, data |-> ds[i].data] ELSE meant[i]]
      /\ last' = [op |-> "receive", num |-> LIBUS_UDP_MAX_NUM,
                  ret |-> IF Packets!Linux /\ ds = <<>> THEN -1 ELSE Len(ds), moved |-> ds]
      /\ platform' = platform /\ family' = family /\ written' = written
  BY <1>2, Zenon DEF Packets!bsd_recvmmsg
<1>4. Packets!Linux' <=> Packets!Linux
  BY <1>3 DEF Packets!Linux
<1>5. ASSUME NEW i \in Packets!Index, i <= n
      PROVE  /\ i \in 1 .. n /\ ds[i] \in Packets!Datagrams /\ buffer[i] \in Slots
             /\ buffer'[i] = Packets!Stored(Packets!Rearm(buffer[i]), ds[i])
             /\ meant'[i] = [by |-> "receive", peer |-> ds[i].peer, data |-> ds[i].data]
  <2>1. i \in 1 .. n
    BY <1>2, <1>5, BufferSizes DEF Packets!Index
  <2>2. ds[i] \in Packets!Datagrams /\ buffer[i] \in Slots
    BY <1>1, <2>1, Zenon DEF PTypes
  <2>3. buffer'[i] = Packets!Stored(Packets!Rearm(buffer[i]), ds[i])
    BY <1>3, <1>5, Zenon
  <2>4. meant'[i] = [by |-> "receive", peer |-> ds[i].peer, data |-> ds[i].data]
    BY <1>3, <1>5, Zenon
  <2>5. QED
    BY <2>1, <2>2, <2>3, <2>4
<1>6. ASSUME NEW i \in Packets!Index, i <= n PROVE Holds(buffer[i], ds[i], buffer'[i])
  BY <1>5, <1>6, StoredPacket, Zenon
<1>7. ASSUME NEW i \in Packets!Index, ~(i <= n)
      PROVE  /\ buffer'[i] \in Slots /\ meant'[i] = meant[i]
             /\ buffer'[i].name = buffer[i].name /\ buffer'[i].room = buffer[i].room
             /\ buffer'[i].base = buffer[i].base /\ buffer'[i].len = buffer[i].len
  <2>1. buffer'[i] = Packets!Rearm(buffer[i]) /\ meant'[i] = meant[i]
    BY <1>3, <1>7, Zenon
  <2>2. PICK s \in Slots : s = buffer[i]
    BY <1>1 DEF PTypes
  <2>3. CASE Packets!Linux
    <3>1. PICK t : t = buffer'[i] /\ t = [s EXCEPT !.controllen = 256]
      BY <2>1, <2>2, <2>3 DEF Packets!Rearm
    <3>2. t \in Slots /\ t.name = s.name /\ t.room = s.room /\ t.base = s.base /\ t.len = s.len
      BY <3>1 DEF Slots
    <3>3. QED
      BY <2>1, <2>2, <3>1, <3>2, Zenon
  <2>4. CASE ~Packets!Linux
    BY <2>1, <2>2, <2>4 DEF Packets!Rearm
  <2>5. QED
    BY <2>3, <2>4
<1>8. PTypes'
  <2>1. \A i \in Packets!Index : buffer'[i] \in Slots
    BY <1>6, <1>7, Zenon DEF Holds
  <2>2. PICK b : b = buffer'
    OBVIOUS
  <2>3. b = [i \in Packets!Index |-> b[i]]
    BY <1>3, <2>2, Zenon
  <2>4. buffer' \in [Packets!Index -> Slots]
    BY <2>1, <2>2, <2>3
  <2>5. meant' = [i \in Packets!Index |-> meant'[i]]
    BY <1>3, Zenon
  <2>6. QED
    BY <1>1, <1>3, <2>4, <2>5 DEF PTypes
<1>9. \A i \in Packets!Index : Sound(i)' /\ Faithful(i)'
  <2>1. SUFFICES ASSUME NEW i \in Packets!Index PROVE Sound(i)' /\ Faithful(i)'
    OBVIOUS
  <2>2. CASE i <= n
    <3>0. meant'[i] = [by |-> "receive", peer |-> ds[i].peer, data |-> ds[i].data]
      BY <1>5, <2>2, Zenon
    <3>1. ds[i] \in Packets!Datagrams /\ meant'[i].by = "receive"
      <4>1. ds[i] \in Packets!Datagrams
        BY <1>5, <2>2, Zenon
      <4>2. QED
        BY <3>0, <4>1
    <3>2. family = "inet" => ds[i].peer.tail = None
      BY <3>1 DEF Packets!Datagrams, Packets!Addresses
    <3>3. Sound(i)'
      BY <1>1, <1>3, <1>6, <2>2, <3>2 DEF Sound, Holds
    <3>4. Faithful(i)'
      BY <3>1 DEF Faithful, Packets!Prepared
    <3>5. QED
      BY <3>3, <3>4
  <2>3. CASE ~(i <= n)
    <3>1. Sound(i)'
      BY <1>1, <1>3, <1>7, <2>3 DEF Sound
    <3>2. Faithful(i)'
      <4>1. /\ meant'[i] = meant[i] /\ family' = family
            /\ buffer'[i].name = buffer[i].name /\ buffer'[i].room = buffer[i].room
            /\ buffer'[i].base = buffer[i].base /\ buffer'[i].len = buffer[i].len
        BY <1>3, <1>7, <2>3, Zenon
      <4>2. Faithful(i)
        BY <1>1
      <4>3. QED
        BY <1>4, <4>1, <4>2 DEF Faithful, Packets!Prepared
    <3>3. QED
      BY <3>1, <3>2
  <2>4. QED
    BY <2>2, <2>3
<1>10. Packets!SentAsSet'
  BY <1>3 DEF Packets!SentAsSet
<1>11. Packets!ReceivedWhole'
  <2>1. last'.moved = ds
    BY <1>3
  <2>2. SUFFICES ASSUME NEW k \in 1 .. n
                 PROVE  /\ Packets!us_udp_packet(k)'.peer = ds[k].peer
                        /\ k \notin written' \/ ~Packets!Linux' => Packets!us_udp_packet(k)'.payload = ds[k].data
                        /\ Packets!Linux' => /\ Packets!us_udp_packet(k)'.local_ip = IF family' = "inet" THEN 4 ELSE 16
                                     /\ Packets!us_udp_packet(k)'.ecn = ds[k].tos % 4
    BY <1>2, <2>1, Zenon DEF Packets!ReceivedWhole
  <2>3. k \in Packets!Index /\ k <= n
    BY <1>2, <2>2, BufferSizes DEF Packets!Index
  <2>4. Packets!us_udp_packet(k)'.peer = ds[k].peer
    BY <1>6, <2>3 DEF Packets!us_udp_packet, Packets!bsd_udp_packet_buffer_peer, Holds
  <2>5. k \notin written' \/ ~Packets!Linux' => Packets!us_udp_packet(k)'.payload = ds[k].data
    <3>1. k \notin written => buffer[k].room = LIBUS_UDP_MAX_SIZE
      BY <1>1, <2>3 DEF Sound
    <3>2. Packets!us_udp_packet(k)'.payload = SubSeq(buffer'[k].base, 1, buffer'[k].len)
      BY DEF Packets!us_udp_packet, Packets!bsd_udp_packet_buffer_payload, Packets!bsd_udp_packet_buffer_payload_length
    <3>3. QED
      BY <1>3, <1>4, <1>6, <2>3, <3>1, <3>2, Zenon DEF Holds
  <2>6. ASSUME Packets!Linux'
        PROVE  /\ Packets!us_udp_packet(k)'.local_ip = IF family' = "inet" THEN 4 ELSE 16
               /\ Packets!us_udp_packet(k)'.ecn = ds[k].tos % 4
    <3>1. PICK S : S = Packets!ControlOf(ds[k])
      OBVIOUS
    <3>2. buffer'[k].controllen > 0 /\ buffer'[k].control = S
      BY <1>4, <1>6, <2>3, <2>6, <3>1 DEF Holds
    <3>3. Packets!Control(k)' = S
      BY <2>6, <3>2 DEF Packets!Control
    <3>4. family \in {"inet", "inet6"}
      BY <1>1 DEF PTypes
    <3>5. Packets!us_udp_packet(k)'.local_ip = CASE \E m \in S : m.type = "IP_PKTINFO"   -> 4
                                         [] \E m \in S : m.type = "IPV6_PKTINFO" -> 16
                                         [] OTHER -> 0
      BY <3>3 DEF Packets!us_udp_packet, Packets!bsd_udp_packet_buffer_local_ip
    <3>6. Packets!us_udp_packet(k)'.ecn = IF \E m \in S : m.type \in {"IP_TOS", "IPV6_TCLASS"}
                                    THEN MarkMessage(S).tos % 4
                                    ELSE 0
      BY <3>3 DEF Packets!us_udp_packet, Packets!bsd_udp_packet_buffer_ecn, MarkMessage
    <3>7. /\ Packets!us_udp_packet(k)'.local_ip = IF family = "inet" THEN 4 ELSE 16
          /\ Packets!us_udp_packet(k)'.ecn = ds[k].tos % 4
      <4>1. PICK g : g = ds[k] /\ S = Packets!ControlOf(g)
        BY <3>1
      <4>2. Packets!us_udp_packet(k)'.local_ip = IF family = "inet" THEN 4 ELSE 16
        BY <3>4, <3>5, <4>1, AddressTold
      <4>3. (\E m \in S : m.type \in {"IP_TOS", "IPV6_TCLASS"}) /\ MarkMessage(S).tos = g.tos
        BY <4>1, MarkTold, Zenon
      <4>4. QED
        BY <3>6, <4>1, <4>2, <4>3, Zenon
    <3>8. QED
      BY <1>3, <3>7, Zenon
  <2>7. QED
    BY <2>4, <2>5, <2>6, Zenon
<1>12. QED
  BY <1>8, <1>9, <1>10, <1>11, Zenon DEF PInv

\* Every call on the buffer keeps the invariant.
LEMMA PNext == PInv /\ [Packets!Next]_(Packets!vars) => PInv'
<1>1. SUFFICES ASSUME PInv, [Packets!Next]_(Packets!vars) PROVE PInv'
  OBVIOUS
<1>2. CASE \E i \in Packets!Index, offset \in 0 .. LIBUS_UDP_MAX_SIZE, p \in Payloads, a \in Packets!Addresses :
             Packets!us_udp_buffer_set_packet_payload(i, offset, p, a)
  BY <1>1, <1>2, PSet, Zenon
<1>3. CASE \E num \in Packets!Index : Packets!us_udp_socket_send(num)
  BY <1>1, <1>3, PSend
<1>4. CASE Packets!us_udp_socket_receive
  BY <1>1, <1>4, PReceive, Zenon DEF Packets!us_udp_socket_receive
<1>5. CASE UNCHANGED Packets!vars
  <2>1. UNCHANGED <<platform, family, buffer, meant, written, last>>
    BY <1>5 DEF Packets!vars
  <2>2. PTypes'
    BY <1>1, <2>1 DEF PInv, PTypes
  <2>3. \A i \in Packets!Index : Sound(i)' /\ Faithful(i)'
    BY <1>1, <2>1, Zenon DEF PInv, Sound, Faithful, Packets!Prepared, Packets!Linux
  <2>4. Packets!SentAsSet'
    BY <1>1, <2>1, Zenon DEF PInv, Packets!SentAsSet, Packets!Linux
  <2>5. Packets!ReceivedWhole'
    <3>1. ASSUME NEW k PROVE Packets!us_udp_packet(k)' = Packets!us_udp_packet(k)
      BY <2>1 DEF Packets!us_udp_packet, Packets!bsd_udp_packet_buffer_peer, Packets!bsd_udp_packet_buffer_payload,
         Packets!bsd_udp_packet_buffer_payload_length, Packets!bsd_udp_packet_buffer_local_ip, Packets!bsd_udp_packet_buffer_ecn,
         Packets!Control, Packets!Linux
    <3>2. Packets!Linux' <=> Packets!Linux
      BY <2>1 DEF Packets!Linux
    <3>3. QED
      BY <1>1, <2>1, <3>1, <3>2, Zenon DEF PInv, Packets!ReceivedWhole
  <2>6. QED
    BY <2>2, <2>3, <2>4, <2>5 DEF PInv
<1>6. QED
  BY <1>1, <1>2, <1>3, <1>4, <1>5 DEF Packets!Next

\* Datagrams are sent as they were prepared, and read as they were received.
THEOREM DatagramsKept == Packets!Spec => []DatagramsWhole
<1>1. PInv => DatagramsWhole
  BY DEF PInv, DatagramsWhole
<1>2. QED
  BY PInit, PNext, <1>1, PTL DEF Packets!Spec

-----------------------------------------------------------------------------
(* The server.  The responses the kernel took follow the requests read.    *)

Pieces == [kind : {"response", "switch", "head", "chunk", "final"}, req : Nat, keep : BOOLEAN,
           exact : BOOLEAN]

Segments == [req : Nat, part : {"whole", "first", "rest"}]

VTypes ==
    /\ conn \in {"none", "open", "shut", "closed"}
    /\ polite \in BOOLEAN /\ cut \in BOOLEAN
    /\ inbox \in Seq(Segments)
    /\ taken \in Seq(Pieces)
    /\ sent \in Nat /\ answers \in Nat
    /\ stream \in [phase : {"none", "callback", "error_handler"}, req : Nat,
                   is_closed : BOOLEAN, connected : BOOLEAN]

\* A stream is open or closed on both of its levels, and runs on a socket that
\* is not closed.
StreamState ==
    /\ stream.connected = ~stream.is_closed
    /\ stream.phase = "none" => stream.is_closed
    /\ stream.phase # "none" => conn \in {"open", "shut"}

\* Segments and responses are in the order of the requests.
InOrder ==
    /\ \A i, j \in DOMAIN inbox : i < j => inbox[i].req <= inbox[j].req
    /\ \A i \in DOMAIN inbox : inbox[i].req <= sent
    /\ \A i \in Server!Beginnings : taken[i].req <= sent
    /\ \A i \in Server!Beginnings, j \in DOMAIN inbox : taken[i].req <= inbox[j].req

\* A client that waits has at most one request unanswered, on an open socket.
Waiting ==
    polite /\ ~cut =>
        /\ sent = answers + Len(inbox)
        /\ Len(inbox) <= 1
        /\ inbox # <<>> => inbox[1].req = sent
        /\ conn = "shut" => inbox = <<>>

\* Only a response in one piece ends the connection, and nothing is written
\* before it is opened.
KeptOpen ==
    /\ \A i \in DOMAIN taken : ~taken[i].keep => taken[i].kind = "response"
    /\ conn = "none" => taken = <<>>

\* The connection ends behind the response the server ends it with, whatever
\* its header says.
EndsBehind ==
    ~cut => /\ \A i \in DOMAIN taken : ~taken[i].keep => i = Len(taken) /\ conn # "open"
            /\ conn = "shut" => taken # <<>> /\ ~taken[Len(taken)].keep

\* An open stream on an open socket is what was written last.
OpenStream ==
    ~cut /\ stream.phase # "none" /\ ~stream.is_closed /\ conn = "open" =>
        /\ taken # <<>>
        /\ taken[Len(taken)].kind \in {"head", "chunk"}
        /\ taken[Len(taken)].req = stream.req

VInv ==
    /\ VTypes /\ StreamState /\ InOrder /\ Waiting /\ KeptOpen /\ OpenStream
    /\ Server!OneAnswer /\ Server!StreamFramed /\ EndsBehind

\* The server's module counts as this one does.
LEMMA SameCount == ASSUME NEW S PROVE Server!Cardinality(S) = Cardinality(S)
BY DEF Server!Cardinality, Cardinality

\* Nothing was sent and nothing written at first.
LEMMA VInit == Server!Init => VInv
<1> SUFFICES ASSUME Server!Init PROVE VInv
  OBVIOUS
<1>1. /\ stream = Server!NoStream /\ taken = <<>> /\ inbox = <<>> /\ conn = "none" /\ cut = FALSE
      /\ sent = 0 /\ answers = 0 /\ polite \in BOOLEAN
  BY DEF Server!Init
<1>2. DOMAIN taken = {} /\ DOMAIN inbox = {} /\ Len(inbox) = 0
  BY <1>1
<1>3. Server!Beginnings = {}
  BY <1>2 DEF Server!Beginnings
<1>4. taken \in Seq(Pieces) /\ inbox \in Seq(Segments)
  BY <1>1
<1>5. VTypes
  BY <1>1, <1>4 DEF VTypes, Server!NoStream
<1>6. StreamState
  BY <1>1 DEF StreamState, Server!NoStream
<1>7. InOrder
  BY <1>2, <1>3 DEF InOrder
<1>8. Waiting /\ KeptOpen
  BY <1>1, <1>2 DEF Waiting, KeptOpen
<1>9. OpenStream
  BY <1>1 DEF OpenStream
<1>10. Server!OneAnswer
  BY <1>1, <1>3, FS_EmptySet, SameCount DEF Server!OneAnswer
<1>11. Server!StreamFramed /\ EndsBehind
  BY <1>1, <1>2 DEF Server!StreamFramed, EndsBehind
<1>12. QED
  BY <1>5, <1>6, <1>7, <1>8, <1>9, <1>10, <1>11 DEF VInv

\* The kernel takes the one piece, on an open connection, or it does not.
LEMMA OneWritten ==
    ASSUME VTypes, NEW p \in Pieces, Server!us_socket_write(<<p>>)
    PROVE  /\ cut' \in BOOLEAN
           /\ \/ conn = "open" /\ taken' = Append(taken, p) /\ cut' = cut
              \/ conn = "open" /\ taken' = taken /\ cut'
              \/ conn # "open" /\ taken' = taken /\ cut' = cut
<1>1. PICK n \in 0 .. Len(<<p>>) :
        /\ n > 0 => conn \notin {"none", "closed", "shut"}
        /\ taken' = taken \o SubSeq(<<p>>, 1, n)
        /\ cut' = (cut \/ (n < Len(<<p>>) /\ conn = "open"))
  BY DEF Server!us_socket_write, Server!us_socket_is_closed, Server!us_socket_is_shut_down
<1>2. Len(<<p>>) = 1 /\ cut \in BOOLEAN
  BY DEF VTypes
<1>3. CASE n = 0
  <2>1. SubSeq(<<p>>, 1, n) = <<>>
    BY <1>3
  <2>2. taken \in Seq(Pieces)
    BY DEF VTypes
  <2>3. taken \o <<>> = taken
    BY <2>2
  <2>4. taken' = taken
    BY <1>1, <2>1, <2>3
  <2>5. cut' = (cut \/ conn = "open")
    BY <1>1, <1>2, <1>3
  <2>6. QED
    BY <1>2, <2>4, <2>5
<1>4. CASE n = 1
  <2>1. SubSeq(<<p>>, 1, n) = <<p>>
    <3>1. <<p>> \in Seq(Pieces)
      OBVIOUS
    <3>2. PICK q \in Seq(Pieces) : q = <<p>>
      BY <3>1
    <3>3. SubSeq(q, 1, Len(q)) = q
      BY SubSeqFull
    <3>4. QED
      BY <1>2, <1>4, <3>2, <3>3
  <2>2. taken \in Seq(Pieces)
    BY DEF VTypes
  <2>3. taken \o <<p>> = Append(taken, p)
    BY <2>2
  <2>4. conn \notin {"none", "closed", "shut"}
    BY <1>1, <1>4
  <2>5. conn = "open"
    BY <2>4 DEF VTypes
  <2>6. taken' = Append(taken, p)
    BY <1>1, <2>1, <2>3
  <2>7. cut' = (cut \/ FALSE)
    BY <1>1, <1>2, <1>4
  <2>8. QED
    BY <1>2, <2>5, <2>6, <2>7
<1>5. QED
  BY <1>1, <1>2, <1>3, <1>4

\* What a read is answered with, whichever router answers it.
LEMMA AnsweredWith ==
    ASSUME VInv, NEW n, Server!usockets_on_data(n)
    PROVE  /\ inbox # <<>> /\ conn \in {"open", "shut"} /\ stream.phase = "none"
           /\ n \in 1 .. Len(inbox) /\ inbox' = SubSeq(inbox, n + 1, Len(inbox))
           /\ answers' = IF conn = "open" THEN answers + 1 ELSE answers
           /\ UNCHANGED <<server, polite, sent, leaving, read>>
           /\ \E p \in Pieces :
                /\ Server!Begins(p) /\ p.req = inbox[1].req
                /\ ~p.keep => p.kind = "response"
                /\ Server!us_socket_write(<<p>>)
                /\ conn' = IF p.keep THEN conn ELSE Server!us_socket_shutdown
                /\ stream' = IF p.kind = "head"
                               THEN [phase |-> "callback", req |-> p.req,
                                     is_closed |-> FALSE, connected |-> TRUE]
                               ELSE Server!NoStream
<1>1. /\ inbox # <<>> /\ conn \in {"open", "shut"} /\ stream.phase = "none"
      /\ n \in 1 .. Len(inbox) /\ inbox' = SubSeq(inbox, n + 1, Len(inbox))
      /\ answers' = IF conn = "open" THEN answers + 1 ELSE answers
      /\ UNCHANGED <<server, polite, sent, leaving, read>>
  BY DEF Server!usockets_on_data, Server!us_on_data, Server!us_loop_run, Server!us_socket_is_closed, VInv, VTypes
<1>2. PICK req : req = inbox[1].req
  OBVIOUS
<1>3. req \in Nat
  <2>1. inbox \in Seq(Segments)
    BY DEF VInv, VTypes
  <2>2. inbox[1] \in Segments
    BY <1>1, <2>1
  <2>3. QED
    BY <1>2, <2>2 DEF Segments
<1>4. PICK r \in Server!Parsed(inbox[1]) :
        \E p \in CASE r.kind = "bad" -> {Server!Piece("response", req, TRUE, TRUE)}
                   [] r.kind # "bad" /\ Server!Matches(r) = <<>> -> Server!NotFoundAnswers(r, req)
                   [] OTHER -> Server!HandlerAnswers(r, req) :
          LET ps == IF Server!Matches(r) = <<>> THEN <<p>> ELSE [i \in DOMAIN Server!Matches(r) |-> p]
          IN  /\ Server!Respond(ps)
              /\ stream' = IF p.kind = "head"
                             THEN [phase |-> "callback", req |-> req,
                                   is_closed |-> FALSE, connected |-> TRUE]
                             ELSE Server!NoStream
  BY <1>2 DEF Server!usockets_on_data
<1>5. r.http11 \in BOOLEAN
  <2>1. r \in Server!Requests \/ r = Server!Bad
    BY DEF Server!Parsed
  <2>2. CASE r \in Server!Requests
    BY <2>2 DEF Server!Requests
  <2>3. CASE r = Server!Bad
    BY <2>3 DEF Server!Bad
  <2>4. QED
    BY <2>1, <2>2, <2>3
<1>6. PICK p, ps :
        /\ \/ p = Server!Piece("response", req, TRUE, TRUE)
           \/ p \in Server!NotFoundAnswers(r, req)
           \/ p \in Server!HandlerAnswers(r, req)
        /\ ps = IF Server!Matches(r) = <<>> THEN <<p>> ELSE [i \in DOMAIN Server!Matches(r) |-> p]
        /\ Server!Respond(ps)
        /\ stream' = IF p.kind = "head"
                       THEN [phase |-> "callback", req |-> req,
                             is_closed |-> FALSE, connected |-> TRUE]
                       ELSE Server!NoStream
  BY <1>4
<1>7. \E kind \in {"response", "switch", "head"}, keep \in BOOLEAN, exact \in BOOLEAN :
        p = Server!Piece(kind, req, keep, exact) /\ (keep \/ kind = "response")
  <2>1. CASE p = Server!Piece("response", req, TRUE, TRUE)
    BY <2>1
  <2>2. CASE p \in Server!Handled("response", req, r.http11)
    BY <1>5, <2>2 DEF Server!Handled
  <2>3. CASE p \in Server!StreamAnswers(req)
    BY <2>3 DEF Server!StreamAnswers, Server!Handled
  <2>4. CASE p \in Server!UpgradeAnswers(req)
    BY <2>4 DEF Server!UpgradeAnswers, Server!Handled
  <2>5. QED
    BY <1>6, <2>1, <2>2, <2>3, <2>4 DEF Server!NotFoundAnswers, Server!HandlerAnswers
<1>8. /\ p \in Pieces /\ Server!Begins(p) /\ p.req = req /\ (~p.keep => p.kind = "response")
  <2>1. PICK kind \in {"response", "switch", "head"}, keep \in BOOLEAN, exact \in BOOLEAN :
          p = Server!Piece(kind, req, keep, exact) /\ (keep \/ kind = "response")
    BY <1>7
  <2>2. QED
    BY <1>3, <2>1 DEF Server!Piece, Pieces, Server!Begins
<1>9. ps = <<p>>
  <2>1. Server!Matches(r) \in {<<>>, <<"fast_router">>, <<"context_hybrid_router">>}
    BY DEF Server!Matches
  <2>2. Server!Matches(r) # <<>> => DOMAIN Server!Matches(r) = 1 .. 1
    BY <2>1
  <2>3. <<p>> = [i \in 1 .. 1 |-> p]
    OBVIOUS
  <2>4. QED
    BY <1>6, <2>2, <2>3
<1>10. DOMAIN ps = {1} /\ ps[1] = p
  BY <1>9
<1>11. Server!us_socket_write(<<p>>) /\ conn' = IF p.keep THEN conn ELSE Server!us_socket_shutdown
  BY <1>6, <1>8, <1>9, <1>10 DEF Server!Respond, Pieces
<1>12. QED
  BY <1>1, <1>2, <1>6, <1>8, <1>11

\* The sequence of pieces and one more.
LEMMA OneMore ==
    ASSUME VTypes, NEW p \in Pieces, taken' = Append(taken, p)
    PROVE  /\ taken' \in Seq(Pieces) /\ Len(taken) \in Nat /\ Len(taken') = Len(taken) + 1
           /\ DOMAIN taken = 1 .. Len(taken) /\ DOMAIN taken' = 1 .. Len(taken) + 1
           /\ taken'[Len(taken) + 1] = p
           /\ \A i \in 1 .. Len(taken) : taken'[i] = taken[i]
           /\ Server!Beginnings' = IF Server!Begins(p) THEN Server!Beginnings \cup {Len(taken) + 1} ELSE Server!Beginnings
           /\ \A i \in Server!Beginnings : i \in 1 .. Len(taken)
<1>1. taken \in Seq(Pieces)
  BY DEF VTypes
<1>2. /\ taken' \in Seq(Pieces) /\ Len(taken) \in Nat /\ Len(taken') = Len(taken) + 1
      /\ DOMAIN taken = 1 .. Len(taken) /\ DOMAIN taken' = 1 .. Len(taken) + 1
      /\ taken'[Len(taken) + 1] = p
      /\ \A i \in 1 .. Len(taken) : taken'[i] = taken[i]
  BY <1>1
<1>3. \A i \in Server!Beginnings : i \in 1 .. Len(taken)
  BY <1>2 DEF Server!Beginnings
<1>4. \A i : i \in Server!Beginnings' <=> i \in Server!Beginnings \/ (i = Len(taken) + 1 /\ Server!Begins(p))
  BY <1>2 DEF Server!Beginnings, Server!Begins
<1>5. QED
  BY <1>2, <1>3, <1>4

\* Reading takes segments from the front.
LEMMA InboxShrinks ==
    ASSUME VTypes, NEW n \in 1 .. Len(inbox), inbox' = SubSeq(inbox, n + 1, Len(inbox))
    PROVE  /\ inbox' \in Seq(Segments) /\ Len(inbox') = Len(inbox) - n
           /\ Len(inbox) \in Nat /\ DOMAIN inbox = 1 .. Len(inbox) /\ DOMAIN inbox' = 1 .. Len(inbox) - n
           /\ \A i \in DOMAIN inbox' : inbox'[i] = inbox[i + n]
<1>1. inbox \in Seq(Segments) /\ Len(inbox) \in Nat
  BY DEF VTypes
<1>2. QED
  BY <1>1, SubSeqProperties

\* A read is answered by one piece, or the connection was cut, or shut before.
LEMMA DataKeeps ==
    ASSUME VInv, NEW n, Server!usockets_on_data(n)
    PROVE  VInv'
<1> USE DEF Server!Begins
<1>0. n \in 1 .. Len(inbox) /\ inbox' = SubSeq(inbox, n + 1, Len(inbox))
  BY AnsweredWith
<1>1. /\ inbox # <<>> /\ conn \in {"open", "shut"} /\ stream.phase = "none"
      /\ conn = "open" => answers' = answers + 1
      /\ conn # "open" => answers' = answers
      /\ polite' = polite /\ sent' = sent
  BY AnsweredWith
<1>2. PICK p \in Pieces :
        /\ Server!Begins(p) /\ p.req = inbox[1].req
        /\ ~p.keep => p.kind = "response"
        /\ Server!us_socket_write(<<p>>)
        /\ conn' = IF p.keep THEN conn ELSE Server!us_socket_shutdown
        /\ stream' = IF p.kind = "head"
                       THEN [phase |-> "callback", req |-> p.req,
                             is_closed |-> FALSE, connected |-> TRUE]
                       ELSE Server!NoStream
  BY AnsweredWith
<1>3. VTypes /\ StreamState /\ InOrder /\ Waiting /\ KeptOpen /\ Server!OneAnswer /\ Server!StreamFramed /\ EndsBehind
  BY DEF VInv
<1>4. /\ cut' \in BOOLEAN
      /\ \/ conn = "open" /\ taken' = Append(taken, p) /\ cut' = cut
         \/ conn = "open" /\ taken' = taken /\ cut'
         \/ conn # "open" /\ taken' = taken /\ cut' = cut
  BY <1>2, <1>3, OneWritten
<1>5. /\ inbox' \in Seq(Segments) /\ Len(inbox') = Len(inbox) - n
      /\ Len(inbox) \in Nat /\ DOMAIN inbox = 1 .. Len(inbox) /\ DOMAIN inbox' = 1 .. Len(inbox) - n
      /\ \A i \in DOMAIN inbox' : inbox'[i] = inbox[i + n]
      /\ n \in Nat /\ 1 <= n /\ n <= Len(inbox) /\ 1 \in DOMAIN inbox
  <2>1. /\ inbox' \in Seq(Segments) /\ Len(inbox') = Len(inbox) - n
        /\ Len(inbox) \in Nat /\ DOMAIN inbox = 1 .. Len(inbox) /\ DOMAIN inbox' = 1 .. Len(inbox) - n
        /\ \A i \in DOMAIN inbox' : inbox'[i] = inbox[i + n]
    BY <1>0, <1>3, InboxShrinks, Zenon
  <2>2. PICK m \in Nat : m = Len(inbox)
    BY <2>1, Zenon
  <2>3. n \in 1 .. m
    BY <1>0, <2>2, Zenon
  <2>4. n \in Nat /\ 1 <= n /\ n <= m /\ 1 \in 1 .. m
    BY <2>3
  <2>5. QED
    BY <2>1, <2>2, <2>4, Zenon
<1>6. conn' \in {"open", "shut"} /\ (conn # "open" => conn' = conn) /\ (p.keep => conn' = conn)
      /\ (~p.keep => conn' # "open")
  BY <1>1, <1>2 DEF Server!us_socket_shutdown
<1>7. /\ stream' \in [phase : {"none", "callback", "error_handler"}, req : Nat,
                      is_closed : BOOLEAN, connected : BOOLEAN]
      /\ stream'.connected = ~stream'.is_closed
      /\ stream'.phase = "none" => stream'.is_closed
      /\ p.kind # "head" => stream'.phase = "none"
      /\ p.kind = "head" => stream'.phase = "callback" /\ ~stream'.is_closed /\ stream'.req = p.req
  BY <1>2 DEF Server!NoStream, Pieces
<1>8. taken' \in Seq(Pieces)
  BY <1>3, <1>4, OneMore DEF VTypes
<1>9. VTypes'
  BY <1>1, <1>3, <1>4, <1>5, <1>6, <1>7, <1>8 DEF VTypes
<1>10. StreamState'
  BY <1>6, <1>7 DEF StreamState
<1>11. /\ \A i, j \in DOMAIN inbox : i < j => inbox[i].req <= inbox[j].req
       /\ \A i \in DOMAIN inbox : inbox[i].req <= sent /\ inbox[i].req \in Nat
       /\ \A i \in Server!Beginnings : taken[i].req <= sent
       /\ \A i \in Server!Beginnings, j \in DOMAIN inbox : taken[i].req <= inbox[j].req
       /\ sent \in Nat
  <2>1. inbox \in Seq(Segments) /\ sent \in Nat
    BY <1>3 DEF VTypes
  <2>2. \A i \in DOMAIN inbox : inbox[i] \in Segments
    BY <2>1
  <2>3. \A i \in DOMAIN inbox : inbox[i].req \in Nat
    BY <2>2 DEF Segments
  <2>4. QED
    BY <1>3, <2>1, <2>3 DEF InOrder
<1>12. /\ \A i, j \in DOMAIN inbox' : i < j => inbox'[i].req <= inbox'[j].req
       /\ \A i \in DOMAIN inbox' : /\ inbox'[i].req <= sent' /\ p.req <= inbox'[i].req
                                   /\ i + n \in DOMAIN inbox
  <2>1. \A i \in DOMAIN inbox' : i + n \in DOMAIN inbox /\ 1 < i + n
    BY <1>1, <1>5
  <2>2. \A i \in DOMAIN inbox' : inbox'[i].req <= sent' /\ p.req <= inbox'[i].req
    BY <1>1, <1>2, <1>5, <1>11, <2>1
  <2>3. ASSUME NEW i \in DOMAIN inbox', NEW j \in DOMAIN inbox', i < j
        PROVE  inbox'[i].req <= inbox'[j].req
    <3>1. i + n < j + n
      BY <1>1, <1>5, <2>3
    <3>2. QED
      BY <1>5, <1>11, <2>1, <3>1
  <2>4. QED
    BY <2>1, <2>2, <2>3
<1>13. CASE conn = "open" /\ taken' = Append(taken, p) /\ cut' = cut
  <2>1. /\ taken' \in Seq(Pieces) /\ Len(taken) \in Nat /\ Len(taken') = Len(taken) + 1
        /\ DOMAIN taken = 1 .. Len(taken) /\ DOMAIN taken' = 1 .. Len(taken) + 1
        /\ taken'[Len(taken) + 1] = p
        /\ \A i \in 1 .. Len(taken) : taken'[i] = taken[i]
        /\ Server!Beginnings' = Server!Beginnings \cup {Len(taken) + 1}
        /\ \A i \in Server!Beginnings : i \in 1 .. Len(taken)
    BY <1>2, <1>3, <1>13, OneMore
  <2>2. InOrder'
    BY <1>1, <1>2, <1>5, <1>11, <1>12, <2>1 DEF InOrder
  <2>3. KeptOpen'
    BY <1>2, <1>3, <1>6, <2>1 DEF KeptOpen
  <2>4. Waiting'
    <3>1. answers \in Nat /\ sent \in Nat /\ (Len(inbox') = 0 <=> inbox' = <<>>)
      BY <1>3, <1>5, EmptySeq DEF VTypes
    <3>2. QED
      BY <1>1, <1>3, <1>5, <1>13, <3>1 DEF Waiting
  <2>5. OpenStream'
    BY <1>7, <2>1 DEF OpenStream
  <2>6. Server!StreamFramed'
    BY <1>1, <1>2, <1>3, <1>7, <1>13, <2>1 DEF Server!StreamFramed, Server!Streaming
  <2>7. EndsBehind'
    BY <1>2, <1>3, <1>6, <1>13, <2>1 DEF EndsBehind
  <2>8. Server!OneAnswer'
    <3>1. SUFFICES ASSUME ~cut PROVE Server!OneAnswer'
      BY <1>13 DEF Server!OneAnswer
    <3>2. /\ Cardinality(Server!Beginnings) = answers
          /\ \A i, j \in Server!Beginnings : i < j => taken[i].req <= taken[j].req
          /\ polite => \A i \in Server!Beginnings : taken[i].req = Cardinality({j \in Server!Beginnings : j <= i})
      BY <1>3, <3>1, SameCount, Zenon DEF Server!OneAnswer
    <3>3. IsFiniteSet(Server!Beginnings) /\ Len(taken) + 1 \notin Server!Beginnings
      <4>1. IsFiniteSet(1 .. Len(taken))
        BY <2>1, FS_Interval
      <4>2. Server!Beginnings \subseteq 1 .. Len(taken)
        BY <2>1
      <4>3. IsFiniteSet(Server!Beginnings)
        BY <4>1, <4>2, FS_Subset, Zenon
      <4>4. QED
        BY <2>1, <4>2, <4>3
    <3>4. Cardinality(Server!Beginnings') = answers + 1
      BY <2>1, <3>2, <3>3, FS_AddElement
    <3>5. ASSUME NEW i \in Server!Beginnings', NEW j \in Server!Beginnings', i < j
          PROVE  taken'[i].req <= taken'[j].req
      <4>1. i \in Server!Beginnings
        BY <2>1, <3>5
      <4>2. CASE j \in Server!Beginnings
        BY <2>1, <3>2, <3>5, <4>1, <4>2
      <4>3. CASE j = Len(taken) + 1
        BY <1>2, <1>5, <1>11, <2>1, <4>1, <4>3
      <4>4. QED
        BY <2>1, <4>2, <4>3
    <3>6. ASSUME polite', NEW i \in Server!Beginnings'
          PROVE  taken'[i].req = Cardinality({j \in Server!Beginnings' : j <= i})
      <4>1. CASE i \in Server!Beginnings
        <5>1. {j \in Server!Beginnings' : j <= i} = {j \in Server!Beginnings : j <= i}
          BY <2>1, <4>1
        <5>2. QED
          BY <1>1, <2>1, <3>2, <3>6, <4>1, <5>1
      <4>2. CASE i = Len(taken) + 1
        <5>1. {j \in Server!Beginnings' : j <= i} = Server!Beginnings'
          <6>1. \A j \in Server!Beginnings' : j <= i
            BY <2>1, <4>2
          <6>2. QED
            BY <6>1
        <5>2. p.req = answers + 1
          <6>1. sent = answers + Len(inbox) /\ Len(inbox) = 1 /\ inbox[1].req = sent /\ answers \in Nat
            BY <1>1, <1>3, <1>5, <3>1, <3>6 DEF Waiting, VTypes
          <6>2. QED
            BY <1>2, <6>1
        <5>3. QED
          BY <2>1, <3>4, <4>2, <5>1, <5>2
      <4>3. QED
        BY <2>1, <4>1, <4>2
    <3>7. answers' = answers + 1
      BY <1>1, <1>13
    <3>8. QED
      BY <3>4, <3>5, <3>6, <3>7, SameCount DEF Server!OneAnswer
  <2>9. QED
    BY <1>9, <1>10, <2>2, <2>3, <2>4, <2>5, <2>6, <2>7, <2>8 DEF VInv
<1>14. CASE taken' = taken /\ (cut' \/ (conn = "shut" /\ cut' = cut))
  <2>1. Server!Beginnings' = Server!Beginnings
    BY <1>14 DEF Server!Beginnings
  <2>2. InOrder'
    BY <1>1, <1>5, <1>11, <1>12, <1>14, <2>1 DEF InOrder
  <2>3. KeptOpen'
    BY <1>3, <1>6, <1>14 DEF KeptOpen
  <2>4. Waiting'
    BY <1>1, <1>3, <1>14 DEF Waiting
  <2>5. OpenStream'
    BY <1>6, <1>14 DEF OpenStream
  <2>6. Server!StreamFramed'
    BY <1>1, <1>3, <1>14 DEF Server!StreamFramed, Server!Streaming
  <2>7. EndsBehind'
    BY <1>3, <1>6, <1>14 DEF EndsBehind
  <2>8. Server!OneAnswer'
    BY <1>1, <1>3, <1>14, <2>1 DEF Server!OneAnswer
  <2>9. QED
    BY <1>9, <1>10, <2>2, <2>3, <2>4, <2>5, <2>6, <2>7, <2>8 DEF VInv
<1>15. QED
  BY <1>1, <1>4, <1>13, <1>14

\* A running stream writes a piece behind its header, and goes on or closes.
LEMMA StreamPieceKeeps ==
    ASSUME VInv, stream.phase # "none", ~stream.is_closed,
           NEW p \in Pieces, p.kind \in {"chunk", "final"}, p.req = stream.req, p.keep,
           Server!us_socket_write(<<p>>), UNCHANGED <<conn, polite, inbox, sent, answers>>,
           stream' \in [phase : {"none", "callback", "error_handler"}, req : Nat,
                        is_closed : BOOLEAN, connected : BOOLEAN],
           p.kind = "chunk" => stream' = stream,
           p.kind = "final" => stream'.is_closed /\ ~stream'.connected
    PROVE  VInv'
<1>1. VTypes /\ StreamState /\ InOrder /\ Waiting /\ KeptOpen /\ OpenStream /\ Server!OneAnswer /\ Server!StreamFramed /\ EndsBehind
  BY DEF VInv
<1>2. /\ cut' \in BOOLEAN
      /\ \/ conn = "open" /\ taken' = Append(taken, p) /\ cut' = cut
         \/ conn = "open" /\ taken' = taken /\ cut'
         \/ conn # "open" /\ taken' = taken /\ cut' = cut
  BY <1>1, OneWritten
<1>3. ~Server!Begins(p)
  BY DEF Server!Begins
<1>4. StreamState'
  BY <1>1 DEF StreamState
<1>5. taken' \in Seq(Pieces)
  BY <1>1, <1>2, OneMore DEF VTypes
<1>6. VTypes'
  BY <1>1, <1>2, <1>5 DEF VTypes
<1>7. conn \in {"open", "shut"}
  BY <1>1 DEF StreamState
<1>8. CASE conn = "open" /\ taken' = Append(taken, p) /\ cut' = cut
  <2>1. /\ taken' \in Seq(Pieces) /\ Len(taken) \in Nat /\ Len(taken') = Len(taken) + 1
        /\ DOMAIN taken = 1 .. Len(taken) /\ DOMAIN taken' = 1 .. Len(taken) + 1
        /\ taken'[Len(taken) + 1] = p
        /\ \A i \in 1 .. Len(taken) : taken'[i] = taken[i]
        /\ Server!Beginnings' = Server!Beginnings
        /\ \A i \in Server!Beginnings : i \in 1 .. Len(taken)
    BY <1>1, <1>3, <1>8, OneMore
  <2>2. InOrder'
    BY <1>1, <2>1 DEF InOrder
  <2>3. KeptOpen'
    BY <1>1, <1>7, <2>1 DEF KeptOpen
  <2>4. Waiting'
    BY <1>1, <1>8 DEF Waiting
  <2>5. OpenStream'
    BY <2>1 DEF OpenStream
  <2>6. ~cut => /\ Len(taken) \in DOMAIN taken /\ taken[Len(taken)].kind \in {"head", "chunk"}
                /\ taken[Len(taken)].req = p.req
    BY <1>1, <1>8, <2>1, EmptySeq DEF OpenStream, VTypes
  <2>7. Server!StreamFramed'
    <3>1. SUFFICES ASSUME ~cut, NEW i \in 1 .. Len(taken) + 1
                   PROVE  /\ taken'[i].kind \in {"chunk", "final"} =>
                               i > 1 /\ taken'[i - 1].kind \in {"head", "chunk"} /\ taken'[i - 1].req = taken'[i].req
                          /\ taken'[i].kind \in {"head", "chunk"} =>
                               \/ i < Len(taken') /\ taken'[i + 1].kind \in {"chunk", "final"}
                               \/ i = Len(taken') /\ Server!Streaming' /\ stream'.req = taken'[i].req /\ ~stream'.is_closed
      BY <1>8, <2>1 DEF Server!StreamFramed
    <3>2. CASE i = Len(taken) + 1
      BY <2>1, <2>6, <3>1, <3>2 DEF Server!Streaming
    <3>3. CASE i = Len(taken)
      <4>1. i \in DOMAIN taken /\ taken'[i] = taken[i] /\ i + 1 = Len(taken') /\ taken'[i + 1] = p
        BY <2>1, <3>3
      <4>2. taken[i].kind \in {"chunk", "final"} =>
              i > 1 /\ taken[i - 1].kind \in {"head", "chunk"} /\ taken[i - 1].req = taken[i].req
        BY <1>1, <3>1, <4>1 DEF Server!StreamFramed
      <4>3. i > 1 => taken'[i - 1] = taken[i - 1]
        BY <2>1, <3>3
      <4>4. i < Len(taken')
        BY <2>1, <3>3
      <4>5. QED
        BY <4>1, <4>2, <4>3, <4>4
    <3>4. CASE i < Len(taken)
      <4>1. /\ i \in DOMAIN taken /\ i + 1 \in DOMAIN taken /\ i + 1 <= Len(taken) /\ i < Len(taken')
            /\ taken'[i] = taken[i] /\ taken'[i + 1] = taken[i + 1]
        BY <2>1, <3>4
      <4>2. i > 1 => taken'[i - 1] = taken[i - 1]
        BY <2>1, <3>4
      <4>3. /\ taken[i].kind \in {"chunk", "final"} =>
                 i > 1 /\ taken[i - 1].kind \in {"head", "chunk"} /\ taken[i - 1].req = taken[i].req
            /\ taken[i].kind \in {"head", "chunk"} =>
                 \/ i < Len(taken) /\ taken[i + 1].kind \in {"chunk", "final"}
                 \/ i = Len(taken)
        BY <1>1, <3>1, <4>1 DEF Server!StreamFramed
      <4>4. i # Len(taken)
        <5>1. Len(taken) \in Nat
          BY <2>1
        <5>2. QED
          BY <3>4, <5>1
      <4>5. QED
        BY <4>1, <4>2, <4>3, <4>4
    <3>5. i = Len(taken) + 1 \/ i = Len(taken) \/ i < Len(taken)
      <4>1. Len(taken) \in Nat
        BY <2>1
      <4>2. PICK m \in Nat : m = Len(taken)
        BY <4>1
      <4>3. i \in 1 .. m + 1
        BY <4>2
      <4>4. i = m + 1 \/ i = m \/ i < m
        BY <4>3
      <4>5. QED
        BY <4>2, <4>4
    <3>6. QED
      BY <3>2, <3>3, <3>4, <3>5
  <2>8. EndsBehind'
    BY <1>1, <1>8, <2>1 DEF EndsBehind
  <2>9. Server!OneAnswer'
    <3>1. ASSUME NEW i \in Server!Beginnings
          PROVE  taken'[i] = taken[i]
      BY <2>1
    <3>2. QED
      BY <1>1, <1>8, <2>1, <3>1 DEF Server!OneAnswer
  <2>10. QED
    BY <1>4, <1>6, <2>2, <2>3, <2>4, <2>5, <2>7, <2>8, <2>9 DEF VInv
<1>9. CASE taken' = taken /\ (cut' \/ (conn = "shut" /\ cut' = cut))
  <2>1. Server!Beginnings' = Server!Beginnings
    BY <1>9 DEF Server!Beginnings
  <2>2. InOrder'
    BY <1>1, <1>9, <2>1 DEF InOrder
  <2>3. KeptOpen' /\ Waiting' /\ OpenStream'
    BY <1>1, <1>7, <1>9 DEF KeptOpen, Waiting, OpenStream
  <2>4. EndsBehind' /\ Server!OneAnswer'
    BY <1>1, <1>9, <2>1 DEF EndsBehind, Server!OneAnswer
  <2>5. Server!StreamFramed'
    <3>1. CASE cut'
      BY <3>1 DEF Server!StreamFramed
    <3>2. CASE ~cut' /\ conn = "shut" /\ cut' = cut
      <4>1. taken # <<>> /\ ~taken[Len(taken)].keep
        BY <1>1, <3>2 DEF EndsBehind
      <4>2. Len(taken) \in DOMAIN taken /\ taken[Len(taken)].kind = "response" /\ DOMAIN taken = 1 .. Len(taken)
            /\ Len(taken) \in Nat
        BY <1>1, <4>1, EmptySeq DEF KeptOpen, VTypes
      <4>3. QED
        BY <1>1, <1>9, <3>2, <4>2 DEF Server!StreamFramed
    <3>3. QED
      BY <1>9, <3>1, <3>2
  <2>6. QED
    BY <1>4, <1>6, <2>2, <2>3, <2>4, <2>5 DEF VInv
<1>10. QED
  BY <1>2, <1>7, <1>8, <1>9

\* A stream that wrote nothing and stays as open or as closed as it was.
LEMMA StreamSilent ==
    ASSUME VInv, UNCHANGED <<conn, polite, inbox, sent, answers, taken, cut>>,
           stream' \in [phase : {"none", "callback", "error_handler"}, req : Nat,
                        is_closed : BOOLEAN, connected : BOOLEAN],
           stream'.is_closed = stream.is_closed, stream'.connected = stream.connected,
           ~stream.is_closed => stream'.req = stream.req,
           stream'.phase = "none" => stream'.is_closed,
           stream'.phase # "none" => stream.phase # "none"
    PROVE  VInv'
<1>1. Server!Beginnings' = Server!Beginnings
  BY DEF Server!Beginnings
<1>2. VTypes' /\ StreamState'
  BY DEF VInv, VTypes, StreamState
<1>3. InOrder' /\ Waiting' /\ KeptOpen'
  BY <1>1 DEF VInv, InOrder, Waiting, KeptOpen
<1>4. EndsBehind' /\ Server!OneAnswer'
  BY <1>1 DEF VInv, EndsBehind, Server!OneAnswer
<1>5. OpenStream'
  BY DEF VInv, OpenStream
<1>6. ~stream.is_closed => stream'.phase # "none"
  OBVIOUS
<1>7. Server!StreamFramed'
  BY <1>6 DEF VInv, Server!StreamFramed, Server!Streaming
<1>8. QED
  BY <1>2, <1>3, <1>4, <1>5, <1>7 DEF VInv

\* The actions of a streaming callback.
LEMMA StreamActionsKeep ==
    ASSUME VInv, (\E empty \in BOOLEAN : Server!StreamWrite(empty)) \/ Server!StreamClose \/ Server!StreamError \/ Server!StreamReturn
    PROVE  VInv'
<1>1. /\ stream \in [phase : {"none", "callback", "error_handler"}, req : Nat,
                     is_closed : BOOLEAN, connected : BOOLEAN]
      /\ stream.connected = ~stream.is_closed
  BY DEF VInv, VTypes, StreamState
<1>2. UNCHANGED <<conn, polite, inbox, sent, answers>>
  BY DEF Server!StreamWrite, Server!StreamClose, Server!StreamError, Server!StreamReturn, Server!clientVars
<1>3. \A kind \in {"chunk", "final"} :
        LET p == Server!Piece(kind, stream.req, TRUE, TRUE)
        IN  p \in Pieces /\ p.kind = kind /\ p.req = stream.req /\ p.keep
  BY <1>1 DEF Server!Piece, Pieces
<1>4. ASSUME NEW empty \in BOOLEAN, Server!StreamWrite(empty) PROVE VInv'
  <2>1. stream.phase # "none"
    BY <1>4 DEF Server!StreamWrite, Server!Streaming
  <2>2. CASE stream.is_closed
    <3>1. stream' = [stream EXCEPT !.is_closed = TRUE] /\ UNCHANGED <<taken, cut>>
      BY <1>4, <2>2 DEF Server!StreamWrite
    <3>2. stream' = stream
      BY <1>1, <2>2, <3>1
    <3>3. QED
      BY <1>1, <1>2, <2>1, <3>1, <3>2, StreamSilent
  <2>3. CASE ~stream.is_closed
    <3>1. Server!WriteChunk(empty) /\ stream' = stream
      BY <1>1, <1>4, <2>3 DEF Server!StreamWrite
    <3>2. CASE empty
      BY <1>1, <1>2, <2>1, <3>1, <3>2, StreamSilent DEF Server!WriteChunk
    <3>3. CASE ~empty
      <4>1. PICK p : p = Server!Piece("chunk", stream.req, TRUE, TRUE)
        OBVIOUS
      <4>2. Server!us_socket_write(<<p>>)
        BY <3>1, <3>3, <4>1 DEF Server!WriteChunk
      <4>3. p \in Pieces /\ p.kind = "chunk" /\ p.req = stream.req /\ p.keep
        BY <1>3, <4>1
      <4>4. QED
        BY <1>1, <1>2, <2>1, <2>3, <3>1, <4>2, <4>3, StreamPieceKeeps
    <3>4. QED
      BY <3>2, <3>3
  <2>4. QED
    BY <1>1, <2>2, <2>3
<1>5. ASSUME Server!Streaming, Server!CloseWriter,
             stream' \in [phase : {"none", "callback", "error_handler"}, req : Nat,
                          is_closed : BOOLEAN, connected : BOOLEAN],
             stream'.is_closed, ~stream'.connected
      PROVE  VInv'
  <2>1. stream.phase # "none"
    BY <1>5 DEF Server!Streaming
  <2>2. CASE stream.is_closed
    <3>1. UNCHANGED <<taken, cut>>
      BY <1>5, <2>2 DEF Server!CloseWriter
    <3>2. QED
      BY <1>1, <1>2, <1>5, <2>1, <2>2, <3>1, StreamSilent
  <2>3. CASE ~stream.is_closed
    <3>1. PICK p : p = Server!Piece("final", stream.req, TRUE, TRUE)
      OBVIOUS
    <3>2. Server!us_socket_write(<<p>>)
      BY <1>1, <1>5, <2>3, <3>1 DEF Server!CloseWriter
    <3>3. p \in Pieces /\ p.kind = "final" /\ p.req = stream.req /\ p.keep
      BY <1>3, <3>1
    <3>4. QED
      BY <1>2, <1>5, <2>1, <2>3, <3>2, <3>3, StreamPieceKeeps
  <2>4. QED
    BY <1>1, <2>2, <2>3
<1>6. CASE Server!StreamClose
  <2>1. stream' = [stream EXCEPT !.is_closed = TRUE, !.connected = FALSE] /\ Server!Streaming /\ Server!CloseWriter
    BY <1>6 DEF Server!StreamClose
  <2>2. /\ stream' \in [phase : {"none", "callback", "error_handler"}, req : Nat,
                        is_closed : BOOLEAN, connected : BOOLEAN]
        /\ stream'.is_closed /\ ~stream'.connected
    BY <1>1, <2>1
  <2>3. QED
    BY <1>5, <2>1, <2>2
<1>7. CASE Server!StreamReturn
  <2>1. stream' = Server!NoStream /\ Server!Streaming /\ Server!CloseWriter
    BY <1>7 DEF Server!StreamReturn
  <2>2. /\ stream' \in [phase : {"none", "callback", "error_handler"}, req : Nat,
                        is_closed : BOOLEAN, connected : BOOLEAN]
        /\ stream'.is_closed /\ ~stream'.connected
    BY <2>1 DEF Server!NoStream
  <2>3. QED
    BY <1>5, <2>1, <2>2
<1>8. CASE Server!StreamError
  <2>1. /\ stream' = [stream EXCEPT !.phase = "error_handler"] /\ stream.phase = "callback"
        /\ UNCHANGED <<taken, cut>>
    BY <1>8 DEF Server!StreamError
  <2>2. /\ stream' \in [phase : {"none", "callback", "error_handler"}, req : Nat,
                        is_closed : BOOLEAN, connected : BOOLEAN]
        /\ stream'.is_closed = stream.is_closed /\ stream'.connected = stream.connected
        /\ stream'.req = stream.req /\ stream'.phase = "error_handler"
    BY <1>1, <2>1
  <2>3. QED
    BY <1>2, <2>1, <2>2, StreamSilent
<1>9. QED
  BY <1>4, <1>6, <1>7, <1>8

\* The socket is opened or closed between callbacks.
LEMMA ConnKeeps ==
    ASSUME VInv, stream.phase = "none", UNCHANGED <<polite, inbox, sent, answers, taken, cut, stream>>,
           conn' = "closed" \/ (conn = "none" /\ conn' = "open")
    PROVE  VInv'
<1>1. Server!Beginnings' = Server!Beginnings
  BY DEF Server!Beginnings
<1>2. VTypes' /\ StreamState' /\ OpenStream'
  BY DEF VInv, VTypes, StreamState, OpenStream
<1>3. InOrder' /\ Waiting' /\ KeptOpen'
  BY <1>1 DEF VInv, InOrder, Waiting, KeptOpen
<1>4. Server!OneAnswer'
  BY <1>1 DEF VInv, Server!OneAnswer
<1>5. Server!StreamFramed'
  BY DEF VInv, Server!StreamFramed, Server!Streaming
<1>6. EndsBehind'
  <2>1. conn' = "open" => DOMAIN taken = {}
    BY DEF VInv, KeptOpen
  <2>2. QED
    BY <2>1 DEF VInv, EndsBehind
<1>7. QED
  BY <1>2, <1>3, <1>4, <1>5, <1>6 DEF VInv

\* The client sends, reads or leaves.
LEMMA ClientKeeps ==
    ASSUME VInv, Server!SendWhole \/ Server!SendSplit \/ Server!Receive \/ Server!Leave
    PROVE  VInv'
<1>1. UNCHANGED <<conn, taken, cut, answers, stream, polite>>
  BY DEF Server!SendWhole, Server!SendSplit, Server!Receive, Server!Leave, Server!serverVars
<1>2. Server!Beginnings' = Server!Beginnings
  BY <1>1 DEF Server!Beginnings
<1>3. StreamState' /\ KeptOpen' /\ OpenStream'
  BY <1>1 DEF VInv, StreamState, KeptOpen, OpenStream
<1>4. Server!OneAnswer'
  BY <1>1, <1>2 DEF VInv, Server!OneAnswer
<1>5. Server!StreamFramed' /\ EndsBehind'
  BY <1>1 DEF VInv, Server!StreamFramed, Server!Streaming, EndsBehind
<1>6. /\ inbox \in Seq(Segments) /\ sent \in Nat /\ answers \in Nat
      /\ \A i \in DOMAIN inbox : inbox[i].req <= sent
      /\ \A i, j \in DOMAIN inbox : i < j => inbox[i].req <= inbox[j].req
      /\ \A i \in Server!Beginnings : taken[i].req <= sent
      /\ \A i \in Server!Beginnings, j \in DOMAIN inbox : taken[i].req <= inbox[j].req
  BY DEF VInv, VTypes, InOrder
<1>7. \A i \in Server!Beginnings : taken[i].req \in Nat
  <2>1. \A i \in DOMAIN taken : taken[i] \in Pieces
    BY DEF VInv, VTypes
  <2>2. QED
    BY <2>1 DEF Server!Beginnings, Pieces
<1>8. \A i \in DOMAIN inbox : inbox[i].req \in Nat
  <2>1. \A i \in DOMAIN inbox : inbox[i] \in Segments
    BY <1>6
  <2>2. QED
    BY <2>1 DEF Segments
<1>9. ASSUME NEW longer \in Seq(Segments), inbox' = longer, sent' = sent + 1,
             DOMAIN longer = 1 .. Len(longer), Len(longer) \in Nat, Len(longer) > Len(inbox),
             \A i \in 1 .. Len(inbox) : longer[i] = inbox[i],
             \A i \in Len(inbox) + 1 .. Len(longer) : longer[i].req = sent + 1,
             polite => inbox = <<>> /\ conn = "open" /\ ~cut /\ Len(longer) = 1
      PROVE  VInv'
  <2>1. DOMAIN inbox = 1 .. Len(inbox) /\ Len(inbox) \in Nat
    BY <1>6
  <2>2. VTypes'
    BY <1>1, <1>6, <1>9 DEF VInv, VTypes
  <2>3. \A i \in DOMAIN longer :
            \/ i \in DOMAIN inbox /\ longer[i] = inbox[i]
            \/ i > Len(inbox) /\ longer[i].req = sent + 1
    BY <1>9, <2>1
  <2>4. \A i \in DOMAIN longer : longer[i].req <= sent + 1
    BY <1>6, <1>8, <2>3
  <2>5. ASSUME NEW i \in DOMAIN longer, NEW j \in DOMAIN longer, i < j
        PROVE  longer[i].req <= longer[j].req
    BY <1>6, <1>8, <1>9, <2>1, <2>3, <2>4, <2>5
  <2>6. \A i \in Server!Beginnings : taken[i].req <= sent + 1
    BY <1>6, <1>7
  <2>7. \A i \in Server!Beginnings, j \in DOMAIN longer : taken[i].req <= longer[j].req
    BY <1>6, <1>7, <2>3, <2>6
  <2>8. InOrder'
    BY <1>1, <1>2, <1>9, <2>4, <2>5, <2>6, <2>7 DEF InOrder
  <2>9. Waiting'
    <3>1. SUFFICES ASSUME polite, ~cut PROVE Waiting'
      BY <1>1 DEF Waiting
    <3>2. inbox = <<>> /\ conn = "open" /\ Len(longer) = 1
      BY <1>9, <3>1
    <3>3. sent = answers
      BY <1>6, <3>1, <3>2 DEF VInv, Waiting
    <3>4. longer[1].req = sent + 1
      BY <1>9, <3>2
    <3>5. QED
      BY <1>1, <1>6, <1>9, <3>2, <3>3, <3>4 DEF Waiting
  <2>10. QED
    BY <1>3, <1>4, <1>5, <2>2, <2>8, <2>9 DEF VInv
<1>10. CASE Server!SendWhole
  <2>1. PICK m : m = [req |-> sent + 1, part |-> "whole"]
    OBVIOUS
  <2>2. m \in Segments /\ m.req = sent + 1
    BY <1>6, <2>1 DEF Segments
  <2>3. PICK longer : longer = Append(inbox, m)
    OBVIOUS
  <2>4. /\ longer \in Seq(Segments) /\ DOMAIN longer = 1 .. Len(longer) /\ Len(longer) = Len(inbox) + 1
        /\ Len(inbox) \in Nat
        /\ \A i \in 1 .. Len(inbox) : longer[i] = inbox[i]
        /\ longer[Len(inbox) + 1] = m
    BY <1>6, <2>2, <2>3
  <2>5. inbox' = longer /\ sent' = sent + 1
    BY <1>10, <2>1, <2>3 DEF Server!SendWhole
  <2>6. polite => inbox = <<>> /\ conn = "open" /\ ~cut
    BY <1>10 DEF Server!SendWhole, Server!Answered
  <2>7. inbox = <<>> => Len(inbox) = 0
    OBVIOUS
  <2>8. \A i \in Len(inbox) + 1 .. Len(longer) : longer[i].req = sent + 1
    BY <2>2, <2>4
  <2>9. Len(longer) \in Nat /\ Len(longer) > Len(inbox) /\ (polite => Len(longer) = 1)
    BY <2>4, <2>6, <2>7
  <2>10. QED
    BY <1>9, <2>4, <2>5, <2>6, <2>8, <2>9
<1>11. CASE Server!SendSplit
  <2>1. PICK a, b : /\ a = [req |-> sent + 1, part |-> "first"]
                    /\ b = [req |-> sent + 1, part |-> "rest"]
    OBVIOUS
  <2>2. a \in Segments /\ a.req = sent + 1 /\ b \in Segments /\ b.req = sent + 1
    BY <1>6, <2>1 DEF Segments
  <2>3. PICK longer : longer = inbox \o <<a, b>>
    OBVIOUS
  <2>4. /\ longer \in Seq(Segments) /\ DOMAIN longer = 1 .. Len(longer) /\ Len(longer) = Len(inbox) + 2
        /\ Len(inbox) \in Nat
        /\ \A i \in 1 .. Len(inbox) : longer[i] = inbox[i]
        /\ longer[Len(inbox) + 1] = a /\ longer[Len(inbox) + 2] = b
    BY <1>6, <2>2, <2>3
  <2>5. inbox' = longer /\ sent' = sent + 1 /\ ~polite
    BY <1>11, <2>1, <2>3 DEF Server!SendSplit
  <2>6. \A i \in Len(inbox) + 1 .. Len(longer) : longer[i].req = sent + 1
    BY <2>2, <2>4
  <2>7. QED
    BY <1>9, <2>4, <2>5, <2>6
<1>12. CASE Server!Receive \/ Server!Leave
  <2>1. inbox' = inbox /\ sent' = sent
    BY <1>12 DEF Server!Receive, Server!Leave
  <2>2. VTypes'
    BY <1>1, <2>1 DEF VInv, VTypes
  <2>3. InOrder' /\ Waiting'
    BY <1>1, <1>2, <2>1 DEF VInv, InOrder, Waiting
  <2>4. QED
    BY <1>3, <1>4, <1>5, <2>2, <2>3 DEF VInv
<1>13. QED
  BY <1>10, <1>11, <1>12

\* Every step of the server and of its client preserves the invariant.
LEMMA VNext == VInv /\ [Server!Next]_(Server!vars) => VInv'
<1> SUFFICES ASSUME VInv, [Server!Next]_(Server!vars) PROVE VInv'
  OBVIOUS
<1>1. CASE UNCHANGED <<conn, polite, inbox, sent, answers, taken, cut, stream>>
  <2>1. Server!Beginnings' = Server!Beginnings
    BY <1>1 DEF Server!Beginnings
  <2>2. VTypes' /\ StreamState' /\ OpenStream'
    BY <1>1 DEF VInv, VTypes, StreamState, OpenStream
  <2>3. InOrder' /\ Waiting' /\ KeptOpen' /\ Server!OneAnswer'
    BY <1>1, <2>1 DEF VInv, InOrder, Waiting, KeptOpen, Server!OneAnswer
  <2>4. Server!StreamFramed' /\ EndsBehind'
    BY <1>1 DEF VInv, Server!StreamFramed, EndsBehind, Server!Streaming
  <2>5. QED
    BY <2>2, <2>3, <2>4 DEF VInv
<1>2. CASE Server!listen_usockets_with_config \/ Server!usockets_on_writable \/ UNCHANGED Server!vars
  BY <1>1, <1>2 DEF Server!listen_usockets_with_config, Server!usockets_on_writable, Server!clientVars, Server!vars
<1>3. CASE Server!usockets_on_open
  BY <1>3, ConnKeeps DEF Server!usockets_on_open, Server!us_on_open, Server!us_loop_run, Server!clientVars
<1>4. CASE Server!usockets_on_end \/ Server!usockets_on_close
  BY <1>4, ConnKeeps DEF Server!usockets_on_end, Server!usockets_on_close, Server!us_on_end, Server!us_on_close, Server!us_loop_run,
     Server!us_socket_close, Server!clientVars
<1>5. QED
  BY <1>2, <1>3, <1>4, DataKeeps, StreamActionsKeep, ClientKeeps DEF Server!Next

\* Every read on the open connection gets one response, in the order of the
\* requests, and the connection ends as the last response announced if its
\* header is exact, for any number of requests and any splitting of them into
\* segments, whatever a handler puts into its headers
\* (usockets_on_data, send_usockets_response).
THEOREM ResponsesFollowRequests == Server!Spec => []ResponsesInOrder
<1>1. VInv => ResponsesInOrder
  <2>1. VInv => Server!ClosesAsAnnounced
    BY DEF VInv, EndsBehind, Server!ClosesAsAnnounced
  <2>2. QED
    BY <2>1 DEF VInv, ResponsesInOrder
<1>2. QED
  BY <1>1, VInit, VNext, PTL DEF Server!Spec

\* A streamed response is well framed whatever its callback does, for any
\* number of chunks (handle_usockets_streaming_response, UsocketsStreamWriter).
THEOREM StreamsWellFramed == Server!Spec => []StreamFramed
<1>1. VInv => StreamFramed
  BY DEF VInv, StreamFramed
<1>2. QED
  BY <1>1, VInit, VNext, PTL DEF Server!Spec

-----------------------------------------------------------------------------
(* The sockets created, bound and closed by any number of threads, on any  *)
(* number of descriptors, ports and paths.  The invariant SInv relates the *)
(* calls under way to the descriptors: a descriptor a call has not handed  *)
(* on is its own, every open descriptor is handed out or of one call, and  *)
(* the address lists not yet freed are those of the calls that hold one.   *)

\* A socket has its fields, whatever its family, its port and its path are.
SocketShape(s) ==
    s \in [family : {s.family}, type : {"stream", "dgram"}, nonblocking : BOOLEAN,
           nosigpipe : BOOLEAN, reuseport : BOOLEAN, reuseaddr : BOOLEAN,
           exclusiveuse : BOOLEAN, v6only : BOOLEAN, exclusive : BOOLEAN,
           port : {s.port}, path : {s.path}, listening : BOOLEAN]

CreatingFunctions == {"none", "listen", "udp", "connect", "listen_unix", "connect_unix"}

\* A call has its fields, and its descriptor exactly in the steps behind socket().
CallShape(c) ==
    /\ c \in [fn : CreatingFunctions, pc : {"idle", "socket", "bind", "listen", "connect"},
              port : {c.port}, exclusive : BOOLEAN, source : BOOLEAN, path : {c.path},
              todo : {c.todo}, fd : Fds \cup {None}]
    /\ c.pc = "idle" <=> c.fn = "none"
    /\ c.fd # None <=> c.pc \in {"bind", "listen", "connect"}
    /\ c.port # None => c.fn \in {"listen", "udp"}
    /\ c.path # None => c.fn = "listen_unix"
    /\ c.pc = "bind" => c.fn \in {"listen", "udp", "listen_unix"}
    /\ c.pc = "listen" => c.fn \in {"listen", "listen_unix"}

\* What the options of a socket say about an exclusive one.
OptionsAgree(s) ==
    /\ s.exclusive => IF platform = "windows" THEN s.exclusiveuse /\ ~s.reuseaddr ELSE ~s.reuseport
    /\ s.port # None => ~s.v6only
    /\ s.listening => s.type = "stream"

\* The socket of a call that is still working on it.
InTheMaking(c, s) ==
    /\ ~s.listening
    /\ c.fn # "udp" => s.type = "stream"
    /\ c.fn \in {"listen", "udp"} => ~s.v6only

Shapes ==
    /\ platform \in Platforms
    /\ held \subseteq Fds
    /\ Open \subseteq Fds
    /\ DOMAIN call = Threads
    /\ \A th \in Threads : CallShape(call[th])
    /\ \A f \in Open : SocketShape(fds[f])

\* Descriptors: NothingLeaks without the count.
Descriptors ==
    /\ held \subseteq Open
    /\ \A th \in Threads : call[th].fd # None => call[th].fd \in Open \ held
    /\ \A f \in Open \ held : \E th \in Threads : call[th].fd = f
    /\ \A a, b \in Threads : a # b /\ call[a].fd # None => call[a].fd # call[b].fd

Counted == {th \in Threads : UsesInfo(call[th].fn)}

Count == infos = Cardinality(Counted)

\* Two stream sockets that use one port: already when they are bound, but on
\* Linux only when both listen.
Clash(s, o) ==
    /\ s.type = "stream" /\ o.type = "stream"
    /\ s.port # None /\ s.port = o.port
    /\ platform # "linux" \/ (s.listening /\ o.listening)

PortRules ==
    /\ \A f \in Open : OptionsAgree(fds[f])
    /\ \A th \in Threads : call[th].fd # None => InTheMaking(call[th], fds[call[th].fd])
    /\ \A a, b \in Open : a # b /\ Clash(fds[a], fds[b]) => ~fds[a].exclusive /\ ~fds[b].exclusive

SInv == Shapes /\ Descriptors /\ Count /\ PortRules

\* No descriptor is open at first.
LEMMA SInit == Init => SInv
<1> SUFFICES ASSUME Init PROVE SInv
  OBVIOUS
<1>1. CallShape(NoCall) /\ NoCall.fd = None /\ NoCall.fn = "none"
  BY NoneIsNoFd DEF CallShape, NoCall, CreatingFunctions
<1>2. Open = {}
  BY DEF Open, Init
<1>3. \A th \in Threads : call[th] = NoCall
  BY DEF Init
<1>4. Shapes
  BY <1>1, <1>2, <1>3 DEF Shapes, Init
<1>5. Counted = {}
  BY <1>1, <1>3 DEF Counted, UsesInfo
<1>6. Count
  BY <1>5, FS_EmptySet DEF Count, Init
<1>7. Descriptors /\ PortRules
  BY <1>1, <1>2, <1>3 DEF Descriptors, PortRules, Init
<1>8. QED
  BY <1>4, <1>6, <1>7 DEF SInv

\* The count of the calls that keep a result of getaddrinfo.
LEMMA CountFollows ==
    ASSUME SInv, NEW th \in Threads, NEW c, call' = [call EXCEPT ![th] = c],
           infos' = IF UsesInfo(c.fn) /\ ~UsesInfo(call[th].fn) THEN infos + 1
                    ELSE IF ~UsesInfo(c.fn) /\ UsesInfo(call[th].fn) THEN infos - 1
                    ELSE infos
    PROVE  Count'
<1>1. /\ DOMAIN call = Threads
      /\ infos = Cardinality(Counted)
      /\ Counted \subseteq Threads
  BY DEF SInv, Shapes, Count, Counted
<1>2. \A t \in Threads : call'[t] = IF t = th THEN c ELSE call[t]
  BY <1>1
<1>3. IsFiniteSet(Counted)
  BY <1>1, ThreadsFinite, FS_Subset
<1>4. Cardinality(Counted) \in Nat
  BY <1>3, FS_CardinalityType
<1>5. CASE UsesInfo(c.fn)
  <2>1. Counted' = Counted \cup {th}
    BY <1>2, <1>5 DEF Counted
  <2>2. th \in Counted <=> UsesInfo(call[th].fn)
    BY DEF Counted
  <2>3. Cardinality(Counted') = IF th \in Counted THEN Cardinality(Counted) ELSE Cardinality(Counted) + 1
    BY <1>3, <2>1, FS_AddElement
  <2>4. QED
    BY <1>1, <1>5, <2>2, <2>3 DEF Count
<1>6. CASE ~UsesInfo(c.fn)
  <2>1. Counted' = Counted \ {th}
    BY <1>2, <1>6 DEF Counted
  <2>2. th \in Counted <=> UsesInfo(call[th].fn)
    BY DEF Counted
  <2>3. Cardinality(Counted') = IF th \in Counted THEN Cardinality(Counted) - 1 ELSE Cardinality(Counted)
    BY <1>3, <2>1, FS_RemoveElement
  <2>4. QED
    BY <1>1, <1>6, <2>2, <2>3 DEF Count
<1>7. QED
  BY <1>5, <1>6

\* A socket is opened or changed: the rules hold if they hold for the new one.
LEMMA FdsGain ==
    ASSUME SInv, NEW fd \in Fds, NEW s, SocketShape(s), OptionsAgree(s),
           fds' = FdsWith(fd, s), platform' = platform,
           \A o \in Open \ {fd} : Clash(s, fds[o]) => ~s.exclusive /\ ~fds[o].exclusive
    PROVE  /\ Open' = Open \cup {fd} /\ Open' \subseteq Fds
           /\ fds'[fd] = s /\ \A f \in Open \ {fd} : fds'[f] = fds[f]
           /\ \A f \in Open' : SocketShape(fds'[f]) /\ OptionsAgree(fds[f])'
           /\ (\A a, b \in Open : a # b /\ Clash(fds[a], fds[b]) => ~fds[a].exclusive /\ ~fds[b].exclusive)'
<1>1. /\ Open \subseteq Fds
      /\ \A f \in Open : SocketShape(fds[f]) /\ OptionsAgree(fds[f])
      /\ \A a, b \in Open : a # b /\ Clash(fds[a], fds[b]) => ~fds[a].exclusive /\ ~fds[b].exclusive
  BY DEF SInv, Shapes, PortRules
<1>2. /\ Open' = Open \cup {fd}
      /\ fds'[fd] = s
      /\ \A f \in Open \ {fd} : fds'[f] = fds[f]
  BY DEF FdsWith, Open
<1>3. \A f \in Open' : SocketShape(fds'[f]) /\ OptionsAgree(fds[f])'
  BY <1>1, <1>2 DEF OptionsAgree
<1>4. ASSUME NEW a \in Open', NEW b \in Open', a # b, Clash(fds[a], fds[b])'
      PROVE  ~fds'[a].exclusive /\ ~fds'[b].exclusive
  <2>1. CASE a = fd
    BY <1>2, <1>4, <2>1 DEF Clash
  <2>2. CASE b = fd
    BY <1>2, <1>4, <2>2 DEF Clash
  <2>3. CASE a # fd /\ b # fd
    BY <1>1, <1>2, <1>4, <2>3 DEF Clash
  <2>4. QED
    BY <2>1, <2>2, <2>3
<1>5. QED
  BY <1>1, <1>2, <1>3, <1>4

\* A socket is closed: what holds for all holds for the others.
LEMMA FdsLose ==
    ASSUME SInv, NEW fd \in Open, fds' = FdsWithout(fd), platform' = platform
    PROVE  /\ Open' = Open \ {fd} /\ Open' \subseteq Fds
           /\ \A f \in Open \ {fd} : fds'[f] = fds[f]
           /\ \A f \in Open' : SocketShape(fds'[f]) /\ OptionsAgree(fds[f])'
           /\ (\A a, b \in Open : a # b /\ Clash(fds[a], fds[b]) => ~fds[a].exclusive /\ ~fds[b].exclusive)'
<1>1. /\ Open \subseteq Fds
      /\ \A f \in Open : SocketShape(fds[f]) /\ OptionsAgree(fds[f])
      /\ \A a, b \in Open : a # b /\ Clash(fds[a], fds[b]) => ~fds[a].exclusive /\ ~fds[b].exclusive
  BY DEF SInv, Shapes, PortRules
<1>2. /\ Open' = Open \ {fd}
      /\ \A f \in Open \ {fd} : fds'[f] = fds[f]
  BY DEF FdsWithout, Open
<1>3. \A f \in Open' : SocketShape(fds'[f]) /\ OptionsAgree(fds[f])'
  BY <1>1, <1>2 DEF OptionsAgree
<1>4. (\A a, b \in Open : a # b /\ Clash(fds[a], fds[b]) => ~fds[a].exclusive /\ ~fds[b].exclusive)'
  BY <1>1, <1>2 DEF Clash
<1>5. QED
  BY <1>1, <1>2, <1>3, <1>4

\* A call moves on without touching a descriptor.
LEMMA CallMoves ==
    ASSUME SInv, NEW th \in Threads, NEW c, CallShape(c), call[th].fd = None, c.fd = None,
           call' = [call EXCEPT ![th] = c], Count', UNCHANGED <<platform, fds, held>>
    PROVE  SInv'
<1>1. /\ DOMAIN call' = Threads
      /\ call'[th] = c
      /\ \A t \in Threads \ {th} : call'[t] = call[t]
  BY DEF SInv, Shapes
<1>2. Open' = Open
  BY DEF Open
<1>3. \A t \in Threads : call'[t].fd = call[t].fd
  BY <1>1
<1>4. Shapes'
  BY <1>1, <1>2 DEF SInv, Shapes
<1>5. Descriptors'
  BY <1>2, <1>3 DEF SInv, Descriptors
<1>6. PortRules'
  BY <1>1, <1>2 DEF SInv, PortRules, OptionsAgree, Clash
<1>7. QED
  BY <1>4, <1>5, <1>6 DEF SInv

\* A creating function begins.
LEMMA BeginKeeps ==
    ASSUME SInv, NEW th \in Threads, NEW c, CallShape([c EXCEPT !.pc = "socket"]), c.fd = None,
           c = [fn |-> c.fn, pc |-> c.pc, port |-> c.port, exclusive |-> c.exclusive,
                source |-> c.source, path |-> c.path, todo |-> c.todo, fd |-> c.fd],
           Begin(th, c)
    PROVE  SInv'
<1> DEFINE d == [c EXCEPT !.pc = "socket"]
<1>1. d.fn = c.fn /\ d.fd = None
  OBVIOUS
<1>2. CallShape(call[th]) /\ call[th].pc = "idle"
  BY DEF SInv, Shapes, Begin
<1>3. call[th].fd = None /\ ~UsesInfo(call[th].fn)
  BY <1>2 DEF CallShape, UsesInfo
<1>4. /\ call' = [call EXCEPT ![th] = d]
      /\ infos' = IF UsesInfo(d.fn) THEN infos + 1 ELSE infos
      /\ UNCHANGED <<platform, fds, held>>
  BY <1>1 DEF Begin
<1> HIDE DEF d
<1>5. Count'
  BY <1>3, <1>4, CountFollows
<1>6. CallShape(d)
  BY DEF d
<1>7. QED
  BY <1>1, <1>3, <1>4, <1>5, <1>6, CallMoves

\* Each creating function begins as a call of its own shape.
LEMMA CreateKeeps ==
    ASSUME SInv, NEW th \in Threads,
           \/ \E port \in Ports \cup {None} :
                \/ \E options \in Asked : bsd_create_listen_socket(th, port, options)
                \/ bsd_create_udp_socket(th, port)
           \/ \E b \in BOOLEAN : bsd_create_connect_socket(th, b)
           \/ \E p \in Paths : bsd_create_listen_socket_unix(th, p)
           \/ bsd_create_connect_socket_unix(th)
    PROVE  SInv'
<1>1. ASSUME NEW port, NEW options, bsd_create_listen_socket(th, port, options)
      PROVE  SInv'
  <2>0. PICK x \in BOOLEAN : x = (options = "LIBUS_LISTEN_EXCLUSIVE_PORT" /\ port # None)
    OBVIOUS
  <2>1. PICK todo, c : c = [NoCall EXCEPT !.fn = "listen", !.port = port, !.exclusive = x, !.todo = todo] /\ Begin(th, c)
    BY <1>1, <2>0 DEF bsd_create_listen_socket
  <2>2. c = [fn |-> "listen", pc |-> "idle", port |-> port, exclusive |-> x,
             source |-> FALSE, path |-> None, todo |-> todo, fd |-> None]
    BY <2>1 DEF NoCall
  <2>3. CallShape([c EXCEPT !.pc = "socket"])
    BY <2>2 DEF CallShape, CreatingFunctions
  <2> QED
    BY <2>1, <2>2, <2>3, BeginKeeps
<1>2. ASSUME NEW port, bsd_create_udp_socket(th, port)
      PROVE  SInv'
  <2>1. PICK todo, c : c = [NoCall EXCEPT !.fn = "udp", !.port = port, !.todo = todo] /\ Begin(th, c)
    BY <1>2 DEF bsd_create_udp_socket
  <2>2. c = [fn |-> "udp", pc |-> "idle", port |-> port, exclusive |-> FALSE,
             source |-> FALSE, path |-> None, todo |-> todo, fd |-> None]
    BY <2>1 DEF NoCall
  <2>3. CallShape([c EXCEPT !.pc = "socket"])
    BY <2>2 DEF CallShape, CreatingFunctions
  <2> QED
    BY <2>1, <2>2, <2>3, BeginKeeps
<1>3. ASSUME NEW b \in BOOLEAN, bsd_create_connect_socket(th, b)
      PROVE  SInv'
  <2>1. PICK todo, c : c = [NoCall EXCEPT !.fn = "connect", !.source = b, !.todo = todo] /\ Begin(th, c)
    BY <1>3 DEF bsd_create_connect_socket
  <2>2. c = [fn |-> "connect", pc |-> "idle", port |-> None, exclusive |-> FALSE,
             source |-> b, path |-> None, todo |-> todo, fd |-> None]
    BY <2>1 DEF NoCall
  <2>3. CallShape([c EXCEPT !.pc = "socket"])
    BY <2>2 DEF CallShape, CreatingFunctions
  <2> QED
    BY <2>1, <2>2, <2>3, BeginKeeps
<1>4. ASSUME NEW p, bsd_create_listen_socket_unix(th, p)
      PROVE  SInv'
  <2>1. PICK todo, c : c = [NoCall EXCEPT !.fn = "listen_unix", !.path = p, !.todo = todo] /\ Begin(th, c)
    BY <1>4 DEF bsd_create_listen_socket_unix
  <2>2. c = [fn |-> "listen_unix", pc |-> "idle", port |-> None, exclusive |-> FALSE,
             source |-> FALSE, path |-> p, todo |-> todo, fd |-> None]
    BY <2>1 DEF NoCall
  <2>3. CallShape([c EXCEPT !.pc = "socket"])
    BY <2>2 DEF CallShape, CreatingFunctions
  <2> QED
    BY <2>1, <2>2, <2>3, BeginKeeps
<1>5. ASSUME bsd_create_connect_socket_unix(th)
      PROVE  SInv'
  <2>1. PICK todo, c : c = [NoCall EXCEPT !.fn = "connect_unix", !.todo = todo] /\ Begin(th, c)
    BY <1>5 DEF bsd_create_connect_socket_unix
  <2>2. c = [fn |-> "connect_unix", pc |-> "idle", port |-> None, exclusive |-> FALSE,
             source |-> FALSE, path |-> None, todo |-> todo, fd |-> None]
    BY <2>1 DEF NoCall
  <2>3. CallShape([c EXCEPT !.pc = "socket"])
    BY <2>2 DEF CallShape, CreatingFunctions
  <2> QED
    BY <2>1, <2>2, <2>3, BeginKeeps
<1>6. QED
  BY <1>1, <1>2, <1>3, <1>4, <1>5

\* What socket() and accept() give, in every build.
LEMMA NewSocket ==
    ASSUME platform \in Platforms, NEW af, NEW type \in {"stream", "dgram"},
           NEW s, s = bsd_create_socket(af, type)
    PROVE  /\ SocketShape(s)
           /\ s.type = type /\ s.port = None /\ ~s.exclusive /\ ~s.listening
<1> DEFINE k == KernelSocket(af, type)
           n == platform = "apple"
           b == platform # "windows"
<1>1. /\ k = [family |-> af, type |-> type, nonblocking |-> platform = "linux", nosigpipe |-> FALSE,
              reuseport |-> FALSE, reuseaddr |-> FALSE, exclusiveuse |-> FALSE,
              v6only |-> af = "inet6", exclusive |-> FALSE,
              port |-> None, path |-> None, listening |-> FALSE]
  BY DEF KernelSocket
<1>2. s = [[k EXCEPT !.nosigpipe = n] EXCEPT !.nonblocking = b]
  BY DEF bsd_create_socket, bsd_set_nonblocking, apple_no_sigpipe
<1>3. n \in BOOLEAN /\ b \in BOOLEAN
  OBVIOUS
<1> HIDE DEF n, b, k
<1>4. s = [family |-> af, type |-> type, nonblocking |-> b, nosigpipe |-> n,
           reuseport |-> FALSE, reuseaddr |-> FALSE, exclusiveuse |-> FALSE,
           v6only |-> af = "inet6", exclusive |-> FALSE,
           port |-> None, path |-> None, listening |-> FALSE]
  BY <1>1, <1>2
<1>5. QED
  BY <1>3, <1>4 DEF SocketShape

\* The options agree with what the caller asked for.
LEMMA OptionsSet ==
    ASSUME platform \in Platforms, NEW s, SocketShape(s),
           s.port = None, ~s.exclusive, ~s.listening,
           NEW c, c.fn \in CreatingFunctions, c.exclusive \in BOOLEAN, c.fn # "udp" => s.type = "stream",
           NEW o, o = Options(s, c)
    PROVE  /\ SocketShape(o) /\ OptionsAgree(o) /\ InTheMaking(c, o) /\ o.port = None
<1>1. CASE c.fn = "listen"
  <2> DEFINE exclusive == c.port # None /\ c.exclusive
             win == platform = "windows"
  <2>1. PICK e1 \in BOOLEAN, e2 \in BOOLEAN, e3 \in BOOLEAN, e4 \in BOOLEAN :
          /\ e1 = (win /\ exclusive)
          /\ e2 = (~win /\ c.port # None /\ ~exclusive)
          /\ e3 = (c.port # None /\ ~(win /\ exclusive))
          /\ e4 = exclusive
    OBVIOUS
  <2>2. o = [s EXCEPT !.exclusiveuse = e1, !.reuseport = e2, !.reuseaddr = e3,
                      !.v6only = FALSE, !.exclusive = e4]
    BY <1>1, <2>1 DEF Options, ListenOptions
  <2>3. SocketShape(o)
    BY <2>2 DEF SocketShape
  <2>4. /\ o.exclusiveuse = e1 /\ o.reuseport = e2 /\ o.reuseaddr = e3 /\ o.v6only = FALSE
        /\ o.exclusive = e4 /\ o.listening = FALSE /\ o.port = None /\ o.type = "stream"
    BY <1>1, <2>2 DEF SocketShape
  <2>5. QED
    BY <2>1, <2>3, <2>4, <1>1 DEF OptionsAgree, InTheMaking
<1>2. CASE c.fn = "udp"
  <2>1. PICK e \in BOOLEAN : e = (c.port # None)
    OBVIOUS
  <2>2. o = [s EXCEPT !.reuseaddr = e, !.v6only = FALSE]
    BY <1>2, <2>1 DEF Options, UdpOptions
  <2>3. SocketShape(o) /\ o.exclusive = s.exclusive /\ o.listening = s.listening /\ o.port = None /\ o.v6only = FALSE
    BY <2>2 DEF SocketShape
  <2>4. QED
    BY <2>3, <1>2 DEF OptionsAgree, InTheMaking
<1>3. CASE c.fn \notin {"listen", "udp"}
  <2>1. o = s
    BY <1>3 DEF Options
  <2>2. QED
    BY <2>1, <1>3 DEF OptionsAgree, InTheMaking
<1>4. QED
  BY <1>1, <1>2, <1>3

\* socket() succeeds: the call has a descriptor nobody else has.
LEMMA SocketCreatedKeeps ==
    ASSUME SInv, NEW th \in Threads, SocketCreated(th)
    PROVE  SInv'
<1> DEFINE c == call[th]
<1>0. /\ CallShape(c) /\ c.pc = "socket" /\ platform \in Platforms /\ DOMAIN call = Threads
      /\ Open \subseteq Fds /\ held \subseteq Fds
  BY DEF SInv, Shapes, SocketCreated
<1>1. PICK type \in {"stream", "dgram"} : type = IF c.fn = "udp" THEN "dgram" ELSE "stream"
  OBVIOUS
<1>2. PICK s : s = bsd_create_socket(Head(c.todo), type)
  OBVIOUS
<1>3. PICK o : o = Options(s, c)
  OBVIOUS
<1>4. PICK fd \in Fds \ Open :
        /\ fds' = FdsWith(fd, o)
        /\ call' = [call EXCEPT ![th].pc = AfterSocket(c), ![th].fd = fd, ![th].todo = <<>>]
  BY <1>1, <1>2, <1>3 DEF SocketCreated
<1>5. /\ held' = held /\ infos' = infos /\ platform' = platform
  BY DEF SocketCreated
<1>6. PICK d : d = [c EXCEPT !.pc = AfterSocket(c), !.fd = fd, !.todo = <<>>]
  OBVIOUS
<1>7. call' = [call EXCEPT ![th] = d]
  BY <1>0, <1>4, <1>6
<1>8. /\ c.fd = None /\ c.fn # "none" /\ c.fn \in CreatingFunctions /\ c.exclusive \in BOOLEAN
  BY <1>0 DEF CallShape
<1>9. /\ CallShape(d) /\ d.fd = fd /\ d.fn = c.fn
  BY <1>0, <1>4, <1>6, <1>8, NoneIsNoFd DEF CallShape, AfterSocket, CreatingFunctions
<1>10. /\ SocketShape(s) /\ s.type = type /\ s.port = None /\ ~s.exclusive /\ ~s.listening
  BY <1>0, <1>2, NewSocket
<1>11. /\ SocketShape(o) /\ OptionsAgree(o) /\ InTheMaking(c, o) /\ o.port = None
  <2>1. c.fn # "udp" => s.type = "stream"
    BY <1>1, <1>10
  <2>2. QED
    BY <1>0, <1>3, <1>8, <1>10, <2>1, OptionsSet
<1> HIDE DEF c
<1>12. /\ Open' = Open \cup {fd} /\ Open' \subseteq Fds
       /\ fds'[fd] = o /\ \A f \in Open \ {fd} : fds'[f] = fds[f]
       /\ \A f \in Open' : SocketShape(fds'[f]) /\ OptionsAgree(fds[f])'
       /\ (\A a, b \in Open : a # b /\ Clash(fds[a], fds[b]) => ~fds[a].exclusive /\ ~fds[b].exclusive)'
  <2>1. \A x \in Open \ {fd} : ~Clash(o, fds[x])
    BY <1>11 DEF Clash
  <2>2. QED
    BY <1>4, <1>5, <1>11, <2>1, FdsGain
<1>13. /\ DOMAIN call' = Threads /\ call'[th] = d
       /\ \A t \in Threads \ {th} : call'[t] = call[t]
  BY <1>0, <1>7
<1>14. Shapes'
  BY <1>0, <1>5, <1>9, <1>12, <1>13 DEF SInv, Shapes
<1>15. fd # None /\ fd \notin Open
  BY NoneIsNoFd
<1>16. Descriptors'
  <2>1. /\ held \subseteq Open
        /\ \A t \in Threads : call[t].fd # None => call[t].fd \in Open \ held
        /\ \A f \in Open \ held : \E t \in Threads : call[t].fd = f
        /\ \A a, b \in Threads : a # b /\ call[a].fd # None => call[a].fd # call[b].fd
    BY DEF SInv, Descriptors
  <2>2. \A f \in Open \ held : \E t \in Threads : call'[t].fd = f
    <3> TAKE f \in Open \ held
    <3>1. PICK t \in Threads : call[t].fd = f
      BY <2>1
    <3>2. f # None
      BY <1>0, NoneIsNoFd
    <3>3. t # th
      BY <1>8, <3>1, <3>2 DEF c
    <3>4. QED
      BY <1>13, <3>1, <3>3
  <2>3. \A t \in Threads : call'[t].fd = IF t = th THEN fd ELSE call[t].fd
    BY <1>9, <1>13
  <2>4. \A f \in Open' \ held' : \E t \in Threads : call'[t].fd = f
    BY <1>5, <1>12, <2>2, <2>3
  <2>5. \A t \in Threads : call'[t].fd # None => call'[t].fd \in Open' \ held'
    <3> TAKE t \in Threads
    <3>1. CASE t = th
      BY <1>5, <1>12, <1>15, <2>1, <2>3, <3>1
    <3>2. CASE t # th
      BY <1>5, <1>12, <2>1, <2>3, <3>2
    <3>3. QED
      BY <3>1, <3>2
  <2>6. \A a, b \in Threads : a # b /\ call'[a].fd # None => call'[a].fd # call'[b].fd
    <3> TAKE a, b \in Threads
    <3>1. CASE a = th
      BY <1>15, <2>1, <2>3, <3>1
    <3>2. CASE b = th
      BY <1>15, <2>1, <2>3, <3>2
    <3>3. CASE a # th /\ b # th
      BY <2>1, <2>3, <3>3
    <3>4. QED
      BY <3>1, <3>2, <3>3
  <2>7. QED
    BY <1>5, <1>12, <2>1, <2>4, <2>5, <2>6 DEF Descriptors
<1>17. Count'
  BY <1>5, <1>7, <1>9, CountFollows DEF c
<1>18. \A t \in Threads : call'[t].fd # None => InTheMaking(call'[t], fds'[call'[t].fd])
  <2>1. InTheMaking(d, o)
    BY <1>9, <1>11 DEF InTheMaking
  <2>2. \A t \in Threads : call[t].fd # None => call[t].fd \in Open /\ InTheMaking(call[t], fds[call[t].fd])
    BY DEF SInv, Descriptors, PortRules
  <2>3. QED
    BY <1>4, <1>9, <1>12, <1>13, <2>1, <2>2
<1>19. PortRules'
  BY <1>12, <1>18 DEF PortRules, InTheMaking
<1>20. QED
  BY <1>14, <1>16, <1>17, <1>19 DEF SInv

\* The end of a call, of which NoCall is left.
LEMMA ReturnCounts ==
    ASSUME SInv, NEW th \in Threads, Return(th)
    PROVE  /\ Count' /\ DOMAIN call' = Threads
           /\ call'[th] = NoCall /\ CallShape(NoCall) /\ NoCall.fd = None
           /\ \A t \in Threads \ {th} : call'[t] = call[t]
<1>1. CallShape(NoCall) /\ NoCall.fd = None /\ ~UsesInfo(NoCall.fn)
  BY NoneIsNoFd DEF CallShape, NoCall, CreatingFunctions, UsesInfo
<1>2. /\ call' = [call EXCEPT ![th] = NoCall]
      /\ infos' = IF UsesInfo(call[th].fn) THEN infos - 1 ELSE infos
      /\ DOMAIN call = Threads
  BY DEF Return, SInv, Shapes
<1>3. Count'
  BY <1>1, <1>2, CountFollows
<1>4. QED
  BY <1>1, <1>2, <1>3

\* socket() fails: the next address, or the end.
LEMMA SocketRefusedKeeps ==
    ASSUME SInv, NEW th \in Threads, SocketRefused(th)
    PROVE  SInv'
<1>1. /\ CallShape(call[th]) /\ call[th].pc = "socket" /\ DOMAIN call = Threads
      /\ UNCHANGED <<platform, fds, held>>
  BY DEF SInv, Shapes, SocketRefused
<1>2. call[th].fd = None
  BY <1>1 DEF CallShape
<1>3. CASE Len(call[th].todo) > 1
  <2>1. PICK d : d = [call[th] EXCEPT !.todo = Tail(@)]
    OBVIOUS
  <2>2. call' = [call EXCEPT ![th] = d] /\ infos' = infos
    BY <1>1, <1>3, <2>1 DEF SocketRefused
  <2>3. CallShape(d) /\ d.fn = call[th].fn /\ d.fd = None
    BY <1>1, <1>2, <2>1 DEF CallShape
  <2>4. Count'
    BY <2>2, <2>3, CountFollows
  <2>5. QED
    BY <1>1, <1>2, <2>2, <2>3, <2>4, CallMoves
<1>4. CASE ~(Len(call[th].todo) > 1)
  <2>1. Return(th)
    BY <1>4 DEF SocketRefused
  <2>2. QED
    BY <1>1, <1>2, <2>1, ReturnCounts, CallMoves DEF Return
<1>5. QED
  BY <1>3, <1>4

\* The sockets in the making but one, when that one is no longer.
LEMMA OneReleased ==
    ASSUME SInv, NEW th \in Threads, call[th].fd # None, call'[th].fd = None,
           \A t \in Threads \ {th} : call'[t] = call[t],
           \A f \in Open \ {call[th].fd} : f \in Open' /\ fds'[f] = fds[f],
           held' \subseteq held \cup {call[th].fd}
    PROVE  /\ \A t \in Threads : call'[t].fd # None => call'[t].fd \in Open' \ held'
           /\ \A a, b \in Threads : a # b /\ call'[a].fd # None => call'[a].fd # call'[b].fd
           /\ \A t \in Threads : call'[t].fd # None => InTheMaking(call'[t], fds'[call'[t].fd])
           /\ \A f \in Open \ held : f # call[th].fd => \E t \in Threads : call'[t].fd = f
<1>1. /\ \A t \in Threads : call[t].fd # None => call[t].fd \in Open \ held
      /\ \A f \in Open \ held : \E t \in Threads : call[t].fd = f
      /\ \A a, b \in Threads : a # b /\ call[a].fd # None => call[a].fd # call[b].fd
      /\ \A t \in Threads : call[t].fd # None => InTheMaking(call[t], fds[call[t].fd])
  BY DEF SInv, Descriptors, PortRules
<1>2. \A t \in Threads : call'[t].fd # None =>
          t # th /\ call'[t] = call[t] /\ call[t].fd # None /\ call[t].fd # call[th].fd
  BY <1>1
<1>3. \A t \in Threads : call'[t].fd # None => call'[t].fd \in Open' \ held'
  BY <1>1, <1>2
<1>4. \A a, b \in Threads : a # b /\ call'[a].fd # None => call'[a].fd # call'[b].fd
  BY <1>1, <1>2
<1>5. \A t \in Threads : call'[t].fd # None => InTheMaking(call'[t], fds'[call'[t].fd])
  BY <1>1, <1>2
<1>6. \A f \in Open \ held : f # call[th].fd => \E t \in Threads : call'[t].fd = f
  <2> TAKE f \in Open \ held
  <2> HAVE f # call[th].fd
  <2>1. PICK t \in Threads : call[t].fd = f
    BY <1>1
  <2>2. QED
    BY <2>1
<1>7. QED
  BY <1>3, <1>4, <1>5, <1>6

\* A call that succeeds gives its socket to the library.
LEMMA SucceedKeeps ==
    ASSUME SInv, NEW th \in Threads, call[th].fd # None, NEW s, SocketShape(s), OptionsAgree(s),
           \A o \in Open \ {call[th].fd} : Clash(s, fds[o]) => ~s.exclusive /\ ~fds[o].exclusive,
           Succeed(th, s), platform' = platform
    PROVE  SInv'
<1>1. PICK fd : fd = call[th].fd
  OBVIOUS
<1>2. /\ CallShape(call[th]) /\ DOMAIN call = Threads /\ held \subseteq Fds /\ Open \subseteq Fds
      /\ platform \in Platforms
      /\ \A t \in Threads : CallShape(call[t])
  BY DEF SInv, Shapes
<1>3. fd \in Fds /\ fd \in Open /\ fd \notin held /\ held \subseteq Open
  BY <1>1, <1>2 DEF SInv, Descriptors, CallShape
<1>4. /\ fds' = FdsWith(fd, s) /\ held' = held \cup {fd} /\ Return(th)
  BY <1>1 DEF Succeed
<1>5. /\ Count' /\ DOMAIN call' = Threads
      /\ call'[th] = NoCall /\ CallShape(NoCall) /\ NoCall.fd = None
      /\ \A t \in Threads \ {th} : call'[t] = call[t]
  BY <1>4, ReturnCounts
<1>6. /\ Open' = Open \cup {fd} /\ Open' \subseteq Fds
      /\ fds'[fd] = s /\ \A f \in Open \ {fd} : fds'[f] = fds[f]
      /\ \A f \in Open' : SocketShape(fds'[f]) /\ OptionsAgree(fds[f])'
      /\ (\A a, b \in Open : a # b /\ Clash(fds[a], fds[b]) => ~fds[a].exclusive /\ ~fds[b].exclusive)'
  BY <1>1, <1>3, <1>4, FdsGain
<1>7. /\ \A t \in Threads : call'[t].fd # None => call'[t].fd \in Open' \ held'
      /\ \A a, b \in Threads : a # b /\ call'[a].fd # None => call'[a].fd # call'[b].fd
      /\ \A t \in Threads : call'[t].fd # None => InTheMaking(call'[t], fds'[call'[t].fd])
      /\ \A f \in Open \ held : f # fd => \E t \in Threads : call'[t].fd = f
  BY <1>1, <1>4, <1>5, <1>6, OneReleased
<1>8. Shapes'
  BY <1>2, <1>3, <1>4, <1>5, <1>6 DEF Shapes
<1>9. Descriptors'
  BY <1>3, <1>4, <1>6, <1>7 DEF Descriptors
<1>10. PortRules'
  BY <1>6, <1>7 DEF PortRules, InTheMaking
<1>11. QED
  BY <1>5, <1>8, <1>9, <1>10 DEF SInv

\* A call that fails closes its socket.
LEMMA CloseAndFailKeeps ==
    ASSUME SInv, NEW th \in Threads, call[th].fd # None, CloseAndFail(th), platform' = platform
    PROVE  SInv'
<1>1. PICK fd : fd = call[th].fd
  OBVIOUS
<1>2. /\ CallShape(call[th]) /\ DOMAIN call = Threads /\ held \subseteq Fds /\ Open \subseteq Fds
      /\ platform \in Platforms
      /\ \A t \in Threads : CallShape(call[t])
  BY DEF SInv, Shapes
<1>3. fd \in Fds /\ fd \in Open /\ fd \notin held /\ held \subseteq Open
  BY <1>1, <1>2 DEF SInv, Descriptors, CallShape
<1>4. /\ fds' = FdsWithout(fd) /\ held' = held /\ Return(th)
  BY <1>1 DEF CloseAndFail
<1>5. /\ Count' /\ DOMAIN call' = Threads
      /\ call'[th] = NoCall /\ CallShape(NoCall) /\ NoCall.fd = None
      /\ \A t \in Threads \ {th} : call'[t] = call[t]
  BY <1>4, ReturnCounts
<1>6. /\ Open' = Open \ {fd} /\ Open' \subseteq Fds
      /\ \A f \in Open \ {fd} : fds'[f] = fds[f]
      /\ \A f \in Open' : SocketShape(fds'[f]) /\ OptionsAgree(fds[f])'
      /\ (\A a, b \in Open : a # b /\ Clash(fds[a], fds[b]) => ~fds[a].exclusive /\ ~fds[b].exclusive)'
  BY <1>3, <1>4, FdsLose
<1>7. /\ \A t \in Threads : call'[t].fd # None => call'[t].fd \in Open' \ held'
      /\ \A a, b \in Threads : a # b /\ call'[a].fd # None => call'[a].fd # call'[b].fd
      /\ \A t \in Threads : call'[t].fd # None => InTheMaking(call'[t], fds'[call'[t].fd])
      /\ \A f \in Open \ held : f # fd => \E t \in Threads : call'[t].fd = f
  BY <1>1, <1>4, <1>5, <1>6, OneReleased
<1>8. Shapes'
  BY <1>2, <1>3, <1>4, <1>5, <1>6 DEF Shapes
<1>9. Descriptors'
  BY <1>3, <1>4, <1>6, <1>7 DEF Descriptors
<1>10. PortRules'
  BY <1>6, <1>7 DEF PortRules, InTheMaking
<1>11. QED
  BY <1>5, <1>8, <1>9, <1>10 DEF SInv

\* bind() only lets in a socket no exclusive one clashes with.
LEMMA BindRules ==
    ASSUME SInv, NEW th \in Threads, Bind(th), NEW s,
           s = [fds[call[th].fd] EXCEPT !.port = call[th].port, !.path = call[th].path]
    PROVE  /\ call[th].fd # None
           /\ SocketShape(s) /\ OptionsAgree(s) /\ InTheMaking(call[th], s)
           /\ \A o \in Open \ {call[th].fd} : Clash(s, fds[o]) => ~s.exclusive /\ ~fds[o].exclusive
<1> DEFINE c == call[th]
<1>1. /\ CallShape(c) /\ c.pc = "bind" /\ platform \in Platforms
  BY DEF Bind, SInv, Shapes
<1>2. c.fd # None
  BY <1>1 DEF CallShape
<1>3. PICK old : old = fds[c.fd]
  OBVIOUS
<1>4. SocketShape(old) /\ OptionsAgree(old) /\ InTheMaking(c, old)
  BY <1>2, <1>3 DEF SInv, Shapes, Descriptors, PortRules
<1>5. s = [old EXCEPT !.port = c.port, !.path = c.path]
  BY <1>3
<1>6. c.port # None => c.fn \in {"listen", "udp"} /\ c.path = None
  BY <1>1 DEF CallShape
<1>7. c.path = None => MayBind(s)
  BY DEF Bind
<1> HIDE DEF c
<1>8. /\ SocketShape(s) /\ s.port = c.port /\ s.type = old.type /\ s.v6only = old.v6only
      /\ s.exclusive = old.exclusive /\ s.exclusiveuse = old.exclusiveuse /\ s.listening = old.listening
      /\ s.reuseaddr = old.reuseaddr /\ s.reuseport = old.reuseport
  BY <1>4, <1>5 DEF SocketShape
<1>9. OptionsAgree(s) /\ InTheMaking(c, s)
  BY <1>4, <1>6, <1>8 DEF OptionsAgree, InTheMaking
<1>10. ASSUME NEW o \in Open, Clash(s, fds[o])
       PROVE  ~s.exclusive /\ ~fds[o].exclusive
  <2>1. SocketShape(fds[o]) /\ OptionsAgree(fds[o])
    BY DEF SInv, Shapes, PortRules
  <2>2. ~s.listening /\ platform # "linux"
    BY <1>9, <1>10 DEF Clash, InTheMaking
  <2>3. Overlap(s, fds[o])
    BY <1>9, <1>10, <2>1 DEF Clash, Overlap, OptionsAgree
  <2>4. MayShare(s, fds[o])
    BY <1>6, <1>7, <1>8, <1>10, <2>3 DEF MayBind, Clash
  <2>5. QED
    BY <1>1, <1>9, <2>1, <2>2, <2>4 DEF MayShare, OptionsAgree, Platforms
<1>11. QED
  BY <1>2, <1>8, <1>9, <1>10 DEF c

\* bind() succeeds: a UDP socket is ready, the others go on to listen().
LEMMA BindKeeps ==
    ASSUME SInv, NEW th \in Threads, Bind(th)
    PROVE  SInv'
<1>1. PICK s : s = [fds[call[th].fd] EXCEPT !.port = call[th].port, !.path = call[th].path]
  OBVIOUS
<1>2. /\ call[th].fd # None
      /\ SocketShape(s) /\ OptionsAgree(s) /\ InTheMaking(call[th], s)
      /\ \A o \in Open \ {call[th].fd} : Clash(s, fds[o]) => ~s.exclusive /\ ~fds[o].exclusive
  BY <1>1, BindRules
<1>3. platform' = platform
  BY DEF Bind
<1>4. CASE call[th].fn = "udp"
  BY <1>1, <1>2, <1>3, <1>4, SucceedKeeps DEF Bind
<1>5. CASE call[th].fn # "udp"
  <2>1. PICK fd : fd = call[th].fd
    OBVIOUS
  <2>2. /\ fds' = FdsWith(fd, s) /\ held' = held /\ infos' = infos
        /\ call' = [call EXCEPT ![th].pc = "listen"]
    BY <1>1, <1>5, <2>1 DEF Bind
  <2>3. PICK d : d = [call[th] EXCEPT !.pc = "listen"]
    OBVIOUS
  <2>4. /\ CallShape(call[th]) /\ DOMAIN call = Threads /\ held \subseteq Fds /\ Open \subseteq Fds
        /\ call[th].pc = "bind" /\ platform \in Platforms
    BY DEF SInv, Shapes, Bind
  <2>5. call' = [call EXCEPT ![th] = d]
    BY <2>2, <2>3, <2>4
  <2>6. fd \in Fds /\ fd \in Open /\ fd \notin held
    BY <1>2, <2>1, <2>4 DEF SInv, Descriptors, CallShape
  <2>7. d.fn = call[th].fn /\ d.fd = fd /\ CallShape(d)
    <3>1. call[th].fn \in {"listen", "listen_unix"}
      BY <1>5, <2>4 DEF CallShape
    <3>2. QED
      BY <2>1, <2>3, <2>4, <3>1 DEF CallShape, CreatingFunctions
  <2>8. Count'
    BY <2>2, <2>5, <2>7, CountFollows
  <2>9. /\ Open' = Open \cup {fd} /\ Open' \subseteq Fds
        /\ fds'[fd] = s /\ \A f \in Open \ {fd} : fds'[f] = fds[f]
        /\ \A f \in Open' : SocketShape(fds'[f]) /\ OptionsAgree(fds[f])'
        /\ (\A a, b \in Open : a # b /\ Clash(fds[a], fds[b]) => ~fds[a].exclusive /\ ~fds[b].exclusive)'
    BY <1>2, <1>3, <2>1, <2>2, <2>6, FdsGain
  <2>10. /\ DOMAIN call' = Threads /\ call'[th] = d
         /\ \A t \in Threads \ {th} : call'[t] = call[t]
         /\ \A t \in Threads : call'[t].fd = call[t].fd
    BY <2>1, <2>4, <2>5, <2>7
  <2>11. Shapes'
    BY <1>3, <2>2, <2>4, <2>7, <2>9, <2>10 DEF SInv, Shapes
  <2>12. Open' = Open
    BY <2>6, <2>9
  <2>13. Descriptors'
    BY <2>2, <2>10, <2>12 DEF SInv, Descriptors
  <2>14. InTheMaking(d, s)
    BY <1>2, <2>7 DEF InTheMaking
  <2>15. \A t \in Threads : call'[t].fd # None => InTheMaking(call'[t], fds'[call'[t].fd])
    <3>1. \A t \in Threads \ {th} : call[t].fd # None =>
              /\ call[t].fd # fd /\ call[t].fd \in Open /\ InTheMaking(call[t], fds[call[t].fd])
      BY <2>1 DEF SInv, Descriptors, PortRules
    <3>2. QED
      BY <2>7, <2>9, <2>10, <2>14, <3>1
  <2>16. PortRules'
    BY <2>9, <2>15 DEF PortRules, InTheMaking
  <2>17. QED
    BY <2>8, <2>11, <2>13, <2>16 DEF SInv
<1>6. QED
  BY <1>4, <1>5

\* listen() on Linux only lets in a socket no listening exclusive one clashes with.
LEMMA ListenKeeps ==
    ASSUME SInv, NEW th \in Threads, Listen(th)
    PROVE  SInv'
<1>1. PICK fd : fd = call[th].fd
  OBVIOUS
<1>2. CallShape(call[th]) /\ call[th].pc = "listen" /\ platform \in Platforms
  BY DEF SInv, Shapes, Listen
<1>3. fd # None /\ call[th].fn # "udp"
  BY <1>1, <1>2 DEF CallShape
<1>4. PICK old, s : old = fds[fd] /\ s = [old EXCEPT !.listening = TRUE]
  OBVIOUS
<1>5. /\ fd \in Open /\ SocketShape(old) /\ OptionsAgree(old) /\ InTheMaking(call[th], old)
  BY <1>1, <1>3, <1>4 DEF SInv, Shapes, Descriptors, PortRules
<1>6. /\ SocketShape(s) /\ s.listening = TRUE
      /\ s.port = old.port /\ s.type = old.type /\ s.v6only = old.v6only
      /\ s.exclusive = old.exclusive /\ s.exclusiveuse = old.exclusiveuse
      /\ s.reuseaddr = old.reuseaddr /\ s.reuseport = old.reuseport
  BY <1>4, <1>5 DEF SocketShape
<1>7. OptionsAgree(s)
  BY <1>3, <1>5, <1>6 DEF OptionsAgree, InTheMaking
<1>8. ASSUME NEW o \in Open \ {fd}, Clash(s, fds[o])
      PROVE  ~s.exclusive /\ ~fds[o].exclusive
  <2>1. SocketShape(fds[o]) /\ OptionsAgree(fds[o])
    BY DEF SInv, Shapes, PortRules
  <2>2. CASE platform # "linux"
    <3>1. Clash(old, fds[o])
      BY <1>6, <1>8, <2>2 DEF Clash
    <3>2. QED
      BY <1>4, <1>5, <1>6, <1>8, <3>1 DEF SInv, PortRules
  <2>3. CASE platform = "linux"
    <3>1. Overlap(old, fds[o]) /\ fds[o].listening
      BY <1>5, <1>6, <1>8, <2>1, <2>3 DEF Clash, Overlap, OptionsAgree
    <3>2. old.reuseport /\ fds[o].reuseport
      BY <1>1, <1>4, <1>8, <2>3, <3>1 DEF Listen, MayListen
    <3>3. QED
      BY <1>5, <1>6, <2>1, <2>3, <3>2 DEF OptionsAgree
  <2>4. QED
    BY <2>2, <2>3
<1>9. Succeed(th, s) /\ platform' = platform
  BY <1>1, <1>4 DEF Listen
<1>10. QED
  BY <1>1, <1>3, <1>6, <1>7, <1>8, <1>9, SucceedKeeps

\* connect() never fails the call.
LEMMA ConnectKeeps ==
    ASSUME SInv, NEW th \in Threads, Connect(th)
    PROVE  SInv'
<1>1. PICK fd, s : fd = call[th].fd /\ s = fds[fd]
  OBVIOUS
<1>2. CallShape(call[th]) /\ call[th].pc = "connect"
  BY DEF SInv, Shapes, Connect
<1>3. fd # None
  BY <1>1, <1>2 DEF CallShape
<1>4. /\ fd \in Open /\ SocketShape(s) /\ OptionsAgree(s)
      /\ \A o \in Open \ {fd} : Clash(s, fds[o]) => ~s.exclusive /\ ~fds[o].exclusive
  BY <1>1, <1>3 DEF SInv, Shapes, Descriptors, PortRules
<1>5. Succeed(th, s) /\ platform' = platform
  BY <1>1 DEF Connect
<1>6. QED
  BY <1>1, <1>3, <1>4, <1>5, SucceedKeeps

\* The failing exits of the creating functions.
LEMMA FailuresKeep ==
    ASSUME SInv, NEW th \in Threads, BindFailed(th) \/ ListenFailed(th) \/ SourceRefused(th)
    PROVE  SInv'
<1>1. CloseAndFail(th) /\ platform' = platform /\ call[th].pc \in {"bind", "listen", "connect"}
  BY DEF BindFailed, ListenFailed, SourceRefused
<1>2. call[th].fd # None
  BY <1>1 DEF SInv, Shapes, CallShape
<1>3. QED
  BY <1>1, <1>2, CloseAndFailKeeps

\* An accepted socket has no port of its own.
LEMMA AcceptKeeps ==
    ASSUME SInv, NEW fd \in held, bsd_accept_socket(fd)
    PROVE  SInv'
<1>1. /\ platform \in Platforms /\ held \subseteq Fds /\ Open \subseteq Fds /\ held \subseteq Open
      /\ UNCHANGED <<platform, infos, call>>
  BY DEF SInv, Shapes, Descriptors, bsd_accept_socket
<1>2. PICK s : s = bsd_create_socket(fds[fd].family, "stream")
  OBVIOUS
<1>3. PICK new \in Fds \ Open : fds' = FdsWith(new, s) /\ held' = held \cup {new}
  BY <1>2 DEF bsd_accept_socket, bsd_create_socket
<1>4. /\ SocketShape(s) /\ s.type = "stream" /\ s.port = None /\ ~s.exclusive /\ ~s.listening
  BY <1>1, <1>2, NewSocket
<1>5. OptionsAgree(s) /\ \A o \in Open \ {new} : ~Clash(s, fds[o])
  BY <1>4 DEF OptionsAgree, Clash
<1>6. /\ Open' = Open \cup {new} /\ Open' \subseteq Fds
      /\ fds'[new] = s /\ \A f \in Open \ {new} : fds'[f] = fds[f]
      /\ \A f \in Open' : SocketShape(fds'[f]) /\ OptionsAgree(fds[f])'
      /\ (\A a, b \in Open : a # b /\ Clash(fds[a], fds[b]) => ~fds[a].exclusive /\ ~fds[b].exclusive)'
  BY <1>1, <1>3, <1>4, <1>5, FdsGain
<1>7. Shapes'
  BY <1>1, <1>3, <1>6 DEF SInv, Shapes
<1>8. Descriptors'
  BY <1>1, <1>3, <1>6 DEF SInv, Descriptors
<1>9. Count'
  BY <1>1 DEF SInv, Count, Counted
<1>10. \A t \in Threads : call'[t].fd # None => InTheMaking(call'[t], fds'[call'[t].fd])
  BY <1>1, <1>3, <1>6 DEF SInv, Descriptors, PortRules
<1>11. PortRules'
  BY <1>6, <1>10 DEF PortRules, InTheMaking
<1>12. QED
  BY <1>7, <1>8, <1>9, <1>11 DEF SInv

\* The library closes a socket it holds.
LEMMA CloseKeeps ==
    ASSUME SInv, NEW fd \in held, bsd_close_socket(fd)
    PROVE  SInv'
<1>1. /\ platform \in Platforms /\ held \subseteq Fds /\ Open \subseteq Fds /\ fd \in Open
      /\ held \subseteq Open
      /\ UNCHANGED <<platform, infos, call>> /\ fds' = FdsWithout(fd) /\ held' = held \ {fd}
  BY DEF SInv, Shapes, Descriptors, bsd_close_socket
<1>2. /\ Open' = Open \ {fd} /\ Open' \subseteq Fds
      /\ \A f \in Open \ {fd} : fds'[f] = fds[f]
      /\ \A f \in Open' : SocketShape(fds'[f]) /\ OptionsAgree(fds[f])'
      /\ (\A a, b \in Open : a # b /\ Clash(fds[a], fds[b]) => ~fds[a].exclusive /\ ~fds[b].exclusive)'
  BY <1>1, FdsLose
<1>3. Shapes'
  BY <1>1, <1>2 DEF SInv, Shapes
<1>4. Descriptors'
  BY <1>1, <1>2 DEF SInv, Descriptors
<1>5. Count'
  BY <1>1 DEF SInv, Count, Counted
<1>6. \A t \in Threads : call'[t].fd # None => InTheMaking(call'[t], fds'[call'[t].fd])
  BY <1>1, <1>2 DEF SInv, Descriptors, PortRules
<1>7. PortRules'
  BY <1>2, <1>6 DEF PortRules, InTheMaking
<1>8. QED
  BY <1>3, <1>4, <1>5, <1>7 DEF SInv

\* Nothing but the paths changes.
LEMMA SameKeeps == SInv /\ UNCHANGED vars => SInv'
<1> SUFFICES ASSUME SInv, UNCHANGED vars PROVE SInv'
  OBVIOUS
<1>1. UNCHANGED <<platform, fds, held, infos, call>> /\ Open' = Open
  BY DEF vars, Open
<1>2. Shapes' /\ Descriptors'
  BY <1>1 DEF SInv, Shapes, Descriptors
<1>3. Count'
  BY <1>1 DEF SInv, Count, Counted
<1>4. PortRules'
  BY <1>1 DEF SInv, PortRules, OptionsAgree, InTheMaking, Clash
<1>5. QED
  BY <1>2, <1>3, <1>4 DEF SInv

\* Every step preserves the invariant of the sockets.
LEMMA SNext == SInv /\ [Next]_vars => SInv'
<1> SUFFICES ASSUME SInv, [Next]_vars PROVE SInv'
  OBVIOUS
<1>1. ASSUME NEW th \in Threads, Step(th) PROVE SInv'
  BY <1>1, CreateKeeps, SocketCreatedKeeps, SocketRefusedKeeps, BindKeeps, ListenKeeps,
     ConnectKeeps, FailuresKeep DEF Step
<1>2. ASSUME NEW fd \in held, bsd_accept_socket(fd) \/ bsd_close_socket(fd) PROVE SInv'
  BY <1>2, AcceptKeeps, CloseKeeps
<1>3. QED
  BY <1>1, <1>2, SameKeeps DEF Next

\* What is open was given to the library or is the socket of one call.
LEMMA SInvLeaks == SInv => NothingLeaks
<1> SUFFICES ASSUME SInv PROVE NothingLeaks
  OBVIOUS
<1> DEFINE busy == {th \in Threads : call[th].fd # None}
<1>1. /\ Open \subseteq Fds /\ held \subseteq Open
      /\ \A th \in Threads : call[th].fd # None => call[th].fd \in Open \ held
      /\ \A f \in Open \ held : \E th \in Threads : call[th].fd = f
      /\ \A a, b \in Threads : a # b /\ call[a].fd # None => call[a].fd # call[b].fd
  BY DEF SInv, Shapes, Descriptors
<1>2. \A f \in Open \ held : \E th \in busy : call[th].fd = f
  BY <1>1, NoneIsNoFd
<1>3. Open = held \cup {call[th].fd : th \in busy}
  BY <1>1, <1>2
<1>4. infos = Cardinality({th \in Threads : UsesInfo(call[th].fn)})
  BY DEF SInv, Count, Counted
<1>5. QED
  BY <1>1, <1>3, <1>4 DEF NothingLeaks

\* No descriptor and no result of getaddrinfo leaks, for any threads and any
\* descriptors, whichever system call of a creating function fails and however
\* the calls of the threads interleave (bsd_create_listen_socket and its
\* relatives, bsd_accept_socket, bsd_close_socket).
THEOREM SocketsNeverLeak == Spec => []NothingLeaks
<1>1. QED
  BY SInit, SNext, SInvLeaks, PTL DEF Spec

\* Of two listeners on one port neither is exclusive, on every platform, for
\* any threads and ports, and whatever families getaddrinfo answers
\* (bsd_create_listen_socket).
THEOREM ExclusivePorts == Spec => []PortExclusive
<1>1. SInv => PortExclusive
  BY DEF SInv, PortRules, PortExclusive, OptionsAgree, Clash
<1>2. QED
  BY <1>1, SInit, SNext, PTL DEF Spec

\* A call changes no socket but its own.
LEMMA HeldKept ==
    ASSUME SInv, [Next]_vars, NEW fd \in held \cap held'
    PROVE  fd \in DOMAIN fds' /\ fds'[fd] = fds[fd]
<1>1. fd \in Open
  BY DEF SInv, Descriptors
<1>2. ASSUME NEW f, NEW s, f # fd, fds' = FdsWith(f, s)
      PROVE  fd \in DOMAIN fds' /\ fds'[fd] = fds[fd]
  BY <1>1, <1>2 DEF FdsWith
<1>3. ASSUME NEW f, f # fd, fds' = FdsWithout(f)
      PROVE  fd \in DOMAIN fds' /\ fds'[fd] = fds[fd]
  BY <1>1, <1>3 DEF FdsWithout
<1>4. CASE fds' = fds
  BY <1>1, <1>4 DEF Open
<1>5. ASSUME NEW th \in Threads, Step(th)
      PROVE  fd \in DOMAIN fds' /\ fds'[fd] = fds[fd]
  <2>1. /\ call[th].pc \in {"bind", "listen", "connect"} => call[th].fd # fd
    BY DEF SInv, Shapes, CallShape, Descriptors
  <2>2. CASE SocketCreated(th)
    BY <1>1, <1>2, <2>2 DEF SocketCreated
  <2>3. CASE Bind(th)
    BY <1>2, <2>1, <2>3 DEF Bind, Succeed
  <2>4. CASE Listen(th)
    BY <1>2, <2>1, <2>4 DEF Listen, Succeed
  <2>5. CASE Connect(th)
    BY <1>2, <2>1, <2>5 DEF Connect, Succeed
  <2>6. CASE BindFailed(th) \/ ListenFailed(th) \/ SourceRefused(th)
    BY <1>3, <2>1, <2>6 DEF BindFailed, ListenFailed, SourceRefused, CloseAndFail
  <2>7. CASE SocketRefused(th)
    BY <1>4, <2>7 DEF SocketRefused
  <2>8. ASSUME NEW c, Begin(th, c)
        PROVE  fds' = fds
    BY <2>8 DEF Begin
  <2>9. QED
    BY <1>4, <1>5, <2>2, <2>3, <2>4, <2>5, <2>6, <2>7, <2>8 DEF Step, bsd_create_listen_socket,
       bsd_create_udp_socket, bsd_create_connect_socket, bsd_create_listen_socket_unix,
       bsd_create_connect_socket_unix
<1>6. ASSUME NEW f \in held, bsd_accept_socket(f)
      PROVE  fd \in DOMAIN fds' /\ fds'[fd] = fds[fd]
  BY <1>1, <1>2, <1>6 DEF bsd_accept_socket
<1>7. ASSUME NEW f \in held, bsd_close_socket(f)
      PROVE  fd \in DOMAIN fds' /\ fds'[fd] = fds[fd]
  BY <1>3, <1>7 DEF bsd_close_socket
<1>8. QED
  BY <1>4, <1>5, <1>6, <1>7 DEF Next, vars

\* A descriptor the library holds stays the socket it was until the library
\* closes it, whatever other threads create, fail and close at the same time
\* (bsd_close_socket, the error paths of the creating functions).
THEOREM HeldSockets == Spec => HeldSurvives
<1>1. SInv /\ [Next]_vars
        => [\A fd \in held \cap held' : fd \in DOMAIN fds' /\ fds'[fd] = fds[fd]]_vars
  BY HeldKept
<1>2. QED
  BY <1>1, SInit, SNext, PTL DEF Spec, HeldSurvives
=============================================================================
