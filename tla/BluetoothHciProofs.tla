-------------------------- MODULE BluetoothHciProofs --------------------------
(***************************************************************************)
(* Proofs about HciFraming, for every stream of packets, every way to cut it *)
(* into reads and every replacement of the reader; and about BluetoothHci, *)
(* for every set of clients and every interleaving of their calls, deaths and *)
(* reads.                                                                  *)
(***************************************************************************)
EXTENDS BluetoothHci, SequenceTheorems, TLAPS

-------------------------------------------------------------------------------
(* The framing.                                                            *)

(* Where the reader stands while nothing has put it out of step: between two *)
(* packets, in a header, or in a payload, of which packet_ holds what came.  *)
Between ==
  /\ hciType = UNKNOWN /\ ~ inPayload /\ remaining = 0
  /\ at = Start[Current]

InHeader ==
  /\ Current <= N /\ hciType = Kind[Current] /\ ~ inPayload
  /\ remaining # 0 => packet = Bytes(Start[Current] + 1, at)
  /\ \/ remaining = 0 /\ at = Start[Current] + 1
     \/ /\ remaining \in Nat \ {0} /\ at > Start[Current]
        /\ at + remaining = Start[Current] + 1 + HeaderSize[Kind[Current]]

InPayload ==
  /\ Current <= N /\ hciType = Kind[Current] /\ inPayload
  /\ packet = Bytes(Start[Current] + 1, at)
  /\ remaining \in Nat \ {0} /\ at > Start[Current]
  /\ at + remaining = Start[Current + 1]

(* The strengthening: WholePackets alone says nothing of the packet that is  *)
(* being read.                                                               *)
Placed ==
  /\ upto \in Nat /\ at \in Nat /\ at <= upto /\ upto <= Start[N + 1]
  /\ base \in Nat /\ delivered \in Seq([type : PacketTypes, bytes : Seq(Nat)])
  /\ Current <= N + 1
  /\ Between \/ InHeader \/ InPayload

Given ==
  \A i \in 1 .. Len(delivered) :
    /\ base + i <= N
    /\ delivered[i] = [type |-> Kind[base + i],
                       bytes |-> Bytes(Start[base + i] + 1, Start[base + i + 1])]

Framed == InStep => Placed /\ Given
-------------------------------------------------------------------------------
(* Bytes and headers.                                                          *)

(* Pieces that meet make up the whole. *)
LEMMA Pieces ==
  ASSUME NEW a \in Nat, NEW b \in Nat, NEW c \in Nat, a <= b, b <= c
  PROVE  /\ Bytes(a, b) \o Bytes(b, c) = Bytes(a, c)
         /\ << >> \o Bytes(b, c) = Bytes(b, c)
         /\ Bytes(a, b) \in Seq(Nat)
<1> DEFINE p == Bytes(a, b)
           q == Bytes(b, c)
           w == Bytes(a, c)
<1>1. /\ p \in Seq(Nat) /\ Len(p) = b - a /\ \A i \in 1 .. b - a : p[i] = a + i - 1
      /\ q \in Seq(Nat) /\ Len(q) = c - b /\ \A i \in 1 .. c - b : q[i] = b + i - 1
      /\ w \in Seq(Nat) /\ Len(w) = c - a /\ \A i \in 1 .. c - a : w[i] = a + i - 1
  BY DEF Bytes
<1> HIDE DEF p, q, w
<1>2. /\ p \o q \in Seq(Nat) /\ Len(p \o q) = Len(p) + Len(q)
      /\ \A i \in 1 .. Len(p) + Len(q) :
           (p \o q)[i] = IF i <= Len(p) THEN p[i] ELSE q[i - Len(p)]
  BY <1>1, ConcatProperties
<1>3. Len(p \o q) = c - a /\ \A i \in 1 .. c - a : (p \o q)[i] = w[i]
  <2>1. Len(p) + Len(q) = c - a
    BY <1>1
  <2>2. \A i \in 1 .. c - a : i <= b - a => (p \o q)[i] = w[i]
    BY <1>1, <1>2, <2>1
  <2>3. \A i \in 1 .. c - a : ~ (i <= b - a) => (p \o q)[i] = w[i]
    BY <1>1, <1>2, <2>1, SMTT(30)
  <2> QED BY <1>2, <2>1, <2>2, <2>3
<1>4. p \o q = w
  BY <1>1, <1>2, <1>3, SeqEqual
<1>5. << >> \o q = q
  BY <1>1, ConcatEmptySeq
<1> QED BY <1>1, <1>4, <1>5 DEF p, q, w

LEMMA Piece ==
  ASSUME NEW a \in Nat, NEW b \in Nat, a <= b
  PROVE  Bytes(a, b) \in Seq(Nat)
BY DEF Bytes

(* The lengths lie inside the headers. *)
LEMMA Tables ==
  ASSUME NEW k \in PacketTypes
  PROVE  /\ HeaderSize[k] \in Nat \ {0}
         /\ LengthOffset[k] + 1 \in 1 .. HeaderSize[k]
         /\ k \in {ACL_DATA, ISO_DATA} => LengthOffset[k] + 2 \in 1 .. HeaderSize[k]
BY DEF PacketTypes, HeaderSize, LengthOffset, ACL_DATA, ISO_DATA

(* The constants of a packet. *)
LEMMA Packets ==
  ASSUME NEW n \in 1 .. N
  PROVE  /\ n + 1 \in 1 .. N + 1
         /\ Kind[n] \in PacketTypes /\ Kind[n] # UNKNOWN
         /\ Start[n] \in Nat /\ Size[n] \in Nat
         /\ Start[n + 1] = Start[n] + 1 + HeaderSize[Kind[n]] + Size[n]
         /\ Wire[Start[n]] = Kind[n]
<1>1. n + 1 \in 1 .. N + 1 /\ n \in 1 .. N + 1
  BY WireAssumption
<1>2. Kind[n] \in PacketTypes /\ Start[n] \in Nat /\ Size[n] \in Nat
  BY <1>1, WireAssumption
<1>3. Kind[n] # UNKNOWN
  BY <1>2 DEF PacketTypes, UNKNOWN
<1>4. /\ Start[n + 1] = Start[n] + 1 + HeaderSize[Kind[n]] + Size[n]
      /\ Wire[Start[n]] = Kind[n]
  BY WireAssumption
<1> QED BY <1>1, <1>2, <1>3, <1>4

(* A header in which no bit was cleared announces the packet's length. *)
LEMMA Announced ==
  ASSUME NEW n \in 1 .. N, cleared \cap Headers = {}
  PROVE  HciGetPacketLengthForType(Kind[n],
           Values(Bytes(Start[n] + 1, Start[n] + 1 + HeaderSize[Kind[n]]))) = Size[n]
<1> DEFINE h == Bytes(Start[n] + 1, Start[n] + 1 + HeaderSize[Kind[n]])
<1>1. /\ Start[n] \in Nat /\ HeaderSize[Kind[n]] \in Nat \ {0}
  BY Packets, Tables
<1>2. DOMAIN h = 1 .. HeaderSize[Kind[n]] /\ \A i \in DOMAIN h : h[i] = Start[n] + i
  BY <1>1 DEF Bytes
<1> HIDE DEF h
<1>3. \A i \in DOMAIN h : Byte(h[i]) = Wire[Start[n] + i]
  <2> SUFFICES ASSUME NEW i \in DOMAIN h PROVE Byte(h[i]) = Wire[Start[n] + i]
    OBVIOUS
  <2>1. h[i] = Start[n] + i /\ Start[n] + i \in Start[n] .. Start[n] + HeaderSize[Kind[n]]
    BY <1>1, <1>2
  <2>2. h[i] \notin cleared
    BY <2>1 DEF Headers
  <2> QED BY <2>1, <2>2 DEF Byte
<1>4. Values(h) = Header(n)
  BY <1>2, <1>3 DEF Values, Header
<1> QED BY <1>4, WireAssumption DEF h
-------------------------------------------------------------------------------
(* The steps.                                                                  *)

(* What the invariant says when a packet has just been given. *)
LEMMA Delivers ==
  ASSUME Given, Placed, Current <= N, InStep, at' \in Nat, at' <= upto,
         UNCHANGED <<upto, base>>,
         delivered' = Append(delivered, [type |-> Kind[Current],
                        bytes |-> Bytes(Start[Current] + 1, Start[Current + 1])]),
         hciType' = UNKNOWN, ~ inPayload', remaining' = 0,
         at' = Start[Current + 1]
  PROVE  Placed' /\ Given'
<1> DEFINE last == [type |-> Kind[Current],
                    bytes |-> Bytes(Start[Current] + 1, Start[Current + 1])]
<1>1. /\ base \in Nat /\ Len(delivered) \in Nat /\ Current \in 1 .. N
      /\ delivered \in Seq([type : PacketTypes, bytes : Seq(Nat)])
  BY WireAssumption DEF Placed, Current
<1>2. last \in [type : PacketTypes, bytes : Seq(Nat)]
  <2>1. Kind[Current] \in PacketTypes /\ Start[Current] + 1 \in Nat
        /\ Start[Current + 1] \in Nat /\ Start[Current] + 1 <= Start[Current + 1]
    <3>1. /\ Kind[Current] \in PacketTypes /\ Kind[Current] # UNKNOWN
          /\ Start[Current] \in Nat /\ Size[Current] \in Nat
          /\ Start[Current + 1] = Start[Current] + 1 + HeaderSize[Kind[Current]] + Size[Current]
      BY <1>1, Packets
    <3>2. HeaderSize[Kind[Current]] \in Nat
      BY <3>1, Tables
    <3> QED BY <3>1, <3>2
  <2>2. Bytes(Start[Current] + 1, Start[Current + 1]) \in Seq(Nat)
    <3> DEFINE b == Start[Current + 1]
    <3>1. b \in Nat /\ Start[Current] + 1 <= b
      BY <2>1
    <3> HIDE DEF b
    <3>2. Bytes(Start[Current] + 1, b) \in Seq(Nat)
      BY <2>1, <3>1, Piece
    <3> QED BY <3>2 DEF b
  <2> QED BY <2>1, <2>2
<1> HIDE DEF last
<1>3. /\ delivered' \in Seq([type : PacketTypes, bytes : Seq(Nat)])
      /\ Len(delivered') = Len(delivered) + 1
      /\ delivered'[Len(delivered) + 1] = last
      /\ \A i \in 1 .. Len(delivered) : delivered'[i] = delivered[i]
  BY <1>1, <1>2 DEF last
<1>4. Current' = Current + 1
  BY <1>1, <1>3 DEF Current
<1>5. Given'
  <2>1. SUFFICES ASSUME NEW i \in 1 .. Len(delivered) + 1
        PROVE  /\ base + i <= N
               /\ delivered'[i] = [type |-> Kind[base + i],
                                   bytes |-> Bytes(Start[base + i] + 1, Start[base + i + 1])]
    BY <1>3 DEF Given
  <2>2. CASE i \in 1 .. Len(delivered)
    BY <1>3, <2>2 DEF Given
  <2>3. CASE i = Len(delivered) + 1
    <3>1. base + i = Current
      BY <1>1, <2>3 DEF Current
    <3> QED BY <1>1, <1>3, <2>3, <3>1 DEF last
  <2> QED BY <1>1, <2>2, <2>3, SMTT(30)
<1>6. Between'
  BY <1>4 DEF Between
<1>7. Placed'
  BY <1>1, <1>3, <1>4, <1>6, WireAssumption DEF Placed
<1> QED BY <1>5, <1>7

(* A new descriptor, or a new object on the old one. *)
LEMMA Renewed ==
  ASSUME Framed, Open \/ Replace
  PROVE  Framed'
<1>1. CASE Open
  <2>1. Current' = 1 /\ Len(delivered') = 0
    BY <1>1 DEF Open, Current
  <2>2. Placed'
    BY <1>1, <2>1, WireAssumption DEF Open, Placed, Between
  <2> QED BY <2>1, <2>2 DEF Framed, Given
<1>2. CASE Replace
  <2> SUFFICES ASSUME InStep' PROVE Placed' /\ Given'
    BY DEF Framed
  <2>1. InStep /\ hciType = UNKNOWN
    BY <1>2 DEF Replace, InStep, patch
  <2>2. Placed /\ Given /\ Between
    <3>1. Placed /\ Given
      BY <2>1 DEF Framed
    <3>2. Current <= N => Kind[Current] # UNKNOWN
      <4>1. Current \in 1 .. N + 1
        BY <3>1, WireAssumption DEF Placed, Current
      <4> QED BY <4>1, Packets, WireAssumption
    <3> QED BY <2>1, <3>1, <3>2 DEF Placed, InHeader, InPayload
  <2>3. Len(delivered') = 0 /\ Current' = Current /\ base' \in Nat
    BY <1>2, <2>2 DEF Replace, Current, Placed
  <2>4. Placed'
    BY <1>2, <2>2, <2>3 DEF Replace, Placed, Between
  <2> QED BY <2>3, <2>4 DEF Given
<1> QED BY <1>1, <1>2

(* A read, and the end of the reading. *)
LEMMA Reads ==
  ASSUME Framed, (\E n \in ReadSizes : OnDataReady(n)) \/ Disconnect
  PROVE  Framed'
<1> SUFFICES ASSUME InStep' PROVE Placed' /\ Given'
  BY DEF Framed
<1>1. /\ UNCHANGED <<at, parser, delivered, history>>
      /\ cleared \subseteq cleared'
  BY DEF OnDataReady, Disconnect, DisableEnhancedSync, patch
<1>2. InStep
  BY <1>1 DEF InStep, history
<1>3. Placed /\ Given
  BY <1>2 DEF Framed
<1>4. upto' \in Nat /\ upto <= upto' /\ upto' <= Start[N + 1]
  BY <1>3, WireAssumption DEF OnDataReady, Disconnect, Placed
<1>5. Current' = Current
  BY <1>1 DEF Current, history
<1>6. Given'
  BY <1>1, <1>3 DEF Given, history
<1>7. (Between => Between') /\ (InHeader => InHeader') /\ (InPayload => InPayload')
  BY <1>1, <1>5 DEF Between, InHeader, InPayload, parser
<1>8. Placed'
  BY <1>1, <1>3, <1>4, <1>5, <1>7 DEF Placed, history
<1> QED BY <1>6, <1>8

(* The loop stays in step and in what was read. *)
LEMMA Consumes ==
  ASSUME Framed, SendDataToPacketizer, InStep'
  PROVE  /\ InStep /\ Placed /\ Given /\ InLoop
         /\ UNCHANGED <<upto, base>> /\ Current \in 1 .. N + 1 /\ Start[Current] \in Nat
         /\ cleared \cap Headers = {}
<1>1. UNCHANGED <<upto, base, aligned, cleared>> /\ InLoop
  BY DEF SendDataToPacketizer, TakeType, TakeHeader, TakePayload, history, patch
<1>2. InStep /\ Placed /\ Given /\ cleared \cap Headers = {}
  BY <1>1 DEF InStep, Framed
<1>3. Current \in 1 .. N + 1
  BY <1>2, WireAssumption DEF Placed, Current
<1> QED BY <1>1, <1>2, <1>3, WireAssumption

(* A type byte. *)
LEMMA TypeTaken ==
  ASSUME Framed, TakeType
  PROVE  Framed'
<1> SUFFICES ASSUME InStep' PROVE Placed' /\ Given'
  BY DEF Framed
<1>1. /\ InStep /\ Placed /\ Given /\ InLoop
      /\ UNCHANGED <<upto, base>> /\ Current \in 1 .. N + 1 /\ cleared \cap Headers = {}
  BY Consumes DEF SendDataToPacketizer
<1>2. UNCHANGED <<inPayload, remaining, packet, delivered>> /\ at' = at + 1 /\ hciType = UNKNOWN
  BY DEF TakeType
<1>3. Between
  <2>1. Current <= N => Kind[Current] # UNKNOWN
    BY <1>1, Packets
  <2> QED BY <1>1, <1>2, <2>1 DEF Placed, InHeader, InPayload
<1>4. Current \in 1 .. N
  BY <1>1, <1>3, WireAssumption DEF Between, InLoop, Placed
<1>5. hciType' = Kind[Current]
  <2>1. at \in Headers
    BY <1>1, <1>3, <1>4, Packets, Tables DEF Headers, Between
  <2>2. Byte(at) = Kind[Current]
    BY <1>1, <1>3, <1>4, <2>1, Packets DEF Byte, Between
  <2> QED BY <1>4, <2>2, Packets DEF TakeType
<1>6. Current' = Current /\ UNCHANGED Start
  BY <1>1, <1>2 DEF Current
<1>7. InHeader'
  BY <1>2, <1>3, <1>4, <1>5, <1>6 DEF InHeader, Between
<1>8. at' \in Nat /\ at' <= upto
  BY <1>1, <1>2 DEF Placed, InLoop
<1> QED BY <1>1, <1>2, <1>6, <1>7, <1>8 DEF Placed, Given

(* A copy neither leaves what was read nor takes more than is needed. *)
LEMMA Sized ==
  ASSUME Placed, InLoop, NEW need \in Nat \ {0}
  PROVE  /\ Least(need, upto - at) \in Nat \ {0}
         /\ at + Least(need, upto - at) \in Nat /\ at + Least(need, upto - at) <= upto
         /\ Least(need, upto - at) <= need
BY DEF Placed, InLoop, Least

(* A piece of a header. *)
LEMMA HeaderTaken ==
  ASSUME Framed, TakeHeader
  PROVE  Framed'
<1> SUFFICES ASSUME InStep' PROVE Placed' /\ Given'
  BY DEF Framed
<1>1. /\ InStep /\ Placed /\ Given /\ InLoop
      /\ UNCHANGED <<upto, base>> /\ Current \in 1 .. N + 1 /\ cleared \cap Headers = {}
  BY Consumes DEF SendDataToPacketizer
<1>2. hciType # UNKNOWN /\ ~ inPayload
  BY DEF TakeHeader
<1>3. InHeader /\ Current \in 1 .. N /\ hciType = Kind[Current]
  BY <1>1, <1>2 DEF Placed, Between, InHeader, InPayload
<1> DEFINE n    == Current
           need == IF remaining = 0 THEN HeaderSize[hciType] ELSE remaining
           kept == IF remaining = 0 THEN << >> ELSE packet
           size == Least(need, upto - at)
           head == Copied(kept, size)
<1>4. /\ Start[n] \in Nat /\ HeaderSize[Kind[n]] \in Nat \ {0} /\ Size[n] \in Nat
      /\ Start[n + 1] = Start[n] + 1 + HeaderSize[Kind[n]] + Size[n]
  BY <1>3, Packets, Tables
<1>5. need \in Nat \ {0} /\ at + need = Start[n] + 1 + HeaderSize[Kind[n]] /\ at > Start[n]
  BY <1>1, <1>3, <1>4 DEF InHeader, Placed
<1>6. size \in Nat \ {0} /\ at + size \in Nat /\ at + size <= upto /\ size <= need
  <2> HIDE DEF need
  <2> QED BY <1>1, <1>5, Sized
<1>7. head = Bytes(Start[n] + 1, at + size)
  <2>1. kept \o Bytes(at, at + size) = Bytes(Start[n] + 1, at + size)
    <3> HIDE DEF size
    <3>1. CASE remaining = 0
      <4>1. at = Start[n] + 1
        BY <1>3, <1>4, <1>1, <3>1 DEF InHeader
      <4> QED BY <1>1, <1>4, <1>6, <3>1, <4>1, Pieces DEF Placed
    <3>2. CASE remaining # 0
      <4>1. packet = Bytes(Start[n] + 1, at)
        BY <1>3, <3>2 DEF InHeader
      <4>2. at \in Nat /\ Start[n] + 1 \in Nat /\ Start[n] + 1 <= at
        <5>1. at \in Nat /\ at > Start[n]
          BY <1>1, <1>5 DEF Placed
        <5> QED BY <1>4, <5>1
      <4> HIDE DEF need, kept
      <4>4. at + size \in Nat /\ at <= at + size
        BY <1>6, <4>2
      <4>3. packet \o Bytes(at, at + size) = Bytes(Start[n] + 1, at + size)
        BY <4>1, <4>2, <4>4, Pieces
      <4> QED BY <3>2, <4>3 DEF kept
    <3> QED BY <3>1, <3>2
  <2> QED BY <2>1 DEF Copied
<1>8. at' = at + size /\ packet' = head
  BY DEF TakeHeader
<1> HIDE DEF head
<1>9. CASE size < need
  <2>1. remaining' = need - size /\ NotReady /\ UNCHANGED inPayload
    <3> HIDE DEF size
    <3>1. ~ (size = need)
      BY <1>5, <1>6, <1>9
    <3> QED BY <3>1 DEF TakeHeader, size
  <2> HIDE DEF size, need
  <2>2. UNCHANGED <<hciType, delivered>> /\ Current' = Current
    BY <1>1, <2>1 DEF NotReady, Current
  <2>3. /\ remaining' \in Nat \ {0} /\ at' > Start[n]
        /\ at' + remaining' = Start[n] + 1 + HeaderSize[Kind[n]]
    <3>1. at \in Nat
      BY <1>1 DEF Placed
    <3>2. need - size \in Nat \ {0}
      BY <1>5, <1>6, <1>9
    <3>3. at + size > Start[n]
      BY <1>4, <1>5, <1>6, <3>1
    <3>4. at + size + (need - size) = at + need
      BY <1>5, <1>6, <3>1
    <3> QED BY <1>5, <1>8, <2>1, <3>2, <3>3, <3>4
  <2>4. packet' = Bytes(Start[n] + 1, at')
    BY <1>7, <1>8
  <2>5. InHeader'
    BY <1>3, <2>1, <2>2, <2>3, <2>4 DEF InHeader
  <2> QED BY <1>1, <1>6, <1>8, <2>2, <2>5 DEF Placed, Given
<1>10. CASE size = need
  <2>1. HeaderReady(head, HciGetPacketLengthForType(hciType, Values(head)))
    BY <1>5, <1>10 DEF TakeHeader, head
  <2> HIDE DEF size, need
  <2>2. at + size = Start[n] + 1 + HeaderSize[Kind[n]]
    BY <1>5, <1>10
  <2>3. HciGetPacketLengthForType(hciType, Values(head)) = Size[n]
    BY <1>1, <1>3, <1>7, <2>2, Announced
  <2>4. HeaderReady(head, Size[n])
    BY <2>1, <2>3
  <2>5. CASE Size[n] > 0
    <3>1. remaining' = Size[n] /\ inPayload' /\ UNCHANGED <<hciType, delivered>>
      BY <1>4, <2>4, <2>5 DEF HeaderReady, NotReady
    <3>2. Current' = Current
      BY <1>1, <3>1 DEF Current
    <3>3. InPayload'
      BY <1>1, <1>3, <1>4, <1>7, <1>8, <2>2, <2>5, <3>1, <3>2 DEF InPayload
    <3> QED BY <1>1, <1>6, <1>8, <3>1, <3>2, <3>3 DEF Placed, Given
  <2>6. CASE ~ (Size[n] > 0)
    <3>1. Size[n] = 0
      BY <1>4, <2>6
    <3>2. /\ remaining' = 0 /\ ~ inPayload' /\ hciType' = UNKNOWN
          /\ delivered' = Append(delivered, [type |-> Kind[n], bytes |-> head])
      <4>1. remaining' = Size[n] /\ inPayload' = (Size[n] > 0) /\ OnPacketReady(head)
        BY <2>4, <2>6 DEF HeaderReady
      <4>2. ~ inPayload'
        BY <2>6, <4>1
      <4> QED BY <1>3, <3>1, <4>1, <4>2 DEF OnPacketReady
    <3>3. at' = Start[n + 1] /\ head = Bytes(Start[n] + 1, Start[n + 1])
      <4>1. at + size = Start[n + 1]
        BY <1>4, <2>2, <3>1
      <4> QED BY <1>7, <1>8, <4>1
    <3> QED BY <1>1, <1>3, <1>6, <1>8, <3>2, <3>3, Delivers
  <2> QED BY <2>5, <2>6
<1> QED BY <1>5, <1>6, <1>9, <1>10

(* A piece of a payload. *)
LEMMA PayloadTaken ==
  ASSUME Framed, TakePayload
  PROVE  Framed'
<1> SUFFICES ASSUME InStep' PROVE Placed' /\ Given'
  BY DEF Framed
<1>1. /\ InStep /\ Placed /\ Given /\ InLoop
      /\ UNCHANGED <<upto, base>> /\ Current \in 1 .. N + 1
  BY Consumes DEF SendDataToPacketizer
<1>2. hciType # UNKNOWN /\ inPayload
  BY DEF TakePayload
<1>3. InPayload /\ Current \in 1 .. N /\ hciType = Kind[Current]
  BY <1>1, <1>2 DEF Placed, Between, InHeader, InPayload
<1> DEFINE n     == Current
           size  == Least(remaining, upto - at)
           whole == Copied(packet, size)
<1>4. Start[n] \in Nat /\ Start[n + 1] \in Nat
  <2>1. n \in 1 .. N
    BY <1>3
  <2> HIDE DEF n
  <2> QED BY <2>1, Packets, WireAssumption
<1>5. remaining \in Nat \ {0} /\ at + remaining = Start[n + 1] /\ at > Start[n]
  BY <1>3 DEF InPayload
<1>6. size \in Nat \ {0} /\ at + size \in Nat /\ at + size <= upto /\ size <= remaining
  BY <1>1, <1>5, Sized
<1>7. whole = Bytes(Start[n] + 1, at + size)
  <2>1. packet = Bytes(Start[n] + 1, at)
    BY <1>3 DEF InPayload
  <2> HIDE DEF size
  <2>2. /\ at \in Nat /\ Start[n] + 1 \in Nat /\ Start[n] + 1 <= at
        /\ at + size \in Nat /\ at <= at + size
    BY <1>1, <1>4, <1>5, <1>6 DEF Placed
  <2>3. packet \o Bytes(at, at + size) = Bytes(Start[n] + 1, at + size)
    BY <2>1, <2>2, Pieces
  <2> QED BY <2>3 DEF Copied
<1>8. /\ at' = at + size /\ packet' = whole
      /\ remaining' = remaining - size /\ inPayload' = (size < remaining)
      /\ IF size < remaining THEN NotReady ELSE OnPacketReady(whole)
  BY DEF TakePayload
<1> HIDE DEF whole, size
<1>9. CASE size < remaining
  <2>1. UNCHANGED <<hciType, delivered>> /\ Current' = Current
    BY <1>1, <1>8, <1>9 DEF NotReady, Current
  <2>2. /\ remaining' \in Nat \ {0} /\ at' > Start[n] /\ at' + remaining' = Start[n + 1]
    BY <1>1, <1>4, <1>5, <1>6, <1>8, <1>9 DEF Placed
  <2>3. packet' = Bytes(Start[n] + 1, at')
    BY <1>7, <1>8
  <2>4. inPayload'
    BY <1>8, <1>9
  <2>5. InPayload'
    BY <1>3, <2>1, <2>2, <2>3, <2>4 DEF InPayload
  <2> QED BY <1>1, <1>6, <1>8, <2>1, <2>5 DEF Placed, Given
<1>10. CASE ~ (size < remaining)
  <2>1. size = remaining
    BY <1>5, <1>6, <1>10
  <2>2. /\ remaining' = 0 /\ ~ inPayload' /\ hciType' = UNKNOWN
        /\ delivered' = Append(delivered, [type |-> Kind[n], bytes |-> whole])
    <3>1. remaining' = 0
      BY <1>5, <1>8, <2>1
    <3>2. ~ inPayload'
      BY <1>8, <1>10
    <3> QED BY <1>3, <1>8, <1>10, <3>1, <3>2 DEF OnPacketReady
  <2>3. at' = Start[n + 1] /\ whole = Bytes(Start[n] + 1, Start[n + 1])
    <3>1. at + size = Start[n + 1]
      BY <1>5, <2>1
    <3> QED BY <1>7, <1>8, <3>1
  <2> QED BY <1>1, <1>3, <1>6, <1>8, <2>2, <2>3, Delivers
<1> QED BY <1>9, <1>10
-------------------------------------------------------------------------------
(* The theorems.                                                               *)

LEMMA FramedInit == ReaderInit => Framed
<1> SUFFICES ASSUME ReaderInit PROVE Placed /\ Given
  BY DEF Framed
<1>1. Current = 1 /\ Len(delivered) = 0
  BY DEF ReaderInit, Current
<1>2. Placed
  BY <1>1, WireAssumption DEF ReaderInit, Placed, Between
<1> QED BY <1>1, <1>2 DEF Given

LEMMA FramedStays == Framed /\ [ReaderNext]_readerVars => Framed'
<1> SUFFICES ASSUME Framed, [ReaderNext]_readerVars PROVE Framed'
  OBVIOUS
<1>1. CASE Open \/ Replace
  BY <1>1, Renewed
<1>2. CASE (\E n \in ReadSizes : OnDataReady(n)) \/ Disconnect
  BY <1>2, Reads
<1>3. CASE TakeType
  BY <1>3, TypeTaken
<1>4. CASE TakeHeader
  BY <1>4, HeaderTaken
<1>5. CASE TakePayload
  BY <1>5, PayloadTaken
<1>6. CASE UNCHANGED readerVars
  <2>1. /\ UNCHANGED <<upto, at, delivered, base, aligned, cleared>>
        /\ UNCHANGED <<hciType, inPayload, remaining, packet>>
    BY <1>6 DEF readerVars, parser, history, patch
  <2>2. Current' = Current /\ InStep' = InStep
    BY <2>1 DEF Current, InStep
  <2> QED BY <2>1, <2>2 DEF Framed, Placed, Given, Between, InHeader, InPayload
<1> QED BY <1>1, <1>2, <1>3, <1>4, <1>5, <1>6 DEF ReaderNext, Reader, SendDataToPacketizer

(* The reader stays where the controller's packets say it is. *)
LEMMA ReaderFramed == ReaderSpec => []Framed
BY FramedInit, FramedStays, PTL DEF ReaderSpec

(* However a stream of packets is cut into reads, the callbacks are given its *)
(* packets, whole and in order (HciPacketizer::OnDataReady).                  *)
THEOREM ReaderDeliversWholePackets == ReaderSpec => []WholePackets
<1>1. Framed => WholePackets
  BY DEF Framed, Given, WholePackets
<1> QED BY <1>1, ReaderFramed, PTL

(* A packet of which the last byte was read has been given to its callback,   *)
(* one with an empty payload included (hci_packetizer.cc:72).                 *)
THEOREM ReaderIsPrompt == ReaderSpec => []Prompt
<1>1. Framed => Prompt
  <2> SUFFICES ASSUME Framed, InStep
               PROVE  Start[Current] <= at /\ (Current <= N => at < Start[Current + 1])
    BY DEF Prompt
  <2>1. Placed /\ Current \in 1 .. N + 1
    BY WireAssumption DEF Framed, Placed, Current
  <2> DEFINE n == Current
  <2>2. Start[n] \in Nat /\ at \in Nat
    BY <2>1, WireAssumption DEF Placed
  <2>3. n <= N => /\ HeaderSize[Kind[n]] \in Nat \ {0} /\ Size[n] \in Nat
                  /\ Start[n + 1] = Start[n] + 1 + HeaderSize[Kind[n]] + Size[n]
    <3> SUFFICES ASSUME n <= N PROVE n \in 1 .. N
      BY Packets, Tables
    <3> QED BY <2>1, WireAssumption
  <2>4. CASE Between
    <3>1. at = Start[n]
      BY <2>4 DEF Between
    <3> HIDE DEF n
    <3> QED BY <2>2, <2>3, <3>1 DEF n
  <2>5. CASE InHeader
    <3>1. \/ at = Start[n] + 1
          \/ /\ remaining \in Nat \ {0} /\ at > Start[n]
             /\ at + remaining = Start[n] + 1 + HeaderSize[Kind[n]]
      BY <2>5 DEF InHeader
    <3>2. n <= N
      BY <2>5 DEF InHeader
    <3> HIDE DEF n
    <3>3. Start[n] <= at /\ at < Start[n + 1]
      BY <2>2, <2>3, <3>1, <3>2
    <3> QED BY <3>3 DEF n
  <2>6. CASE InPayload
    <3>1. remaining \in Nat \ {0} /\ at > Start[n] /\ at + remaining = Start[n + 1] /\ n <= N
      BY <2>6 DEF InPayload
    <3> HIDE DEF n
    <3>2. Start[n] <= at /\ at < Start[n + 1]
      BY <2>2, <2>3, <3>1
    <3> QED BY <3>2 DEF n
  <2> QED BY <2>1, <2>4, <2>5, <2>6 DEF Placed
<1> QED BY <1>1, ReaderFramed, PTL

-------------------------------------------------------------------------------
(* The service.                                                            *)

(* Where a call has taken the interface for itself. *)
Opening == {"setUp", "openHci"}
Opened  == {"linkToDeath", "reset", "waitReset", "makeH4", "oneClient"}
Closing == {"stopWatching", "closeFd", "closed"}
Busy    == Opening \cup Opened \cup Closing

Typed ==
  /\ pc \in [Threads -> Busy \cup {"idle", "already", "complete", "close"}]
  /\ then \in [Threads -> {"idle", "already"}]
  /\ mState \in {"READY", "INITIALIZING", "ONE_CLIENT", "CLOSING"}
  /\ opens \in Nat

(* The state lets one call at a time open or close the interface. *)
Alone ==
  \A t \in Threads :
    /\ pc[t] \in Opening \cup Opened => mState = "INITIALIZING"
    /\ pc[t] \in Closing => mState = "CLOSING"
    /\ pc[t] \in Busy => \A u \in Threads : pc[u] \in Busy => u = t

(* What that call finds of the interface. *)
Found ==
  /\ mState = "READY" => open = {} /\ watched = 0 /\ h4 = "none"
  /\ \A t \in Threads :
       /\ pc[t] \in Opening => open = {} /\ watched = 0 /\ h4 = "none"
       /\ pc[t] = "openHci" => mCb = t
       /\ pc[t] \in Opened => mFd \in open /\ mCb = t /\ owner = t
       /\ pc[t] \in {"closeFd", "closed"} => watched = 0
       /\ pc[t] = "closed" => open = {}

Kept ==
  /\ open \subseteq {mFd}
  /\ watched # 0 => watched \in open /\ h4 \in {"reset", "client"}
  /\ h4 = "client" => mCb = owner
  /\ ~ strayed

(* The strengthening: that descriptors and packets stay with their client   *)
(* holds because no other call is between the steps of one that opens or    *)
(* closes.                                                                  *)
Owned == Typed /\ Alone /\ Found /\ Kept
-------------------------------------------------------------------------------
LEMMA OwnedInit == Init => Owned
BY DEF Init, Owned, Typed, Alone, Found, Kept, Opening, Opened, Closing, Busy, Threads

(* A thread goes on and the rest that matters stays. *)
LEMMA Initializes ==
  ASSUME Owned, NEW c \in Clients,
         Initialize(c) \/ Already(c) \/ SetUp(c) \/ OpenHci(c) \/ OpenFails(c)
  PROVE  Owned'
<1> USE DEF Owned, Typed, Alone, Found, Kept, Opening, Opened, Closing, Busy, Threads,
        Goto, stateVars, fdVars, callVars
<1>1. CASE Initialize(c)
  BY <1>1 DEF Initialize
<1>2. CASE Already(c)
  BY <1>2 DEF Already
<1>3. CASE SetUp(c)
  BY <1>3 DEF SetUp
<1>4. CASE OpenHci(c)
  BY <1>4 DEF OpenHci
<1>5. CASE OpenFails(c)
  BY <1>5 DEF OpenFails
<1> QED BY <1>1, <1>2, <1>3, <1>4, <1>5

LEMMA Opens ==
  ASSUME Owned, NEW c \in Clients,
         LinkToDeath(c) \/ Reset(c) \/ ResetEnds(c) \/ MakeH4(c) \/ OneClient(c) \/ Complete(c)
  PROVE  Owned'
<1> USE DEF Owned, Typed, Alone, Found, Kept, Opening, Opened, Closing, Busy, Threads,
        Goto, stateVars, fdVars, callVars
<1>1. CASE LinkToDeath(c)
  <2>1. CASE c \in dead
    BY <1>1, <2>1 DEF LinkToDeath
  <2>2. CASE c \notin dead
    <3>1. PICK there \in {"reset", "makeH4"} : Goto(c, "linkToDeath", there)
      BY <1>1, <2>2 DEF LinkToDeath
    <3> QED BY <1>1, <2>2, <3>1 DEF LinkToDeath
  <2> QED BY <2>1, <2>2
<1>2. CASE Reset(c)
  BY <1>2 DEF Reset
<1>3. CASE ResetEnds(c)
  BY <1>3 DEF ResetEnds
<1>4. CASE MakeH4(c)
  BY <1>4 DEF MakeH4
<1>5. CASE OneClient(c)
  BY <1>5 DEF OneClient
<1>6. CASE Complete(c)
  BY <1>6 DEF Complete
<1> QED BY <1>1, <1>2, <1>3, <1>4, <1>5, <1>6

LEMMA Closes ==
  ASSUME Owned, NEW t \in Threads, CloseSteps(t)
  PROVE  Owned'
<1> USE DEF Owned, Typed, Alone, Found, Kept, Opening, Opened, Closing, Busy,
        Goto, stateVars, fdVars, callVars
<1>1. CASE Close(t)
  <2>1. CASE mState = "ONE_CLIENT"
    BY <1>1, <2>1 DEF Close
  <2>2. CASE mState = "INITIALIZING"
    BY <1>1, <2>2 DEF Close
  <2>3. CASE mState \notin {"ONE_CLIENT", "INITIALIZING"}
    <3>1. UNCHANGED mState /\ Goto(t, "close", then[t])
      BY <1>1, <2>3 DEF Close
    <3> QED BY <1>1, <3>1, ZenonT(40) DEF Close
  <2> QED BY <2>1, <2>2, <2>3
<1>2. CASE StopWatching(t)
  BY <1>2 DEF StopWatching
<1>3. CASE CloseFd(t)
  BY <1>3 DEF CloseFd
<1>4. CASE Closed(t)
  BY <1>4 DEF Closed
<1> QED BY <1>1, <1>2, <1>3, <1>4 DEF CloseSteps

LEMMA OthersKeep ==
  ASSUME Owned, NEW c \in Clients,
         CloseCalled(c) \/ Send(c) \/ Die(c) \/ ServiceDied(c)
  PROVE  Owned'
<1> USE DEF Owned, Typed, Alone, Found, Kept, Opening, Opened, Closing, Busy, Threads,
        Goto, stateVars, fdVars, callVars
<1>1. CASE CloseCalled(c)
  BY <1>1 DEF CloseCalled
<1>2. CASE Send(c)
  BY <1>2 DEF Send
<1>3. CASE Die(c)
  BY <1>3 DEF Die
<1>4. CASE ServiceDied(c)
  BY <1>4 DEF ServiceDied
<1> QED BY <1>1, <1>2, <1>3, <1>4

LEMMA WatcherKeeps ==
  ASSUME Owned, Watcher
  PROVE  Owned'
<1> USE DEF Owned, Typed, Alone, Found, Kept, stateVars, fdVars, callVars
<1>1. CASE WatcherReads
  BY <1>1 DEF WatcherReads, serviceVars
<1>2. CASE WatcherLoops
  <2>1. h4 \in {"reset", "client"} /\ Callback
    BY <1>2 DEF WatcherLoops
  <2>2. h4 = "client" => (strayed \/ mCb # owner) = FALSE
    OBVIOUS
  <2>3. ~ strayed'
    <3>1. \/ fatal'
          \/ ~ fatal' /\ delivered' = delivered
          \/ delivered' # delivered /\ h4 = "client"
          \/ delivered' # delivered /\ h4 = "reset"
      BY <2>1
    <3> QED BY <2>1, <2>2, <3>1 DEF Callback
  <2> QED BY <1>2, <2>3 DEF WatcherLoops
<1>3. CASE WatcherDisconnects
  BY <1>3 DEF WatcherDisconnects
<1> QED BY <1>1, <1>2, <1>3 DEF Watcher

LEMMA ServiceOwned == Spec => []Owned
<1>1. Owned /\ [Next]_vars => Owned'
  <2> SUFFICES ASSUME Owned, [Next]_vars PROVE Owned'
    OBVIOUS
  <2>1. CASE UNCHANGED vars
    BY <2>1 DEF vars, serviceVars, callVars, stateVars, fdVars, Owned, Typed, Alone, Found, Kept
  <2>2. ASSUME NEW c \in Clients,
               Initialize(c) \/ OpenHci(c) \/ OpenFails(c) \/ InitializeSteps(c)
        PROVE  Owned'
    BY <2>2, Initializes, Opens DEF InitializeSteps
  <2>3. ASSUME NEW c \in Clients, CloseCalled(c) \/ Send(c) \/ Die(c) \/ ServiceDied(c)
        PROVE  Owned'
    BY <2>3, OthersKeep
  <2> QED BY <2>1, <2>2, <2>3, Closes, WatcherKeeps DEF Next
<1> QED BY <1>1, OwnedInit, PTL DEF Spec
-------------------------------------------------------------------------------
(* The watcher waits on no descriptor that was closed (BluetoothHci.cpp:335). *)
THEOREM ServiceWatchesOpen == Spec => []WatchedIsOpen
<1>1. Owned => WatchedIsOpen
  BY DEF Owned, Kept, WatchedIsOpen
<1> QED BY <1>1, ServiceOwned, PTL

(* Packets go to the client for which the interface was opened, and no two    *)
(* descriptors stay open (BluetoothHci.cpp:228).                              *)
THEOREM ServiceDeliversToOwner == Spec => []DeliveredToOwner
<1>1. Owned => DeliveredToOwner
  BY DEF Owned, Kept, DeliveredToOwner
<1> QED BY <1>1, ServiceOwned, PTL

(* Every step of the service is one of the reader it implements, or leaves it *)
(* alone: the refinement of HciFraming by BluetoothHci.                       *)
THEOREM ServiceReadsAsFraming == Spec => ReadsAsFraming
<1>1. Init => ReaderInit
  BY DEF Init
<1>2. [Next]_vars => [ReaderNext]_readerVars
  <2> SUFFICES ASSUME [Next]_vars PROVE ReaderNext \/ UNCHANGED readerVars
    OBVIOUS
  <2>1. CASE UNCHANGED vars
    BY <2>1 DEF vars
  <2>2. ASSUME NEW c \in Clients, Reset(c) \/ MakeH4(c) PROVE ReaderNext
    BY <2>2 DEF Reset, MakeH4, ReaderNext
  <2>3. ASSUME NEW c \in Clients,
               \/ Initialize(c) \/ Already(c) \/ SetUp(c) \/ OpenHci(c) \/ OpenFails(c)
               \/ LinkToDeath(c) \/ ResetEnds(c) \/ OneClient(c) \/ Complete(c)
               \/ CloseCalled(c) \/ Send(c) \/ Die(c) \/ ServiceDied(c)
        PROVE  UNCHANGED readerVars
    BY <2>3 DEF Initialize, Already, SetUp, OpenHci, OpenFails, LinkToDeath, ResetEnds,
                OneClient, Complete, CloseCalled, Send, Die, ServiceDied
  <2>4. ASSUME NEW t \in Threads, CloseSteps(t) PROVE ReaderNext \/ UNCHANGED readerVars
    BY <2>4 DEF CloseSteps, Close, StopWatching, CloseFd, Closed, ReaderNext
  <2>5. CASE Watcher
    BY <2>5 DEF Watcher, WatcherReads, WatcherLoops, WatcherDisconnects, ReaderNext, Reader
  <2> QED BY <2>1, <2>2, <2>3, <2>4, <2>5 DEF Next, InitializeSteps
<1> QED BY <1>1, <1>2, PTL DEF Spec, ReadsAsFraming, ReaderSpec

(* So what is proved of the reader alone holds in the service, whoever opens, *)
(* closes and dies around it: packets reach a callback whole and in order.    *)
COROLLARY ServiceDeliversWholePackets == Spec => []WholePackets
BY ServiceReadsAsFraming, ReaderDeliversWholePackets, PTL DEF ReadsAsFraming

(* And they reach it as soon as their last byte is read. *)
COROLLARY ServiceIsPrompt == Spec => []Prompt
BY ServiceReadsAsFraming, ReaderIsPrompt, PTL DEF ReadsAsFraming
-------------------------------------------------------------------------------
(* A client that is alone with the service: no other call is under way, so  *)
(* that every state that names a step of a call is the state of this one,   *)
(* and what it was told is so until it calls again.                         *)
OneCall ==
  \A t \in Threads :
    pc[t] # "idle" => told = {} /\ \A u \in Threads : pc[u] # "idle" => u = t

UnderWay ==
  /\ mState = "INITIALIZING" => \E t \in Threads : pc[t] \in Opening \cup Opened
  /\ mState = "CLOSING" => \E t \in Threads : pc[t] \in Closing

Settled ==
  /\ mState = "ONE_CLIENT" => mFd \in open /\ h4 = "client"
  /\ \A t \in Threads :
       /\ pc[t] = "oneClient" => h4 = "client"
       /\ pc[t] = "complete" => mState = "ONE_CLIENT"
  /\ \A c \in told : mState = "ONE_CLIENT" /\ owner = c

Spared ==
  dead = {} /\ aborted \in {"no", "answered twice", "bad packet type", "unexpected command"}

Sole == ~ overlap => OneCall /\ UnderWay /\ Settled /\ Spared
-------------------------------------------------------------------------------
LEMMA SoleInit == Init => Sole
BY DEF Init, Sole, OneCall, UnderWay, Settled, Spared, Threads

LEMMA SoleInitializes ==
  ASSUME Owned, Sole, NEW c \in Clients,
         Initialize(c) \/ Already(c) \/ SetUp(c) \/ OpenHci(c) \/ OpenFails(c)
  PROVE  Sole'
<1> USE DEF Owned, Typed, Alone, Found, Kept, Opening, Opened, Closing, Busy, Threads,
        Goto, stateVars, fdVars, callVars, deathVars, Sole, OneCall, UnderWay, Settled, Spared
<1>1. CASE Initialize(c)
  <2> SUFFICES ASSUME ~ overlap' PROVE OneCall' /\ UnderWay' /\ Settled' /\ Spared'
    BY DEF Sole
  <2>1. ~ overlap /\ \A u \in Threads : pc[u] = "idle"
    BY <1>1 DEF Initialize, Begins, Calls
  <2>2. told' = {} /\ UNCHANGED <<mCb, h4, mFd, open, owner, dead, aborted>>
    BY <1>1 DEF Initialize
  <2>3. CASE mState = "READY"
    <3>1. mState' = "INITIALIZING" /\ pc' = [pc EXCEPT ![c] = "setUp"]
      BY <1>1, <2>3 DEF Initialize
    <3> QED BY <2>1, <2>2, <3>1
  <2>4. CASE mState # "READY"
    <3>1. mState' = mState /\ pc' = [pc EXCEPT ![c] = "close"]
      BY <1>1, <2>4 DEF Initialize
    <3> QED BY <2>1, <2>2, <3>1
  <2> QED BY <2>3, <2>4
<1>2. CASE Already(c)
  BY <1>2 DEF Already, Tell
<1>3. CASE SetUp(c)
  BY <1>3 DEF SetUp
<1>4. CASE OpenHci(c)
  BY <1>4 DEF OpenHci
<1>5. CASE OpenFails(c)
  BY <1>5 DEF OpenFails, Tell
<1> QED BY <1>1, <1>2, <1>3, <1>4, <1>5

LEMMA SoleOpens ==
  ASSUME Owned, Sole, NEW c \in Clients,
         LinkToDeath(c) \/ Reset(c) \/ ResetEnds(c) \/ MakeH4(c) \/ OneClient(c) \/ Complete(c)
  PROVE  Sole'
<1> USE DEF Owned, Typed, Alone, Found, Kept, Opening, Opened, Closing, Busy, Threads,
        Goto, stateVars, fdVars, callVars, deathVars, Sole, OneCall, UnderWay, Settled, Spared
<1>1. CASE LinkToDeath(c)
  <2>1. CASE overlap
    BY <1>1, <2>1 DEF LinkToDeath
  <2>2. CASE ~ overlap
    <3>1. PICK there \in {"reset", "makeH4"} : Goto(c, "linkToDeath", there)
      BY <1>1, <2>2 DEF LinkToDeath
    <3> QED BY <1>1, <2>2, <3>1 DEF LinkToDeath
  <2> QED BY <2>1, <2>2
<1>2. CASE Reset(c)
  BY <1>2 DEF Reset
<1>3. CASE ResetEnds(c)
  BY <1>3 DEF ResetEnds
<1>4. CASE MakeH4(c)
  BY <1>4 DEF MakeH4
<1>5. CASE OneClient(c)
  BY <1>5 DEF OneClient
<1>6. CASE Complete(c)
  BY <1>6 DEF Complete, Tell
<1> QED BY <1>1, <1>2, <1>3, <1>4, <1>5, <1>6

LEMMA SoleCloses ==
  ASSUME Owned, Sole, NEW t \in Threads, CloseSteps(t)
  PROVE  Sole'
<1> USE DEF Goto, stateVars, fdVars, callVars, deathVars
<1> SUFFICES ASSUME ~ overlap' PROVE OneCall' /\ UnderWay' /\ Settled' /\ Spared'
  BY DEF Sole
<1>1. /\ OneCall /\ UnderWay /\ Settled /\ Spared
      /\ UNCHANGED <<told, dead, mFd, owner>>
  BY DEF Sole, CloseSteps, Close, StopWatching, CloseFd, Closed
<1>2. /\ pc \in [Threads -> Busy \cup {"idle", "already", "complete", "close"}]
      /\ then[t] \in {"idle", "already"}
  BY DEF Owned, Typed
<1>3. told = {} /\ \A u \in Threads : u # t => pc[u] = "idle"
  BY <1>1 DEF OneCall, CloseSteps, Close, StopWatching, CloseFd, Closed
<1>4. pc' = pc \/ \E there \in {"stopWatching", "idle", "already", "closeFd", "closed"} :
                   pc' = [pc EXCEPT ![t] = there]
  BY <1>2 DEF CloseSteps, Close, StopWatching, CloseFd, Closed
<1>5. OneCall'
  BY <1>1, <1>2, <1>3, <1>4 DEF OneCall
<1>6. \A u \in Threads : pc'[u] # "oneClient" /\ pc'[u] # "complete"
  <2>1. pc[t] # "oneClient" /\ pc[t] # "complete"
    BY DEF CloseSteps, Close, StopWatching, CloseFd, Closed
  <2> QED BY <1>2, <1>3, <1>4, <2>1
<1>7. CASE Close(t)
  <2>1. UNCHANGED <<h4, open>> /\ pc[t] = "close"
    BY <1>7 DEF Close
  <2>2. mState # "INITIALIZING" /\ mState # "CLOSING"
    BY <1>1, <1>3, <2>1 DEF UnderWay, Opening, Opened, Closing
  <2>3. CASE mState = "ONE_CLIENT"
    <3>1. mState' = "CLOSING" /\ pc' = [pc EXCEPT ![t] = "stopWatching"] /\ UNCHANGED aborted
      BY <1>7, <2>3 DEF Close
    <3> QED BY <1>1, <1>2, <1>3, <1>5, <1>6, <2>1, <3>1 DEF UnderWay, Settled, Spared, Closing
  <2>4. CASE mState # "ONE_CLIENT"
    <3>1. UNCHANGED <<mState, aborted>>
      BY <1>7, <2>2, <2>4 DEF Close
    <3> QED BY <1>1, <1>3, <1>5, <1>6, <2>1, <2>2, <3>1 DEF UnderWay, Settled, Spared
  <2> QED BY <2>3, <2>4
<1>8. CASE StopWatching(t) \/ CloseFd(t)
  <2>1. UNCHANGED <<mState, h4, aborted>> /\ mState = "CLOSING" /\ pc'[t] \in Closing
    BY <1>2, <1>8 DEF StopWatching, CloseFd, Closing, Owned, Alone
  <2> QED BY <1>1, <1>3, <1>5, <1>6, <2>1 DEF UnderWay, Settled, Spared
<1>9. CASE Closed(t)
  BY <1>1, <1>3, <1>5, <1>6, <1>9 DEF Closed, UnderWay, Settled, Spared
<1> QED BY <1>7, <1>8, <1>9 DEF CloseSteps

LEMMA SoleOthers ==
  ASSUME Owned, Sole, NEW c \in Clients,
         CloseCalled(c) \/ Send(c) \/ Die(c) \/ ServiceDied(c)
  PROVE  Sole'
<1> USE DEF Owned, Typed, Alone, Found, Kept, Opening, Opened, Closing, Busy, Threads,
        Goto, stateVars, fdVars, callVars, deathVars, Sole, OneCall, UnderWay, Settled, Spared
<1>1. CASE CloseCalled(c)
  BY <1>1 DEF CloseCalled, Begins, Calls
<1>2. CASE Send(c)
  BY <1>2 DEF Send, Begins, Calls, Abort
<1>3. CASE Die(c)
  BY <1>3 DEF Die
<1>4. CASE ServiceDied(c)
  BY <1>4 DEF ServiceDied
<1> QED BY <1>1, <1>2, <1>3, <1>4

LEMMA SoleWatcher ==
  ASSUME Owned, Sole, Watcher
  PROVE  Sole'
<1> USE DEF Sole, OneCall, UnderWay, Settled, Spared, stateVars, fdVars, callVars, deathVars
<1>1. CASE WatcherReads
  BY <1>1 DEF WatcherReads, serviceVars
<1>2. CASE WatcherLoops
  <2>1. h4 \in {"reset", "client"} /\ Callback
    BY <1>2 DEF WatcherLoops, Owned, Kept
  <2>2. aborted' \in {aborted, "answered twice", "bad packet type", "unexpected command"}
    <3>1. \/ fatal'
          \/ ~ fatal' /\ delivered' = delivered
          \/ delivered' # delivered /\ h4 = "client"
          \/ delivered' # delivered /\ h4 = "reset"
      BY <2>1
    <3> QED BY <2>1, <3>1 DEF Callback, Abort
  <2> QED BY <1>2, <2>2 DEF WatcherLoops
<1>3. CASE WatcherDisconnects
  BY <1>3 DEF WatcherDisconnects
<1> QED BY <1>1, <1>2, <1>3 DEF Watcher

LEMMA ServiceSole == Spec => []Sole
<1>1. Owned /\ Sole /\ [Next]_vars => Sole'
  <2> SUFFICES ASSUME Owned, Sole, [Next]_vars PROVE Sole'
    OBVIOUS
  <2>1. CASE UNCHANGED vars
    BY <2>1 DEF vars, serviceVars, callVars, stateVars, fdVars, deathVars,
       Sole, OneCall, UnderWay, Settled, Spared
  <2>2. ASSUME NEW c \in Clients,
               Initialize(c) \/ OpenHci(c) \/ OpenFails(c) \/ InitializeSteps(c)
        PROVE  Sole'
    BY <2>2, SoleInitializes, SoleOpens DEF InitializeSteps
  <2>3. ASSUME NEW c \in Clients, CloseCalled(c) \/ Send(c) \/ Die(c) \/ ServiceDied(c)
        PROVE  Sole'
    BY <2>3, SoleOthers
  <2> QED BY <2>1, <2>2, <2>3, SoleCloses, SoleWatcher DEF Next
<1> QED BY <1>1, SoleInit, ServiceOwned, PTL DEF Spec

(* One client that makes one call after another does not end the process,     *)
(* whatever it calls; only what the controller sends can (BluetoothHci.cpp:   *)
(* 75, 168, 327, 393).                                                        *)
THEOREM ServiceIsSafeAlone == Spec => []AloneIsSafe
<1>1. Sole => AloneIsSafe
  BY DEF Sole, Spared, AloneIsSafe
<1> QED BY <1>1, ServiceSole, PTL

(* And a client that was told SUCCESS has the interface, opened for it.       *)
THEOREM ServiceSuccessIsOpen == Spec => []SuccessIsOpen
<1>1. Sole => SuccessIsOpen
  BY DEF Sole, Settled, SuccessIsOpen
<1> QED BY <1>1, ServiceSole, PTL
===============================================================================
