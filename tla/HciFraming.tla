------------------------------ MODULE HciFraming ------------------------------
(***************************************************************************)
(* The Bluetooth HAL's reader of the H4 transport: H4Protocol::OnDataReady *)
(* (bluetooth/hci/h4_protocol.cc) with the HciPacketizer it feeds.         *)
(*                                                                         *)
(* A byte is named by its position in the stream of the file descriptor;   *)
(* Wire gives its value.  One action is one read, or one iteration of the  *)
(* loop over what was read: the recursive call of the packetizer for the   *)
(* payload is the next iteration.                                          *)
(***************************************************************************)
EXTENDS Integers, Sequences

CONSTANTS
  N,        \* how many packets the controller writes
  Kind,     \* the type of each packet
  Start,    \* where each packet starts, and where the last one ends
  Size,     \* the length of each packet's payload
  Wire,     \* the value of each byte
  ByteBase, \* how many values a byte has, 256 in the code
  PatchAt,  \* where the bit is cleared in what was read, 36 in the code
  ReadSizes \* how much one read returns

UNKNOWN  == 0
COMMAND  == 1
ACL_DATA == 2
EVENT    == 4
ISO_DATA == 5
PacketTypes == 1 .. 5

HeaderSize   == <<3, 4, 3, 2, 4>>
LengthOffset == <<2, 2, 2, 1, 2>>

HCI_COMMAND_COMPLETE_EVT == 14
SupportedCmds == <<2, 16>>  \* HCI_READ_LOCAL_SUPPORTED_CMDS, low byte first

\* The length that a header, as the values of its bytes, announces.
HciGetPacketLengthForType(type, header) ==
  LET offset == LengthOffset[type] + 1
  IN  IF type \in {ACL_DATA, ISO_DATA}
      THEN header[offset + 1] * ByteBase + header[offset]
      ELSE header[offset]

\* The positions from..upto-1, as the bytes copied from there.
Bytes(from, upto) == [i \in 1 .. upto - from |-> from + i - 1]

\* The header of packet n, as the controller writes it.
Header(n) == [i \in 1 .. HeaderSize[Kind[n]] |-> Wire[Start[n] + i]]

ASSUME WireAssumption ==
  /\ N \in Nat /\ ByteBase \in Nat /\ PatchAt \in Nat
  /\ ReadSizes \subseteq Nat \ {0}
  /\ Kind \in [1 .. N -> PacketTypes]
  /\ Size \in [1 .. N -> Nat]
  /\ Start \in [1 .. N + 1 -> Nat]
  /\ Start[1] = 0
  /\ Wire \in [0 .. Start[N + 1] - 1 -> Nat]
  /\ \A n \in 1 .. N :
       /\ Start[n + 1] = Start[n] + 1 + HeaderSize[Kind[n]] + Size[n]
       /\ Wire[Start[n]] = Kind[n]
       /\ HciGetPacketLengthForType(Kind[n], Header(n)) = Size[n]

VARIABLES
  upto,         \* how much of the stream has been read
  at,           \* how much of it the loop has consumed
  hciType,      \* hci_packet_type_
  inPayload,    \* the packetizer's state_ is HCI_PAYLOAD
  remaining,    \* bytes_remaining_
  packet,       \* packet_
  disconnected, \* disconnected_
  fatal,        \* the type byte is none of the five
  cleared,      \* the bytes in which bit 3 was cleared
  overrun,      \* a bit was cleared outside of what was read
  delivered,    \* what the callbacks were given, since this object was made
  base,         \* how many packets earlier objects were given (history)
  aligned       \* each object was made between two packets (history)

parser  == <<hciType, inPayload, remaining, packet>>
history == <<base, aligned>>
patch   == <<cleared, overrun>>
readerVars == <<upto, at, parser, disconnected, fatal, patch, delivered, history>>

Byte(p) == IF p \in cleared /\ (Wire[p] \div 8) % 2 = 1
           THEN Wire[p] - 8 ELSE Wire[p]

Values(bytes) == [i \in DOMAIN bytes |-> Byte(bytes[i])]

ReaderInit ==
  /\ upto = 0 /\ at = 0
  /\ hciType = UNKNOWN /\ inPayload = FALSE /\ remaining = 0 /\ packet = << >>
  /\ disconnected = FALSE /\ fatal = FALSE
  /\ cleared = {} /\ overrun = FALSE
  /\ delivered = << >>
  /\ base = 0 /\ aligned = TRUE

\* A file descriptor is opened, its stream starts anew, for a new object.
Open ==
  /\ upto' = 0 /\ at' = 0
  /\ hciType' = UNKNOWN /\ inPayload' = FALSE /\ remaining' = 0 /\ packet' = << >>
  /\ disconnected' = FALSE /\ fatal' = FALSE
  /\ cleared' = {} /\ overrun' = FALSE
  /\ delivered' = << >>
  /\ base' = 0 /\ aligned' = TRUE

\* A new object takes over the file descriptor of the one before it.
Replace ==
  /\ at = upto
  /\ hciType' = UNKNOWN /\ inPayload' = FALSE /\ remaining' = 0 /\ packet' = << >>
  /\ disconnected' = FALSE
  /\ delivered' = << >>
  /\ base' = base + Len(delivered)
  /\ aligned' = (aligned /\ hciType = UNKNOWN)
  /\ UNCHANGED <<upto, at, fatal, patch>>

\* The search for "read local supported commands": byte k of what was read has
\* this value; past the end of the buffer it may have any.
MayBe(from, end, k, value) == from + k < end => Wire[from + k] = value

MaySupport(from, end) ==
  /\ hciType # UNKNOWN \/ from + 1 < end
  /\ MayBe(from, end, 1, HCI_COMMAND_COMPLETE_EVT)
  /\ MayBe(from, end, 4, SupportedCmds[1])
  /\ MayBe(from, end, 5, SupportedCmds[2])

DisableEnhancedSync(from, end) ==
  \/ /\ MaySupport(from, end)
     /\ from + PatchAt < end
     /\ cleared' = cleared \cup {from + PatchAt}
     /\ UNCHANGED overrun
  \/ /\ MaySupport(from, end)
     /\ from + PatchAt >= end
     /\ overrun' = TRUE
     /\ UNCHANGED cleared
  \/ /\ ~(MaySupport(from, end) /\ from + 5 < end)
     /\ UNCHANGED patch

CanRead == at = upto /\ ~disconnected /\ ~fatal

\* The loop looks for the command in every iteration that does not take a type
\* byte; the buffer is the same, and the first of them comes before the byte
\* to change is copied, so it is enough to look once.
OnDataReady(n) ==
  /\ CanRead
  /\ upto + n <= Start[N + 1]
  /\ upto' = upto + n
  /\ DisableEnhancedSync(upto, upto + n)
  /\ UNCHANGED <<at, parser, disconnected, fatal, delivered, history>>

\* read() returns zero.
Disconnect ==
  /\ CanRead
  /\ disconnected' = TRUE
  /\ UNCHANGED <<upto, at, parser, fatal, patch, delivered, history>>

InLoop == at < upto /\ ~fatal

\* A byte that is no type indexes past the table of header sizes, and what is
\* taken for its packet ends in LOG_ALWAYS_FATAL before any callback.
TakeType ==
  /\ InLoop
  /\ hciType = UNKNOWN
  /\ at' = at + 1
  /\ IF Byte(at) \in PacketTypes \cup {UNKNOWN}
     THEN hciType' = Byte(at) /\ UNCHANGED fatal
     ELSE fatal' = TRUE /\ UNCHANGED hciType
  /\ UNCHANGED <<upto, inPayload, remaining, packet, disconnected, patch,
                 delivered, history>>

OnPacketReady(bytes) ==
  /\ delivered' = Append(delivered, [type |-> hciType, bytes |-> bytes])
  /\ hciType' = UNKNOWN

NotReady == UNCHANGED <<delivered, hciType>>

Least(a, b) == IF a <= b THEN a ELSE b

\* Mutant: each piece overwrites what came before it.
CopiedOver(kept, count) == Bytes(at, at + count)

\* One copy of the packetizer.
Copied(kept, count) == kept \o Bytes(at, at + count)

\* Mutant: an empty payload is waited for.
HeaderReadyWaits(head, length) ==
  /\ remaining' = length
  /\ inPayload' = TRUE
  /\ NotReady

HeaderReady(head, length) ==
  /\ remaining' = length
  /\ inPayload' = (length > 0)
  /\ IF length > 0 THEN NotReady ELSE OnPacketReady(head)

TakeHeader ==
  /\ InLoop
  /\ hciType # UNKNOWN /\ ~inPayload
  /\ LET need == IF remaining = 0 THEN HeaderSize[hciType] ELSE remaining
         kept == IF remaining = 0 THEN << >> ELSE packet
         size == Least(need, upto - at)
         head == Copied(kept, size)
     IN  /\ at' = at + size
         /\ packet' = head
         /\ \/ /\ size < need
               /\ remaining' = need - size
               /\ NotReady
               /\ UNCHANGED inPayload
            \/ /\ size = need
               /\ HeaderReady(head, HciGetPacketLengthForType(hciType, Values(head)))
  /\ UNCHANGED <<upto, disconnected, fatal, patch, history>>

TakePayload ==
  /\ InLoop
  /\ hciType # UNKNOWN /\ inPayload
  /\ LET size == Least(remaining, upto - at)
         whole == Copied(packet, size)
     IN  /\ at' = at + size
         /\ packet' = whole
         /\ remaining' = remaining - size
         /\ inPayload' = (size < remaining)
         /\ IF size < remaining THEN NotReady ELSE OnPacketReady(whole)
  /\ UNCHANGED <<upto, disconnected, fatal, patch, history>>

SendDataToPacketizer == TakeType \/ TakeHeader \/ TakePayload

Reader == (\E n \in ReadSizes : OnDataReady(n)) \/ Disconnect \/ SendDataToPacketizer

ReaderNext == Open \/ Replace \/ Reader

ReaderSpec == ReaderInit /\ [][ReaderNext]_readerVars
-------------------------------------------------------------------------------
\* The bytes that say where packets end: types and headers.
Headers == UNION {Start[n] .. Start[n] + HeaderSize[Kind[n]] : n \in 1 .. N}

\* Objects are made between packets, and clearing the bit changed no header.
InStep == aligned /\ cleared \cap Headers = {}

\* What the next callback is for.
Current == base + Len(delivered) + 1

\* However the stream is cut into reads, what the callbacks are given are the
\* controller's packets, whole, in order, each by its type
\* (HciPacketizer::OnDataReady).
WholePackets ==
  InStep =>
    \A i \in 1 .. Len(delivered) :
      /\ base + i <= N
      /\ delivered[i] = [type |-> Kind[base + i],
                         bytes |-> Bytes(Start[base + i] + 1, Start[base + i + 1])]

\* Once the loop has consumed what was read, every packet of which the last byte
\* has come has been given to its callback, empty payloads included.
Prompt ==
  InStep /\ at = upto =>
    /\ Start[Current] <= at
    /\ Current <= N => at < Start[Current + 1]

\* Every answer that lists the supported commands is given without the enhanced
\* synchronous connections (h4_protocol.cc:240).
Disabled ==
  InStep =>
    \A i \in 1 .. Len(delivered) :
      LET start == Start[base + i]
      IN  /\ Kind[base + i] = EVENT
          /\ Wire[start + 1] = HCI_COMMAND_COMPLETE_EVT
          /\ <<Wire[start + 4], Wire[start + 5]>> = SupportedCmds
          => start + PatchAt \in cleared

\* The search never writes outside of what was read (h4_protocol.cc:246).
InBounds == ~overrun
===============================================================================
