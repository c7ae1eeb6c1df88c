--------------------------- MODULE MCBluetoothHci ---------------------------
(***************************************************************************)
(* Streams for TLC, written out in bytes.  A byte has 2 values where it    *)
(* says a length, so that an ACL packet of 2 bytes needs both bytes.       *)
(***************************************************************************)
EXTENDS BluetoothHci

SupportedList == <<4, 14, 4, 1, 2, 16, 8>>
ResetAnswer   == <<4, 14, 4, 1, 3, 12, 0>>
EmptyEvent    == <<4, 9, 0>>
LongAcl       == <<2, 9, 9, 0, 1, 0, 0>>

Raw == <<SupportedList, ResetAnswer, ResetAnswer, EmptyEvent, LongAcl>>

ByteBaseMC == 2
PatchAtMC  == 6

NMC     == Len(Raw)
KindMC  == [n \in 1 .. NMC |-> Raw[n][1]]
StartMC == LET start[n \in 1 .. NMC + 1] ==
                 IF n = 1 THEN 0 ELSE start[n - 1] + Len(Raw[n - 1])
           IN  start
SizeMC  == [n \in 1 .. NMC |-> Len(Raw[n]) - 1 - HeaderSize[KindMC[n]]]
WireMC  == [p \in 0 .. StartMC[NMC + 1] - 1 |->
             LET n == CHOOSE n \in 1 .. NMC : StartMC[n] <= p /\ p < StartMC[n + 1]
             IN  Raw[n][p - StartMC[n] + 1]]
===============================================================================
