--------------------------- MODULE FrameExchange ----------------------------
(***************************************************************************)
(* What an EVS camera promises the client of its stream: every graphics    *)
(* buffer has one owner at a time.  A buffer of the pool is idle, being    *)
(* written by the camera, or with the client; it changes hands only by     *)
(* delivery and return, and only during a stream is one delivered.  Losing *)
(* the camera takes the pool away but not what the client has.             *)
(***************************************************************************)
EXTENDS FiniteSets

CONSTANT Handles

VARIABLES
  idle,       \* buffers waiting for a picture
  writing,    \* the buffer being written, if any
  lent,       \* buffers with the client
  streaming,  \* the client has started a stream and not been told of its end
  lost        \* another owner has the camera

feVars == <<idle, writing, lent, streaming, lost>>

FEInit == /\ idle = {} /\ writing = {} /\ lent = {}
          /\ streaming = FALSE /\ lost = FALSE

Resize == /\ ~lost
          /\ idle' \in SUBSET (Handles \ (writing \cup lent))
          /\ UNCHANGED <<writing, lent, streaming, lost>>

(* A camera without a buffer is given one when a stream is started. *)
Start == /\ ~lost /\ ~streaming
         /\ streaming' = TRUE
         /\ IF idle \cup lent = {} THEN \E h \in Handles : idle' = {h}
                                   ELSE UNCHANGED idle
         /\ UNCHANGED <<writing, lent, lost>>

BeginWrite == /\ streaming /\ writing = {}
              /\ \E h \in idle : writing' = {h} /\ idle' = idle \ {h}
              /\ UNCHANGED <<lent, streaming, lost>>

Lend == /\ streaming /\ writing # {}
        /\ lent' = lent \cup writing /\ writing' = {}
        /\ UNCHANGED <<idle, streaming, lost>>

Abandon == /\ writing # {}
           /\ idle' = idle \cup writing /\ writing' = {}
           /\ UNCHANGED <<lent, streaming, lost>>

GiveBack(S) == /\ lent' = lent \ S
               /\ idle' = IF lost THEN idle ELSE idle \cup S
               /\ UNCHANGED <<writing, streaming, lost>>

(* The end of a stream is announced when nothing is being written. *)
End == /\ streaming /\ writing = {}
       /\ streaming' = FALSE
       /\ UNCHANGED <<idle, writing, lent, lost>>

Lose == /\ ~streaming /\ writing = {}
        /\ lost' = TRUE /\ idle' = {}
        /\ UNCHANGED <<writing, lent, streaming>>

FENext == \/ Resize \/ Start \/ BeginWrite \/ Lend \/ Abandon
          \/ \E S \in SUBSET lent : GiveBack(S)
          \/ End \/ Lose

FESpec == FEInit /\ [][FENext]_feVars
=============================================================================
