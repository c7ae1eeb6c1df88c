-------------------------------- MODULE Thermal --------------------------------
(***************************************************************************)
(* The thermal HAL (thermal/aidl/default/Thermal.cpp): a thread that       *)
(* checks the temperature of the processor once a second, and the clients  *)
(* it tells of throttling.  The temperature comes from a host over a       *)
(* socket, which also sends trip points, or from a file when there is no   *)
(* host.  All calls are made on one binder thread; what it shares with the *)
(* checking thread is two lists of callbacks, under thermal_callback_-     *)
(* mutex_, and the temperature and its thresholds, under no lock.          *)
(*                                                                         *)
(* A temperature is a number in Celsius; Never stands for a threshold that *)
(* is not a number.  Cooling devices, of which there are none, and the     *)
(* search for the sensors of the cores are left out.                       *)
(***************************************************************************)
EXTENDS Naturals, Sequences, FiniteSets

CONSTANTS
  Clients,      \* their callbacks
  Temperatures, \* what a sensor or the host may say
  TripPoints,   \* what the host may set as a trip point of the processor
  MaxZones      \* bound: the zones of a message of the host

Never    == 1000
Severities == 1 .. 6  \* LIGHT .. SHUTDOWN; 0 is NONE
Defaults == <<Never, Never, Never, Never, 99, 108>>
Idle     == 0
None     == "none"
Trips    == TripPoints \X TripPoints

VARIABLES
  is_vsock_present,
  value,              \* of kTemp_2_0
  throttlingStatus,   \* of kTemp_2_0
  hotThrottlingThresholds,
  thermal_callbacks_, \* what a client may not add twice, and removes
  callbacks_,         \* what the thread tells
  adding,             \* the client between the two halves of its registration
  checking,           \* the severity the thread compares with; Idle: it sleeps
  held,               \* clients whose registration is in force (history)
  told,               \* the last severity each was told (history)
  answer              \* the last answer to a registration (history)

heat  == <<value, throttlingStatus, hotThrottlingThresholds>>
lists == <<thermal_callbacks_, callbacks_, adding>>
past  == <<held, told, answer>>
vars  == <<is_vsock_present, heat, lists, checking, past>>

NoAnswer == [client |-> None, says |-> "ok", wasHeld |-> FALSE]

Init ==
  /\ is_vsock_present \in BOOLEAN
  /\ value = 0 /\ throttlingStatus = 0
  /\ hotThrottlingThresholds = Defaults
  /\ thermal_callbacks_ = {} /\ callbacks_ = {} /\ adding = None
  /\ checking = Idle
  /\ held = {} /\ told = [c \in Clients |-> 0] /\ answer = NoAnswer
-------------------------------------------------------------------------------
(* The thread.                                                                *)

\* One zone: the thresholds start from the defaults, whatever the zone before
\* said; only type 0, the processor, sets them and the temperature.
parse_zone_info(was, zone) ==
  IF zone.processor
    THEN [value |-> zone.value, hot |-> <<Never, Never, Never, Never>> \o zone.trips]
    ELSE [value |-> was.value, hot |-> Defaults]

Zones == [processor : BOOLEAN, value : Temperatures, trips : Trips]

\* The message with the zones; its zones are read in turn.
recv_zones ==
  \E n \in 1 .. MaxZones : \E zones \in [1 .. n -> Zones] :
    LET after[i \in 0 .. n] ==
          IF i = 0 THEN [value |-> value, hot |-> hotThrottlingThresholds]
                   ELSE parse_zone_info(after[i - 1], zones[i])
    IN /\ value' = after[n].value
       /\ hotThrottlingThresholds' = after[n].hot

\* The message with temperatures alone, or none yet.
recv_temperature ==
  /\ value' \in Temperatures \cup {value}
  /\ UNCHANGED hotThrottlingThresholds

\* Without a host; the reading may fail, and then the value stays and nothing
\* is compared.
ReadsFile ==
  /\ ~ is_vsock_present
  /\ value' \in Temperatures
  /\ UNCHANGED hotThrottlingThresholds

\* The thread wakes up, learns the temperature and starts at the top.
Wakes ==
  /\ checking = Idle
  /\ \/ is_vsock_present /\ (recv_zones \/ recv_temperature)
     \/ ReadsFile
  /\ checking' = 6
  /\ UNCHANGED <<is_vsock_present, throttlingStatus, lists, past>>

\* Every threshold that is reached is told, from the highest on.
Compares ==
  /\ checking # Idle
  /\ IF value >= hotThrottlingThresholds[checking]
       THEN /\ throttlingStatus' = checking
            /\ told' = [c \in Clients |-> IF c \in callbacks_ THEN checking ELSE told[c]]
       ELSE UNCHANGED <<throttlingStatus, told>>
  /\ checking' = checking - 1
  /\ UNCHANGED <<is_vsock_present, value, hotThrottlingThresholds, lists, held, answer>>

CheckThermalServerity == Wakes \/ Compares
-------------------------------------------------------------------------------
(* The calls.                                                                 *)

Answers(c, says) ==
  /\ answer' = [client |-> c, says |-> says, wasHeld |-> c \in held]
  /\ held' = IF says = "ok" THEN held \cup {c} ELSE held

\* The first half: the list that answers for the registration.
registerThermalChangedCallback(c) ==
  /\ adding = None
  /\ IF c \in thermal_callbacks_
       THEN /\ Answers(c, "already registered")
            /\ UNCHANGED lists
       ELSE /\ thermal_callbacks_' = thermal_callbacks_ \cup {c}
            /\ adding' = c
            /\ UNCHANGED <<callbacks_, held, answer>>
  /\ UNCHANGED <<is_vsock_present, heat, checking, told>>

\* The second, with the lock taken anew: the list that is told.
Registers ==
  /\ adding # None
  /\ IF adding \in callbacks_
       THEN /\ Answers(adding, "already registered")
            /\ UNCHANGED callbacks_
       ELSE /\ Answers(adding, "ok")
            /\ callbacks_' = callbacks_ \cup {adding}
  /\ adding' = None
  /\ UNCHANGED <<is_vsock_present, heat, checking, thermal_callbacks_, told>>

registerThermalChangedCallbackWithType(c) ==
  /\ adding = None
  /\ IF c \in thermal_callbacks_
       THEN /\ Answers(c, "already registered")
            /\ UNCHANGED thermal_callbacks_
       ELSE /\ Answers(c, "ok")
            /\ thermal_callbacks_' = thermal_callbacks_ \cup {c}
  /\ UNCHANGED <<is_vsock_present, heat, checking, callbacks_, adding, told>>

unregisterThermalChangedCallback(c) ==
  /\ adding = None
  /\ c \in thermal_callbacks_
  /\ thermal_callbacks_' = thermal_callbacks_ \ {c}
  /\ held' = held \ {c}
  /\ told' = [told EXCEPT ![c] = 0]
  /\ UNCHANGED <<is_vsock_present, heat, checking, callbacks_, adding, answer>>

\* A client asks for the thresholds, and the defaults are written over those
\* the host has set.
getTemperatureThresholds ==
  /\ adding = None
  /\ hotThrottlingThresholds' = Defaults
  /\ UNCHANGED <<is_vsock_present, value, throttlingStatus, lists, checking, past>>

Calls ==
  \/ \E c \in Clients :
       \/ registerThermalChangedCallback(c)
       \/ registerThermalChangedCallbackWithType(c)
       \/ unregisterThermalChangedCallback(c)
  \/ Registers
  \/ getTemperatureThresholds

Next == CheckThermalServerity \/ Calls

Spec == Init /\ [][Next]_vars /\ WF_vars(CheckThermalServerity) /\ WF_vars(Registers)
-------------------------------------------------------------------------------
\* A client is only told that its callback is already registered when it is
\* (Thermal.cpp:645, 656).  The code keeps the callback in callbacks_ when it
\* is unregistered (Thermal.cpp:686), and answers so to the next registration.
AlreadyIsRegistered == answer.says = "already registered" => answer.wasHeld

\* Only a client whose callback is registered is told.  The code goes on.
OnlyRegisteredAreTold ==
  \A c \in Clients : told[c] # 0 => c \in held \cup {adding}

\* A client that stays registered while the processor is too hot for every
\* threshold is told, however it registered.  One that registered with a type
\* is not (Thermal.cpp:681).
RegisteredAreTold ==
  \A c \in Clients :
    []<>(told[c] # 0 \/ c \notin held \/ \E s \in {5, 6} : value < hotThrottlingThresholds[s])

\* Between two checks the status is that of the highest threshold reached
\* (the order of Thermal.cpp:511 leaves the lowest).
StatusIsHighest ==
  checking = Idle =>
    \A s \in Severities : value >= hotThrottlingThresholds[s] => throttlingStatus >= s

\* Between two checks the status is NONE when no threshold is reached.  Nothing
\* ever sets it to NONE.
StatusEnds ==
  checking = Idle /\ throttlingStatus # 0 => value >= hotThrottlingThresholds[throttlingStatus]

\* What the host said of the processor holds until it says otherwise.  Asking
\* for the thresholds, or a zone after the processor's, undoes it
\* (Thermal.cpp:111, 605).
TripsStay ==
  [][hotThrottlingThresholds' # hotThrottlingThresholds => CheckThermalServerity]_vars
===============================================================================
