------------------------------ MODULE Heartbeat ------------------------------
(***************************************************************************)
(* The heartbeat attribute (acq200_core.c): the card counts in the low     *)
(* bits of its status mailbox, the driver reads the counter, sleeps for a  *)
(* tenth of a second, reads it again and returns the difference.  When the *)
(* second value is the smaller one it measures once more.                  *)
(*                                                                         *)
(* The counter has Width bits (12 in the register); the difference is      *)
(* taken modulo 2^32 and returned as an int, so it may come out negative.  *)
(***************************************************************************)
EXTENDS Integers

CONSTANTS Width,         \* bits of the counter
          HbEnvironments \* what may happen in the behaviours that are looked at

HbHappenings ==
    {"fast",    \* the card may count round more than half of its range in a sleep
     "reset",   \* the card may start its counter again
     "signal"}  \* a signal may end a sleep before its time

ASSUME HbWidthAssumption == Width \in Nat \ {0} /\ 2 ^ Width \in Nat /\ 2 ^ Width >= 2
ASSUME HbEnvironmentAssumption == HbEnvironments \subseteq SUBSET HbHappenings

VARIABLES hbpc,     \* the place of the reader
          counter,  \* the counter of the card
          alive,    \* the card counts
          v1, v2,   \* the locals of acq200_getHeartbeat
          ticks,    \* how often the card has counted in the last sleep
          detected, \* heartbeat_detected, which is returned
          hbenv     \* what may happen in this behaviour: chosen once

hbvars == <<hbpc, counter, alive, v1, v2, ticks, detected, hbenv>>

Modulus == 2 ^ Width
Counts == 0 .. Modulus - 1

\* How often the card may count in a sleep: a card that is alive counts at
\* least once in a tenth of a second.
Beats ==
    LET most == IF "fast" \in hbenv THEN Modulus ELSE Modulus \div 2
    IN  IF ~ alive THEN {0} ELSE IF "signal" \in hbenv THEN 0 .. most ELSE 1 .. most

HbInit ==
    /\ hbpc = "idle" /\ counter = 0 /\ alive = TRUE
    /\ v1 = 0 /\ v2 = 0 /\ ticks = 0 /\ detected = 0
    /\ hbenv \in HbEnvironments

\* _getHeartbeat: the bits of the counter in MAILBOX_3.
getHeartbeat == counter % Modulus

-----------------------------------------------------------------------------
\* show_heartbeat calls acq200_getHeartbeat; the first value.
ReadFirst ==
    /\ hbpc = "idle"
    /\ v1' = getHeartbeat /\ hbpc' = "sleep"
    /\ UNCHANGED <<counter, alive, v2, ticks, detected, hbenv>>

\* interruptible_sleep_on_timeout.
Sleep ==
    /\ hbpc \in {"sleep", "again"}
    /\ \E k \in Beats :
         /\ ticks' = k
         /\ \/ counter' = (counter + k) % Modulus
            \/ "reset" \in hbenv /\ counter' = k % Modulus
    /\ hbpc' = IF hbpc = "sleep" THEN "second" ELSE "third"
    /\ UNCHANGED <<alive, v1, v2, detected, hbenv>>

\* The second value: a larger one is good, an equal one is no heartbeat, a
\* smaller one means that the counter came round.
ReadSecond_NoWrap ==
    /\ hbpc = "second"
    /\ v2' = getHeartbeat
    /\ detected' = v2' - v1 /\ hbpc' = "return"
    /\ UNCHANGED <<counter, alive, v1, ticks, hbenv>>
ReadSecond ==
    /\ hbpc = "second"
    /\ v2' = getHeartbeat
    /\ IF v2' >= v1 THEN detected' = v2' - v1 /\ hbpc' = "return"
                    ELSE hbpc' = "again" /\ UNCHANGED detected
    /\ UNCHANGED <<counter, alive, v1, ticks, hbenv>>

\* The second try, whatever it gives.
ReadThird ==
    /\ hbpc = "third"
    /\ v1' = getHeartbeat
    /\ detected' = v1' - v2 /\ hbpc' = "return"
    /\ UNCHANGED <<counter, alive, v2, ticks, hbenv>>

\* The attribute is read later again: by then the counter may be anywhere, and
\* the card may have stopped or come back.
HbReturn ==
    /\ hbpc = "return"
    /\ hbpc' = "idle" /\ v1' = 0 /\ v2' = 0 /\ ticks' = 0
    /\ counter' \in Counts /\ alive' \in BOOLEAN
    /\ UNCHANGED <<detected, hbenv>>

HbNext == ReadFirst \/ Sleep \/ ReadSecond \/ ReadThird \/ HbReturn

HbSpec == HbInit /\ [][HbNext]_hbvars

-----------------------------------------------------------------------------
\* What acq200_getHeartbeat returns is how often the card has counted in the
\* last tenth of a second, so it is zero exactly for a card that stood still
\* ("non-zero number means the card is alive", acq200.c:112): the second try
\* makes up for a counter that came round (acq200_core.c:70-85).  Not when the
\* card counts round more than half of its range between two readings, or
\* starts again.
HeartbeatIsRate ==
    hbenv \cap {"fast", "reset"} # {} \/
    (hbpc = "return" => detected = ticks)
=============================================================================
