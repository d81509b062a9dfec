----------------------------- MODULE CardDriver -----------------------------
(***************************************************************************)
(* The driver around the message paths: the table of cards (DeviceTable),  *)
(* which decides when a card and its attributes are there, and the         *)
(* attributes that do more than show a field, used on a card that is there: *)
(* imask with the interrupt masks and the lock (IrqMask), and heartbeat    *)
(* (Heartbeat).  They share no state, so a behaviour is about one of them. *)
(***************************************************************************)
EXTENDS IrqMask, Heartbeat, DeviceTable

VARIABLE group   \* what this behaviour is about: chosen once

allvars == <<vars, hbvars, dtvars, group>>

\* Every card is there from the start.
Everywhere == \A c \in Cards : bind[c] = "no"

DriverInit ==
    /\ Init /\ HbInit /\ DtInit
    /\ \/ group = "table" /\ env = {} /\ hbenv = {}
       \/ group \in {"walk", "mask", "lock"} /\ hbenv = {} /\ dtenv = {} /\ Everywhere
       \/ group = "heartbeat" /\ env = {} /\ dtenv = {} /\ Everywhere

DriverNext ==
    /\ UNCHANGED group
    /\ \/ group = "table" /\ DtNext /\ UNCHANGED <<vars, hbvars>>
       \/ group = "walk" /\ WalkNext /\ UNCHANGED <<hbvars, dtvars>>
       \/ group = "mask" /\ MaskNext /\ UNCHANGED <<hbvars, dtvars>>
       \/ group = "lock" /\ LockNext /\ UNCHANGED <<hbvars, dtvars>>
       \/ group = "heartbeat" /\ HbNext /\ UNCHANGED <<vars, dtvars>>

DriverSpec == DriverInit /\ [][DriverNext]_allvars
=============================================================================
