------------------------- MODULE DataAvailability -------------------------
(***************************************************************************)
(* What the data availability client promises, without its processes.      *)
(*                                                                         *)
(* For one protocol (FTSO or FDC) the Relay contract finalises voting      *)
(* rounds; the client publishes the data of a finalised round once and     *)
(* keeps it at least until the round falls behind the history horizon.     *)
(* DataProcessor (the ingest loop) and ProtocolStore (the tables) are both *)
(* shown to implement this module.                                         *)
(***************************************************************************)
EXTENDS Naturals

CONSTANT Rounds            \* the voting rounds (naturals) that may be finalised

VARIABLES
    relayed,               \* rounds finalised on chain
    available,             \* rounds whose data is in the database
    horizon                \* rounds below it have been dropped at least once

daVars == <<relayed, available, horizon>>

Init ==
    /\ relayed \in SUBSET Rounds
    /\ available = {}
    /\ horizon = 0

\* The Relay contract finalises some rounds; finalisation is never undone.
Relay(S) ==
    /\ relayed' = relayed \cup S
    /\ UNCHANGED <<available, horizon>>

\* The data of a finalised round becomes visible, all of it in one step.
Publish(r) ==
    /\ r \in relayed
    /\ r \notin available
    /\ available' = available \cup {r}
    /\ UNCHANGED <<relayed, horizon>>

\* History behind the horizon goes; nothing newer does.  A round that is
\* published while the horizon moves past it may stay until the next time.
Expire ==
    /\ horizon' \in Nat
    /\ horizon' >= horizon
    /\ \E S \in SUBSET {r \in available : r < horizon'} :
          available' = available \ S
    /\ UNCHANGED relayed

Next ==
    \/ \E S \in SUBSET Rounds : Relay(S)
    \/ \E r \in Rounds : Publish(r)
    \/ Expire

Spec == Init /\ [][Next]_daVars

=============================================================================
