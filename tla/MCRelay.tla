------------------------------ MODULE MCRelay ------------------------------
(***************************************************************************)
(* One request, since requests share nothing but the connections, and      *)
(* connections enough for every fault to be followed by a new one: a       *)
(* second bridge takes one, and so does the reconnection after it.         *)
(***************************************************************************)
EXTENDS Relay

ASSUME EnoughSockets == MaxSockets > 2 * MaxFaults
=============================================================================
