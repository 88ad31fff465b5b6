------------------------------- MODULE Branch -------------------------------
(***************************************************************************)
(* The devices of a branch, as the gateway knows them.                     *)
(***************************************************************************)

CONSTANTS
  Devices,      \* device ids a token or an envelope may name
  Relays        \* the devices whose sessions hold the hub-relay grant

ASSUME RelaysAssumption == Relays \subseteq Devices

=============================================================================
