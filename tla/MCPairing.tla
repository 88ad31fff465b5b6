----------------------------- MODULE MCPairing -----------------------------
(* Instances of pairing for TLC.                                           *)
EXTENDS Pairing, TLC

CONSTANTS till, kds, k1, k2, bad, c1, c2, r1, r2, r3

(* Codes, devices, keys and requests of one kind are interchangeable.      *)
Alike == Permutations(Codes) \cup Permutations(Devices)
         \cup Permutations(Keys \ Unreadable) \cup Permutations(Requests)

=============================================================================
