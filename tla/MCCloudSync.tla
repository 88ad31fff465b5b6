---------------------------- MODULE MCCloudSync ----------------------------
(* Instances of the cloud session for TLC.                                 *)
EXTENDS CloudSync

CONSTANTS till, kds

(* The till authors events; a second device reads them.                    *)
TillAppends(n) == [d \in Devices |-> IF d = till THEN n ELSE 0]
TillAppendsTwo == TillAppends(2)
TillAppendsThree == TillAppends(3)
TillAppendsFour == TillAppends(4)

(* The pass screen authors a ready mark.                                   *)
EachAppendsOne == [d \in Devices |-> 1]

=============================================================================
