------------------------------- MODULE MCMesh -------------------------------
(* Instances of the mesh for TLC: a counter till, a kitchen screen and a   *)
(* waiter's tablet; ranks from their classes, and ids in another order.    *)
EXTENDS Mesh

CONSTANTS counter, kitchen, waiter

AllIds == [d \in Devices |-> CASE d = counter -> 2 [] d = kitchen -> 1 [] d = waiter -> 0]
AllRanks == [d \in Devices |-> CASE d = counter -> 0 [] d = kitchen -> 2 [] d = waiter -> -1]

Owns(c, k, w) == [d \in Devices |-> CASE d = counter -> c [] d = kitchen -> k [] d = waiter -> w]

(* A counter and a kitchen, which hold events or append them, over         *)
(* failures; and a branch of three where nothing fails, but links come up  *)
(* one after the other and split it.                                       *)
Pair2(c0, k0, c1, k1, n) == [on |-> {counter, kitchen}, first |-> Owns(c0, k0, 0),
                            last |-> Owns(c1, k1, 0), failures |-> n]
Branch(w1) == [on |-> Devices, first |-> Owns(0, 0, 1), last |-> Owns(0, 0, w1), failures |-> 0]

TwoHeld == {Pair2(0, 2, 0, 2, 2)}
AllScenes == {Pair2(0, 2, 0, 2, 2), Pair2(0, 3, 0, 3, 1), Pair2(0, 0, 1, 1, 1), Branch(1)}

=============================================================================
