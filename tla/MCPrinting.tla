----------------------------- MODULE MCPrinting -----------------------------
(* Instances of the till's printing for TLC: an order of two lines and     *)
(* one printer.                                                            *)
EXTENDS Printing

CONSTANTS naan, dal, grill, tandoor, screen

(* An addition at one station, a chit at each of two, a line for a screen. *)
ThreeMenus == {[l \in Lines |-> IF l = dal THEN s ELSE tandoor] : s \in Stations}

(* An empty spool, or one whose only chit is from before 03-F55.           *)
Legacy == <<[id |-> <<tandoor, 0>>, state |-> "printed", attempts |-> 1, covers |-> None]>>
EmptySpool == {<<>>}
EitherSpool == {<<>>, Legacy}

Some(crashes, voids, rolls, resends, acks, days) ==
  [crashes |-> crashes, voids |-> voids, rolls |-> rolls, resends |-> resends,
   acks |-> acks, days |-> days]

(* A roll that runs out over a relaunch; a failed chit that is sent again, *)
(* or dismissed, over a relaunch, on the same day or the next.             *)
Troubles == {Some(1, 0, 1, 0, 0, 0), Some(1, 0, 0, 1, 0, 0), Some(1, 1, 0, 0, 1, 1)}
Voided == {Some(0, 1, 0, 1, 0, 0)}

=============================================================================
