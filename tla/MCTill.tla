------------------------------- MODULE MCTill -------------------------------
(* Instances of an order on the tills of a branch for TLC.                 *)
EXTENDS Till, TLC

CONSTANTS t1, t2, pass, biryani, raita

Prices == [l \in Lines |-> IF l = biryani THEN 4 ELSE 1]

(* No tax, or half as much again on a line.                                *)
Untaxed == Prices
Taxed == [l \in Lines |-> Price[l] + Price[l] \div 2]

(* Not rounded, or to the nearest multiple of three that is not nothing.   *)
Exact == [b \in 0 .. MaxBill |-> b]
Rounded == [b \in 0 .. MaxBill |-> IF b = 1 THEN 3 ELSE ((b + 1) \div 3) * 3]

(* A counter order of one line, handed over at the settlement, paid once.  *)
Plain(tills, screens, taxed, rounded) ==
  [tills |-> tills, screens |-> screens, channel |-> "counter", handedOver |-> TRUE,
   serveOwner |-> "settlement", autoAdvances |-> screens = {},
   taxed |-> taxed, rounded |-> rounded,
   lines |-> {biryani}, parts |-> {}, confirms |-> 0, payments |-> 1, voids |-> 0,
   cuts |-> 0]

(* Two tills apart: an order that grows around its settlements; one sent   *)
(* to the kitchen, and one voided, while the other till settles, with an   *)
(* act cut short.                                                          *)
Apart ==
  {[Plain({t1, t2}, {}, Taxed, Exact) EXCEPT !.lines = Lines, !.payments = 2],
   [Plain({t1, t2}, {}, Untaxed, Rounded) EXCEPT !.confirms = 1, !.cuts = 1],
   [Plain({t1, t2}, {}, Untaxed, Rounded) EXCEPT !.voids = 1, !.cuts = 1]}

(* A till and a pass screen: served at the pass, while the till voids; or  *)
(* at the settlement, paid in parts, while the order grows.                *)
Kitchen ==
  {[Plain({t1}, {pass}, Untaxed, Rounded) EXCEPT !.confirms = 1, !.voids = 1, !.cuts = 1,
      !.serveOwner = "pass", !.payments = 2, !.parts = {2}],
   [Plain({t1}, {pass}, Taxed, Exact) EXCEPT !.lines = Lines, !.payments = 2, !.parts = {2}]}

Aggregated ==
  {[Plain({t1}, {}, Taxed, Exact) EXCEPT !.channel = "foodpanda", !.lines = Lines, !.confirms = 2,
      !.cuts = 1]}

AllStories == Apart \cup Kitchen \cup Aggregated

TillSymmetry == Permutations({t1, t2})

=============================================================================
