-------------------------------- MODULE Till --------------------------------
(***************************************************************************)
(* One order on the devices of a branch: what each till and the kitchen's  *)
(* screen append after a look at their own fold, and what the fold makes   *)
(* of the events each has heard so far, in whatever order they came.       *)
(*                                                                         *)
(* An act reads the fold and appends a few events in one go; the process   *)
(* may stop, or the store fail, after any of them.  No device waits for    *)
(* another, so each guard is as old as what the device has heard.          *)
(* apps/pos-electron/src/main, apps/pass-kds/src/main,                     *)
(* packages/sync-client/src/folds/merge.ts, packages/domain/src/states.ts  *)
(***************************************************************************)
EXTENDS Integers, Sequences, FiniteSets, FiniteSetsExt, SequencesExt

CONSTANTS
  Devices,
  Lines,     \* line ids a till may draw (newId)
  Price,     \* the captured unit_price_paisa of a line, quantity one
  MaxBill,   \* bounds what the lines of an order sum up to
  Branches   \* the branch and its order: the tills, the pass screens, the
             \* channel, whether the kind of order is handed over, who signals
             \* "served", whether a printed chit starts the cooking (tier T1),
             \* what a line comes to with its tax and what a total is rounded
             \* to; and to bound the instance its lines, the amounts of part
             \* payments, and how many confirms, payments and voids a till may
             \* make and how many acts may be cut short

TaxedSum(b, S) == MapThenSumSet(LAMBDA l : b.taxed[l], S)

ASSUME TillAssumption ==
  /\ IsFiniteSet(Devices)
  /\ Price \in [Lines -> Nat] /\ MaxBill \in Nat
  /\ Branches \subseteq
       [tills : SUBSET Devices, screens : SUBSET Devices,
        channel : {"counter", "foodpanda"}, handedOver : BOOLEAN,
        serveOwner : {"settlement", "pass"}, autoAdvances : BOOLEAN,
        taxed : [Lines -> Nat], rounded : [0 .. MaxBill -> Nat],
        lines : SUBSET Lines, parts : SUBSET Nat,
        confirms : Nat, payments : Nat, voids : Nat, cuts : Nat]
  /\ \A b \in Branches :
       /\ IsFiniteSet(b.lines) /\ TaxedSum(b, b.lines) <= MaxBill
       /\ \A m, n \in 0 .. MaxBill : m <= n => b.rounded[m] <= b.rounded[n]

VARIABLES
  branch,
  log,     \* each device's own stream
  heard,   \* how much of each other stream a device has ingested
  cuts     \* acts that were cut short

vars == <<branch, log, heard, cuts>>

-----------------------------------------------------------------------------
(* The fold.  Every edge the devices emit names no predecessor, so no edge *)
(* retires another, and each was legal where it was emitted.               *)

Cooking == <<"placed", "confirmed", "in_prep", "ready">>

Exits == {"voided"}
LegalNext ==
  [placed |-> {"confirmed"} \cup Exits, confirmed |-> {"in_prep"} \cup Exits,
   in_prep |-> {"ready", "served"} \cup Exits, ready |-> {"served"} \cup Exits,
   served |-> {}, voided |-> {}]

Prefix(d, e) == 1 .. IF e = d THEN Len(log[d]) ELSE heard[d][e]
Held(d) == UNION {{e} \X Prefix(d, e) : e \in Devices}
Ev(p) == log[p[1]][p[2]]
Of(d, kind) == {p \in Held(d) : Ev(p).kind = kind}

Open(d) == Of(d, "created") # {}

Cells(d) ==
  {Ev(p).line : p \in Of(d, "line_added")}
    \ {Ev(p).line : p \in Of(d, "line_removed")}

(* The values of a cell: every terminal state an edge gave it, else the    *)
(* furthest step of its cooking.                                           *)
States(d, l) ==
  LET to == {Ev(p).to : p \in {q \in Of(d, "line_state") : l \in Ev(q).lines}}
      terminal == to \cap {"served", "voided"}
      furthest == Max({1} \cup {i \in 2 .. 4 : Cooking[i] \in to})
  IN IF terminal # {} THEN terminal ELSE {Cooking[furthest]}

Billable(d) == {l \in Cells(d) : States(d, l) # {"voided"}}
Sum(S) == MapThenSumSet(LAMBDA l : Price[l], S)
Billed(d) == Sum(Billable(d))
Charge(S) == branch.rounded[TaxedSum(branch, S)]
Charged(d) == Charge(Billable(d))
PayTotal(d) == MapThenSumSet(LAMBDA p : Ev(p).amount, Of(d, "payment"))

Confirmed(d) == Of(d, "confirmed") # {}
Settled(d) == Of(d, "closed") # {}
UncoveredAddition(d) ==
  /\ Settled(d)
  /\ Billed(d) > Max({Ev(p).effective : p \in Of(d, "closed")})

-----------------------------------------------------------------------------
(* What an act appends.                                                    *)

(* One edge event for every line that may go there from the one state it   *)
(* is in; none if there is no such line.                                   *)
Movable(d, to) ==
  {l \in Cells(d) : \E s \in DOMAIN LegalNext : States(d, l) = {s} /\ to \in LegalNext[s]}
Edge(to, lines) ==
  IF lines = {} THEN <<>> ELSE <<[kind |-> "line_state", to |-> to, lines |-> lines]>>

(* The process stops, or an append fails, after any of the events.         *)
Act(d, events) ==
  /\ events # <<>>
  /\ \/ /\ log' = [log EXCEPT ![d] = @ \o events]
        /\ UNCHANGED cuts
     \/ /\ cuts < branch.cuts /\ cuts' = cuts + 1
        /\ \E n \in 1 .. Len(events) - 1 :
             log' = [log EXCEPT ![d] = @ \o SubSeq(events, 1, n)]
  /\ UNCHANGED <<branch, heard>>

Made(d, kind) == Cardinality({i \in DOMAIN log[d] : log[d][i].kind = kind})

-----------------------------------------------------------------------------
(* The tills.                                                              *)

Init ==
  /\ branch \in Branches
  /\ log = [d \in Devices |-> <<>>]
  /\ heard = [d \in Devices |-> [e \in Devices |-> 0]]
  /\ cuts = 0

CreateOrder(t) ==
  /\ \A d \in Devices : log[d] = <<>>
  /\ Act(t, <<[kind |-> "created"]>>)

AddLine(t, l) ==
  /\ Open(t)
  /\ \A d \in Devices : [kind |-> "line_added", line |-> l] \notin Range(log[d])
  /\ Act(t, <<[kind |-> "line_added", line |-> l]>>)

(* assertRemovableLine: a till that holds the confirm refuses.             *)
RemoveLine(t, l) ==
  /\ l \in Cells(t)
  /\ ~Confirmed(t)
  /\ Act(t, <<[kind |-> "line_removed", line |-> l]>>)

(* The robot that owes an aggregator order's bill to the aggregator.       *)
Receivable(t) ==
  IF branch.channel = "foodpanda" /\ PayTotal(t) < Charged(t)
    THEN <<[kind |-> "payment", amount |-> Charged(t)]>> ELSE <<>>

(* A send to the kitchen; what it appends leaves the bill as it is.        *)
Confirm(t) ==
  /\ Open(t) /\ Billable(t) # {} /\ Made(t, "confirmed") < branch.confirms
  /\ Act(t, <<[kind |-> "confirmed"]>>
                  \o Edge("confirmed", Movable(t, "confirmed")) \o Receivable(t))

(* A chit is out.                                                          *)
KotPrinted(t) ==
  /\ branch.autoAdvances
  /\ Made(t, "confirmed") > 0
  /\ Act(t, Edge("in_prep", Movable(t, "in_prep")))

(* An approved void: the record of it, then the line's exit.               *)
Void(t, l) ==
  /\ l \in Movable(t, "voided") /\ Made(t, "void") < branch.voids
  /\ Act(t, <<[kind |-> "void", line |-> l, amount |-> Price[l]]>>
                  \o Edge("voided", {l}))

AlreadySettled(t) == Charged(t) > 0 /\ PayTotal(t) >= Charged(t)

FlawMayClose(t, paid) == Charged(t) > 0 /\ paid >= Charged(t)
MayClose(t, paid) == ~Settled(t) /\ Charged(t) > 0 /\ paid >= Charged(t)

(* What a close attests: the charge, and the fold's own sum for the ceiling. *)
FlawAttested(t) == [charged |-> Charged(t), effective |-> Charged(t)]
Attested(t) == [charged |-> Charged(t), effective |-> Billed(t)]

(* The closing act on top of n events of the same payment.  lines and seen *)
(* are history: the bill's lines, and how much of each stream it knew.     *)
Close(t, paid, n) ==
  IF MayClose(t, paid)
    THEN <<[kind |-> "closed", charged |-> Attested(t).charged,
            effective |-> Attested(t).effective, tendered |-> paid,
            lines |-> Billable(t),
            seen |-> [heard[t] EXCEPT ![t] = Len(log[t]) + n]]>>
    ELSE <<>>

(* A payment at the counter: the tender, the lines it serves where that is *)
(* what serving means, and the close.  Neither changes the bill.           *)
TakePayment(t, amount) ==
  LET paid == PayTotal(t) + amount
      served == IF /\ branch.serveOwner = "settlement" /\ branch.handedOver
                   /\ paid >= Charged(t)
                  THEN Edge("served", Movable(t, "served")) ELSE <<>>
      tender == <<[kind |-> "payment", amount |-> amount]>> \o served
  IN /\ Open(t) /\ branch.channel # "foodpanda"
     /\ amount > 0 /\ ~AlreadySettled(t)
     /\ Made(t, "payment") < branch.payments
     /\ Act(t, tender \o Close(t, paid, Len(tender)))

-----------------------------------------------------------------------------
(* The pass screen.                                                        *)

(* The ready tap walks each chosen line up the chain, one event a state.   *)
ReadyMark(p, chosen) ==
  LET at(l) == CHOOSE i \in 1 .. 4 : States(p, l) = {Cooking[i]}
      up == {l \in chosen : \E i \in 1 .. 3 : States(p, l) = {Cooking[i]}}
      Step(i) == Edge(Cooking[i], {l \in up : at(l) < i})
  IN Act(p, Step(2) \o Step(3) \o Step(4))

HandOver(p) ==
  /\ branch.serveOwner = "pass" /\ branch.handedOver
  /\ Act(p, Edge("served", {l \in Cells(p) : States(p, l) = {"ready"}}))

-----------------------------------------------------------------------------
(* A device ingests the next event of another's stream, over the LAN or    *)
(* the cloud.                                                              *)
Hear(d, e) ==
  /\ d # e /\ heard[d][e] < Len(log[e])
  /\ heard' = [heard EXCEPT ![d][e] = @ + 1]
  /\ UNCHANGED <<branch, log, cuts>>

Next ==
  \/ \E t \in branch.tills :
       \/ CreateOrder(t) \/ Confirm(t) \/ KotPrinted(t)
       \/ \E l \in branch.lines : AddLine(t, l) \/ RemoveLine(t, l) \/ Void(t, l)
       \/ \E a \in branch.parts \cup {Charged(t) - PayTotal(t)} : TakePayment(t, a)
  \/ \E p \in branch.screens : HandOver(p) \/ \E S \in SUBSET Cells(p) : ReadyMark(p, S)
  \/ \E d \in branch.tills \cup branch.screens, e \in Devices : Hear(d, e)

Spec == Init /\ [][Next]_vars

-----------------------------------------------------------------------------
(* Properties.                                                             *)

Closes == {p \in UNION {{d} \X DOMAIN log[d] : d \in Devices} : Ev(p).kind = "closed"}

(* No close was made by a device that knew of another: however payments,   *)
(* additions and messages interleave, two closes are of two tills apart    *)
(* from each other (settlement-closer.ts, "AT MOST ONE PER ORDER").        *)
ClosesAreConcurrent ==
  \A p, q \in Closes : p[2] > Ev(q).seen[p[1]]

(* A device that has heard everything believes its settled order rightly:  *)
(* with no exception the bill as it now stands comes, before tax, to no    *)
(* more than one that was settled, tax and rounding and all, and a bill    *)
(* with nothing on it that such a close had not is paid and has no         *)
(* exception (merge.ts:1535, settlement-closer.ts:173).                    *)
SettledIsCovered ==
  \A d \in branch.tills \cup branch.screens :
    (\A e \in Devices \ {d} : heard[d][e] = Len(log[e])) /\ Settled(d) =>
      /\ UncoveredAddition(d) \/ \E p \in Of(d, "closed") :
           Billed(d) <= Sum(Ev(p).lines) /\ PayTotal(d) >= Charge(Ev(p).lines)
      /\ \A p \in Of(d, "closed") : Billable(d) \subseteq Ev(p).lines =>
           ~UncoveredAddition(d) /\ PayTotal(d) >= Charged(d)

(* "AT MOST ONE PER ORDER" as it stands: two tills that have not heard of  *)
(* each other both close.                                                  *)
OneClose == \A p, q \in Closes : p = q

(* What an aggregator comes to owe is at most the bill of everything ever  *)
(* ordered ("paid - refunded = billed", aggregator-settlement.test.ts:400). *)
(* The code does not bear it out: an order sent again with one line more   *)
(* is owed in full a second time.                                          *)
AggregatorOwesTheBill ==
  \A d \in branch.tills :
    branch.channel = "foodpanda" =>
      PayTotal(d) <= Charge({Ev(p).line : p \in Of(d, "line_added")})

=============================================================================
