----------------------------- MODULE MCGateway -----------------------------
(* Instances of the gateway's merge pipeline for TLC.                      *)
EXTENDS Gateway

CONSTANTS till, hub, late

Sale(id, author, slot) ==
  [id |-> id, author |-> author, slot |-> slot, home |-> TRUE, valid |-> TRUE,
   storable |-> TRUE, kind |-> "sale", attempt |-> "none", pays |-> "none", amount |-> 0]

(* A till with two sales, an id that other content reuses at another slot, *)
(* bytes the database refuses, and a hub that may relay.                   *)
CollidingEnvelopes ==
  {Sale(1, till, 0),
   Sale(2, till, 1),
   [Sale(1, till, 1) EXCEPT !.valid = FALSE],
   [Sale(3, till, 1) EXCEPT !.storable = FALSE],
   Sale(1, hub, 0)}

(* A relayed origin that registers after its events were first relayed,    *)
(* foreign-branch bytes, and the hub's own numbering beside it.            *)
RelayedEnvelopes ==
  {Sale(11, late, 0),
   Sale(12, hub, 0),
   [Sale(14, late, 0) EXCEPT !.home = FALSE],
   [Sale(14, hub, 1) EXCEPT !.valid = FALSE]}

(* One payment of 2 and three refunds of it, two of them one intent.       *)
Refund(id, author, slot, attempt, amount) ==
  [Sale(id, author, slot) EXCEPT !.kind = "refund", !.attempt = attempt,
                                 !.pays = "p", !.amount = amount]
RefundEnvelopes ==
  {[Sale(21, till, 0) EXCEPT !.kind = "payment", !.attempt = "p", !.amount = 2],
   Refund(22, till, 1, "r1", 1),
   Refund(23, hub, 0, "r1", 1),
   Refund(24, hub, 1, "r2", 2)}

AllEnvelopes == CollidingEnvelopes \cup RelayedEnvelopes \cup RefundEnvelopes

(* A behaviour stays with one story: its devices push its envelopes, and   *)
(* the till is revoked in the first one only.                              *)
Stories ==
  {[devices |-> {till, hub}, envelopes |-> CollidingEnvelopes, revoked |-> {till}],
   [devices |-> {hub, late}, envelopes |-> RelayedEnvelopes, revoked |-> {}],
   [devices |-> {till, hub}, envelopes |-> RefundEnvelopes, revoked |-> {}]}

OneStory ==
  \E s \in Stories :
    /\ \A r \in work.events \cup db.events : r.env \in s.envelopes
    /\ \A q \in work.quarantine \cup db.quarantine : q.env \in s.envelopes
    /\ \A d \in Devices \ s.devices : phase[d] = "idle" /\ (d = late => registry[d] = "absent")
    /\ \A d \in Devices \ s.revoked : registry[d] # "revoked"

StorySpec == Init /\ [][Next /\ OneStory']_vars

=============================================================================
