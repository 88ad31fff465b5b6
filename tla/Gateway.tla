------------------------------ MODULE Gateway ------------------------------
(***************************************************************************)
(* The merge pipeline of the cloud sync gateway: how a push is admitted,   *)
(* how each of its envelopes is merged or quarantined inside one database  *)
(* transaction, and what the push_ack promises.  The notices the quarantine  *)
(* rows give rise to are module NoticeOutbox.                              *)
(*                                                                         *)
(* One organisation and one branch.  Transactions of the organisation are  *)
(* serialised by the row lock on kernel.org_sequences, so at most one push *)
(* is inside its transaction; everything before the lock and everything    *)
(* after the commit interleaves freely, and so do registry writes.         *)
(* services/sync-gateway/src/gateway.ts                                    *)
(***************************************************************************)
EXTENDS Branch, Integers, FiniteSets, FiniteSetsExt

CONSTANTS
  Envelopes,    \* the event envelopes any device may push
  Registered,   \* the devices the registry knows at the start
  Revocable,    \* bound: the devices that may be revoked
  MaxSlot,      \* bound: the highest lamport_seq of an envelope
  MaxBatch,     \* bound: envelopes examined in one push
  None          \* no device

Slots == 0..MaxSlot
Marks == -1..MaxSlot

ASSUME EnvelopesAssumption ==
  /\ MaxSlot \in Nat
  /\ MaxBatch \in Nat
  /\ None \notin Devices
  /\ Registered \subseteq Devices
  /\ \A e \in Envelopes : e.author \in Devices /\ e.slot \in Slots
  /\ \A e \in Envelopes : e.valid => e.amount \in Nat   \* registry.ts: int().nonnegative()

VARIABLES
  registry,     \* kernel.device_registry: "absent", "active" or "revoked"
  db,           \* the committed tables
  work,         \* the same tables as the open transaction sees them
  extra,        \* StreamState.extraFilled of each origin in the open transaction
  open,         \* the device whose push holds the org lock, or None
  txn,          \* the locals of the open push's merge loop
  phase,        \* where each device's current handler is
  outcome,      \* what a committed push still has to send
  acked         \* history: the highest watermark acknowledged for each origin

vars == <<registry, db, work, extra, open, txn, phase, outcome, acked>>

Reasons == {"org_or_branch_mismatch", "device_mismatch", "origin_unregistered",
            "origin_revoked", "schema_invalid", "id_content_divergence",
            "lamport_conflict", "invariant_violation", "storage_reject"}

(* kernel.events, kernel.org_sequences, kernel.quarantine and              *)
(* kernel.device_watermarks.  A quarantine row's holder is its device_id   *)
(* column (the attribution), its live flag is superseded_at IS NULL.       *)
Tables == [events : SUBSET [env : Envelopes, gseq : Nat],
           next : Nat,
           quarantine : SUBSET [env : Envelopes, holder : Devices,
                                reason : Reasons, live : BOOLEAN],
           watermark : [Devices -> Marks]]

FreshTxn == [origin |-> None, taken |-> 0, stopped |-> FALSE,
             cached |-> [x \in Devices |-> "unread"]]

NoOutcome == [acked |-> -1, origin |-> None]

Init ==
  /\ registry = [x \in Devices |-> IF x \in Registered THEN "active" ELSE "absent"]
  /\ db = [events |-> {}, next |-> 1, quarantine |-> {},
           watermark |-> [x \in Devices |-> -1]]
  /\ work = db
  /\ extra = [x \in Devices |-> {}]
  /\ open = None
  /\ txn = FreshTxn
  /\ phase = [x \in Devices |-> "idle"]
  /\ outcome = [x \in Devices |-> NoOutcome]
  /\ acked = [x \in Devices |-> -1]

-----------------------------------------------------------------------------
(* The registry is written by other requests, at any time.                 *)

RegisterDevice(x) ==
  /\ registry[x] = "absent"
  /\ registry' = [registry EXCEPT ![x] = "active"]
  /\ UNCHANGED <<db, work, extra, open, txn, phase, outcome, acked>>

RevokeDevice(x) ==
  /\ x \in Revocable
  /\ registry[x] = "active"
  /\ registry' = [registry EXCEPT ![x] = "revoked"]
  /\ UNCHANGED <<db, work, extra, open, txn, phase, outcome, acked>>

(* requireUnrevoked: the registry read that precedes the transaction.  It  *)
(* is not repeated once the lock is held.                                  *)
RequireUnrevoked(d) ==
  /\ phase[d] = "idle"
  /\ registry[d] = "active"
  /\ phase' = [phase EXCEPT ![d] = "admitted"]
  /\ UNCHANGED <<registry, db, work, extra, open, txn, outcome, acked>>

(* The transaction begins: SELECT next_global_seq ... FOR UPDATE.          *)
LockOrg(d) ==
  /\ phase[d] = "admitted"
  /\ open = None
  /\ open' = d
  /\ phase' = [phase EXCEPT ![d] = "merging"]
  /\ work' = db
  /\ extra' = [x \in Devices |-> {}]
  /\ txn' = FreshTxn
  /\ UNCHANGED <<registry, db, outcome, acked>>

-----------------------------------------------------------------------------
(* The merge loop.  fill() advances an origin's watermark through every    *)
(* slot the transaction has filled so far.                                 *)

Through(mark, filled) ==
  CHOOSE t \in mark..MaxSlot : (mark + 1)..t \subseteq filled /\ t + 1 \notin filled

FilledBy(x, slot) == IF slot <= work.watermark[x] THEN extra[x] ELSE extra[x] \cup {slot}

MarkAfter(x, slot) == Through(work.watermark[x], FilledBy(x, slot))

Fill(x, slot) ==
  extra' = [extra EXCEPT ![x] = {s \in FilledBy(x, slot) : s > MarkAfter(x, slot)}]

RowsOf(id, holder) == {q \in work.quarantine : q.env.id = id /\ q.holder = holder}

(* Flaws a mutation check puts in the place of the definition that follows *)
(* them are named Flaw...; nothing else uses them.                         *)
FlawAlwaysCredits(e, holder) == TRUE

(* A no-op insert credits the slot unless the holder's own prior row for   *)
(* this id sits at another slot.                                           *)
Credits(e, holder) == \A q \in RowsOf(e.id, holder) : q.env.slot = e.slot

(* quarantine(stream, envelope, reason, deviceId): stream None fills no    *)
(* slot.  The notice row is written with the quarantine row, under the     *)
(* same key and the same ON CONFLICT DO NOTHING.                           *)
Quarantine(stream, e, reason, holder) ==
  LET row == [env |-> e, holder |-> holder, reason |-> reason, live |-> TRUE]
      rows == IF RowsOf(e.id, holder) = {} THEN work.quarantine \cup {row}
                                           ELSE work.quarantine
  IN  \/ /\ stream # None /\ Credits(e, holder)
         /\ work' = [work EXCEPT !.quarantine = rows,
                                 !.watermark[stream] = MarkAfter(stream, e.slot)]
         /\ Fill(stream, e.slot)
      \/ /\ ~(stream # None /\ Credits(e, holder))
         /\ work' = [work EXCEPT !.quarantine = rows]
         /\ UNCHANGED extra

(* The loop locals after an envelope: the push's origin so far and the     *)
(* registry cache.                                                         *)
Took(origin, cached) ==
  txn' = [txn EXCEPT !.origin = origin, !.taken = @ + 1, !.cached = cached]

FirstOrigin(e) == IF txn.origin = None THEN e.author ELSE txn.origin

(* readRegistryRow through the per-batch originRows cache.                 *)
OriginStatus(e) == IF txn.cached[e.author] = "unread" THEN registry[e.author]
                                                      ELSE txn.cached[e.author]

OriginRead(d, e) == IF e.author = d THEN txn.cached
                    ELSE [txn.cached EXCEPT ![e.author] = OriginStatus(e)]

IsMerged(e) == \E r \in work.events : r.env = e
FlawIdTakenByAuthor(e) == \E r \in work.events : r.env.id = e.id /\ r.env.author = e.author
IdTaken(e) == \E r \in work.events : r.env.id = e.id

IdentityValid(d, e) == e.home /\ (e.author = d \/ d \in Relays)
IdentityReason(e) == IF e.home THEN "device_mismatch" ELSE "org_or_branch_mismatch"

(* The first gates an envelope passes: identity (1), not a duplicate       *)
(* (1.4), origin registered and unrevoked (1.5).                           *)
Gated(d, e) ==
  /\ IdentityValid(d, e)
  /\ ~IsMerged(e)
  /\ e.author = d \/ OriginStatus(e) = "active"

(* checkInvariants: the refund cap over unique refund attempts.            *)
Parents(T, e) == {r \in T.events : r.env.kind = "payment" /\ r.env.attempt = e.pays}
Parent(T, e) == CHOOSE r \in Parents(T, e) : \A p \in Parents(T, e) : r.gseq <= p.gseq
RefundsOf(T, e) == {r \in T.events : r.env.kind = "refund" /\ r.env.pays = e.pays}
FirstPerAttempt(rows) ==
  {r \in rows : \A o \in rows : o.env.attempt = r.env.attempt => r.gseq <= o.gseq}
RefundTotal(rows) == MapThenSumSet(LAMBDA r : r.env.amount, FirstPerAttempt(rows))

FlawRefundAlone(e) ==
  e.kind = "refund" /\ Parents(work, e) # {} /\ e.amount > Parent(work, e).env.amount

RefundExceeds(e) ==
  /\ e.kind = "refund"
  /\ Parents(work, e) # {}
  /\ \A r \in RefundsOf(work, e) : r.env.attempt # e.attempt
  /\ e.amount > Parent(work, e).env.amount - RefundTotal(RefundsOf(work, e))

Examining(d) == open = d /\ ~txn.stopped /\ txn.taken < MaxBatch

LoopFrame == UNCHANGED <<registry, db, open, phase, outcome, acked>>

FlawSessionStream(d) == d

(* 1. Identity mismatch: a plain session fills its own stream, a relaying  *)
(* one fills none; either way the row is attributed to the session.        *)
IdentityStream(d) == IF d \in Relays THEN None ELSE d

RefuseIdentity(d, e) ==
  /\ Examining(d)
  /\ ~IdentityValid(d, e)
  /\ Quarantine(IdentityStream(d), e, IdentityReason(e), d)
  /\ Took(txn.origin, txn.cached)
  /\ LoopFrame

(* 1.4 A merged id with identical content is acknowledged through.         *)
AckDuplicate(d, e) ==
  /\ Examining(d)
  /\ IdentityValid(d, e)
  /\ IsMerged(e)
  /\ Fill(e.author, e.slot)
  /\ work' = [work EXCEPT !.watermark[e.author] = MarkAfter(e.author, e.slot)]
  /\ Took(FirstOrigin(e), txn.cached)
  /\ LoopFrame

(* 1.5 A relayed origin the registry does not back: no stream is filled.   *)
RefuseOrigin(d, e) ==
  /\ Examining(d)
  /\ IdentityValid(d, e)
  /\ ~IsMerged(e)
  /\ e.author # d
  /\ \/ /\ OriginStatus(e) = "absent"
        /\ Quarantine(None, e, "origin_unregistered", d)
        /\ Took(txn.origin, OriginRead(d, e))
     \/ /\ OriginStatus(e) = "revoked"
        /\ Quarantine(None, e, "origin_revoked", e.author)
        /\ Took(txn.origin, OriginRead(d, e))
  /\ LoopFrame

(* The content class: the row is the origin's and fills the origin's slot. *)
RefuseContent(d, e, reason) ==
  /\ Quarantine(e.author, e, reason, e.author)
  /\ Took(FirstOrigin(e), OriginRead(d, e))
  /\ LoopFrame

(* 2. Unknown type or invalid payload.                                     *)
RefuseSchema(d, e) ==
  /\ Examining(d) /\ Gated(d, e)
  /\ ~e.valid
  /\ RefuseContent(d, e, "schema_invalid")

(* 3. The id is taken by other content.                                    *)
RefuseDivergent(d, e) ==
  /\ Examining(d) /\ Gated(d, e)
  /\ e.valid /\ IdTaken(e)
  /\ RefuseContent(d, e, "id_content_divergence")

(* 4. A new id at a slot already settled.                                  *)
RefuseConflict(d, e) ==
  /\ Examining(d) /\ Gated(d, e)
  /\ e.valid /\ ~IdTaken(e)
  /\ e.slot <= work.watermark[e.author]
  /\ RefuseContent(d, e, "lamport_conflict")

(* 4. Past the first gap nothing is stored: the loop ends.                 *)
StopAtGap(d, e) ==
  /\ Examining(d) /\ Gated(d, e)
  /\ e.valid /\ ~IdTaken(e)
  /\ e.slot > work.watermark[e.author] + 1
  /\ txn' = [txn EXCEPT !.origin = FirstOrigin(e), !.stopped = TRUE,
                        !.taken = @ + 1, !.cached = OriginRead(d, e)]
  /\ UNCHANGED <<work, extra>>
  /\ LoopFrame

NextInLine(e) == e.valid /\ ~IdTaken(e) /\ e.slot = work.watermark[e.author] + 1

(* 3.5 The refund cap, only on an event about to merge.                    *)
RefuseInvariant(d, e) ==
  /\ Examining(d) /\ Gated(d, e) /\ NextInLine(e)
  /\ RefundExceeds(e)
  /\ RefuseContent(d, e, "invariant_violation")

(* 5. The insert fails inside its savepoint: no global_seq is consumed.    *)
RefuseStorage(d, e) ==
  /\ Examining(d) /\ Gated(d, e) /\ NextInLine(e)
  /\ ~RefundExceeds(e)
  /\ ~e.storable
  /\ RefuseContent(d, e, "storage_reject")

FlawMergeKeepsRows(d, e) ==
  /\ Examining(d) /\ Gated(d, e) /\ NextInLine(e)
  /\ ~RefundExceeds(e)
  /\ e.storable
  /\ work' = [work EXCEPT
        !.events = @ \cup {[env |-> e, gseq |-> work.next]},
        !.next = @ + 1,
        !.watermark[e.author] = MarkAfter(e.author, e.slot)]
  /\ Fill(e.author, e.slot)
  /\ Took(FirstOrigin(e), OriginRead(d, e))
  /\ LoopFrame

(* 5. Merge: stamp, insert, supersede byte-identical quarantine rows, fill *)
Merge(d, e) ==
  /\ Examining(d) /\ Gated(d, e) /\ NextInLine(e)
  /\ ~RefundExceeds(e)
  /\ e.storable
  /\ work' = [work EXCEPT
        !.events = @ \cup {[env |-> e, gseq |-> work.next]},
        !.next = @ + 1,
        !.quarantine = {q \in @ : q.env # e} \cup
                       {[q EXCEPT !.live = FALSE] : q \in {q \in @ : q.env = e}},
        !.watermark[e.author] = MarkAfter(e.author, e.slot)]
  /\ Fill(e.author, e.slot)
  /\ Took(FirstOrigin(e), OriginRead(d, e))
  /\ LoopFrame

Examine(d, e) ==
  \/ RefuseIdentity(d, e)
  \/ AckDuplicate(d, e)
  \/ RefuseOrigin(d, e)
  \/ RefuseSchema(d, e)
  \/ RefuseDivergent(d, e)
  \/ RefuseConflict(d, e)
  \/ StopAtGap(d, e)
  \/ RefuseInvariant(d, e)
  \/ RefuseStorage(d, e)
  \/ Merge(d, e)

-----------------------------------------------------------------------------
(* The end of the transaction and what follows it.                         *)

AckDevice(d) == IF txn.origin = None THEN d ELSE txn.origin

FlawAckOwnStream(d) == work.watermark[d]

(* A relaying push in which nothing survived the gates names no origin and *)
(* is not acknowledged; neither is one that settled nothing.               *)
AckValue(d) == IF d \in Relays /\ txn.origin = None /\ txn.taken > 0 THEN -1
               ELSE work.watermark[AckDevice(d)]

Commit(d) ==
  /\ open = d
  /\ db' = work
  /\ open' = None
  /\ phase' = [phase EXCEPT ![d] = "ack"]
  /\ outcome' = [outcome EXCEPT ![d] = [acked |-> AckValue(d), origin |-> AckDevice(d)]]
  /\ extra' = [x \in Devices |-> {}]
  /\ txn' = FreshTxn
  /\ UNCHANGED <<registry, work, acked>>

(* An infrastructure error, or the gateway's death, inside the             *)
(* transaction: everything it wrote is rolled back.                        *)
Abort(d) ==
  /\ open = d
  /\ work' = db
  /\ open' = None
  /\ phase' = [phase EXCEPT ![d] = "idle"]
  /\ extra' = [x \in Devices |-> {}]
  /\ txn' = FreshTxn
  /\ UNCHANGED <<registry, db, outcome, acked>>

(* push_ack leaves after the commit, never before.                         *)
SendAck(d) ==
  /\ phase[d] = "ack"
  /\ phase' = [phase EXCEPT ![d] = "idle"]
  /\ LET o == outcome[d] IN
       acked' = [acked EXCEPT ![o.origin] = IF o.acked > @ THEN o.acked ELSE @]
  /\ outcome' = [outcome EXCEPT ![d] = NoOutcome]
  /\ UNCHANGED <<registry, db, work, extra, open, txn>>

(* The handler dies outside its transaction: the process stops, or a query *)
(* between the commit and the mark fails and the session is closed.        *)
Crash(d) ==
  /\ phase[d] \in {"admitted", "ack"}
  /\ phase' = [phase EXCEPT ![d] = "idle"]
  /\ outcome' = [outcome EXCEPT ![d] = NoOutcome]
  /\ UNCHANGED <<registry, db, work, extra, open, txn, acked>>

Next ==
  \E d \in Devices :
    \/ RegisterDevice(d)
    \/ RevokeDevice(d)
    \/ RequireUnrevoked(d)
    \/ LockOrg(d)
    \/ \E e \in Envelopes : Examine(d, e)
    \/ Commit(d)
    \/ Abort(d)
    \/ SendAck(d)
    \/ Crash(d)

Spec == Init /\ [][Next]_vars

-----------------------------------------------------------------------------
(* Properties.                                                             *)

TypeOK ==
  /\ registry \in [Devices -> {"absent", "active", "revoked"}]
  /\ db \in Tables
  /\ work \in Tables
  /\ extra \in [Devices -> SUBSET Slots]
  /\ open \in Devices \cup {None}
  /\ txn \in [origin : Devices \cup {None}, taken : Nat, stopped : BOOLEAN,
              cached : [Devices -> {"unread", "absent", "active", "revoked"}]]
  /\ phase \in [Devices -> {"idle", "admitted", "merging", "ack"}]
  /\ outcome \in [Devices -> [acked : Marks, origin : Devices \cup {None}]]
  /\ acked \in [Devices -> Marks]

(* The merged log is a log: an id is in it once, a slot of an origin is in *)
(* it once, and global_seq runs from 1 without a hole or a repetition,     *)
(* whatever was pushed, retried, rolled back or relayed.                   *)
LogIntegrity ==
  /\ \A r, q \in db.events :
       \/ r.env.id = q.env.id
       \/ r.gseq = q.gseq
       \/ r.env.author = q.env.author /\ r.env.slot = q.env.slot
       => r = q
  /\ {r.gseq : r \in db.events} = 1..(db.next - 1)

(* A slot of origin x is held by a merged event of x or by a quarantine    *)
(* row attributed to x.                                                    *)
Held(T, x, s) ==
  \/ \E r \in T.events : r.env.author = x /\ r.env.slot = s
  \/ \E q \in T.quarantine : q.holder = x /\ q.env.slot = s

(* The promise of push_ack: a device trims its outbox at the acknowledged  *)
(* watermark, so every slot an ack has ever covered is durably held, also  *)
(* after rollbacks, forged ids and relays (the acks of handlePush).        *)
AckedSlotsHeld == \A x \in Devices : \A s \in 0..acked[x] : Held(db, x, s)

(* The same of the stored watermarks, which resume_from is computed from,  *)
(* and which no event of the log may lie above.                            *)
SettledSlotsHeld ==
  /\ \A x \in Devices : \A s \in 0..db.watermark[x] : Held(db, x, s)
  /\ \A r \in db.events : r.env.slot <= db.watermark[r.env.author]

(* Garbage a hub relays never takes a slot of the hub's own numbering: a   *)
(* settled slot of a relaying device is held by an event it authored, or   *)
(* by a row for the id and slot of an event it authored (the F1 rule of    *)
(* the quarantine comment in handlePush).                                  *)
OwnHeld(T, h, s) ==
  \/ \E r \in T.events : r.env.author = h /\ r.env.slot = s
  \/ \E q \in T.quarantine : \E e \in Envelopes :
       /\ q.holder = h /\ q.env.slot = s
       /\ e.author = h /\ e.slot = s /\ e.id = q.env.id

HubSlotsAreItsOwn ==
  \A h \in Relays : \A s \in 0..db.watermark[h] : OwnHeld(db, h, s)

(* An event that merged is not also standing as a live rejection, except   *)
(* as an impersonation by a session that may not relay it: the placeholder *)
(* a relay left behind is superseded, a merged id is deduplicated.         *)
MergedNotRejected ==
  \A r \in db.events, q \in db.quarantine :
    q.env = r.env /\ q.live => q.reason = "device_mismatch"

(* Refunds that merge after their payment never take the unique-attempt    *)
(* total above it, across sessions and within one batch (checkInvariants). *)
RefundsCapped ==
  \A r \in db.events :
    /\ r.env.kind = "refund"
    /\ \E p \in Parents(db, r.env) : p.gseq < r.gseq
    /\ r \in FirstPerAttempt(RefundsOf(db, r.env))
    => RefundTotal({o \in RefundsOf(db, r.env) : o.gseq <= r.gseq})
         <= Parent(db, r.env).env.amount

(* The gateway implements the merged log it promises.                      *)
LogOf(T) == [i \in 1..(T.next - 1) |-> (CHOOSE r \in T.events : r.gseq = i).env]

Promises == INSTANCE MergedLog WITH
  log <- LogOf(db),
  rejected <- {<<q.holder, q.env.slot>> : q \in db.quarantine},
  settled <- db.watermark,
  promised <- acked

ImplementsMergedLog == Promises!Spec

=============================================================================
