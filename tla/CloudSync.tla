----------------------------- MODULE CloudSync -----------------------------
(***************************************************************************)
(* A device's cloud session against the gateway: hello, outbox drain,      *)
(* catch-up, live fan-out, and the durable cursors they move, over links   *)
(* that drop, devices that restart and a gateway that dies.                *)
(*                                                                         *)
(* The merge itself is module Gateway; here a push merges its events in    *)
(* one step.  An event is its author and lamport slot, its position in log *)
(* is its global_seq.  A connection is a FIFO in each direction, and the   *)
(* gateway handles the frames of one connection one after the other.       *)
(* packages/sync-client/src/cloud-session.ts                               *)
(* services/sync-gateway/src/gateway.ts                                    *)
(***************************************************************************)
EXTENDS Integers, Sequences, FiniteSets, FiniteSetsExt

CONSTANTS
  Devices,
  Ticking,     \* the devices whose host calls notifyAppended on its timer
  MaxOwn,      \* bound: events each device appends, a function
  Batch,       \* CLOUD_PUSH_BATCH_MAX
  Page,        \* CATCHUP_PAGE_SIZE
  MaxQueue,    \* bound: frames in flight to a device whose host's tick still pushes
  MaxDrops,    \* bound: links dropped and processes restarted, in all
  MaxFaults    \* bound: items of received batches that fail to ingest, in all

ASSUME CloudSyncAssumption ==
  /\ MaxOwn \in [Devices -> Nat]
  /\ Batch \in Nat \ {0} /\ Page \in Nat \ {0}
  /\ MaxQueue \in Nat /\ MaxDrops \in Nat /\ MaxFaults \in Nat
  /\ Ticking \subseteq Devices

VARIABLES
  log,       \* kernel.events in global_seq order
  settled,   \* kernel.device_watermarks, -1 for no row
  joined,    \* branchSets: the devices whose connection receives fan-out
  job,       \* the handler running for each device's connection
  stray,     \* handlers still running for connections that are gone
  own,       \* disk: events the device appended, slots 0..own-1
  ckpt,      \* disk: sync_state.acked_watermark, -1 for NULL
  cursor,    \* disk: sync_state.last_global_seq, 0 for NULL
  held,      \* disk: the global_seqs the device has an event stored under
  session,   \* memory: the cloud session's stage, lastPushAck and blockedCursor
  up,        \* frames from the device, oldest first
  down,      \* frames to the device, oldest first
  base,      \* history: the cursor the open session's catch-up started from
  failed,    \* history: global_seqs that failed to land and have not since
  budget     \* what is left of the bounds on drops and faults

gateway == <<log, settled, joined, job, stray>>
disk == <<own, ckpt, cursor, held>>
history == <<base, failed>>
vars == <<log, settled, joined, job, stray, own, ckpt, cursor, held, session, up, down,
          base, failed, budget>>

Idle == [kind |-> "none"]
Fresh == [stage |-> "down", lastAck |-> -1, blocked |-> 0]

Init ==
  /\ log = <<>> /\ joined = {} /\ stray = {}
  /\ settled = [d \in Devices |-> -1]
  /\ job = [d \in Devices |-> Idle]
  /\ own = [d \in Devices |-> 0]
  /\ ckpt = [d \in Devices |-> -1]
  /\ cursor = [d \in Devices |-> 0]
  /\ held = [d \in Devices |-> {}]
  /\ session = [d \in Devices |-> Fresh]
  /\ up = [d \in Devices |-> <<>>]
  /\ down = [d \in Devices |-> <<>>]
  /\ base = [d \in Devices |-> 0]
  /\ failed = [d \in Devices |-> {}]
  /\ budget = [drops |-> MaxDrops, faults |-> MaxFaults]

-----------------------------------------------------------------------------
(* The device's half of the wire.                                          *)

Least(a, b) == IF a <= b THEN a ELSE b

(* nextBatch: the outbox from the checkpoint on, at most one batch.        *)
Outbox(d, mark) ==
  IF mark + 1 >= own[d] THEN <<>>
  ELSE <<[kind |-> "push", lo |-> mark + 1, hi |-> Least(mark + Batch, own[d] - 1)]>>

(* Flaws a mutation check puts in the place of the definition that follows *)
(* them are named Flaw...; nothing else uses them.                         *)
FlawCatchupInclusive(g) == <<[kind |-> "catchup", from |-> g + 1]>>
CatchupFrom(g) == <<[kind |-> "catchup", from |-> g]>>

AppendEvent(d) ==
  /\ own[d] < MaxOwn[d]
  /\ own' = [own EXCEPT ![d] = @ + 1]
  /\ UNCHANGED <<gateway, ckpt, cursor, held, session, up, down, history, budget>>

(* The host's timer calls notifyAppended.  Bound: it ticks only when the   *)
(* gateway has nothing to handle and few frames are on their way back; a   *)
(* push whose ack is on its way is still repeated.                         *)
FlawNobodyTicks(d) == FALSE

NotifyAppended(d) ==
  /\ d \in Ticking
  /\ session[d].stage = "open"
  /\ \E p \in {Outbox(d, ckpt[d])} :
       /\ p # <<>>
       /\ up[d] = <<>> /\ job[d] = Idle /\ Len(down[d]) < MaxQueue
       /\ up' = [up EXCEPT ![d] = @ \o p]
  /\ UNCHANGED <<gateway, disk, session, down, history, budget>>

(* onUp: the transport is connected and the session sends hello.           *)
Connect(d) ==
  /\ session[d].stage = "down"
  /\ session' = [session EXCEPT ![d].stage = "hello"]
  /\ up' = [up EXCEPT ![d] = <<[kind |-> "hello"]>>]
  /\ UNCHANGED <<gateway, disk, down, history, budget>>

Receives(d, kind) == down[d] # <<>> /\ Head(down[d]).kind = kind

(* hello_ack: drainPush, then a catch-up request from the cursor.          *)
OnHelloAck(d) ==
  /\ Receives(d, "hello_ack")
  /\ session' = [session EXCEPT ![d].stage = "open"]
  /\ down' = [down EXCEPT ![d] = Tail(@)]
  /\ up' = [up EXCEPT ![d] = @ \o Outbox(d, ckpt[d]) \o CatchupFrom(cursor[d])]
  /\ base' = [base EXCEPT ![d] = cursor[d]]
  /\ UNCHANGED <<gateway, disk, failed, budget>>

(* push_ack: an ack above the own high water is ignored, and so is one     *)
(* that does not exceed the last; any other moves the checkpoint and sends *)
(* the next page.                                                          *)
AckCounts(d, mark) == mark < own[d] /\ mark > session[d].lastAck

Checkpoint(d, mark) == IF mark > ckpt[d] THEN mark ELSE ckpt[d]

OnPushAck(d) ==
  /\ Receives(d, "push_ack")
  /\ down' = [down EXCEPT ![d] = Tail(@)]
  /\ LET mark == Head(down[d]).mark IN
       \/ /\ AckCounts(d, mark)
          /\ session' = [session EXCEPT ![d].lastAck = mark]
          /\ ckpt' = [ckpt EXCEPT ![d] = Checkpoint(d, mark)]
          /\ up' = [up EXCEPT ![d] =
               IF session[d].stage = "open" THEN @ \o Outbox(d, Checkpoint(d, mark)) ELSE @]
       \/ ~AckCounts(d, mark) /\ UNCHANGED <<session, ckpt, up>>
  /\ UNCHANGED <<gateway, own, cursor, held, history, budget>>

(* applyEvents.  bad are the items whose savepoint rolled back.            *)
ReportedBlock(d, seqs, bad) ==
  IF bad # {} THEN Min(bad)
  ELSE IF session[d].blocked \in seqs THEN 0
  ELSE session[d].blocked

LandedPrefix(seqs, bad) == {g \in seqs : \A b \in bad : g < b}

FlawNoRewind(d, seqs, bad) == Max(LandedPrefix(seqs, bad) \cup {cursor[d]})

CursorAfter(d, seqs, bad) ==
  LET block == ReportedBlock(d, seqs, bad)
      reached == LandedPrefix(seqs, bad) \cup {cursor[d]}
      capped == {IF block = 0 THEN g ELSE Least(g, block - 1) : g \in reached}
  IN  Max(capped)

Apply(d, seqs, bad) ==
  /\ bad \subseteq seqs
  /\ Cardinality(bad) <= budget.faults
  /\ budget' = [budget EXCEPT !.faults = @ - Cardinality(bad)]
  /\ held' = [held EXCEPT ![d] = @ \cup (seqs \ bad)]
  /\ failed' = [failed EXCEPT ![d] = (@ \cup bad) \ (held[d] \cup (seqs \ bad))]
  /\ cursor' = [cursor EXCEPT ![d] = CursorAfter(d, seqs, bad)]
  /\ session' = [session EXCEPT ![d].blocked = ReportedBlock(d, seqs, bad)]

(* event_batch: live fan-out is applied whatever the stage of the session. *)
OnEventBatch(d) ==
  /\ Receives(d, "events")
  /\ down' = [down EXCEPT ![d] = Tail(@)]
  /\ \E bad \in SUBSET Head(down[d]).seqs : Apply(d, Head(down[d]).seqs, bad)
  /\ UNCHANGED <<gateway, own, ckpt, up, base>>

(* catchup_response: apply the page and ask for the next one.              *)
OnCatchupPage(d) ==
  /\ Receives(d, "page")
  /\ down' = [down EXCEPT ![d] = Tail(@)]
  /\ LET page == Head(down[d]) IN
       /\ \E bad \in SUBSET page.seqs : Apply(d, page.seqs, bad)
       /\ up' = [up EXCEPT ![d] = IF page.complete THEN @ ELSE @ \o CatchupFrom(page.next)]
  /\ UNCHANGED <<gateway, own, ckpt, base>>

-----------------------------------------------------------------------------
(* The gateway's half.                                                     *)

Serves(d, kind) == job[d] = Idle /\ up[d] # <<>> /\ Head(up[d]).kind = kind

(* handleHello joins the fan-out set, and then awaits version reads and    *)
(* the renewal before hello_ack leaves.                                    *)
Hello(d) ==
  /\ Serves(d, "hello")
  /\ joined' = joined \cup {d}
  /\ job' = [job EXCEPT ![d] = [kind |-> "hello"]]
  /\ up' = [up EXCEPT ![d] = Tail(@)]
  /\ UNCHANGED <<log, settled, stray, disk, session, down, history, budget>>

HelloAck(d) ==
  /\ job[d].kind = "hello"
  /\ down' = [down EXCEPT ![d] = Append(@, [kind |-> "hello_ack"])]
  /\ job' = [job EXCEPT ![d] = Idle]
  /\ UNCHANGED <<log, settled, joined, stray, disk, session, up, history, budget>>

(* The contiguity rule of handlePush: what is settled already is           *)
(* acknowledged again, what lies past a gap is left out.                   *)
SettledAfter(d, lo, hi) ==
  IF lo <= settled[d] + 1 /\ hi > settled[d] THEN hi ELSE settled[d]

FlawMergesAgain(d, lo, hi) ==
  [i \in 1..(hi - lo + 1) |-> [author |-> d, slot |-> lo + i - 1]]

Merged(d, lo, hi) ==
  [i \in 1..(SettledAfter(d, lo, hi) - settled[d]) |->
     [author |-> d, slot |-> settled[d] + i]]

NewSeqs(d, lo, hi) == (Len(log) + 1)..(Len(log) + Len(Merged(d, lo, hi)))

Commit(d) ==
  /\ Serves(d, "push")
  /\ LET p == Head(up[d]) IN
       /\ log' = log \o Merged(d, p.lo, p.hi)
       /\ settled' = [settled EXCEPT ![d] = SettledAfter(d, p.lo, p.hi)]
       /\ job' = [job EXCEPT ![d] = [kind |-> "ack", seqs |-> NewSeqs(d, p.lo, p.hi),
                                     mark |-> SettledAfter(d, p.lo, p.hi)]]
  /\ up' = [up EXCEPT ![d] = Tail(@)]
  /\ UNCHANGED <<joined, stray, disk, session, down, history, budget>>

(* After the commit: push_ack, then, with awaits between, the fan-out.     *)
SendAck(d) ==
  /\ job[d].kind = "ack"
  /\ down' = [down EXCEPT ![d] =
       IF job[d].mark < 0 THEN @ ELSE Append(@, [kind |-> "push_ack", mark |-> job[d].mark])]
  /\ job' = [job EXCEPT ![d] = IF job[d].seqs = {} THEN Idle
                               ELSE [kind |-> "fan", seqs |-> job[d].seqs]]
  /\ UNCHANGED <<log, settled, joined, stray, disk, session, up, history, budget>>

Deliver(seqs) ==
  down' = [p \in Devices |-> IF p \in joined THEN Append(down[p], [kind |-> "events", seqs |-> seqs])
                                             ELSE down[p]]

FanOut(d) ==
  /\ job[d].kind = "fan"
  /\ Deliver(job[d].seqs)
  /\ job' = [job EXCEPT ![d] = Idle]
  /\ UNCHANGED <<log, settled, joined, stray, disk, session, up, history, budget>>

FlawCompleteTooSoon(d) ==
  /\ Serves(d, "catchup")
  /\ LET from == Head(up[d]).from
         last == Least(from + Page, Len(log))
     IN  job' = [job EXCEPT ![d] =
           [kind |-> "page", seqs |-> (from + 1)..last,
            complete |-> Len(log) <= from + Page + 1,
            next |-> IF last > from THEN last ELSE from]]
  /\ up' = [up EXCEPT ![d] = Tail(@)]
  /\ UNCHANGED <<log, settled, joined, stray, disk, session, down, history, budget>>

(* handleCatchup reads the page, one row beyond it for complete, and sends *)
(* it after the read.                                                      *)
ReadPage(d) ==
  /\ Serves(d, "catchup")
  /\ LET from == Head(up[d]).from
         last == Least(from + Page, Len(log))
     IN  job' = [job EXCEPT ![d] =
           [kind |-> "page", seqs |-> (from + 1)..last,
            complete |-> Len(log) <= from + Page,
            next |-> IF last > from THEN last ELSE from]]
  /\ up' = [up EXCEPT ![d] = Tail(@)]
  /\ UNCHANGED <<log, settled, joined, stray, disk, session, down, history, budget>>

SendPage(d) ==
  /\ job[d].kind = "page"
  /\ down' = [down EXCEPT ![d] = Append(@, job[d])]
  /\ job' = [job EXCEPT ![d] = Idle]
  /\ UNCHANGED <<log, settled, joined, stray, disk, session, up, history, budget>>

(* The handler of a closed connection runs on: its push still commits and  *)
(* its merged events still fan out, to the others.                         *)
StrayCommit(s) ==
  /\ s.kind = "push"
  /\ log' = log \o Merged(s.dev, s.lo, s.hi)
  /\ settled' = [settled EXCEPT ![s.dev] = SettledAfter(s.dev, s.lo, s.hi)]
  /\ stray' = (stray \ {s}) \cup
       (IF NewSeqs(s.dev, s.lo, s.hi) = {} THEN {}
        ELSE {[kind |-> "fan", seqs |-> NewSeqs(s.dev, s.lo, s.hi)]})
  /\ UNCHANGED <<joined, job, disk, session, up, down, history, budget>>

StrayFanOut(s) ==
  /\ s.kind = "fan"
  /\ Deliver(s.seqs)
  /\ stray' = stray \ {s}
  /\ UNCHANGED <<log, settled, joined, job, disk, session, up, history, budget>>

-----------------------------------------------------------------------------
(* Failures.                                                               *)

Break(D) ==
  /\ budget.drops > 0
  /\ budget' = [budget EXCEPT !.drops = @ - 1]
  /\ joined' = joined \ D
  /\ job' = [d \in Devices |-> IF d \in D THEN Idle ELSE job[d]]
  /\ up' = [d \in Devices |-> IF d \in D THEN <<>> ELSE up[d]]
  /\ down' = [d \in Devices |-> IF d \in D THEN <<>> ELSE down[d]]

(* The pushes of d the gateway may have received before the link went.     *)
Received(d) ==
  LET pushes == {i \in DOMAIN up[d] : up[d][i].kind = "push"}
  IN  {[kind |-> "push", dev |-> d, lo |-> up[d][i].lo, hi |-> up[d][i].hi] : i \in pushes}

Committed(d) == IF job[d].kind \in {"ack", "fan"} /\ job[d].seqs # {}
                THEN {[kind |-> "fan", seqs |-> job[d].seqs]} ELSE {}

(* onDown: the session keeps its memory; frames on the wire are gone.      *)
Disconnect(d) ==
  /\ session[d].stage # "down"
  /\ Break({d})
  /\ \E got \in SUBSET Received(d) : stray' = stray \cup Committed(d) \cup got
  /\ session' = [session EXCEPT ![d].stage = "down"]
  /\ UNCHANGED <<log, settled, disk, base, failed>>

(* The device's process stops and starts: the session's memory goes too.   *)
Restart(d) ==
  /\ session[d] # Fresh
  /\ Break({d})
  /\ \E got \in SUBSET Received(d) : stray' = stray \cup Committed(d) \cup got
  /\ session' = [session EXCEPT ![d] = Fresh]
  /\ UNCHANGED <<log, settled, disk, base, failed>>

(* It stops between the page's commit and the write of the cursor.         *)
RestartAfterIngest(d) ==
  /\ \E kind \in {"events", "page"} : Receives(d, kind)
  /\ Break({d})
  /\ stray' = stray \cup Committed(d)
  /\ held' = [held EXCEPT ![d] = @ \cup Head(down[d]).seqs]
  /\ failed' = [failed EXCEPT ![d] = @ \ Head(down[d]).seqs]
  /\ session' = [session EXCEPT ![d] = Fresh]
  /\ UNCHANGED <<log, settled, own, ckpt, cursor, base>>

(* The gateway's process dies: every connection and every handler with it. *)
GatewayRestart ==
  /\ \E d \in Devices : session[d].stage # "down"
  /\ Break(Devices)
  /\ stray' = {}
  /\ session' = [d \in Devices |-> [session[d] EXCEPT !.stage = "down"]]
  /\ UNCHANGED <<log, settled, disk, base, failed>>

-----------------------------------------------------------------------------

Device(d) == OnHelloAck(d) \/ OnPushAck(d) \/ OnEventBatch(d) \/ OnCatchupPage(d)

Handler(d) == \/ Hello(d) \/ HelloAck(d) \/ Commit(d) \/ SendAck(d) \/ FanOut(d)
              \/ ReadPage(d) \/ SendPage(d)

Stray == \E s \in stray : StrayCommit(s) \/ StrayFanOut(s)

Failure == \/ \E d \in Devices : Disconnect(d) \/ Restart(d) \/ RestartAfterIngest(d)
           \/ GatewayRestart

Next ==
  \/ \E d \in Devices : \/ AppendEvent(d) \/ NotifyAppended(d) \/ Connect(d)
                        \/ Device(d) \/ Handler(d)
  \/ Stray
  \/ Failure

Spec == Init /\ [][Next]_vars

(* The host's timer, the transport's reconnect timer, the event loops of   *)
(* both sides and the database all keep running, also for the handlers of  *)
(* connections that are gone; appends and failures are nobody's duty.      *)
Fairness ==
  /\ \A d \in Devices : /\ WF_vars(Connect(d))
                        /\ WF_vars(NotifyAppended(d))
                        /\ WF_vars(Device(d))
                        /\ WF_vars(Handler(d))
  /\ WF_vars(Stray)

FairSpec == Spec /\ Fairness

-----------------------------------------------------------------------------
(* Properties.                                                             *)

Seqs == 1..Len(log)

TypeOK ==
  /\ log \in Seq([author : Devices, slot : Nat])
  /\ settled \in [Devices -> Nat \cup {-1}]
  /\ joined \subseteq Devices
  /\ DOMAIN job = Devices /\ \A d \in Devices :
       job[d].kind \in {"none", "hello", "ack", "fan", "page"}
  /\ \A s \in stray : s.kind \in {"push", "fan"}
  /\ own \in [Devices -> Nat]
  /\ ckpt \in [Devices -> Nat \cup {-1}]
  /\ cursor \in [Devices -> 0..Len(log)]
  /\ held \in [Devices -> SUBSET Seqs]
  /\ session \in [Devices -> [stage : {"down", "hello", "open"},
                              lastAck : Nat \cup {-1}, blocked : 0..Len(log)]]
  /\ \A d \in Devices :
       /\ \A i \in DOMAIN up[d] : up[d][i].kind \in {"hello", "push", "catchup"}
       /\ \A i \in DOMAIN down[d] :
            down[d][i].kind \in {"hello_ack", "push_ack", "events", "page"}
  /\ base \in [Devices -> 0..Len(log)]
  /\ failed \in [Devices -> SUBSET Seqs]
  /\ budget \in [drops : 0..MaxDrops, faults : 0..MaxFaults]

(* The outbox is trimmed at the checkpoint (nextBatch starts past it), so  *)
(* every event at or below it is in the merged log: over lost acks, pushes *)
(* that commit after their connection is gone, and restarts of both sides. *)
CheckpointBacked ==
  \A d \in Devices : \A s \in 0..ckpt[d] :
    \E i \in Seqs : log[i] = [author |-> d, slot |-> s]

(* Re-pushes after a lost ack, pushes of a closed connection and the fast  *)
(* path's overlapping batches merge each event once, in its author's order *)
(* and without a hole.                                                     *)
LogInOrder ==
  /\ \A i, j \in Seqs : log[i] = log[j] => i = j
  /\ \A i \in Seqs : \A s \in 0..(log[i].slot - 1) :
       \E j \in 1..(i - 1) : log[j] = [author |-> log[i].author, slot |-> s]

(* Together: a device trims its outbox at its checkpoint, and what it lets *)
(* go is in the gateway's log, once and in the author's order.             *)
LogBacksCheckpoints == CheckpointBacked /\ LogInOrder

(* The merge in one step is one the merged log allows, as the pipeline's   *)
(* own is (module Gateway), and what a checkpoint moves to was promised.   *)
LogOfEvents ==
  [i \in 1..Len(log) |-> [id |-> log[i], author |-> log[i].author, slot |-> log[i].slot]]

Promises == INSTANCE MergedLog WITH
  log <- LogOfEvents, rejected <- {}, promised <- ckpt

ImplementsMergedLog == Promises!Spec

(* What the open connection of d will still bring it: frames in flight,    *)
(* merged events whose fan-out is pending, and pages still to be asked     *)
(* for.                                                                    *)
FanPending(g) ==
  \/ \E p \in Devices : job[p].kind \in {"ack", "fan"} /\ g \in job[p].seqs
  \/ \E s \in stray : s.kind = "fan" /\ g \in s.seqs

Brings(f, g) == \/ f.kind \in {"events", "page"} /\ g \in f.seqs
                \/ f.kind = "page" /\ ~f.complete /\ g > f.next
                \/ f.kind = "catchup" /\ g > f.from

Coming(d, g) ==
  \/ d \in joined /\ FanPending(g)
  \/ \E i \in DOMAIN down[d] : Brings(down[d][i], g)
  \/ \E i \in DOMAIN up[d] : Brings(up[d][i], g)
  \/ Brings(job[d], g)

(* Between the catch-up read and the live fan-out no event slips through:  *)
(* joining the fan-out set before the catch-up is asked for leaves every   *)
(* event above the catch-up's start held, coming, or known to have failed. *)
NothingSlips ==
  \A d \in Devices : session[d].stage = "open" =>
    \A g \in (base[d] + 1)..Len(log) : g \in held[d] \cup failed[d] \/ Coming(d, g)

(* The pull cursor stays below a standing blockage, also when a live batch *)
(* had carried it past the blocked event before (the rewind).              *)
CursorBelowBlock ==
  \A d \in Devices : session[d].blocked # 0 => cursor[d] < session[d].blocked

(* A device whose host ticks drains its outbox, whatever was dropped.      *)
Drained(d) == own[d] > 0 => ckpt[d] = own[d] - 1
OutboxDrains == \A d \in Ticking : <>[]Drained(d)

(* A session that is not broken again comes to hold every event above the  *)
(* cursor its catch-up started from, its own events adopted under their    *)
(* global_seq, but for those it knows to have failed to land.              *)
SessionDelivers ==
  \A d \in Devices : <>[](\A g \in (base[d] + 1)..Len(log) : g \in held[d] \cup failed[d])

(* Comments the code does not bear out (see the findings of the README).   *)

(* "The pull cursor advances ONLY through a contiguous prefix of events    *)
(* that actually landed" (applyEvents): in an open session what is at or   *)
(* below the cursor is held or on its way.                                 *)
CursorCoversHeld ==
  \A d \in Devices : session[d].stage = "open" =>
    \A g \in 1..cursor[d] : g \in held[d] \cup failed[d] \/ Coming(d, g)

(* "The cursor may never sit at or above a standing blockage" and "Only    *)
(* that clears the block" (applyEvents): an event that failed to land and  *)
(* still has not is above the cursor.                                      *)
NeverPassesBlockage == \A d \in Devices : \A g \in failed[d] : cursor[d] < g

(* "The cloud path below is unchanged and is still what carries a device   *)
(* on a branch with no LAN configured" (apps/pass-kds/src/main/uplink.ts): *)
(* every device drains its outbox, the pass screen too, whose host does    *)
(* not tick.                                                               *)
EveryOutboxDrains == \A d \in Devices : <>[]Drained(d)

=============================================================================
