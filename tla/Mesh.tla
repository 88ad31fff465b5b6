------------------------------- MODULE Mesh -------------------------------
(***************************************************************************)
(* The branch's LAN mesh: hub election over what each device sees, the     *)
(* follower's session with its hub, the hub's fan-out, and the relay that  *)
(* carries the events of devices without WAN to the cloud and the cloud's  *)
(* acks back, over links that come and go, slow frames and restarts.       *)
(*                                                                         *)
(* A handler is one step: a node's memory is a record, and the handlers of *)
(* mesh-session.ts are functions from it to a new record and the frames to *)
(* send.  The two ends of a socket see it open and close in one step, and  *)
(* what is in flight on it is lost with it.  Timers fire when the model    *)
(* says so: truly when nothing will answer, or, as a failure, while an     *)
(* answer is only slow.                                                    *)
(* packages/sync-client/src/mesh-session.ts, cloud-session.ts,             *)
(* device-store.ts, transport-ws.ts                                        *)
(***************************************************************************)
EXTENDS Integers, Sequences, FiniteSets, FiniteSetsExt, SequencesExt

CONSTANTS
  Devices,
  None,
  Rank,        \* index of a device's class in HUB_ELIGIBLE_CLASSES, -1 outside
  Id,          \* the order of device_ids
  Wan,         \* the devices that may have a cloud connection of their own
  Steady,      \* those of them whose connection is sure to come back
  PushBatchMax,  \* PUSH_BATCH_MAX and CLOUD_PUSH_BATCH_MAX, which are the same
  Scenarios    \* where to start and the bounds: the devices switched on, how many own
               \* events each holds at first and in the end, and the failures in all, a
               \* link or connection lost, a process restarted, a timer that outruns an
               \* answer, an event that fails to ingest

ASSUME MeshAssumption ==
  /\ IsFiniteSet(Devices) /\ None \notin Devices /\ Steady \subseteq Wan /\ Wan \subseteq Devices
  /\ Rank \in [Devices -> Int] /\ PushBatchMax \in Nat \ {0}
  /\ Id \in [Devices -> Nat] /\ \A a, b \in Devices : Id[a] = Id[b] => a = b
  /\ Scenarios \subseteq [on : SUBSET Devices, first : [Devices -> Nat],
                          last : [Devices -> Nat], failures : Nat]

VARIABLES
  node,      \* memory: the mesh session and the relay half of the cloud session
  held,      \* disk: the events of each device's ledger
  ckpt,      \* disk: sync_state.acked_watermark, -1 for NULL
  links,     \* the LAN sockets that are up, as pairs
  wire,      \* wire[a][b]: frames from a to b, oldest first
  up,        \* pushes on a device's cloud connection
  down,      \* push_acks on a device's cloud connection
  settled,   \* the cloud's contiguous watermark of each origin
  scene      \* the scenario, with what is left of its failures

vars == <<node, held, ckpt, links, wire, up, down, settled, scene>>

Pair(a, b) == {a, b}
Linked(a, b) == Pair(a, b) \in links

-----------------------------------------------------------------------------
(* The ledger and the election.                                            *)

Slots(evs, o) == {e.slot : e \in {x \in evs : x.origin = o}}

FlawHighestHeld(evs, o) == Max(Slots(evs, o) \cup {-1})

(* contiguousHigh: the highest slot held without a hole below it.          *)
ContiguousHigh(evs, o) ==
  Max({-1} \cup {s \in Slots(evs, o) : 0..s \subseteq Slots(evs, o)})

Own(d) == Cardinality(Slots(held[d], d))

(* The earliest of them, as many as one push takes.                        *)
Batched(slots) == {s \in slots : Cardinality({r \in slots : r < s}) < PushBatchMax}

Eligible(d) == Rank[d] >= 0
Outranks(a, b) == Rank[a] < Rank[b] \/ (Rank[a] = Rank[b] /\ Id[a] < Id[b])

(* electHub: the eligible device of the best class, ties to the lower id.  *)
ElectHub(S) ==
  LET can == {d \in S : Eligible(d)} IN
  IF can = {} THEN None ELSE CHOOSE d \in can : \A p \in can \ {d} : Outranks(d, p)

-----------------------------------------------------------------------------
(* The mesh session: functions from a node's memory to its next and the    *)
(* frames it sends to each peer.                                           *)

Serving(m) == m.state \in {"hub", "solo"}

Started(d) ==
  [state |-> IF Eligible(d) THEN "solo" ELSE "follower", visible |-> {}, suspects |-> {},
   hub |-> None, conn |-> FALSE, resume |-> 0, lanAck |-> -1, fan |-> 0, followers |-> {},
   wan |-> FALSE, latch |-> FALSE, relayed |-> [o \in Devices |-> -1]]

TeardownFollower(m) == [m EXCEPT !.hub = None, !.conn = FALSE, !.resume = 0, !.lanAck = -1]

FlawKeepsLatch(m) == [m EXCEPT !.followers = {}]
TeardownHub(m) == [m EXCEPT !.followers = {}, !.latch = FALSE]

Nothing == [q \in Devices |-> <<>>]
To(p, frames) == [q \in Devices |-> IF q = p THEN frames ELSE <<>>]
Then(out, more) == [q \in Devices |-> out[q] \o more[q]]

Quiet(m) == [m |-> m, out |-> Nothing]
Hello(to) == To(to, <<[kind |-> "hello"]>>)

(* recompute: adopt the winner over what is visible and not suspect.       *)
Recompute(d, m) ==
  LET winner == ElectHub((m.visible \ m.suspects) \cup {d})
      free == TeardownFollower(m)
      left == IF Serving(m) THEN TeardownHub(m) ELSE m
  IN  CASE winner = d -> Quiet([free EXCEPT !.state = IF m.visible = {} THEN "solo" ELSE "hub"])
        [] winner = None -> Quiet([TeardownFollower(left) EXCEPT !.state = "follower"])
        [] winner \in Devices \ {d} /\ m.state = "follower" /\ m.hub = winner -> Quiet(m)
        [] OTHER -> [m |-> [TeardownFollower(left) EXCEPT !.state = "follower", !.hub = winner],
                     out |-> Hello(winner)]

OnHubLoss(d, m, suspect) ==
  Recompute(d, [TeardownFollower(m) EXCEPT
    !.suspects = IF suspect THEN @ \cup {m.hub} ELSE @,
    !.state = IF Eligible(d) THEN "candidate" ELSE "follower"])

OnPeerVisible(d, m, p) == Recompute(d, [m EXCEPT !.visible = @ \cup {p}])

OnPeerLost(d, m, p) ==
  LET gone == [m EXCEPT !.visible = @ \ {p}, !.followers = @ \ {p}] IN
  IF p = m.hub THEN OnHubLoss(d, gone, FALSE) ELSE Recompute(d, gone)

(* Inbound traffic is what clears suspicion, and clearing it re-elects.    *)
Alive(d, m, from) ==
  IF from \in m.suspects THEN Recompute(d, [m EXCEPT !.suspects = @ \ {from}]) ELSE Quiet(m)

(* drainPush of the follower: own events from the LAN cursor onward.       *)
DrainPush(d, m, evs) ==
  LET from == Max({m.resume, m.lanAck + 1})
      pending == {s \in Slots(evs, d) : s >= from}
  IN  IF ~m.conn \/ pending = {} THEN Nothing
      ELSE To(m.hub, <<[kind |-> "push",
                        events |-> {[origin |-> d, slot |-> s] : s \in Batched(pending)}]>>)

Window(evs) == IF evs = {} THEN <<>> ELSE <<[kind |-> "batch", events |-> evs]>>

(* forwardCloudAck; the store's relayed ack is the relay cursor of the     *)
(* cloud session: both are raised by the same push_ack and by nothing else *)
(* (for the own stream, relayed is the session's lastPushAck).             *)
CloudAckTo(p, m) ==
  IF m.relayed[p] < 0 THEN <<>> ELSE <<[kind |-> "cloud_ack", mark |-> m.relayed[p]]>>

FlawAdmitOnce(m, p, evs) ==
  IF p \in m.followers THEN Quiet(m)
  ELSE [m |-> [m EXCEPT !.followers = @ \cup {p}],
        out |-> To(p, <<[kind |-> "hello_ack", resume |-> ContiguousHigh(evs, p) + 1]>>
                      \o Window(evs))]

AdmitFollower(m, p, evs) ==
  [m |-> [m EXCEPT !.followers = @ \cup {p}],
   out |-> To(p, <<[kind |-> "hello_ack", resume |-> ContiguousHigh(evs, p) + 1]>>
                 \o Window(evs))]

(* handlePush, after the batch is ingested: ack, fan what was new.         *)
PushReplies(m, p, before, after, pushed) ==
  LET high == ContiguousHigh(after, p)
      fresh == (pushed \cap after) \ before
  IN  Then(To(p, IF high < 0 THEN <<>> ELSE <<[kind |-> "lan_ack", mark |-> high]>>),
           [q \in Devices |-> IF q \in m.followers \ {p} THEN Window(fresh) ELSE <<>>])

(* The frames are sent to the peers with a socket; the rest is dropped.    *)
Post(w, d, out) ==
  [w EXCEPT ![d] = [p \in Devices |-> IF Linked(d, p) THEN w[d][p] \o out[p] ELSE w[d][p]]]

-----------------------------------------------------------------------------
(* The cloud session's half: own outbox, and the relay of held peers.      *)

OwnPush(d, mark, evs) ==
  LET pending == {s \in Slots(evs, d) : s > mark} IN
  IF pending = {} THEN <<>> ELSE <<[origin |-> d, slots |-> Batched(pending)]>>

(* relayDrain: one push per origin with held events past its relay cursor, *)
(* while the mesh has asked for it.                                        *)
RelayDrain(d, m, evs, origins) ==
  LET late == {o \in origins \ {d} : \E s \in Slots(evs, o) : s > m.relayed[o]}
      order == SetToSeq(late)
  IN  IF ~m.wan \/ ~m.latch THEN <<>>
      ELSE [i \in DOMAIN order |->
             [origin |-> order[i],
              slots |-> Batched({s \in Slots(evs, order[i]) : s > m.relayed[order[i]]})]]

-----------------------------------------------------------------------------

Init ==
  /\ scene \in Scenarios
  /\ node = [d \in Devices |-> Started(d)]
  /\ held = [d \in Devices |-> {[origin |-> d, slot |-> s] : s \in 0..(scene.first[d] - 1)}]
  /\ ckpt = [d \in Devices |-> -1]
  /\ links = {}
  /\ wire = [a \in Devices |-> [b \in Devices |-> <<>>]]
  /\ up = [d \in Devices |-> <<>>]
  /\ down = [d \in Devices |-> <<>>]
  /\ settled = [d \in Devices |-> -1]

cloud == <<up, down, settled>>

(* The host appends and calls notifyAppended: a follower pushes, a hub     *)
(* fans its own events from its fan cursor; the cloud session's own drain  *)
(* is the host's other call.                                               *)
AppendEvent(d) ==
  /\ d \in scene.on /\ Own(d) < scene.last[d]
  /\ LET evs == held[d] \cup {[origin |-> d, slot |-> Own(d)]}
         m == node[d]
         late == Batched({s \in Slots(evs, d) : s >= m.fan})
         news == {[origin |-> d, slot |-> s] : s \in late}
     IN  /\ held' = [held EXCEPT ![d] = evs]
         /\ \/ /\ ~Serving(m)
               /\ wire' = Post(wire, d, DrainPush(d, m, evs))
               /\ UNCHANGED node
            \/ /\ Serving(m)
               /\ wire' = Post(wire, d,
                    [p \in Devices |-> IF p \in m.followers THEN Window(news) ELSE <<>>])
               /\ node' = [node EXCEPT ![d].fan = Max({@} \cup {s + 1 : s \in late})]
         /\ up' = [up EXCEPT ![d] = IF m.wan THEN @ \o OwnPush(d, ckpt[d], evs) ELSE @]
  /\ UNCHANGED <<ckpt, links, down, settled, scene>>

Spend == scene.failures > 0 /\ scene' = [scene EXCEPT !.failures = @ - 1]

(* A device adopts what a handler returns.                                 *)
Adopt(d, r) == node' = [node EXCEPT ![d] = r.m]

-----------------------------------------------------------------------------
(* dispatch: the oldest frame from p, after the sender has shown life.     *)

Arrives(d, p, kind) == wire[p][d] # <<>> /\ Head(wire[p][d]).kind = kind
Taken(d, p) == [wire EXCEPT ![p][d] = Tail(@)]
Now(d, p) == Alive(d, node[d], p)

OnHello(d, p) ==
  /\ Arrives(d, p, "hello")
  /\ LET a == Now(d, p)
         r == IF Serving(a.m) THEN AdmitFollower(a.m, p, held[d]) ELSE Quiet(a.m)
     IN  Adopt(d, r) /\ wire' = Post(Taken(d, p), d, Then(a.out, r.out))
  /\ UNCHANGED <<held, ckpt, links, cloud, scene>>

FollowerOf(m, p) == m.state = "follower" /\ m.hub = p

OnHelloAck(d, p) ==
  /\ Arrives(d, p, "hello_ack")
  /\ LET a == Now(d, p)
         m == IF FollowerOf(a.m, p)
              THEN [a.m EXCEPT !.conn = TRUE, !.resume = Head(wire[p][d]).resume, !.lanAck = -1]
              ELSE a.m
     IN  /\ node' = [node EXCEPT ![d] = m]
         /\ wire' = Post(Taken(d, p), d,
              Then(a.out, IF FollowerOf(m, p) THEN DrainPush(d, m, held[d]) ELSE Nothing))
  /\ UNCHANGED <<held, ckpt, links, cloud, scene>>

(* ingestBatch: an event that fails to land is skipped.                    *)
Ingest(d, evs, bad) ==
  /\ bad \subseteq evs \ held[d]
  /\ Cardinality(bad) <= scene.failures
  /\ scene' = [scene EXCEPT !.failures = @ - Cardinality(bad)]
  /\ held' = [held EXCEPT ![d] = @ \cup (evs \ bad)]

OnPush(d, p) ==
  /\ Arrives(d, p, "push")
  /\ LET a == Now(d, p)
         pushed == Head(wire[p][d]).events
     IN  \/ /\ Serving(a.m)
            /\ \E bad \in SUBSET pushed : Ingest(d, pushed, bad)
            /\ LET m == [a.m EXCEPT !.latch = TRUE] IN
                 /\ node' = [node EXCEPT ![d] = m]
                 /\ wire' = Post(Taken(d, p), d,
                      Then(a.out, PushReplies(m, p, held[d], held'[d], pushed)))
                 /\ up' = [up EXCEPT ![d] = @ \o RelayDrain(d, m, held'[d], Devices)]
         \/ /\ ~Serving(a.m)
            /\ Adopt(d, a) /\ wire' = Post(Taken(d, p), d, a.out)
            /\ UNCHANGED <<held, scene, up>>
  /\ UNCHANGED <<ckpt, links, down, settled>>

(* push_ack without an origin: the volatile LAN cursor.                    *)
OnLanAck(d, p) ==
  /\ Arrives(d, p, "lan_ack")
  /\ LET a == Now(d, p)
         mark == Head(wire[p][d]).mark
         counts == FollowerOf(a.m, p) /\ a.m.conn /\ mark > a.m.lanAck
         m == IF counts THEN [a.m EXCEPT !.lanAck = mark] ELSE a.m
     IN  /\ node' = [node EXCEPT ![d] = m]
         /\ wire' = Post(Taken(d, p), d,
              Then(a.out, IF counts THEN DrainPush(d, m, held[d]) ELSE Nothing))
  /\ UNCHANGED <<held, ckpt, links, cloud, scene>>

FlawAnyAck(d, p) == /\ \/ Arrives(d, p, "cloud_ack") \/ Arrives(d, p, "lan_ack")
                    /\ ckpt' = [ckpt EXCEPT ![d] = Max({@, Head(wire[p][d]).mark})]
                    /\ wire' = Taken(d, p)
                    /\ UNCHANGED <<node, held, links, cloud, scene>>

(* push_ack that names this device: the hub-relayed cloud ack moves its    *)
(* own checkpoint, unless it lies beyond what it appended.                 *)
OnCloudAckRelayed(d, p) ==
  /\ Arrives(d, p, "cloud_ack")
  /\ LET a == Now(d, p)
         mark == Head(wire[p][d]).mark
     IN  /\ Adopt(d, a)
         /\ wire' = Post(Taken(d, p), d, a.out)
         /\ ckpt' = [ckpt EXCEPT ![d] =
              IF FollowerOf(a.m, p) /\ a.m.conn /\ mark < Own(d) THEN Max({@, mark}) ELSE @]
  /\ UNCHANGED <<held, links, cloud, scene>>

OnBatch(d, p) ==
  /\ Arrives(d, p, "batch")
  /\ LET a == Now(d, p) IN Adopt(d, a) /\ wire' = Post(Taken(d, p), d, a.out)
  /\ \E bad \in SUBSET Head(wire[p][d]).events : Ingest(d, Head(wire[p][d]).events, bad)
  /\ UNCHANGED <<ckpt, links, cloud>>

(* ping: the hub is alive; the pong it is answered with resets the hub's   *)
(* count of missed beats.                                                  *)
OnPing(d, p) ==
  /\ Arrives(d, p, "ping")
  /\ LET a == Now(d, p)
         pong == To(p, IF a.m.hub = p THEN <<[kind |-> "pong"]>> ELSE <<>>)
     IN  Adopt(d, a) /\ wire' = Post(Taken(d, p), d, Then(a.out, pong))
  /\ UNCHANGED <<held, ckpt, links, cloud, scene>>

OnPong(d, p) ==
  /\ Arrives(d, p, "pong")
  /\ LET a == Now(d, p) IN Adopt(d, a) /\ wire' = Post(Taken(d, p), d, a.out)
  /\ UNCHANGED <<held, ckpt, links, cloud, scene>>

Receive(d, p) ==
  \/ OnHello(d, p) \/ OnHelloAck(d, p) \/ OnPush(d, p) \/ OnLanAck(d, p)
  \/ OnCloudAckRelayed(d, p) \/ OnBatch(d, p) \/ OnPing(d, p) \/ OnPong(d, p)

-----------------------------------------------------------------------------
(* Timers.                                                                 *)

OnWire(a, b, kinds) == \E i \in DOMAIN wire[a][b] : wire[a][b][i].kind \in kinds

FlawForgetsAck(h, f) ==
  /\ f \in node[h].followers
  /\ wire[h][f] = <<>> /\ ~OnWire(f, h, {"pong"})
  /\ wire' = Post(wire, h, To(f, <<[kind |-> "ping"]>> \o Window(held[h])))
  /\ UNCHANGED <<node, held, ckpt, links, cloud, scene>>

(* The hub's heartbeat to one follower.  Bound: not before the last one    *)
(* has been read and answered.                                             *)
Heartbeat(h, f) ==
  /\ f \in node[h].followers
  /\ wire[h][f] = <<>> /\ ~OnWire(f, h, {"pong"})
  /\ wire' = Post(wire, h, To(f, <<[kind |-> "ping"]>> \o Window(held[h])
                                \o CloudAckTo(f, node[h])))
  /\ UNCHANGED <<node, held, ckpt, links, cloud, scene>>

(* Three beats unanswered: the hub drops the follower, which follows no    *)
(* longer and has answered none of its pings, or whose pong is late.       *)
MissedBeats(h, f) ==
  /\ f \in node[h].followers
  /\ \/ node[f].hub # h /\ wire[h][f] = <<>> /\ ~OnWire(f, h, {"pong"}) /\ UNCHANGED scene
     \/ (OnWire(h, f, {"ping"}) \/ OnWire(f, h, {"pong"})) /\ Spend
  /\ node' = [node EXCEPT ![h].followers = @ \ {f}]
  /\ UNCHANGED <<held, ckpt, links, wire, cloud>>

(* The follower's retry: hello until acked, then push until caught up.     *)
(* Bound: not before the last one was read and its answer arrived, nor     *)
(* while the hub's uplink is busy.                                         *)
FollowerTick(d) ==
  /\ node[d].state = "follower" /\ node[d].hub # None
  /\ LET h == node[d].hub
         retry == IF node[d].conn THEN DrainPush(d, node[d], held[d]) ELSE Hello(h)
     IN  /\ ~OnWire(d, h, {"hello", "push"}) /\ ~OnWire(h, d, {"hello_ack", "lan_ack"})
         /\ up[h] = <<>> /\ retry # Nothing
         /\ wire' = Post(wire, d, retry)
  /\ UNCHANGED <<node, held, ckpt, links, cloud, scene>>

(* The loss check of a connected follower and the hello timeout of one     *)
(* that waits: true when nothing will come, or an answer that is late.     *)
HubSilent(d) == \E h \in Devices : /\ h = node[d].hub
                                   /\ d \notin node[h].followers /\ wire[h][d] = <<>>
HelloIgnored(d) == \E h \in Devices : /\ h = node[d].hub
                                      /\ ~Serving(node[h]) /\ wire[h][d] = <<>>

TimesOut(d, truly) ==
  /\ node[d].state = "follower" /\ node[d].hub # None
  /\ \/ truly /\ UNCHANGED scene
     \/ ~truly /\ Spend
  /\ LET r == OnHubLoss(d, node[d], TRUE) IN
       Adopt(d, r) /\ wire' = Post(wire, d, r.out)
  /\ UNCHANGED <<held, ckpt, links, cloud>>

LossCheck(d) == node[d].conn /\ TimesOut(d, HubSilent(d))
HelloTimeout(d) == ~node[d].conn /\ TimesOut(d, HelloIgnored(d))

-----------------------------------------------------------------------------
(* Sockets, the cloud, and restarts.                                       *)

LinkUp(a, b) ==
  /\ a # b /\ {a, b} \subseteq scene.on /\ ~Linked(a, b)
  /\ links' = links \cup {Pair(a, b)}
  /\ LET ra == OnPeerVisible(a, node[a], b)
         rb == OnPeerVisible(b, node[b], a)
     IN  /\ node' = [node EXCEPT ![a] = ra.m, ![b] = rb.m]
         /\ wire' = [wire EXCEPT
              ![a] = [p \in Devices |-> IF Linked(a, p) \/ p = b THEN @[p] \o ra.out[p] ELSE @[p]],
              ![b] = [p \in Devices |-> IF Linked(b, p) \/ p = a THEN @[p] \o rb.out[p] ELSE @[p]]]
  /\ UNCHANGED <<held, ckpt, cloud, scene>>

(* The sockets of the pairs in gone close: both ends lose what was on its  *)
(* way and hear onPeerLost.  Every device loses at most one peer here.     *)
Lose(gone, restarted) ==
  LET lost(d) == {p \in Devices \ {d} : Pair(d, p) \in gone}
      react(d) == IF d \in restarted THEN Quiet(Started(d))
                  ELSE IF lost(d) = {} THEN Quiet(node[d])
                  ELSE OnPeerLost(d, node[d], CHOOSE p \in lost(d) : TRUE)
  IN  /\ links' = links \ gone
      /\ node' = [d \in Devices |-> react(d).m]
      /\ wire' = [a \in Devices |-> [b \in Devices |->
           IF Pair(a, b) \in gone THEN <<>>
           ELSE IF Linked(a, b) THEN wire[a][b] \o react(a).out[b]
           ELSE wire[a][b]]]

LinkDown(a, b) ==
  /\ a # b /\ Linked(a, b)
  /\ Spend
  /\ Lose({Pair(a, b)}, {})
  /\ UNCHANGED <<held, ckpt, cloud>>

(* A process stops and starts: its memory is gone, its ledger is not.      *)
Restart(d) ==
  /\ node[d] # Started(d)
  /\ Spend
  /\ Lose({l \in links : d \in l}, {d})
  /\ up' = [up EXCEPT ![d] = <<>>] /\ down' = [down EXCEPT ![d] = <<>>]
  /\ UNCHANGED <<held, ckpt, settled>>

(* hello_ack of the cloud: drain the outbox, resume a latched relay.       *)
WanUp(d) ==
  /\ d \in Wan \cap scene.on /\ ~node[d].wan
  /\ LET m == [node[d] EXCEPT !.wan = TRUE] IN
       /\ node' = [node EXCEPT ![d] = m]
       /\ up' = [up EXCEPT ![d] = OwnPush(d, ckpt[d], held[d]) \o RelayDrain(d, m, held[d], Devices)]
  /\ UNCHANGED <<held, ckpt, links, wire, down, settled, scene>>

WanDown(d) ==
  /\ node[d].wan
  /\ Spend
  /\ node' = [node EXCEPT ![d].wan = FALSE]
  /\ up' = [up EXCEPT ![d] = <<>>] /\ down' = [down EXCEPT ![d] = <<>>]
  /\ UNCHANGED <<held, ckpt, links, wire, settled>>

(* The gateway settles a push up to the first hole and acks the origin's   *)
(* watermark (module Gateway).                                             *)
SettledAfter(push) ==
  Max({settled[push.origin]} \cup
      {s \in push.slots : (settled[push.origin] + 1)..s \subseteq push.slots})

CloudSettles(d) ==
  /\ up[d] # <<>>
  /\ LET push == Head(up[d])
         mark == SettledAfter(push)
     IN  /\ settled' = [settled EXCEPT ![push.origin] = mark]
         /\ down' = [down EXCEPT ![d] =
              IF mark < 0 THEN @ ELSE Append(@, [origin |-> push.origin, mark |-> mark])]
  /\ up' = [up EXCEPT ![d] = Tail(@)]
  /\ UNCHANGED <<node, held, ckpt, links, wire, scene>>

(* push_ack from the cloud, raising lastPushAck or the origin's relay      *)
(* cursor: the own stream's moves the checkpoint, an origin's asks for the *)
(* origin's next page.                                                     *)
OnCloudAck(d) ==
  /\ down[d] # <<>>
  /\ down' = [down EXCEPT ![d] = Tail(@)]
  /\ LET ack == Head(down[d])
         m == [node[d] EXCEPT !.relayed[ack.origin] = ack.mark]
     IN  \/ /\ ack.mark > node[d].relayed[ack.origin]
            /\ node' = [node EXCEPT ![d] = m]
            /\ ckpt' = [ckpt EXCEPT ![d] = IF ack.origin = d THEN Max({@, ack.mark}) ELSE @]
            /\ up' = [up EXCEPT ![d] = @ \o
                 IF ack.origin = d THEN OwnPush(d, ckpt'[d], held[d])
                 ELSE RelayDrain(d, m, held[d], {ack.origin})]
         \/ /\ ack.mark <= node[d].relayed[ack.origin]
            /\ UNCHANGED <<node, ckpt, up>>
  /\ UNCHANGED <<held, links, wire, settled, scene>>

-----------------------------------------------------------------------------

Timers(d) == \/ FollowerTick(d) \/ LossCheck(d) \/ HelloTimeout(d)
             \/ \E f \in Devices : Heartbeat(d, f)

Cloud(d) == CloudSettles(d) \/ OnCloudAck(d)

Failure == \/ \E a, b \in Devices : LinkDown(a, b) \/ MissedBeats(a, b)
           \/ \E d \in Devices : Restart(d) \/ WanDown(d)

Next ==
  \/ \E d \in Devices : AppendEvent(d) \/ Timers(d) \/ WanUp(d) \/ Cloud(d)
  \/ \E a, b \in Devices : LinkUp(a, b) \/ Receive(a, b)
  \/ Failure

Spec == Init /\ [][Next]_vars

(* The dial and redial timers, the event loops, the heartbeat and retry    *)
(* timers and the gateway keep running; nothing obliges a failure, and a   *)
(* timer that fires too soon is one.                                       *)
Fairness ==
  /\ \A a, b \in Devices : /\ WF_vars(LinkUp(a, b))
                           /\ WF_vars(Receive(a, b))
                           /\ WF_vars(Heartbeat(a, b))
  /\ \A d \in Devices : /\ WF_vars(FollowerTick(d))
                        /\ WF_vars(HubSilent(d) /\ LossCheck(d))
                        /\ WF_vars(HelloIgnored(d) /\ HelloTimeout(d))
                        /\ WF_vars(Cloud(d))
  /\ \A d \in Steady : WF_vars(WanUp(d))

FairSpec == Spec /\ Fairness

-----------------------------------------------------------------------------
(* Properties.                                                             *)

Event == [origin : Devices, slot : Nat]
Mark == Nat \cup {-1}

TypeOK ==
  /\ node \in [Devices ->
       [state : {"solo", "hub", "follower"}, visible : SUBSET Devices, suspects : SUBSET Devices,
        hub : Devices \cup {None}, conn : BOOLEAN, resume : Nat, lanAck : Mark, fan : Nat,
        followers : SUBSET Devices, wan : BOOLEAN, latch : BOOLEAN, relayed : [Devices -> Mark]]]
  /\ \A d \in Devices : held[d] \subseteq Event
  /\ ckpt \in [Devices -> Mark] /\ settled \in [Devices -> Mark]
  /\ links \subseteq SUBSET Devices
  /\ \A a, b \in Devices : wire[a][b] # <<>> => Linked(a, b)
  /\ \A d \in Devices : up[d] # <<>> \/ down[d] # <<>> => node[d].wan
  /\ scene.on \subseteq Devices /\ scene.failures \in Nat

(* DEC-SYNC-009: what an origin's own checkpoint covers is in the cloud,   *)
(* for a device without WAN too, over LAN acks, relays of several hubs,    *)
(* acks forwarded late and restarts.                                       *)
CheckpointInCloud == \A d \in Devices : ckpt[d] <= settled[d]

(* The LAN cursor of a connected follower never runs ahead of what its hub *)
(* holds without a hole, also when an event of a push failed to ingest:    *)
(* what the follower will not push again is there.                         *)
LanCursorHeld ==
  \A d \in Devices : node[d].conn =>
    0..Max({node[d].resume - 1, node[d].lanAck}) \subseteq Slots(held[node[d].hub], d)

(* DEC-SYNC-006: a device that is not acting hub pushes no event of        *)
(* another to the cloud, also on a reconnect after it was demoted.         *)
FollowersNeverRelay ==
  [][\A d \in Devices : Len(up'[d]) > Len(up[d]) /\ up'[d][Len(up'[d])].origin # d
        => Serving(node'[d])]_vars

(* Once the links stay up every device follows the best one, unless        *)
(* somebody holds it for dead.                                             *)
Top == ElectHub(scene.on)
AllFollow == /\ node[Top].state = "hub"
             /\ \A d \in scene.on \ {Top} : node[d].hub = Top /\ node[d].conn
                                          /\ d \in node[Top].followers
Shunned == \E d \in Devices : Top \in node[d].suspects
Converges == <>[]AllFollow \/ <>[]Shunned

(* ... and then every device comes to hold every event.                    *)
AllHold == \A d, p \in scene.on : held[d] = held[p]
EventsSpread == <>[]AllHold \/ <>[]Shunned

(* Once failures end, the LAN follows one hub and every event reaches      *)
(* every device, through the hub's replay and the followers' pushes alike. *)
LanRecovers == Converges /\ EventsSpread

(* ... and every outbox drains, through the hub for a device without WAN,  *)
(* unless the hub waits for a push to set its relay going.                 *)
Drained == \A d \in scene.on : ckpt[d] = Own(d) - 1
OutboxesDrain == <>[]Drained \/ <>[]Shunned \/ <>[](~node[Top].latch)

(* What the documents say without those exceptions.                        *)

(* "the deterministic function converges both sides to one hub once they   *)
(* see each other" (HUB-ELECTION.md).                                      *)
OneHubOnceTheySee == <>[]AllFollow

(* "after a restart the hub re-relays from zero and re-learns per-origin   *)
(* acks" (device-store.ts).                                                *)
RelayResumes == <>[]Drained \/ <>[]Shunned

=============================================================================
