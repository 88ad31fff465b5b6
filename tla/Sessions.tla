------------------------------ MODULE Sessions ------------------------------
(***************************************************************************)
(* Who may read what, and when: device tokens that run out and are renewed *)
(* in passing, sessions admitted only to drain, a registry that revokes at *)
(* any moment, the fan-out set and its two culls, and the reference data   *)
(* (menu, staff, configuration) a session fetches page by page.            *)
(*                                                                         *)
(* A gateway handler runs between awaits: what it waits for and the        *)
(* stretch that follows are an action, and the connection's next frame     *)
(* waits for its end.  A refused frame, or a handler that throws, closes   *)
(* the socket; what was sent before it still arrives.  The hand-over of    *)
(* frames on one connection is in order; a lost connection loses them.     *)
(* One branch of one organisation; the events themselves are in CloudSync. *)
(* services/sync-gateway/src/gateway.ts, catalog.ts, staff.ts, config.ts,  *)
(* server.ts; packages/sync-client/src/cloud-session.ts, catalog-fetch.ts, *)
(* catalog.ts, staff.ts, config.ts                                         *)
(***************************************************************************)
EXTENDS Integers, Sequences, FiniteSets, FiniteSetsExt, SequencesExt

CONSTANTS
  Devices,
  HubClass,     \* the devices whose registered class may be a hub
  RelayClaim,   \* the devices provisioned with a token that carries hub_relay
  Artifacts,
  KeepsDeleted, \* those whose deleted rows stay, off the grid: the catalog
  Ids,          \* the ids of rows
  PageSize,
  Ttl,          \* a token's life, in ticks of the clock
  RenewBelow,   \* the remaining life under which it is renewed
  NoToken,
  Changes,      \* the sets of rows a publish may change
  Scenes        \* the devices that are on, the artifacts that are published, and the bounds: ticks, lost connections,
                \* publishes, revocations, sweeps that cannot read the registry, own pushes and relayed ones

ASSUME SessionsAssumption ==
  /\ HubClass \subseteq Devices /\ RelayClaim \subseteq Devices
  /\ KeepsDeleted \subseteq Artifacts /\ Ids \subseteq Nat
  /\ Changes \subseteq SUBSET [id : Ids, deleted : BOOLEAN]
  /\ \A c \in Changes : c # {} /\ IsFiniteSet(c) /\ \A r, s \in c : r.id = s.id => r = s
  /\ IsFiniteSet(Artifacts)
  /\ PageSize \in Nat \ {0} /\ Ttl \in Nat \ {0} /\ RenewBelow \in 1..Ttl
  /\ NoToken \notin [expires : Nat, relay : BOOLEAN]

VARIABLES
  now,
  revoked,    \* device_registry.revoked_at is not null
  expires,    \* device_registry.token_expires_at
  merged,     \* device_watermarks, as the number of own events merged
  published,  \* catalog_versions and catalog_entries, and their like
  unannounced, \* the versions committed and not yet told
  record,     \* a connection as the gateway holds it: open, session, in the fan-out set
  task,       \* the handler of its frame that is under way
  sweep,      \* the devices a revocation sweep is about to drop, and whether it could read
  up, down,   \* frames from and to a device
  device,     \* a device: link, memory of its session, stored token, outbox, renewals held
  held,       \* the artifacts a device has stored
  cleared,    \* history: the handlers that had cleared a device when it was revoked
  left        \* what is left of the scene's bounds

gateway == <<record, task, sweep>>
registry == <<revoked, expires, merged, published, unannounced>>
vars == <<now, registry, gateway, up, down, device, held, cleared, left>>

NoSession == [none |-> TRUE]
NoTask == [at |-> "none"]
NoSweep == [at |-> "none"]
NoFetch == [none |-> TRUE]
Closed == [open |-> FALSE, session |-> NoSession, joined |-> FALSE]

HasSession(d) == record[d].session # NoSession

(* A tick, a fault or an act of the outside world uses up its bound.       *)
Spend(what) == left[what] > 0 /\ left' = [left EXCEPT ![what] = @ - 1]

(* A frame reaches a socket only while both ends have it.                  *)
Frames(d, fs) == IF device[d].link = "up" THEN down[d] \o fs ELSE down[d]
Reply(d, fs) == down' = [down EXCEPT ![d] = Frames(d, fs)]

-----------------------------------------------------------------------------
(* Tokens.                                                                 *)

FlawDueUnforced(expiry, force) == expiry - now < RenewBelow /\ expiry > now

Due(expiry, force) == force \/ expiry - now < RenewBelow

FlawRenewed(d, relay) == [expires |-> now + Ttl, relay |-> d \in HubClass]

(* A renewed token carries the relay right that both the old one and the   *)
(* device's class allow.                                                   *)
Renewed(d, relay) == [expires |-> now + Ttl, relay |-> relay /\ d \in HubClass]

-----------------------------------------------------------------------------
(* Reference pages.                                                        *)

Reference == INSTANCE ReferenceData WITH live <- held

EmptyPage(form, v, base) ==
  [form |-> form, version |-> v, base |-> base, entries |-> {}, complete |-> TRUE, next |-> 0]

Target(a, from, at) ==
  IF from > 0 /\ at > 0 /\ at <= Len(published[a]) THEN at ELSE Len(published[a])

(* The place of a row in the order of the ids.                             *)
Rank(rows, r) == Cardinality({s \in rows : s.id <= r.id})

(* The page of what changed up to version v: a delta when the device's     *)
(* version was published, a snapshot else; of its rows, in the order of    *)
(* their ids, the next ones.                                               *)
PageOf(versions, have, from, v) ==
  LET lo == IF have > 0 /\ have <= v THEN have ELSE 0
      rows == Reference!Fold(versions, lo, v)
      complete == Cardinality(rows) <= from + PageSize
  IN  IF v = 0 THEN EmptyPage("snapshot", 0, 0)
      ELSE IF have = v THEN EmptyPage("delta", v, have)
      ELSE [form |-> IF lo > 0 THEN "delta" ELSE "snapshot", version |-> v, base |-> lo,
            entries |-> {r \in rows : Rank(rows, r) \in (from + 1)..(from + PageSize)},
            complete |-> complete, next |-> IF complete THEN 0 ELSE from + PageSize]

Page(a, have, from, at) == PageOf(published[a], have, from, Target(a, from, at))

FlawAppliedKeepsDeleted(a, h, form, version, base, entries) ==
  IF form = "delta" /\ version > h.version
  THEN [version |-> version,
        rows |-> {r \in entries : ~r.deleted} \cup
                 {r \in h.rows : \A n \in entries : n.deleted \/ n.id # r.id}]
  ELSE [version |-> version, rows |-> entries]

(* The update a complete fetch is, applied to what the device stores: a    *)
(* deleted row of the catalog is marked, if it is there; of the others it  *)
(* is removed.                                                             *)
Applied(a, h, form, version, base, entries) ==
  LET gone == {r \in entries : r.deleted}
      new == entries \ gone
      Marked(r) == IF \E g \in gone : g.id = r.id THEN [r EXCEPT !.deleted = TRUE] ELSE r
      kept == {r \in h.rows : \A n \in new : n.id # r.id}
  IN  CASE form = "snapshot" /\ version >= h.version ->
             [version |-> version, rows |-> IF a \in KeepsDeleted THEN entries ELSE new]
        [] form = "delta" /\ version > h.version /\ base = h.version ->
             [version |-> version,
              rows |-> new \cup
                IF a \in KeepsDeleted THEN {Marked(r) : r \in kept}
                ELSE {r \in kept : \A g \in gone : g.id # r.id}]
        [] OTHER -> h

-----------------------------------------------------------------------------
FreshDevice(d) ==
  [link |-> "down", connected |-> FALSE, token |-> [expires |-> Ttl, relay |-> d \in RelayClaim],
   relay |-> FALSE, own |-> 0, acked |-> 0, fetch |-> [a \in Artifacts |-> NoFetch],
   told |-> [a \in Artifacts |-> 0], renewals |-> [o \in Devices |-> NoToken]]

Init ==
  /\ now = 0
  /\ revoked = {}
  /\ expires = [d \in Devices |-> Ttl]
  /\ merged = [d \in Devices |-> 0]
  /\ published = [a \in Artifacts |-> <<>>]
  /\ unannounced = {}
  /\ record = [d \in Devices |-> Closed]
  /\ task = [d \in Devices |-> NoTask]
  /\ sweep = NoSweep
  /\ up = [d \in Devices |-> <<>>]
  /\ down = [d \in Devices |-> <<>>]
  /\ device = [d \in Devices |-> FreshDevice(d)]
  /\ held = [d \in Devices |-> [a \in Artifacts |-> [version |-> 0, rows |-> {}]]]
  /\ cleared = [d \in Devices |-> {}]
  /\ left \in Scenes

-----------------------------------------------------------------------------
(* The gateway's frames.                                                   *)

Next1(d, kinds) ==
  /\ task[d] = NoTask
  /\ up[d] # <<>>
  /\ Head(up[d]).kind \in kinds
  /\ up' = [up EXCEPT ![d] = Tail(@)]

(* A refusal closes the record and the socket, after what it says.         *)
Refuse(d, fs) ==
  /\ record' = [record EXCEPT ![d].open = FALSE, ![d].joined = FALSE]
  /\ Reply(d, fs)
  /\ device' = [device EXCEPT ![d].link = IF @ = "up" THEN "closing" ELSE @]
  /\ UNCHANGED task

(* handleHello: the registry row, in which a revoked device is refused.    *)
Hello(d) ==
  /\ Next1(d, {"hello"})
  /\ LET token == Head(up[d]).token
     IN  IF d \in revoked THEN Refuse(d, <<[kind |-> "purge_command"]>>)
         ELSE /\ task' = [task EXCEPT ![d] =
                   [at |-> "join", token |-> token, expired |-> token.expires <= now]]
              /\ UNCHANGED <<record, down, device>>
  /\ UNCHANGED <<now, registry, sweep, held, cleared, left>>

(* The watermark, and the session: an expired token was admitted to drain, *)
(* the others read from now on.  The record of a connection that is gone   *)
(* joins too, and nothing is sent to it.                                   *)
HelloJoin(d) ==
  /\ task[d].at = "join"
  /\ LET t == task[d]
     IN  /\ record' = IF record[d].open
                      THEN [record EXCEPT
                        ![d].session = [draining |-> t.expired, relay |-> t.token.relay /\ d \in HubClass],
                        ![d].joined = ~t.expired]
                      ELSE record
         /\ task' = [task EXCEPT ![d] = [at |-> "versions", token |-> t.token]]
  /\ UNCHANGED <<now, registry, sweep, up, down, device, held, cleared, left>>

(* The version of each artifact, read before the ack is sent.              *)
HelloVersions(d) ==
  /\ task[d].at = "versions"
  /\ task' = [task EXCEPT ![d] =
       [at |-> "hello_ack", token |-> task[d].token,
        versions |-> [a \in Artifacts |-> Len(published[a])]]]
  /\ UNCHANGED <<now, registry, record, sweep, up, down, device, held, cleared, left>>

(* The rest of handleHello: a renewal, judged from the registry row read   *)
(* at the start, and the ack.                                              *)
HelloAck(d) ==
  /\ task[d].at = "hello_ack"
  /\ LET token == task[d].token
         due == Due(token.expires, token.expires <= now)
         new == Renewed(d, token.relay)
     IN  /\ expires' = IF due THEN [expires EXCEPT ![d] = new.expires] ELSE expires
         /\ Reply(d, <<[kind |-> "hello_ack", token |-> IF due THEN new ELSE NoToken,
                        versions |-> task[d].versions,
                        relay |-> token.relay /\ d \in HubClass]>>)
  /\ task' = [task EXCEPT ![d] = NoTask]
  /\ UNCHANGED <<now, revoked, merged, published, unannounced, record, sweep, up, device, held, cleared, left>>

(* requireUnrevoked, ahead of a push.                                      *)
PushFrame(d) ==
  /\ Next1(d, {"push"})
  /\ IF d \in revoked \/ ~HasSession(d) THEN Refuse(d, <<>>)
     ELSE /\ task' = [task EXCEPT ![d] =
               [at |-> "merge", push |-> Head(up[d]), session |-> record[d].session]]
          /\ UNCHANGED <<record, down, device>>
  /\ UNCHANGED <<now, registry, sweep, held, cleared, left>>

(* The transaction, in which a revoked origin is not merged for.           *)
PushMerge(d) ==
  /\ task[d].at = "merge"
  /\ LET push == task[d].push
         o == push.origin
         upto == Max({merged[o], push.upto})
     IN  IF o # d /\ o \in revoked
         THEN /\ Reply(d, <<[kind |-> "origin_revoked", origin |-> o]>>)
              /\ task' = [task EXCEPT ![d] = NoTask]
              /\ UNCHANGED merged
         ELSE /\ merged' = [merged EXCEPT ![o] = upto]
              /\ task' = [task EXCEPT ![d] =
                   [at |-> "renew", origin |-> o, session |-> task[d].session,
                    upto |-> upto, fresh |-> push.upto > merged[o]]]
              /\ UNCHANGED down
  /\ UNCHANGED <<now, revoked, expires, published, unannounced, record, sweep, up, device, held, cleared, left>>

(* The registry row of the device the ack is for: it is renewed if that    *)
(* says so, by force when this is its own drain session.                   *)
RenewRead(d) ==
  /\ task[d].at = "renew"
  /\ LET t == task[d]
         own == t.origin = d
         due == t.origin \notin revoked /\ Due(expires[t.origin], own /\ t.session.draining)
     IN  task' = [task EXCEPT ![d] =
           [at |-> "ack", origin |-> t.origin, upto |-> t.upto, fresh |-> t.fresh,
            token |-> IF due THEN Renewed(t.origin, own /\ t.session.relay) ELSE NoToken]]
  /\ UNCHANGED <<now, registry, record, sweep, up, down, device, held, cleared, left>>

(* The new expiry is recorded, a drain session that is renewed reads again *)
(* and the ack goes out.                                                   *)
PushAck(d) ==
  /\ task[d].at = "ack"
  /\ LET t == task[d]
     IN  /\ expires' = IF t.token = NoToken THEN expires
                       ELSE [expires EXCEPT ![t.origin] = t.token.expires]
         /\ record' = IF t.token # NoToken /\ t.origin = d /\ HasSession(d)
                         /\ record[d].session.draining
                      THEN [record EXCEPT ![d].session.draining = FALSE, ![d].joined = TRUE]
                      ELSE record
         /\ Reply(d, <<[kind |-> "push_ack", origin |-> t.origin, upto |-> t.upto,
                        token |-> t.token]>>)
         /\ task' = [task EXCEPT ![d] = IF t.fresh THEN [at |-> "fan_out"] ELSE NoTask]
  /\ UNCHANGED <<now, revoked, merged, published, unannounced, sweep, up, device, held, cleared, left>>

(* The peers of a fan-out that a registry read finds revoked.              *)
FlawCulled(peers) == {p \in peers \cap revoked : record[p].session.draining}

Culled(peers) == peers \cap revoked

(* Fan-out: the open peers, one registry read, and then the sends, in      *)
(* which a revoked peer is told to purge and leaves the set.               *)
FanOutRead(d) ==
  /\ task[d].at = "fan_out"
  /\ LET peers == {p \in Devices : record[p].joined /\ record[p].open /\ HasSession(p)}
     IN  task' = [task EXCEPT ![d] =
           [at |-> "send", peers |-> peers, culled |-> Culled(peers), lost |-> {}]]
  /\ UNCHANGED <<now, registry, record, sweep, up, down, device, held, cleared, left>>

(* The send reads the session of each peer: at one that a sweep has taken  *)
(* since, it throws, which leaves out the peers after it and closes the    *)
(* pusher's own connection.                                                *)
FanOutSend(d) ==
  /\ task[d].at = "send"
  /\ LET t == task[d]
         throws == t.lost # {}
         frame(p) == IF p \in t.culled THEN "purge_command" ELSE "event_batch"
         shut(p, reached) == p \in reached \cap t.culled \/ (throws /\ p = d)
     IN  \E reached \in SUBSET (t.peers \ t.lost) :
           /\ throws \/ reached = t.peers
           /\ down' = [p \in Devices |->
                IF p \in reached THEN Frames(p, <<[kind |-> frame(p)]>>) ELSE down[p]]
           /\ record' = [p \in Devices |->
                IF shut(p, reached) THEN [record[p] EXCEPT !.open = FALSE, !.joined = FALSE]
                ELSE record[p]]
           /\ device' = [device EXCEPT ![d].link = IF throws /\ @ = "up" THEN "closing" ELSE @]
  /\ task' = [task EXCEPT ![d] = NoTask]
  /\ UNCHANGED <<now, registry, sweep, up, held, cleared, left>>

(* handleCatchup and handleReference: two gates, and a page from the       *)
(* database, sent after an await.                                          *)
ReadFrame(d) ==
  /\ Next1(d, {"catchup_request", "reference_request"})
  /\ IF d \in revoked \/ ~HasSession(d) \/ record[d].session.draining THEN Refuse(d, <<>>)
     ELSE /\ task' = [task EXCEPT ![d] = [at |-> "page", request |-> Head(up[d])]]
          /\ UNCHANGED <<record, down, device>>
  /\ UNCHANGED <<now, registry, sweep, held, cleared, left>>

ServePage(d) ==
  /\ task[d].at = "page"
  /\ LET r == task[d].request
     IN  Reply(d, IF r.kind = "catchup_request" THEN <<[kind |-> "catchup_response"]>>
                  ELSE <<[kind |-> "reference_response", artifact |-> r.artifact,
                          page |-> Page(r.artifact, r.have, r.from, r.at)]>>)
  /\ task' = [task EXCEPT ![d] = NoTask]
  /\ UNCHANGED <<now, registry, record, sweep, up, device, held, cleared, left>>

-----------------------------------------------------------------------------
(* The gateway's other work.                                               *)

(* A publish is one transaction under the artifact's lock; then every      *)
(* reader in the fan-out set is told the version.                          *)
Publish(a) ==
  /\ a \in left.of
  /\ Spend("publishes")
  /\ \E c \in Changes : published' = [published EXCEPT ![a] = Append(@, c)]
  /\ unannounced' = unannounced \cup {[artifact |-> a, version |-> Len(published'[a])]}
  /\ UNCHANGED <<now, revoked, expires, merged, gateway, up, down, device, held, cleared>>

Announce ==
  /\ \E u \in unannounced :
       /\ unannounced' = unannounced \ {u}
       /\ down' = [d \in Devices |->
            IF record[d].joined /\ record[d].open /\ HasSession(d) /\ ~record[d].session.draining
            THEN Frames(d, <<[kind |-> "reference_notice", artifact |-> u.artifact,
                              version |-> u.version]>>)
            ELSE down[d]]
  /\ UNCHANGED <<now, revoked, expires, merged, published, gateway, up, device, held, cleared, left>>

(* revokeDevice.  The handlers that have already cleared the device and    *)
(* not yet sent are remembered.                                            *)
Revoke(d) ==
  /\ d \notin revoked
  /\ Spend("revocations")
  /\ revoked' = revoked \cup {d}
  /\ cleared' = [cleared EXCEPT ![d] =
       {x \in Devices : \/ task[x].at = "send" /\ d \in task[x].peers
                        \/ task[x].at = "page" /\ x = d}]
  /\ UNCHANGED <<now, expires, merged, published, unannounced, gateway, up, down, device, held>>

(* Those of the walked devices that the sweep drops: all, when it could    *)
(* not read the registry, not those alone whose token has run out.         *)
FlawSwept(all, readable) == {d \in all : expires[d] <= now /\ (readable => d \in revoked)}

Swept(all, readable) == IF readable THEN all \cap revoked ELSE all

(* The revocation sweep: the sessions of the fan-out set, one registry     *)
(* read; and then those found revoked are dropped and their sockets        *)
(* closed, or all of them, without a purge, when it cannot be read.        *)
SweepRead(readable) ==
  /\ sweep = NoSweep
  /\ LET all == {d \in Devices : record[d].joined /\ HasSession(d)}
         found == Swept(all, readable)
     IN  /\ found # {}
         /\ sweep' = [at |-> "drop", found |-> found, proven |-> readable]
  /\ IF readable THEN UNCHANGED left ELSE Spend("blind")
  /\ UNCHANGED <<now, registry, record, task, up, down, device, held, cleared>>

SweepDrop ==
  /\ sweep.at = "drop"
  /\ down' = [d \in Devices |->
       IF d \in sweep.found /\ sweep.proven /\ record[d].open
       THEN Frames(d, <<[kind |-> "purge_command"]>>) ELSE down[d]]
  /\ record' = [d \in Devices |-> IF d \in sweep.found THEN Closed ELSE record[d]]
  /\ device' = [d \in Devices |->
       IF d \in sweep.found /\ device[d].link = "up" THEN [device[d] EXCEPT !.link = "closing"]
       ELSE device[d]]
  /\ task' = [x \in Devices |->
       IF task[x].at = "send"
       THEN [task[x] EXCEPT !.lost = @ \cup (task[x].peers \cap sweep.found)] ELSE task[x]]
  /\ sweep' = NoSweep
  /\ UNCHANGED <<now, registry, up, held, cleared, left>>

Tick ==
  /\ Spend("ticks")
  /\ now' = now + 1
  /\ UNCHANGED <<registry, gateway, up, down, device, held, cleared>>

-----------------------------------------------------------------------------
(* The device.                                                             *)

Connect(d) ==
  /\ d \in left.on
  /\ device[d].link = "down"
  /\ task[d] = NoTask
  /\ device' = [device EXCEPT ![d].link = "up"]
  /\ record' = [record EXCEPT ![d] = [Closed EXCEPT !.open = TRUE]]
  /\ up' = [up EXCEPT ![d] = <<[kind |-> "hello", token |-> device[d].token]>>]
  /\ UNCHANGED <<now, registry, task, sweep, down, held, cleared, left>>

FlawAfterDown(m) == [m EXCEPT !.link = "down", !.connected = FALSE, !.relay = FALSE,
                              !.told = [a \in Artifacts |-> 0]]

(* onDown: what a fetch has gathered belongs to its connection.            *)
AfterDown(m) == [m EXCEPT !.link = "down", !.connected = FALSE, !.relay = FALSE,
                          !.fetch = [a \in Artifacts |-> NoFetch],
                          !.told = [a \in Artifacts |-> 0]]

(* Both ends lose the connection; a handler under way ends without it.     *)
Disconnect(d) ==
  /\ device' = [device EXCEPT ![d] = AfterDown(@)]
  /\ record' = [record EXCEPT ![d] = Closed]
  /\ up' = [up EXCEPT ![d] = <<>>]
  /\ down' = [down EXCEPT ![d] = <<>>]
  /\ task' = [x \in Devices |->
       IF task[x].at = "send"
       THEN [task[x] EXCEPT !.peers = @ \ {d}, !.culled = @ \ {d}] ELSE task[x]]
  /\ sweep' = IF sweep = NoSweep THEN sweep ELSE [sweep EXCEPT !.found = @ \ {d}]
  /\ UNCHANGED <<now, registry, held, cleared>>

Drop(d) ==
  /\ device[d].link # "down"
  /\ Spend("drops")
  /\ Disconnect(d)

SeeClosed(d) ==
  /\ device[d].link = "closing"
  /\ down[d] = <<>>
  /\ Disconnect(d)
  /\ UNCHANGED left

(* What a device sends while it has the connection.                        *)
Ask(d, fs) == up' = [up EXCEPT ![d] = IF device[d].link = "up" THEN @ \o fs ELSE @]

Push(d, m) ==
  IF m.own > m.acked THEN <<[kind |-> "push", origin |-> d, upto |-> m.own]>> ELSE <<>>

Request(a, have, from, at) ==
  [kind |-> "reference_request", artifact |-> a, have |-> have, from |-> from, at |-> at]

(* A version told to a device that is behind it starts a fetch, unless one *)
(* is in flight.                                                           *)
Behind(d, a, v) == device[d].fetch[a] = NoFetch /\ v > held[d][a].version

NewFetch(d, a) == [have |-> held[d][a].version, shape |-> <<>>, entries |-> {}]

Receives(d, kinds) ==
  /\ down[d] # <<>>
  /\ Head(down[d]).kind \in kinds
  /\ down' = [down EXCEPT ![d] = Tail(@)]

Stored(token, m) == IF token = NoToken THEN m ELSE [m EXCEPT !.token = token]

OnHelloAck(d) ==
  /\ Receives(d, {"hello_ack"})
  /\ LET f == Head(down[d])
         behind == {a \in Artifacts : Behind(d, a, f.versions[a])}
         asks == [a \in behind |-> Request(a, held[d][a].version, 0, 0)]
         stored == Stored(f.token, device[d])
     IN  /\ device' = [device EXCEPT ![d] = [stored EXCEPT
              !.connected = TRUE, !.relay = f.relay, !.told = f.versions,
              !.fetch = [a \in Artifacts |-> IF a \in behind THEN NewFetch(d, a) ELSE @[a]]]]
         /\ Ask(d, Push(d, device[d]) \o <<[kind |-> "catchup_request"]>> \o
                   SetToSeq({asks[a] : a \in behind}))
  /\ UNCHANGED <<now, registry, gateway, held, cleared, left>>

(* A renewal of another origin is kept for the LAN to carry.               *)
OnPushAck(d) ==
  /\ Receives(d, {"push_ack"})
  /\ LET f == Head(down[d])
         new == [Stored(f.token, device[d]) EXCEPT !.acked = Max({@, f.upto})]
     IN  IF f.origin = d
         THEN /\ device' = [device EXCEPT ![d] = new]
              /\ Ask(d, IF new.acked > device[d].acked THEN Push(d, new) ELSE <<>>)
         ELSE /\ device' = [device EXCEPT
                   ![d].renewals[f.origin] = IF f.token = NoToken THEN @ ELSE f.token]
              /\ UNCHANGED up
  /\ UNCHANGED <<now, registry, gateway, held, cleared, left>>

OnOriginRevoked(d) ==
  /\ Receives(d, {"origin_revoked"})
  /\ device' = [device EXCEPT ![d].renewals[Head(down[d]).origin] = NoToken]
  /\ UNCHANGED <<now, registry, gateway, up, held, cleared, left>>

OnNotice(d) ==
  /\ Receives(d, {"reference_notice"})
  /\ LET a == Head(down[d]).artifact
     IN  IF Behind(d, a, Head(down[d]).version)
         THEN /\ device' = [device EXCEPT ![d].fetch[a] = NewFetch(d, a)]
              /\ Ask(d, <<Request(a, held[d][a].version, 0, 0)>>)
         ELSE UNCHANGED <<device, up>>
  /\ UNCHANGED <<now, registry, gateway, held, cleared, left>>

(* A page: ignored when nothing is being fetched, and fatal to the fetch   *)
(* when it disagrees with the first one on what is being fetched or brings *)
(* it no further.  The last one is applied.                                *)
OnPage(d) ==
  /\ Receives(d, {"reference_response"})
  /\ LET a == Head(down[d]).artifact
         p == Head(down[d]).page
         f == device[d].fetch[a]
         shape == <<p.form, p.version, p.base>>
         agrees == f.shape \in {<<>>, shape}
         entries == f.entries \cup p.entries
     IN  IF f = NoFetch THEN UNCHANGED <<device, held, up>>
         ELSE IF agrees /\ ~p.complete /\ p.next > 0
         THEN /\ device' = [device EXCEPT ![d].fetch[a] =
                              [f EXCEPT !.shape = shape, !.entries = entries]]
              /\ Ask(d, <<Request(a, f.have, p.next, p.version)>>)
              /\ UNCHANGED held
         ELSE /\ device' = [device EXCEPT ![d].fetch[a] = NoFetch]
              /\ held' = IF agrees /\ p.complete
                         THEN [held EXCEPT ![d][a] =
                                 Applied(a, @, p.form, p.version, p.base, entries)]
                         ELSE held
              /\ UNCHANGED up
  /\ UNCHANGED <<now, registry, gateway, cleared, left>>

(* Batches and catch-up pages are in CloudSync; a purge is not acted on.   *)
OnOther(d) ==
  /\ Receives(d, {"event_batch", "catchup_response", "purge_command"})
  /\ UNCHANGED <<now, registry, gateway, up, device, held, cleared, left>>

(* append and notifyAppended.                                              *)
Append1(d) ==
  /\ Spend("appends")
  /\ device' = [device EXCEPT ![d].own = @ + 1]
  /\ Ask(d, IF device[d].connected THEN Push(d, device'[d]) ELSE <<>>)
  /\ UNCHANGED <<now, registry, gateway, down, held, cleared>>

(* The acting hub relays an event of a device of its LAN.                  *)
Relay(d, o) ==
  /\ o # d
  /\ device[d].connected /\ device[d].relay
  /\ Spend("relays")
  /\ device' = [device EXCEPT ![o].own = @ + 1]
  /\ Ask(d, <<[kind |-> "push", origin |-> o, upto |-> device'[o].own]>>)
  /\ UNCHANGED <<now, registry, gateway, down, held, cleared>>

(* The hub's beat forwards a renewal it holds, and forwards it again.      *)
Forward(d, o) ==
  /\ device[d].renewals[o] # NoToken
  /\ device[o].token # device[d].renewals[o]
  /\ device' = [device EXCEPT ![o].token = device[d].renewals[o]]
  /\ UNCHANGED <<now, registry, gateway, up, down, held, cleared, left>>

-----------------------------------------------------------------------------
Handle(d) ==
  \/ Hello(d) \/ HelloJoin(d) \/ HelloVersions(d) \/ HelloAck(d)
  \/ PushFrame(d) \/ PushMerge(d) \/ RenewRead(d) \/ PushAck(d)
  \/ FanOutRead(d) \/ FanOutSend(d)
  \/ ReadFrame(d) \/ ServePage(d)

Receive(d) ==
  OnHelloAck(d) \/ OnPushAck(d) \/ OnOriginRevoked(d) \/ OnNotice(d) \/ OnPage(d) \/ OnOther(d)

Next ==
  \/ \E d \in Devices : Handle(d) \/ Receive(d)
  \/ \E d \in Devices : Connect(d) \/ SeeClosed(d) \/ Drop(d) \/ Append1(d) \/ Revoke(d)
  \/ \E d, o \in Devices : Relay(d, o) \/ Forward(d, o)
  \/ \E a \in Artifacts : Publish(a)
  \/ Announce
  \/ \E readable \in BOOLEAN : SweepRead(readable)
  \/ SweepDrop
  \/ Tick

(* Handlers run to their end, delivered frames are handled, the transport  *)
(* redials (transport-ws.ts:120) and the sweep's interval runs             *)
(* (server.ts:57).  Nothing makes anybody publish, append, relay, revoke   *)
(* or lose a connection.                                                   *)
Fairness ==
  /\ \A d \in Devices :
       WF_vars(Handle(d)) /\ WF_vars(Receive(d)) /\ WF_vars(Connect(d)) /\ WF_vars(SeeClosed(d))
  /\ WF_vars(SweepRead(TRUE)) /\ WF_vars(SweepDrop)

Spec == Init /\ [][Next]_vars
FairSpec == Spec /\ Fairness

-----------------------------------------------------------------------------
(* Properties.                                                             *)

Gains(d) == \E m \in {"event_batch", "catchup_response", "reference_response"} :
              /\ Len(down'[d]) = Len(down[d]) + 1
              /\ down'[d][Len(down'[d])].kind = m

(* Branch data goes to a session that is not drained-only, and after the   *)
(* device is revoked only from a handler that had read the registry before *)
(* (requireUnrevoked, gateway.ts:656, and the cull of gateway.ts:1155).    *)
ReadsAreLawful ==
  [][\A d \in Devices : Gains(d) =>
       /\ HasSession(d) => ~record[d].session.draining
       /\ d \in revoked => \E x \in cleared[d] : task[x].at \in {"send", "page"} /\ task'[x] = NoTask]_vars

(* A fan-out serves every peer that its registry read found authorised,    *)
(* whoever else is dropped meanwhile (gateway.ts:1175: "Still-authorized   *)
(* peers are served unchanged").                                           *)
FanOutServesPeers ==
  [][\A x, p \in Devices :
       (FanOutSend(x) /\ p \in task[x].peers \ (task[x].culled \cup task[x].lost)
          /\ device[p].link = "up") => Gains(p)]_vars

(* No renewal, at a hello, an ack or through a hub, gives a token a relay  *)
(* right the device was not provisioned with, and no session has one its   *)
(* class forbids (mintRenewal, gateway.ts:371).                            *)
RenewalNeverEscalates ==
  \A d \in Devices :
    /\ device[d].token.relay => d \in RelayClaim
    /\ HasSession(d) /\ record[d].session.relay => d \in RelayClaim \cap HubClass

(* The artifacts on the devices are published versions, in full and in     *)
(* their order, whatever publishes, disconnects and pages interleave       *)
(* (catalog-fetch.ts:110, catalog.ts:312 of the gateway).                  *)
Stocked == INSTANCE ReferenceData WITH
  live <- [d \in Devices |-> [a \in Artifacts |->
             [version |-> held[d][a].version, rows |-> Reference!Usable(held[d][a].rows)]]]
HoldsPublishedVersions == Stocked!Spec

(* A device that holds a version of the catalog can name every row that    *)
(* was ever published up to it, also the deleted ones, whichever deltas    *)
(* and snapshots brought it there (catalog-fetch.ts:167; catalog.ts:364 of *)
(* the gateway: "identical state either way").                             *)
NamesEveryRow ==
  \A d \in Devices, a \in KeepsDeleted :
    Reference!Changed(published[a], 0, held[d][a].version) = {r.id : r \in held[d][a].rows}

(* A session that told its device of a version brings it that version, or  *)
(* is lost (reconcileCatalog, cloud-session.ts:437).                       *)
SessionReconciles ==
  \A d \in Devices, a \in Artifacts :
    (device[d].link = "up" /\ device[d].told[a] > held[d][a].version)
      ~> (device[d].link # "up" \/ device[d].told[a] <= held[d][a].version)

(* Once nothing fails any more, every device that is not revoked reads     *)
(* again, also when its token had run out (01-F47: expiry is recoverable). *)
Readmitted(d) ==
  /\ device[d].link = "up" /\ device[d].connected
  /\ record[d].open /\ record[d].joined /\ HasSession(d)
ReadersComeBack == \A d \in Devices : <>[](d \in left.on => d \in revoked \/ Readmitted(d))

(* A revoked device is out of the fan-out set for good within a sweep      *)
(* (01-F48).                                                               *)
RevokedLeave == \A d \in Devices : <>[](d \in revoked => ~record[d].joined)

=============================================================================
