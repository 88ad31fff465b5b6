# RestOS in TLA+

RestOS is an offline-first restaurant point of sale. Every till, pass screen
and waiter tablet appends immutable events to its own store, numbered by its
own `lamport_seq`, and keeps selling without a network. Events reach the other
devices of the branch over the LAN, and the cloud gateway, which gives each
merged event the organisation's next `global_seq`, keeps what it refuses in a
quarantine, and acknowledges each device up to a watermark. What has been
acknowledged leaves the device's outbox for good: the promise behind that
acknowledgement is what this project is first about.

All paths below are relative to `src/`.

## Inventory

| part | state | operations | talks to | what is hard |
|---|---|---|---|---|
| Gateway merge pipeline (`services/sync-gateway/src/gateway.ts` `handlePush`) | tables `events`, `org_sequences`, `device_watermarks`, `quarantine` | gate, lock, merge or quarantine each envelope, commit, ack | Postgres, cloud session | pushes interleave up to the lock and after the commit; savepoint failures; rollback; relays; registry writes at any time |
| Gateway sessions (`handleHello`, `handleCatchup`, fan-out, revocation) | fan-out sets, a promise queue per connection | hello, catch-up page, fan-out, renewal, purge | cloud session | fan-out joined before hello_ack; reads overtaken by live batches; revoked readers; drain sessions |
| Notice outbox | `quarantine_notices` with `delivered_at` | insert, live send, redelivery at hello, mark | cloud session | mark after a send nobody may have received; relays |
| Cloud session (`packages/sync-client/src/cloud-session.ts`) | `connected`, `lastPushAck`, `blockedCursor`; on disk the checkpoint and the cursor | hello, drain, apply a page, relay | gateway, device store | lost acks, repeated pushes, failing items, crash between two disk writes |
| Device store (`device-store.ts`) | own and peer events, projections, `sync_state` | append, ingest, adopt `global_seq`, checkpoint, rebuild | folds, sessions | savepoints in a page, late arrivals, wiped devices |
| LAN mesh (`mesh-session.ts`, `hub-election.ts`, `lan-roster.ts`) | peer cursors, hub term, relay buffer | elect, push, ack, relay | transports, cloud session | two hubs, hub that loses its uplink, renewals through the hub |
| Folds (`folds/`) | order, queue and cash projections | apply an event | device store | the same events in different orders |
| Reference artifacts (`catalog*.ts`, `config*.ts`, `staff*.ts`, `roster-fetch.ts`) | versions and rows on disk, a fetch in memory | reconcile, page, apply | gateway publishing | pages of two connections, notices dropped |
| PIN sessions (`pin-*.ts`) | attempts, lock | attempt, lock, unlock | staff roster | counters over restarts |
| Pairing and provisioning (`pairing.ts`, `pairing-http.ts`) | pairing codes, registry, issuers, a rate limiter in memory | mint, cancel, claim, revoke | API | statements of two claims interleave; a claim that stops half way; retries |
| Printing (`packages/escpos/src/spooler.ts`, `pos-electron` `printing.ts`, `printer-link.ts`) | print jobs with their coverage, bands, the running pass | press, pass, answer, reconcile, resend, acknowledge, relaunch | printer, fold | stop between send and record; what a station is still owed |
| Till (`apps/pos-electron/src/main`) | the open orders as folded | fill, confirm, advance, void, settle, close | store, terminal server | every guard reads a fold that has not heard everything; chains of appends cut short |
| Pass screen (`apps/pass-kds/src/main`) | queue as folded | ready, serve | store, mesh, cloud session | marks repeated, marks that do not leave |
| Storefront (`services/storefront/src`) | its own outbox in Postgres | place, push | gateway | retry after an unknown outcome |
| API and jobs, auditor, inventory, tax, screens | little or none | queries, pure functions, commands | gateway | arithmetic at boundaries |

`PROJECT.json` lists every component with its status, and every hazard at its
line.

What makes each part correct:

* merge pipeline: an id, a slot and a `global_seq` are each in the log once;
  an acknowledged slot is durably held by the log or by an attributed
  quarantine row; a relay never consumes slots of its own numbering; refunds
  do not exceed their payment;
* cloud session: what is trimmed from the outbox is in the log; nothing slips
  between catch-up and fan-out; the cursor does not pass what failed to land;
* notice outbox: a refusal is offered until its holder was sent it;
* device store and folds: a page is all its good items and nothing of its bad
  ones; devices with the same events show the same orders;
* mesh: a LAN ack covers only what the hub holds, a relayed ack only what the
  cloud holds; the branch comes to follow one hub;
* sessions: nobody reads who may not, no renewal gains a right, who may read
  comes back;
* reference artifacts: a device is on one published version, never on a mix;
* printing: every line is on exactly one chit, nothing the printer took is
  sent again, nothing fails silently;
* pairing: a device has one key, the organisation one issuer, a cancelled code
  never becomes a device;
* till: a close is never made by who knows of another; a settled order is
  covered or says why not.

## Plan

The modules in the order they were written, each the most important hazard not
yet covered:

1. `Gateway`, refining `MergedLog`; `GatewayProofs`.
2. `CloudSync`: cloud session and gateway sessions together, refining `MergedLog`
   too; `CloudSyncProofs`.
3. `NoticeOutbox`, proved about in `GatewayProofs`; `Branch` holds the devices
   and relays it shares with `Gateway`.
4. `DeviceStore` with the merge engine's parking and drops; `DeviceStoreProofs`.
5. `Mesh`: election, LAN acks and the relay, with the cloud as a set of marks;
   `MeshProofs`.
6. `Printing`: the chit from the fold to the paper; `PrintingProofs`.
7. `Sessions`: admission, renewal, revocation and the paged fetch, refining
   `ReferenceData`; `SessionsProofs`.
8. `Pairing`; `PairingProofs`.
9. `Till`: the order's fold under the guards of several devices; `TillProofs`.

What would come next: a wiped device (`DeviceStore` composed with `CloudSync`),
the cash and customer accumulators, the storefront's outbox, sliced sync.

## Modules

### Gateway

One organisation, one branch. `db` is the committed tables and `work` the same
tables as the open transaction sees them; `open` is the device whose push
holds the row lock on `kernel.org_sequences`, `txn` the locals of its loop
(`origin`, the `originRows` cache), `extra` the `extraFilled` sets of the
streams it touched. `phase` places every handler in the stretches that
interleave: `admitted` after `requireUnrevoked` and before the lock,
`merging`, and `ack` after the commit. `acked` is history: the highest
watermark acknowledged per origin.

| action | code |
|---|---|
| `RegisterDevice`, `RevokeDevice` | `registry.ts`, other requests, any time |
| `RequireUnrevoked`, `LockOrg` | the read before, and the start of, the transaction |
| `RefuseIdentity` ... `Merge` | one envelope of the loop, one action per exit, in the order of the gates |
| `StopAtGap` | the `break` at the first gap |
| `Commit`, `Abort` | end or rollback of the transaction |
| `SendAck`, `Crash` | after the commit |

An envelope is a record of what the gates look at: id, author, slot, whether
it is of the session's branch (`home`), passes its schema (`valid`), can be
stored (`storable`), and for payments and refunds the attempt and the amount.
Two envelopes are the same content when they are the same record. A push is
not fixed in advance: the loop examines any envelope next, up to `MaxBatch`,
which is every push of that length.

### MergedLog

What a device may rely on: an append-only log without repetitions, in which
the slots of an origin appear in order, and promises only of slots that are
in it or rejected. `Gateway!ImplementsMergedLog` maps `log` to the committed
events in `global_seq` order, `rejected` to the attributed quarantine rows,
`settled` to the watermarks and `promised` to `acked`.

`CloudSync!ImplementsMergedLog` maps to the same specification the log of its
one-step merge, with nothing rejected, and the checkpoints of the devices as
what was promised. Both modules implement it, so the one-step merge asks no
more of a log than the pipeline keeps, and a checkpoint moves only to what the
pipeline may promise.

### CloudSync

Devices against one gateway. The merge is one step here (`Commit`); an event
is its author and slot and its `global_seq` is its place in `log`. A
connection is a FIFO in each direction, `up` and `down`. The gateway handles
the frames of one connection one after the other (`queueTail`), and `job` is
where the running handler waits between two awaits: after the join and before
hello_ack, between commit, ack and fan-out, between the page's read and its
send. `stray` holds handlers of connections that are gone, which run on. On
the device `own`, `ckpt`, `cursor`, `held` are on disk, and `session` in
memory, where `onDown` leaves `lastAck` and `blocked` alone and a restart
does not.

`Disconnect` and `Restart` decide anew which pushes on the wire still reach
the gateway; `RestartAfterIngest` stops between `ingestPage` and
`setLastGlobalSeq`; `GatewayRestart` ends every connection and handler.

### NoticeOutbox

A push that refuses commits notice rows, then notifies the pusher, then marks
the rows held by the pusher's own device; hello drains what is not marked.
`socket` may be `dead` while the handler runs on: `socket.send` on a closed
socket is lost silently, and the mark is written all the same.

### DeviceStore

One device's store. Calls are synchronous, so only one runs at a time; a call
is cut into its items because each is a savepoint that may fail on its own.
`disk` is what is committed and `db` what the running transaction sees, so a
rollback is `db' = disk`. `mem` is the lattice of `folds/merge.ts` with the
accumulators (`books`) and the keys dropped in this session; no rollback
reaches it. `call` carries what is left to store and the flags `foldTouched`
(`touched`) and `batchNeedsRefold` (`lead`); `results` is what a page will
answer.

| action | code |
|---|---|
| `BeginAppend`, `BeginIngest`, `BeginPage` | `append`, `ingest`, `ingestBatch` and `ingestPage`; an append of a stored id takes that event's stamps (`Retry`) |
| `Insert`, `Duplicate`, `Refuse` | one item through `ingestTx` or `appendTx`, by outcome; a retry is a `Duplicate` if it compares equal to what is stored, else a `Refuse` |
| `FaultBeforeFold`, `FaultAfterFold` | a statement fails before or after the engine took the event |
| `Commit`, `CommitFails` | end of the outer transaction; `guarded` |
| `AskRefold`, `Refold`, `RefoldFails` | `refold()`, `tryRefold`, and the self-heal at open |
| `RetentionDrop` | `planDrop`, `retentionDropTx`, `commitDrop` |
| `AdvanceTo`, `SetBranchTimeOffset`, `Crash` | as named |

Event types are grouped into the kinds the store and the engine treat alike,
and the row of an order is the set of facts it is computed from: columns are
left out, which facts they may see is not. Only `order.line_added` names a
line here; the edges of a line, which a drop removes and a straggler may bring
back without showing, follow their line. A replay runs through the log in an
order TLC picks, while the properties read the expected rows off the set of
events. A page is a sequence from `Pages`; an own event that returns from the
cloud comes through `BeginIngest`. Identities and malformed envelopes, which
are refused before anything is read, are other cases of `Refuse`.

### Mesh

Each node's memory (`node[d]`: its state, the peers it sees and suspects, its
hub, its followers, the LAN cursor, the relay latch) is a record; the
handlers of `mesh-session.ts` are functions from it to a new record and the
frames to send to each peer. A push takes the `PushBatchMax` earliest of what
waits and its ack sends the next. `held` and `ckpt` are on disk, `wire` is a FIFO
per direction of a LAN link, and the cloud is what it has `settled` and the
answers under way. Devices see each other as links come up, so two parts of a
branch may elect two hubs.

| action | code |
|---|---|
| `OnHello` ... `OnPong` | one handler per frame kind of `mesh-session.ts` |
| `Heartbeat`, `MissedBeats`, `FollowerTick`, `LossCheck`, `HelloTimeout` | the timers, truly or while an answer is only slow |
| `LinkUp`, `LinkDown`, `Restart`, `WanUp`, `WanDown` | the world |
| `CloudSettles`, `OnCloudAck` | the relay's push and its ack (`cloud-session.ts`) |

### Sessions and ReferenceData

`record` is the gateway's side of a connection, `task` where its handler waits
between two awaits, `device` the client's side with the fetch in memory,
`held` its rows on disk, `up` and `down` the frames on the way. A token is
when it runs out and whether it may relay. `sweep` is the revocation sweep
between its read and its drops. `left` holds what a story may still do.

| action | code |
|---|---|
| `Hello`, `HelloJoin`, `HelloVersions`, `HelloAck` | `handleHello` to its registry read; the watermark read, the session and `joinFanout`; the versions; renewal and hello_ack |
| `PushFrame`, `PushMerge`, `RenewRead`, `PushAck` | `requireUnrevoked`; the transaction; the registry read of the renewal; the mint's await and the ack |
| `FanOutRead`, `FanOutSend` | peers and the read that culls; the sends, or the throw at a session a sweep took meanwhile (`lost`) |
| `ReadFrame`, `ServePage` | the gates of a page request; the page and its send |
| `SweepRead`, `SweepDrop` | `sweepRevocations` around its await |
| `Publish`, `Announce`, `Revoke`, `Tick` | other requests; the clock |
| `Connect`, `Drop`, `SeeClosed`, `Receive` | the device: dialling, a lost or closed connection, one handler per frame kind |

A device revoked between the registry read of its hello, or of its renewal,
and the join does join, in the code as here; the later reads and the sweep are
what keeps data from it.

`Page` is the server's query: the rows that changed, ranked by their id, and
of them the `PageSize` that come after the offset.

`ReferenceData` is what the paged transport promises: an artifact is a list of
versions, each a set of changed rows, and a device holds what is live at one
version and moves to a later one in one step. `HoldsPublishedVersions` is that
specification with `live` read off `held` without its tombstones; pages,
sessions, awaits and lost connections are stutters of it.

### Printing

One order, one printer. `order` is the fold's row, `jobs` the spool (memory
and table change together), `pass` the running pump, `bands` the alarms,
`printer` the paper, what it holds and what it has put out. What a station is
owed is what stands on the order less what any chit of the station covers.
`Confirmed` is the whole press, `CrashInConfirm` the press cut between two
chits; `Relaunch` reloads the spool and restores what must be said.

### Pairing

Every action is one statement and the code up to the next await, because each
statement is a transaction of its own: `Claim` (limiter), `ReadPending`,
`ReadIssuedCertificate`, `ReadOrgPki`, `MakeOrgPki`, `CommitClaim`,
`RegisterDevice`. `Fail` is a statement that fails or an answer that is lost,
`Restart` empties the limiter, which is in memory, and ends running claims.
`handed` is history: the certificates given out.

### Till

One order. `log[d]` is what device `d` has appended, `heard[d][e]` how much of
`e`'s stream it has ingested (streams arrive in order and without holes: that
is what `CloudSync` and `Mesh` are about), and every other quantity is an
operator of what a device holds: `States` is `projectLine`, `Billed`,
`PayTotal`, `Settled` and `UncoveredAddition` are `projectEntity`. No edge the
devices emit names a predecessor, which is why no edge retires another here.
`TaxedSum` adds up what each line comes to with its tax and `Charge` rounds the
total; both are tables, chosen with the branch, the second monotone
(`tax.ts`, `money.ts`).

| action | code |
|---|---|
| `AddLine`, `RemoveLine` | `linePayloadFor`, `assertRemovableLine` |
| `Confirm` | `order.confirmed`, the edges to `confirmed`, the aggregator's receivable |
| `KotPrinted` | the edges to `in_prep` on tier T1 |
| `Void` | `void.recorded`, then the line's exit |
| `TakePayment` | the tender, the edges to `served`, the close |
| `ReadyMark`, `HandOver` | the pass screen |
| `Hear` | one ingested event |

A chain of appends ends after any of its events (`Act`): the process stops, or
an append fails. A close carries two history fields, the lines of the bill it
was made on and how much of each stream its till had heard.

## Runs

| run | shows | instance |
|---|---|---|
| `gateway` | the log, the acks, quarantine credit, the refund cap, refinement of `MergedLog` | three stories: a till and a relaying hub, envelopes that share ids and slots, revocation; an origin registering late, foreign and malformed envelopes; a payment, three refunds, two with one attempt |
| `cloud_session` | what leaves the outbox is in the log; block and cursor; nothing slips between catch-up and fan-out; outboxes drain and the last session delivers | author and reader, two events, batches of 2, pages of 1, 1 drop or restart, 2 failing items |
| `notices` | nothing is marked unsent; the holder is told | hub and waiter, one id each, 2 restarts or idle closes, 2 sockets lost under a handler |
| `device` | the log, its numbers and its audit chain stay sound; a page answers the truth; tables and lattice follow the log; dropped keys stay gone | two stories: audit appends, a divergent twin, a rival, an event of an earlier life, two numbers, 1 fault, 1 restart; an order created here with facts of a peer, drops, 2 faults, 1 restart |
| `mesh` | acks cover what is held; followers never relay; one hub, every event and empty outboxes in the end | a counter and a kitchen, pushes of up to two events: two held by the kitchen with 2 failures, three with 1, one appended on each side with 1; a branch of three, no failure, whose links come up one after the other |
| `print` | one chit per line, nothing silent, nothing sent twice, chits settle | two lines, two printing stations and a screen; a roll that runs out over a relaunch; a failed chit resent or dismissed over a relaunch |
| `sessions` | lawful reads, harmless renewals, published versions, reconciliation, readers come back, revoked leave | a till and a screen in five stories |
| `pairing` | one key per device and one issuer; cancelled stays cancelled | 2 codes, 2 devices, 2 keys and a bad one, 3 claims, 1 failure |
| `till` | no close by who knows of another; settled is covered | five stories of one order: two tills apart with tax or rounding, a till with a pass screen, an aggregator's order |

Deadlock is not checked outside the store: appends, failures and batches are
bounded, and a system with nothing left to do stops. Three runs expect a
violation, see Findings.

### Bounds

`MaxSlot` 1 and `MaxBatch` 2 give every relation two envelopes can have (same
id, same slot, in order, gap) twice over, because pushes repeat without bound;
a gap needs slots 0 and 1 only. `MaxOwn`, `Batch` and `Page` are chosen so
that the outbox and the catch-up each take several frames. `MaxQueue` limits
how many unacknowledged repetitions the timer puts on the wire. `MaxDrops` and
`MaxFaults` bound failures in all: one drop loses an ack or leaves a handler
running for a connection that is gone, and the timer's repetitions come on
top; two failing items are what a standing block and a second failure need. In
the store two faults make a rollback after a fold whose rebuild then fails;
pages of two items let one write rows from a lattice the other left ahead.
`MaxBreaks` and `MaxLosses` separate sockets that close while idle from those
that close under a handler, because what the code guarantees differs.

A run with stories starts in one of several small instances, chosen in the
initial state, rather than in their sum: each story has what one hazard needs.
In `Mesh` a scenario bounds the failures (a lost link, a late timer, a
restart, a WAN loss are one each) and one or two are enough to split a hub
from its followers; three devices are the least that can follow two hubs. A
push of two events may fail in part and one device has three, so that it takes
two. A hub that drops a follower which has left it is no failure. In
`Sessions` a token lives two ticks and is renewed with one left (`RenewBelow`
2), so that a session can be fresh, due while it is still valid, and expired;
pages of one row let a publish fall between two pages of a version. In
`Printing` the attempts are those of the code (3), and one relaunch falls
between any two steps. In `Pairing` time has two values, which put a claim
before or after the expiry of a code, three requests are two that race and a
retry, and codes, devices, keys and requests are symmetric. In `Till` two
lines let an order grow after a close, two payments let it be settled again,
one cut act leaves a void or a payment half done; amounts are chosen so that
tax raises and rounding lowers a charge across the next line. The tills are
symmetric; the run checks no liveness.

### Fairness

`CloudSync!Fairness` is weak fairness of the things that keep running while
their process does: the redial timer (`transport-ws.ts`), the one-second tick
of the till's host (`sync.ts`), the device's message handlers, and the
gateway's handlers. Appending, failing and registering are never owed.
`NoticeOutbox!NoticeFairness` is the same for handlers and dialling. Weak fairness
suffices, since each stays enabled until taken.

`Mesh!Fairness` is the same for links, frames, heartbeats, a follower's tick
and the cloud; of the loss checks only the ones with reason are owed, and the
WAN comes back for the `Steady` devices only. `Sessions!Fairness` is for
handlers, frames, dialling and the sweep; nothing is owed by publishers,
owners or clocks. `Printing!Fairness` is for the pump, and that somebody puts
in a new roll; it is strong for `PaperSeen`, because a printer with paper that
is asked again and again answers at some time. `Pairing` and `Till` state no
liveness: no claim and no sale is owed.

## Proofs

Every theorem holds for all values of the constants under the named
assumptions of its module. The invariant a run checks is seldom inductive; the
inductive one is called `IInv`, one lemma or step per action keeps it, and the
named properties follow.

`GatewayProofs`, under `RelaysAssumption` of `Branch` (the relays are devices)
and `EnvelopesAssumption` (the registered devices are devices, an envelope
names a device and a slot up to `MaxSlot`, the amount of one that passes its
schema is a natural number):

* `TypeCorrect`, `LogStaysIntact` (`LogIntegrity`), `SettledStaysHeld`
  (`SettledSlotsHeld`), `AckedStaysHeld` (`AckedSlotsHeld`),
  `HubSlotsStayItsOwn` (`HubSlotsAreItsOwn`)
* `MergedStaysAccepted` (`MergedNotRejected`), `RefundsStayCapped`
  (`RefundsCapped`)
* `Implements`: `Spec => ImplementsMergedLog`

A commit copies `work`, so `IInv` says of both views of the tables what the
properties say of one (`LogOK`, `SlotsOK`); `fill()` walks over slots filled
out of order, so those are held too (`ExtraOK`); an ack is computed in the
transaction and sent later, so marks only grow (`MarksOK`) and no ack, sent or
waiting, exceeds the committed one (`AcksOK`). The lemma `ThroughIsFirstGap`
states what the loop in `fill()` computes; `QuarantineKeeps` and its siblings
say that a row, once inserted or found, holds the slot it credits, which is
where the comparison of the blocker's slot is needed. `JInv` stands on `IInv`
and says what the log means: it holds sound envelopes of this branch and
nothing that a live row rejects (`Clean`), an origin's slots in their order
(`Ordered`), and at the place of each refund what was refunded up to there is
within the payment (`Capped`, because the gate sums what was merged before);
and what a transaction adds lies above the committed marks (`Ahead`). With
these a commit is one step `Settle` of `MergedLog`, an ack one step `Promise`,
and every other action leaves the mapped variables alone.

The last part of `GatewayProofs` is about `NoticeOutbox`, for the same devices
and relays and, under `NoticeAssumption`, for all ids and bounds:
`OutboxTypeCorrect` and `MarkedHaveBeenSent` (`MarkedWereSent`): the rows a
handler is about to mark for its own device have been sent to it
(`BatchesSent`), and a handler's rows are committed (`BatchesCommitted`).

`CloudSyncProofs`, for any devices, events, batch and page sizes, drops and
faults (`CloudSyncAssumption`):

* `Inductive`: `Spec => []IInv`
* `CheckpointsBacked` (`LogBacksCheckpoints`), `NoGap` (`NothingSlips`),
  `CursorRewinds` (`CursorBelowBlock`)
* `Implements`: `Spec => ImplementsMergedLog`
* `TypeCorrect`: types, and that no cursor, blockage, page or catch-up request
  points past the end of the log (`WithinLog`)

The slots of a device in `log` are exactly `0 .. settled[d]` (`SettledInLog`),
once and in order. `Told` places everything on the way: no mark of an ack,
waiting or sent, is above the gateway's watermark, no frame or handler speaks
of an event that is not in the log, and only a member of the fan-out set has
been told, or is being told, that its session is open. `NothingSlips` is
inductive on top of these: each action either leaves what is still to come to
a session, or takes from it what the device then holds or knows to have
failed (`StillComes`, `NewComes`). A connection that ends keeps the handlers
that run on (`RunsOn`). For the merged log, a push of a live or a gone
connection is a step `Settle` (`PushSettles`), an ack that moves the checkpoint
a step `Promise` (`AckPromised`), and everything else a stutter; no run repeats
this refinement.

`DeviceStoreProofs`, for all inputs, deliveries and failures under
`CopyAssumption` (a peer's event has no id of this device's making),
`PageAssumption` (what a page is), `StoreAssumption` and `DropAssumption`
(retention drops orders and lines of orders):

* `StoreInvariant`: `Spec => []IInv`
* `LogStaysSound` (`LogIsSound`), `AuditStaysChained` (`AuditChainUnbroken`),
  `RetriesAnswered` (`RetriesAreRecognised`)
* `CommittedNeverMoves` (`CommittedStays`), `AnswersAreCommitted`
  (`LandedIsCommitted`)
* `FoldInvariant`: `Spec => []FoldInv`
* `DroppedStaysGone` (`DroppedStayGone`), `ReplaySuffices` (`FoldsFollowLog`)
* `StoreTypeCorrect` (`TypeOK`)

`IInv` says of both views of the tables that they are a sound log (`LogOK`),
that the open transaction only adds to the committed one (`Adds`), that an
append of a new id carries the next lamport and the audit head of the log as it
stands, and one of a stored id the stamps of the stored event (`CallOK`), and
that what a page has answered holds in its transaction (`ResultsOK`). `FoldInv` adds the lattice: what was dropped is in
neither lattice nor tables (`DropInv`), and `TrackInv` says which log the
lattice follows when. It follows the committed log between calls; while a
transaction is open it follows the log that transaction sees unless it has run
ahead of it (`lead`), and the committed one until it is touched. So a failed
commit and a throw may skip the rebuild exactly when they do. `FoldReplays`
shows that folding one more event into a replay of a set of events is a replay
of the larger set, whichever event comes next; the order of the events does
not matter because of that, and a rebuild of any order gives the lattice the
targeted writes gave (`RebuiltReplays`, by a minimal counterexample). The type
invariant stands on `FoldInv`, which knows what a replay and a drop put into the
rows; `TypeInv` adds the numbers, the acknowledged lamport and the bounds.

`MeshProofs`, for any finite set of devices, any ranks and identities, and any
first events and failures (`MeshAssumption`):

* `TypeCorrect`, `CheckpointsAreSafe` (`CheckpointInCloud`),
  `LanCursorsAreSafe` (`LanCursorHeld`), `OnlyHubsRelay`
  (`FollowersNeverRelay`)

The invariant is about what is on its way: a hello_ack or LAN ack speaks of
slots its sender's ledger holds without a hole, a cloud ack of slots the cloud
has settled, a push or batch of events their origins have made (`Proper`), and
so for the cloud's queues (`Pushes`, `Acks`). It stays so while links break and
hubs change because ledgers and the cloud's watermarks only grow
(`FramesStayProper`, `Grows`), which is what lets an ack that was late, or came
through a hub that lost its office, still count. Of a node it says that its
LAN cursor and what its relay remembers stand on the same ground, that only
who serves holds the latch (`NodeOK`), and that a handler always ends its
election (`Decided`, which does not hold between the calls of one handler).
Each handler is proved once, as a function from a memory that is `NodeOK` to
one that is, with frames that may be sent (`RecomputeHandled`,
`HubLossHandled`, `AliveHandled`); the steps then only say where it ran. That
the devices are finite in number is used where the relay puts its origins in
an order.

`PairingProofs` proves, for all codes, devices, keys and requests,

* `OneKey` (`OneKeyPerDevice`)
* `CancelsAreFinal` (`CancelIsFinal`), under the assumption `Repeats = FALSE`
  that no code is drawn twice, which is needed.

The invariant ties each running claim to the row and the issuer it has read:
rows are only ever claimed once, an issuer is stored once, and between a claim's
update and its insert the row is the claim's own.

`PrintingProofs`, for any lines, stations and printers, under
`StationsAssumption` (finitely many of both) and `SpoolsAssumption` (what an
earlier version left in the spool has no coverage, and a station's chits are
numbered as they were made):

* `Inductive`: `Spec => []IInv`
* `OneChit` (`OneChitPerLine`), `NeverSilent` (`NothingSilent`), `TakenOnce`
  (`NeverSentAgain`)
* `TypeCorrect`

Of the spool the invariant says that chits are numbered without repetition,
cover lines of their own station and no line twice (`SpoolOK`); `Counted`, that
a station has no more chits than lines, is what keeps the numbers within their
range. Of the running pass it says which job is being sent and what the pass
has not come to yet (`PassOK`, `PassFresh`), and `AllTold` that a job at its
end has been told of, or the pass still will.

`TillProofs`, for any number of tills, screens and lines, any tax of a line
and any monotone rounding (`TillAssumption`):

* `Inductive`: `Spec => []IInv`
* `ClosesStayConcurrent` (`ClosesAreConcurrent`), `SettledStaysCovered`
  (`SettledIsCovered`)

What a close has seen was there (`SeenOK`) and no close was in it
(`SawNoClose`); its ceiling is the sum of the lines it settles, what was
tendered covers their charge (`EventsOK`), and that tender is what the payments
it has seen add up to (`TenderOK`). One lemma, `ActKeeps`, covers every act,
cut short or not, that appends at most one close, at its end and on a fold that
holds none (`Sound`); the other lemmas say that each act is of that kind. What
is settled is compared before tax, as the code compares it: when a line leaves
the bill and others of the same price but a higher tax come to it, on tills
apart, the order may owe more tax than was paid and carry no exception. The
theorem's second part is about the bills where that cannot happen: those of
which some close had every line. Nothing is said of a device that has not heard
everything.

`SessionsProofs`, for any devices, artifacts, rows, page sizes and scenes,
under `SessionsAssumption` (a publish changes finitely many rows, at least one
and none twice; the artifacts are finite in number; a renewal is due before
its token runs out):

* `SessionsInvariant`: `Spec => []IInv`
* `RenewalIsSafe` (`RenewalNeverEscalates`), `ReadsStayLawful`
  (`ReadsAreLawful`)
* `ImplementsReferenceData`: `Spec => HoldsPublishedVersions`

Rights are part of the types: the token a device stores, offers, is handed by
an ack, or keeps for another device of its LAN is in `Token(d)` of the device
it is for, so the types have to follow every frame and every handler. `Legal`
says who may read: a hello is the first frame of its connection and finds no
session (`HelloIsFirst`), nobody who merely drains is in the fan-out set, among
the peers of a running fan-out, or being served (`ReadersRead`), and whoever
still sends to a revoked device had read the registry before (`ClearedBefore`).
`Flows` places a fetch: of a fetch at most one request, handler or page is
under way, it goes on at the offset the device has gathered (`Reached`,
`Asks`), and a page on its way is the one the server would make of the version
the fetch is pinned to (`Answers`), which later publishes do not change
(`PageStays`, `EarlierStay`). So the pages of a fetch are parts of one fold,
cut by rank (`PageBrings`), the last one completes it, and applying a fold of
the changes to a version in full gives the later version in full (`DeltaIs`,
`UpdateIsWhole`). Most steps touch none of this: they only take frames away or
add ones of other kinds (`Tame`), and one lemma covers those. In the
refinement a last page is one step `Take` or, when it brings the version the
device has, a stutter.

Several of these modules prove the same few lemmas on least and greatest
naturals, minimal sets, and sums over finite sets as `MapThenSumSet` forms
them (`SumAdds`, `SumGrows`). Where an argument needs induction over a set, it
takes a minimal counterexample, since the induction theorems of the library
take an operator the provers cannot instantiate.

### Only model-checked

* All liveness, which is out of the provers' reach: `OutboxDrains` and
  `SessionDelivers` (`CloudSync`), `HolderIsTold` (`NoticeOutbox`),
  `LanRecovers` and `OutboxesDrain` (`Mesh`), `ChitsSettle` (`Printing`),
  `SessionReconciles`, `ReadersComeBack` and `RevokedLeave` (`Sessions`).

## Findings

Runs that expect a violation:

* **A second failure hides the first** (`cloud_blocked`). `blockedCursor` is
  overwritten by a later report, the ceiling rises, and the cursor passes the
  first event, against `cloud-session.ts:787`.
* **A voided line is sent to the kitchen again** (`print_exited`). `resend`
  rebuilds the chit from what the job covered and never asks whether a line
  has left the order, against `printing.ts:763`.
* **An aggregator owes an order twice** (`aggregator_twice`). A foodpanda
  order is sent, grows by a line and is sent again: the second receivable is
  the whole bill, not what is still open (`aggregator-settlement.ts:231`),
  against the conservation its test claims (`aggregator-settlement.test.ts:400`).

Other counterexamples, each with its configuration (`tlc -config X.cfg`), of
statements the code or its docs make and the model refutes:

* `CatalogTombstone.cfg` (`MCSessions`): a delta's tombstone stores nothing
  for a row the device never had, while the snapshot stores the row, against
  "A device reaches the identical state either way"
  (`sync-gateway/src/catalog.ts:364`).
* `FanOutCut.cfg` (`MCSessions`): a sweep nulls a peer's session while a
  fan-out awaits its registry read; the loop dereferences it
  (`gateway.ts:1181`) and throws, the peers after it are not served and the
  pusher's own session is closed, against "Still-authorized peers are served
  unchanged" (`gateway.ts:1175`). The events are in the log, and the next
  catch-up brings them.
* `CloudCursor.cfg` (`MCCloudSync`): the gateway joins the fan-out set before
  what precedes hello_ack, and the device applies an `event_batch` in any
  stage, so a live batch moves the cursor past events the device never had and
  the catch-up starts above them. `cloud-session.ts:710` claims a contiguous
  prefix; line 798 argues against one.
* `CloudNoTick.cfg` (`MCCloudSync`): the tick of `pass-kds/src/main/uplink.ts`
  lacks the `notifyAppended()` of `pos-electron/src/main/sync.ts:114`; without
  a LAN the screen's marks leave at the next reconnect.
* `NoticeLost.cfg` (`MCNoticeOutbox`): a notice is marked delivered although
  its socket was dead, against "at-least-once, never lost" (`gateway.ts:1144`).
* `MeshWedge.cfg` (`MCMesh`): a suspect is cleared by its traffic only
  (`mesh-session.ts:533`), and a suspected hub has no reason to send any: two
  hubs that see each other stay two, against `HUB-ELECTION.md:9`.
* `MeshLatch.cfg` (`MCMesh`): only an arriving push asks for the relay
  (`mesh-session.ts:355`), so a restarted hub whose followers have nothing to
  push relays nothing, against `device-store.ts:334`.
* `PairingBurned.cfg` (`MCPairing`): a claim that ends between its update and
  the insert of the device leaves a row no retry can use, against "a retry,
  not a burned device" (`pairing.ts:479`).
* `PairingRepeats.cfg` (`MCPairing`): a code drawn a second time, after its
  cancellation, while a claim of the first is under way becomes the second's.
* `TillTwoCloses.cfg` (`MCTill`): two tills that have not heard of each other
  both close, against "AT MOST ONE PER ORDER" (`settlement-closer.ts:37`);
  `ClosesAreConcurrent` is what holds.

## Not modelled

The rows marked `not_modelled` in `PROJECT.json` carry their reasons: no state
of their own, pure functions that unit tests reach, or input and output only.
Of the modelled parts, left out are: sliced sync of restricted devices; the
branch-time offset of a ping; refunds, comps, discounts and their approvals on
the till (the gateway's refund cap is in `Gateway`); shifts, cash and customer
accumulators; receipts and cash documents. In the modelled parts the data is
abstract: payloads, signatures, compression, log lines and metrics are left
out, and one organisation with one branch stands for each, since every table
is keyed by both.

Where a module is looser or narrower than the code it models:

* `Sessions`: a device dials again once the handler of its last connection has
  ended. Such a handler still runs to its end after the connection is gone,
  with its writes and its fan-out; what it would reply is lost, and a record
  that is not open is in no fan-out. Handlers that overlap the next connection
  are `stray` in `CloudSync`.
* `Gateway`: a quarantine row reads back as it was written. With a corrupt one
  the code credits the slot without the comparison (`gateway.ts:835`), so that
  a push is never wedged, and `SettledSlotsHeld` could not hold of it.
* `CloudSync`: `held` is which events are stored, so a duplicate with other
  content is like an equal one: nothing is stored and the cursor passes it
  (`cloud-session.ts:750`). The list of those that `status()` shows is left out.
* `Till`: a send is possible while the kitchen is owed nothing, which the
  screen refuses (`Counter.tsx:1566`); what is owed depends on the spool, which
  is in `Printing`. The model allows more sends than the till does.
* `Printing`: lines leave the order by exit states only. This till refuses
  `order.line_removed` once it holds the confirm (`line-removal-guard.ts`), and
  has no chit before; a removal by a till that has not heard of the confirm is
  not modelled, and a resend would drop that line.
