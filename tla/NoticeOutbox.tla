---------------------------- MODULE NoticeOutbox ----------------------------
(***************************************************************************)
(* The quarantine-notice outbox: the rows kernel.quarantine_notices that a *)
(* push commits with its quarantine rows, the live notice the pusher gets, *)
(* the redelivery at the holder's next hello, and the delivered mark that  *)
(* ends it, over connections that close while a handler runs.              *)
(*                                                                         *)
(* Which envelopes are refused, and to which device the row is attributed, *)
(* is decided by module Gateway; here a push refuses any of the ids it is  *)
(* given, attributed to the session or, by a relay, to an origin.          *)
(* services/sync-gateway/src/gateway.ts                                    *)
(***************************************************************************)
EXTENDS Branch, Integers, FiniteSets

CONSTANTS Ids,
          MaxBreaks,   \* bound: idle sockets that close and gateway restarts
          MaxLosses    \* bound: sockets that close under a running handler

ASSUME NoticeAssumption == MaxBreaks \in Nat /\ MaxLosses \in Nat

Rows == [id : Ids, holder : Devices]

VARIABLES
  notices,     \* kernel.quarantine_notices, committed with kernel.quarantine
  superseded,  \* the quarantine rows with superseded_at set
  delivered,   \* the notice rows with delivered_at set
  socket,      \* "none", "hello" (not greeted yet), "open", or "dead"
  handler,     \* what each device's running handler does next
  sent,        \* history: rows whose notice went to their holder's session
  got,         \* history: the ids each device received a notice of
  breaks,      \* what is left of MaxBreaks
  losses       \* what is left of MaxLosses

noticeVars == <<notices, superseded, delivered, socket, handler, sent, got, breaks, losses>>

Idle == [step |-> "idle", batch |-> {}]

NoticeInit ==
  /\ notices = {} /\ superseded = {} /\ delivered = {} /\ sent = {}
  /\ socket = [d \in Devices |-> "none"]
  /\ handler = [d \in Devices |-> Idle]
  /\ got = [d \in Devices |-> {}]
  /\ breaks = MaxBreaks
  /\ losses = MaxLosses

Running(d) == handler[d] # Idle

(* The transaction of a push that refuses the rows of batch: every notice  *)
(* row is inserted on conflict do nothing, a marked row stays marked.      *)
Attributable(d) == {r \in Rows : r.holder = d \/ d \in Relays}

CommitRefused(d) ==
  /\ socket[d] = "open" /\ ~Running(d)
  /\ \E batch \in SUBSET Attributable(d) :
       /\ batch # {} /\ batch \cap superseded = {}
       /\ notices' = notices \cup batch
       /\ handler' = [handler EXCEPT ![d] = [step |-> "notify", batch |-> batch]]
  /\ UNCHANGED <<superseded, delivered, socket, sent, got, breaks, losses>>

(* A push that merges the event a placeholder row was kept for.            *)
CommitMerged(d, r) ==
  /\ socket[d] = "open" /\ ~Running(d)
  /\ r \in notices \ superseded
  /\ superseded' = superseded \cup {r}
  /\ UNCHANGED <<notices, delivered, socket, handler, sent, got, breaks, losses>>

(* hello_ack is followed by the device's undelivered live rows.            *)
Pending(d) == {r \in notices \ (delivered \cup superseded) : r.holder = d}

Hello(d) ==
  /\ socket[d] = "hello"
  /\ socket' = [socket EXCEPT ![d] = "open"]
  /\ handler' = [handler EXCEPT ![d] =
       IF Pending(d) = {} THEN Idle ELSE [step |-> "notify", batch |-> Pending(d)]]
  /\ UNCHANGED <<notices, superseded, delivered, sent, got, breaks, losses>>

(* One quarantine_notice per row, down whatever the socket is by now.      *)
Notify(d) ==
  /\ handler[d].step = "notify"
  /\ sent' = sent \cup {r \in handler[d].batch : r.holder = d}
  /\ got' = IF socket[d] # "open" THEN got
            ELSE [got EXCEPT ![d] = @ \cup {r.id : r \in handler[d].batch}]
  /\ handler' = [handler EXCEPT ![d].step = "mark"]
  /\ UNCHANGED <<notices, superseded, delivered, socket, breaks, losses>>

(* Flaws a mutation check puts in the place of the definition that follows *)
(* them are named Flaw...; nothing else uses them.                         *)
FlawMarksRelayed(d) == handler[d].batch

(* Only rows held by the session's own device are marked.                  *)
Markable(d) == {r \in handler[d].batch : r.holder = d}

Mark(d) ==
  /\ handler[d].step = "mark"
  /\ delivered' = delivered \cup Markable(d)
  /\ handler' = [handler EXCEPT ![d] = Idle]
  /\ UNCHANGED <<notices, superseded, socket, sent, got, breaks, losses>>

Connect(d) ==
  /\ socket[d] = "none" \/ (socket[d] = "dead" /\ ~Running(d))
  /\ socket' = [socket EXCEPT ![d] = "hello"]
  /\ UNCHANGED <<notices, superseded, delivered, handler, sent, got, breaks, losses>>

Close(d) ==
  /\ socket[d] \in {"hello", "open"}
  /\ socket' = [socket EXCEPT ![d] = "dead"]
  /\ \/ ~Running(d) /\ breaks > 0 /\ breaks' = breaks - 1 /\ UNCHANGED losses
     \/ Running(d) /\ losses > 0 /\ losses' = losses - 1 /\ UNCHANGED breaks
  /\ UNCHANGED <<notices, superseded, delivered, handler, sent, got>>

(* Handlers die with the process; committed rows and marks stay.           *)
GatewayRestart ==
  /\ breaks > 0 /\ \E d \in Devices : Running(d)
  /\ breaks' = breaks - 1
  /\ socket' = [d \in Devices |-> "none"]
  /\ handler' = [d \in Devices |-> Idle]
  /\ UNCHANGED <<notices, superseded, delivered, sent, got, losses>>

Handler(d) == Hello(d) \/ Notify(d) \/ Mark(d)

NoticeNext ==
  \/ \E d \in Devices :
       \/ CommitRefused(d) \/ Handler(d) \/ Connect(d) \/ Close(d)
       \/ \E r \in Rows : CommitMerged(d, r)
  \/ GatewayRestart

NoticeSpec == NoticeInit /\ [][NoticeNext]_noticeVars

(* The gateway finishes its handlers and a device redials.                 *)
NoticeFairness == \A d \in Devices : WF_noticeVars(Handler(d)) /\ WF_noticeVars(Connect(d))

NoticeFairSpec == NoticeSpec /\ NoticeFairness

-----------------------------------------------------------------------------
NoticeTypeOK ==
  /\ notices \subseteq Rows
  /\ superseded \subseteq notices /\ delivered \subseteq notices
  /\ socket \in [Devices -> {"none", "hello", "open", "dead"}]
  /\ handler \in [Devices -> [step : {"idle", "notify", "mark"}, batch : SUBSET Rows]]
  /\ sent \subseteq Rows
  /\ got \in [Devices -> SUBSET Ids]
  /\ breaks \in 0..MaxBreaks /\ losses \in 0..MaxLosses

(* A row leaves the outbox only after its notice was written to a session  *)
(* of the device that holds it: the live send to a relaying hub never ends *)
(* the redelivery to the origin (mark-on-send, DEC-SYNC-008).              *)
MarkedWereSent == delivered \subseteq sent

(* A device that says hello comes to be told of every refusal it holds     *)
(* that is not superseded, also when the gateway dies between the notice   *)
(* and the mark; only a socket that closes under a handler can prevent it  *)
(* (the drain of handleHello).                                             *)
HolderIsTold ==
  \A r \in Rows :
    r \in notices /\ socket[r.holder] = "hello"
      ~> r.id \in got[r.holder] \/ r \in superseded \/ losses < MaxLosses

(* "at-least-once, never lost" (handlePush): a row that is not offered     *)
(* again has reached its holder.                                           *)
NoticeNeverLost == \A r \in delivered : r.id \in got[r.holder]

=============================================================================
