---------------------------- MODULE DeviceStore ----------------------------
(***************************************************************************)
(* The store of one device: its own and its peers' events, the projections *)
(* materialized beside them, and the merge lattice that is kept in memory  *)
(* and produces those projections.                                         *)
(*                                                                         *)
(* Calls are synchronous and do not interleave.  What does is the          *)
(* transaction of a call, which SQLite can roll back, with the lattice it  *)
(* has already changed, which nothing can.  Statements, commits and        *)
(* rebuilds may fail, and the process may stop anywhere.                   *)
(* packages/sync-client/src/device-store.ts and folds/merge.ts             *)
(***************************************************************************)
EXTENDS Integers, Sequences, FiniteSets, SequencesExt, FiniteSetsExt

CONSTANTS Me,          \* this device
          Inputs,      \* what the application appends: id, kind, key, line, body
          Copies,      \* the envelopes that peers and the cloud deliver
          Pages,       \* what one delivery brings: sequences of [env, seq] items
          Numbers,     \* global_seq values
          Drops,       \* the sets of [order, line] keys retention asks to drop
          None,        \* no id, no key, no line, no number
          MaxFaults,   \* bound: statements, commits and rebuilds that fail
          MaxCrashes   \* bound: times the process stops

(* A kind stands for the event types the store treats alike:               *)
(*   create   order.created            confirm  order.confirmed            *)
(*   ticket   kot.printed              line     order.line_added           *)
(*   close    order.settlement_closed  toggle   availability.changed       *)
(*   fact     any other type that changes an order's lattice               *)
(*   cash     what only the in-memory accumulators fold                    *)
(*   audit    what nothing folds (01-F5)                                   *)
Kinds == {"create", "confirm", "ticket", "line", "close", "toggle", "fact", "cash", "audit"}

(* Only an order.line_added carries a line, and a peer's event has no id   *)
(* of this device's making.                                                *)
ASSUME CopyAssumption ==
  /\ \A x \in Inputs \cup Copies : x.kind \in Kinds /\ (x.kind = "line" <=> x.line # None)
  /\ \A i \in Inputs, c \in Copies : c.id # i.id

ASSUME PageAssumption == Pages \subseteq Seq([env : Copies, seq : Numbers \cup {None}])

ASSUME StoreAssumption == MaxFaults \in Nat /\ MaxCrashes \in Nat /\ Numbers \subseteq Nat

Parking == {"confirm", "ticket"}
ItemKinds == {"toggle"}
Inert == {"ticket", "cash"}

EnvelopeOf(i, lam, prev, basis) ==
  [id |-> i.id, dev |-> Me, lam |-> lam, kind |-> i.kind, key |-> i.key,
   line |-> i.line, body |-> i.body, prev |-> prev, basis |-> basis]

Ids == {x.id : x \in Inputs \cup Copies}
Keys == {x.key : x \in Inputs \cup Copies} \ {None}

(* Retention drops whole orders, and lines of orders.                      *)
ASSUME DropAssumption ==
  Drops \subseteq SUBSET (Keys \X ({x.line : x \in Inputs \cup Copies} \cup {None}))

VARIABLES
  disk,     \* the committed tables
  db,       \* the tables as the running transaction sees them
  mem,      \* the lattice, the accumulators and the dropped keys: memory only
  call,     \* the running call, what it still has to store, its F6 flags
  results,  \* what the running page answers, item by item
  stale,    \* history: the last rebuild failed, the lattice may lead the log
  faults,   \* what is left of MaxFaults
  crashes   \* what is left of MaxCrashes

vars == <<disk, db, mem, call, results, stale, faults, crashes>>

NoTables == [own |-> <<>>, peers |-> {}, gseq |-> <<>>, acked |-> -1, head |-> None,
             basis |-> "branch_provisional", rows |-> [k \in Keys |-> {}], parked |-> {}]

NoMemory == [facts |-> {}, waiting |-> {}, books |-> {}, orders |-> {}, lines |-> {}]

Call(step, todo) == [step |-> step, todo |-> todo, touched |-> FALSE, lead |-> FALSE]

Init ==
  /\ disk = NoTables /\ db = NoTables
  /\ mem = NoMemory
  /\ call = Call("down", <<>>)
  /\ results = <<>>
  /\ stale = FALSE
  /\ faults = MaxFaults
  /\ crashes = MaxCrashes

Ledger(d) == ToSet(d.own) \cup d.peers
Stored(d, id) == {e \in Ledger(d) : e.id = id}

(* The id of the last audit event before place n of this device's log.     *)
PrevAudit(d, n) ==
  LET before == {m \in 1..(n - 1) : d.own[m].kind = "audit"}
  IN  IF before = {} THEN None ELSE d.own[Max(before)].id

-----------------------------------------------------------------------------
(* The merge engine: what one event does to the lattice.                   *)
HasCreate(facts, key) == \E f \in facts : f.kind = "create" /\ f.key = key

Waits(m, e) == e.kind \in Parking /\ ~HasCreate(m.facts, e.key)

(* The events that e folds in: itself, and for a create what waited on it. *)
Drained(m, e) == {w \in m.waiting : e.kind = "create" /\ w.key = e.key}

Retired(m, e) == e.kind = "line" /\ <<e.key, e.line>> \in m.lines

Effective(m, e) ==
  {f \in {e} \cup Drained(m, e) : f.kind \notin Inert /\ ~Retired(m, f)}

(* Flaws a mutation check puts in the place of the definition that follows *)
(* them are named Flaw...; nothing else uses them.                         *)
FlawUntouched(m, e) == e.kind \in {"audit", "cash"}

Untouched(m, e) == e.kind \in {"audit", "cash"} \/ e.key \in m.orders

Writes(m, e) == ~Untouched(m, e) /\ (Waits(m, e) \/ Effective(m, e) # {})

Folded(m, e) ==
  IF Untouched(m, e) THEN m
  ELSE IF Waits(m, e) THEN [m EXCEPT !.waiting = @ \cup {e}]
  ELSE [m EXCEPT !.facts = @ \cup Effective(m, e), !.waiting = @ \ Drained(m, e)]

Booked(m, e) == IF e.kind = "audit" THEN m ELSE [m EXCEPT !.books = @ \cup {e}]

(* The row of a key, as the set of facts it shows; an order has one only   *)
(* once it was created.                                                    *)
Projection(facts, key) ==
  LET of == {f \in facts : f.key = key}
  IN  IF \E f \in of : f.kind \in {"create"} \cup ItemKinds THEN of ELSE {}

(* The targeted writes of an event that took the lattice from m to n.      *)
FlawWritten(d, m, n, e) ==
  [d EXCEPT !.parked = @ \cup (n.waiting \ m.waiting),
            !.rows = IF Writes(m, e) /\ ~Waits(m, e)
                     THEN [@ EXCEPT ![e.key] = Projection(n.facts, e.key)] ELSE @]

Written(d, m, n, e) ==
  [d EXCEPT !.parked = (@ \cup (n.waiting \ m.waiting)) \ (m.waiting \ n.waiting),
            !.rows = IF Writes(m, e) /\ ~Waits(m, e)
                     THEN [@ EXCEPT ![e.key] = Projection(n.facts, e.key)] ELSE @]

(* Replay of the whole log into an empty lattice; the dropped keys of the  *)
(* session survive it (F2).                                                *)
Rebuilt(d, m) ==
  FoldSet(LAMBDA e, n : Booked(Folded(n, e), e),
          [NoMemory EXCEPT !.orders = m.orders, !.lines = m.lines],
          Ledger(d))

WriteFullTables(d, m) ==
  [d EXCEPT !.rows = [k \in Keys |-> Projection(m.facts, k)], !.parked = m.waiting]

-----------------------------------------------------------------------------
(* What a transaction does with one item.                                  *)
FlawAdoptable(d, id, n) == id \notin DOMAIN d.gseq

FlawAdoptsAgain(d, id, n) == n \notin Range(d.gseq)

Adoptable(d, id, n) ==
  /\ id \notin DOMAIN d.gseq
  /\ n \notin Range(d.gseq)

AlreadyHolds(d, id, n) == id \in DOMAIN d.gseq /\ d.gseq[id] = n

WithNumber(d, id, n) ==
  IF n = None THEN d
  ELSE [d EXCEPT !.gseq = [i \in DOMAIN @ \cup {id} |-> IF i = id THEN n ELSE @[i]]]

(* An event the log does not hold, and that it may take.                   *)
Insertable(d, x) ==
  /\ Stored(d, x.env.id) = {}
  /\ \/ call.step = "append"
     \/ /\ x.env.dev # Me
        /\ \A e \in d.peers : <<e.dev, e.lam>> # <<x.env.dev, x.env.lam>>
        /\ x.seq = None \/ Adoptable(d, x.env.id, x.seq)

Inserted(d, x) ==
  IF x.env.dev = Me
  THEN [d EXCEPT !.own = Append(@, x.env),
                 !.head = IF x.env.kind = "audit" THEN x.env.id ELSE @]
  ELSE WithNumber([d EXCEPT !.peers = @ \cup {x.env}], x.env.id, x.seq)

(* An event the log already holds, with the same content.                  *)
Held(d, x) == Stored(d, x.env.id) = {x.env}

Kept(d, x) == Held(d, x) /\ (x.seq = None \/ AlreadyHolds(d, x.env.id, x.seq))

Adopted(d, x) == Held(d, x) /\ x.seq # None /\ Adoptable(d, x.env.id, x.seq)

Landed(d, x) == Insertable(d, x) \/ Kept(d, x) \/ Adopted(d, x)

-----------------------------------------------------------------------------
(* Calls begin between calls; no other runs until this one has answered.   *)
Idle == call.step = "idle"
Storing == call.step \in {"append", "ingest", "page"} /\ call.todo # <<>>
Item == Head(call.todo)

Begin(step, todo) ==
  /\ Idle
  /\ call' = Call(step, todo)
  /\ UNCHANGED <<disk, db, mem, results, stale, faults, crashes>>

(* What append stamps on a new event: the next lamport, the branch time,   *)
(* and on an audit event the head of this device's chain.                  *)
Stamped(i) ==
  EnvelopeOf(i, Len(db.own), IF i.kind = "audit" THEN db.head ELSE None, db.basis)

(* The retry of a stored id is stamped as the stored event was, to be told *)
(* from one with other content: that one throws.                           *)
FlawRetry(i, e) ==
  EnvelopeOf(i, e.lam, IF i.kind = "audit" THEN db.head ELSE None, e.basis)

Retry(i, e) == EnvelopeOf(i, e.lam, e.prev, e.basis)

BeginAppend(i) ==
  \/ /\ \A e \in ToSet(db.own) : e.id # i.id
     /\ Begin("append", <<[env |-> Stamped(i), seq |-> None]>>)
  \/ \E e \in ToSet(db.own) :
       /\ e.id = i.id
       /\ Begin("append", <<[env |-> Retry(i, e), seq |-> None]>>)

(* One event, or one of its own that comes back from the cloud.            *)
BeginIngest ==
  \E e \in Copies \cup ToSet(db.own), n \in Numbers \cup {None} :
    Begin("ingest", <<[env |-> e, seq |-> n]>>)

BeginPage == \E page \in Pages : Begin("page", page)

(* The answer to one item; in a page it is passed on and the next follows. *)
Answer(ok) ==
  results' = IF call.step = "page" THEN Append(results, [item |-> Item, ok |-> ok])
             ELSE results

(* ingestTx and appendTx on an event the log does not hold.                *)
Insert ==
  /\ Storing /\ Insertable(db, Item)
  /\ LET e == Item.env
         n == Folded(mem, e)
     IN  /\ db' = Written(Inserted(db, Item), mem, n, e)
         /\ mem' = Booked(n, e)
         /\ call' = [call EXCEPT !.todo = Tail(@), !.touched = @ \/ e.kind # "audit"]
  /\ Answer(TRUE)
  /\ UNCHANGED <<disk, stale, faults, crashes>>

(* A duplicate, or an identical retry: at most the number carried is new.  *)
Duplicate ==
  /\ Storing /\ (Kept(db, Item) \/ Adopted(db, Item))
  /\ db' = IF Kept(db, Item) THEN db ELSE WithNumber(db, Item.env.id, Item.seq)
  /\ call' = [call EXCEPT !.todo = Tail(@)]
  /\ Answer(TRUE)
  /\ UNCHANGED <<disk, mem, stale, faults, crashes>>

(* guarded: the call throws, and rebuilds if its transaction had folded.   *)
FlawThrow(touched) ==
  /\ db' = [disk EXCEPT !.head = db.head]
  /\ call' = Call(IF touched THEN "refold" ELSE "idle", <<>>)

Throw(touched) ==
  /\ db' = disk
  /\ call' = Call(IF touched THEN "refold" ELSE "idle", <<>>)

(* An item fails.  In a page its savepoint goes and the page goes on; the  *)
(* lattice may be ahead of what remains (F6).                              *)
FlawFail(folded) ==
  /\ IF call.step = "page"
     THEN /\ db' = disk
          /\ call' = [call EXCEPT !.todo = Tail(@), !.touched = @ \/ folded,
                                  !.lead = @ \/ folded]
     ELSE Throw(folded)
  /\ Answer(FALSE)

Fail(folded) ==
  /\ IF call.step = "page"
     THEN /\ db' = db
          /\ call' = [call EXCEPT !.todo = Tail(@), !.touched = @ \/ folded,
                                  !.lead = @ \/ folded]
     ELSE Throw(folded)
  /\ Answer(FALSE)

(* Validation refuses before anything is written or folded.                *)
Refuse ==
  /\ Storing /\ ~Landed(db, Item)
  /\ Fail(FALSE)
  /\ UNCHANGED <<disk, mem, stale, faults, crashes>>

(* A statement fails before the fold.                                      *)
FaultBeforeFold ==
  /\ Storing /\ faults > 0
  /\ Insertable(db, Item) \/ Adopted(db, Item)
  /\ Fail(FALSE)
  /\ faults' = faults - 1
  /\ UNCHANGED <<disk, mem, stale, crashes>>

(* A statement on the projections fails, when the engine has the event and *)
(* the accumulators do not yet, or the release of the savepoint does.      *)
FaultAfterFold ==
  /\ Storing /\ faults > 0
  /\ Insertable(db, Item) /\ Item.env.kind # "audit"
  /\ \/ Writes(mem, Item.env) /\ mem' = Folded(mem, Item.env)
     \/ mem' = Booked(Folded(mem, Item.env), Item.env)
  /\ Fail(TRUE)
  /\ faults' = faults - 1
  /\ UNCHANGED <<disk, stale, crashes>>

Commit ==
  /\ call.step \in {"append", "ingest", "page"} /\ call.todo = <<>>
  /\ disk' = db
  /\ call' = Call(IF call.lead THEN "refold" ELSE "idle", <<>>)
  /\ results' = <<>>
  /\ UNCHANGED <<db, mem, stale, faults, crashes>>

CommitFails ==
  /\ call.step \in {"append", "ingest", "page"} /\ call.todo = <<>>
  /\ faults > 0
  /\ Throw(call.touched)
  /\ results' = <<>>
  /\ faults' = faults - 1
  /\ UNCHANGED <<disk, mem, stale, crashes>>

-----------------------------------------------------------------------------
(* refoldTx: after a failure, asked for by the handle, or at open.         *)
AskRefold == Begin("refold", <<>>)

Refold ==
  /\ call.step \in {"refold", "down"}
  /\ mem' = Rebuilt(disk, mem)
  /\ disk' = WriteFullTables(disk, mem')
  /\ db' = disk'
  /\ stale' = FALSE
  /\ call' = Call("idle", <<>>)
  /\ UNCHANGED <<results, faults, crashes>>

(* tryRefold swallows a failure, in the replay or in the writes after it.  *)
RefoldFails ==
  /\ call.step = "refold" /\ faults > 0
  /\ mem' \in {mem, Rebuilt(disk, mem)}
  /\ stale' = TRUE
  /\ call' = Call("idle", <<>>)
  /\ faults' = faults - 1
  /\ UNCHANGED <<disk, db, results, crashes>>

(* retentionDrop: guarded on the lattice, tables first, memory last.       *)
Closed(facts, order) == \E f \in facts : f.kind = "close" /\ f.key = order

RetentionDrop(keys) ==
  LET orders == {k[1] : k \in {d \in keys : d[2] = None}}
      lines == {k \in keys : k[2] # None /\ k[1] \notin orders}
      facts == {f \in mem.facts : f.key \notin orders /\ <<f.key, f.line>> \notin lines}
  IN  /\ Idle
      /\ \A k \in keys : Closed(mem.facts, k[1])
      /\ db' = [db EXCEPT
           !.rows = [k \in Keys |-> IF k \in orders THEN {}
                                    ELSE IF \E l \in lines : l[1] = k THEN Projection(facts, k)
                                    ELSE @[k]],
           !.parked = {w \in @ : w.key \notin orders}]
      /\ disk' = db'
      /\ mem' = [mem EXCEPT !.facts = facts,
                            !.waiting = {w \in @ : w.key \notin orders},
                            !.orders = @ \cup orders,
                            !.lines = @ \cup lines]
      /\ UNCHANGED <<call, results, stale, faults, crashes>>

(* The cloud's acknowledgement of the own stream moves forward only.       *)
AdvanceTo ==
  /\ Idle
  /\ \E w \in 0..(Len(db.own) - 1) :
       /\ w > db.acked
       /\ db' = [db EXCEPT !.acked = w]
  /\ disk' = db'
  /\ UNCHANGED <<mem, call, results, stale, faults, crashes>>

SetBranchTimeOffset ==
  /\ Idle /\ db.basis # "branch"
  /\ db' = [db EXCEPT !.basis = "branch"]
  /\ disk' = db'
  /\ UNCHANGED <<mem, call, results, stale, faults, crashes>>

(* The process stops: the transaction is rolled back, memory is gone.      *)
Crash ==
  /\ call.step # "down" /\ crashes > 0
  /\ db' = disk
  /\ mem' = NoMemory
  /\ call' = Call("down", <<>>)
  /\ results' = <<>>
  /\ stale' = FALSE
  /\ crashes' = crashes - 1
  /\ UNCHANGED <<disk, faults>>

Next ==
  \/ \E i \in Inputs : BeginAppend(i)
  \/ BeginIngest \/ BeginPage
  \/ Insert \/ Duplicate \/ Refuse
  \/ FaultBeforeFold \/ FaultAfterFold
  \/ Commit \/ CommitFails
  \/ AskRefold \/ Refold \/ RefoldFails
  \/ \E keys \in Drops : RetentionDrop(keys)
  \/ AdvanceTo \/ SetBranchTimeOffset
  \/ Crash

Spec == Init /\ [][Next]_vars

-----------------------------------------------------------------------------
(* Shape of the state.                                                     *)
TypeOK ==
  /\ \A d \in {disk, db} :
       /\ \A n \in DOMAIN d.own : \E i \in Inputs :
            d.own[n] = EnvelopeOf(i, d.own[n].lam, d.own[n].prev, d.own[n].basis)
       /\ d.peers \subseteq Copies
       /\ DOMAIN d.gseq \subseteq Ids /\ Range(d.gseq) \subseteq Numbers
       /\ d.acked \in -1..(Len(d.own) - 1)
       /\ d.head \in Ids \cup {None}
       /\ d.basis \in {"branch", "branch_provisional"}
       /\ \A k \in Keys : \A f \in d.rows[k] : f.key = k
  /\ mem.orders \cup {l[1] : l \in mem.lines} \subseteq Keys
  /\ call.step \in {"down", "idle", "append", "ingest", "page", "refold"}
  /\ stale \in BOOLEAN
  /\ faults \in 0..MaxFaults /\ crashes \in 0..MaxCrashes

(* The log is one a merge can rely on (01-F3, 01-F8): own lamports without *)
(* a gap whatever was rolled back, one event per id, one peer event per    *)
(* device and lamport, one number per event and one event per number, and  *)
(* no number for an event the log does not hold.                           *)
LogIsSound ==
  /\ \A n \in DOMAIN db.own : db.own[n].lam = n - 1
  /\ \A e, f \in Ledger(db) : e.id = f.id => e = f
  /\ \A e, f \in db.peers : <<e.dev, e.lam>> = <<f.dev, f.lam>> => e = f
  /\ \A i, j \in DOMAIN db.gseq : db.gseq[i] = db.gseq[j] => i = j
  /\ DOMAIN db.gseq \subseteq {e.id : e \in Ledger(db)}

(* What the projections must be, read off the set of events alone.         *)
Live(d) == {e \in Ledger(d) : e.kind \notin {"audit", "cash"} /\ e.key \notin mem.orders}
Unborn(d) == {e \in Live(d) : e.kind \in Parking /\ ~HasCreate(Ledger(d), e.key)}
Facts(d) == {e \in Live(d) \ Unborn(d) : e.kind # "ticket" /\ ~Retired(mem, e)}

(* Between calls, the tables are what a replay of the committed log in any *)
(* order would give (01-F6, 01-F34): however the events arrived, whatever  *)
(* was rolled back after it was folded, and whatever retention dropped.    *)
(* Only a rebuild that failed may leave them behind, until the next one.   *)
TablesFollowLog ==
  Idle /\ ~stale =>
    /\ \A k \in Keys : disk.rows[k] = Projection(Facts(disk), k)
    /\ disk.parked = Unborn(disk)

(* And so is the memory the next call will write the tables from: no       *)
(* phantom outlives the failure that rolled its event back (F6).           *)
MemoryFollowsLog ==
  Idle /\ ~stale =>
    /\ mem.facts = Facts(disk)
    /\ mem.waiting = Unborn(disk)
    /\ mem.books = {e \in Ledger(disk) : e.kind # "audit"}

(* Both halves of a fold, the tables a screen reads and the lattice in     *)
(* memory they are written from, are between calls a replay of the log.    *)
FoldsFollowLog == TablesFollowLog /\ MemoryFollowsLog

(* A dropped order does not come back before the store is reopened: not by *)
(* a straggler, a rebuild, or a failure (F2).                              *)
DroppedStayGone ==
  /\ \A o \in mem.orders : db.rows[o] = {} /\ \A w \in db.parked : w.key # o
  /\ \A l \in mem.lines : \A f \in db.rows[l[1]] : f.line # l[2]

(* This device's audit events form one chain, and its head is the last     *)
(* committed one, through retries, failures and restarts (01-F5).          *)
AuditChainUnbroken ==
  /\ \A n \in DOMAIN db.own :
       db.own[n].kind = "audit" => db.own[n].prev = PrevAudit(db, n)
  /\ db.head = PrevAudit(db, Len(db.own) + 1)

(* What the caller decides of an event.                                    *)
Content(e) == <<e.kind, e.key, e.line, e.body>>

(* An append of an id that is stored is answered exactly when its caller   *)
(* asks for the content that is stored, wherever the audit chain and the   *)
(* branch clock have moved since, and throws otherwise.  Either way it     *)
(* changes nothing: no event, no fold, no rebuild (01-F8).                 *)
RetriesAreRecognised ==
  [][call.step = "append" /\ call.todo # <<>> /\ call'.step # "down" =>
       \A e \in Stored(db, Item.env.id) :
         /\ UNCHANGED <<disk, db, mem>>
         /\ call'.step = IF Content(Item.env) = Content(e) THEN "append" ELSE "idle"]_vars

(* What is committed stays: no event is changed, removed or moved, no      *)
(* number is reassigned, the checkpoint does not move back (01-F1).        *)
CommittedStays ==
  [][/\ IsPrefix(disk.own, disk'.own)
     /\ disk.peers \subseteq disk'.peers
     /\ \A i \in DOMAIN disk.gseq : i \in DOMAIN disk'.gseq /\ disk'.gseq[i] = disk.gseq[i]
     /\ disk.acked <= disk'.acked]_disk

(* What a page reports as landed is committed with the page, with the      *)
(* number it carried, whatever happened to the items around it: the cursor *)
(* of the cloud session moves over exactly these.                          *)
LandedIsCommitted ==
  [][Commit => \A r \in ToSet(results) : r.ok =>
       /\ r.item.env \in Ledger(disk')
       /\ r.item.seq # None => AlreadyHolds(disk', r.item.env.id, r.item.seq)]_vars

=============================================================================
