------------------------------ MODULE Printing ------------------------------
(***************************************************************************)
(* How a till gets an order to the kitchen's printer: what each station is *)
(* still owed, the durable spool, the pass that advances it, the printer   *)
(* that may hold what it took, the band that says what did not print and   *)
(* its resend, over crashes between any two of those steps.                *)
(*                                                                         *)
(* One order, one printer.  A document is the lines it covers.  The        *)
(* spool's memory and its table change together, so one variable stands    *)
(* for both.  JavaScript runs to the next await: what happens between two  *)
(* awaits is one step, cut only by a crash.                                *)
(* packages/escpos/src/spooler.ts, apps/pos-electron/src/main/printing.ts, *)
(* printer-link.ts, job-store.ts                                           *)
(***************************************************************************)
EXTENDS Integers, Sequences, FiniteSets, SequencesExt

CONSTANTS
  Lines,
  Stations,
  Menus,        \* the catalogs: the station of each line's item
  Routed,       \* the stations configured to print (03-F51)
  WriteOnly,    \* the link is a device node: it takes bytes and says nothing
  MaxAttempts,  \* MAX_TRANSMIT_ATTEMPTS
  Spools,       \* what an earlier version may have left in the spool
  None,         \* no coverage on record
  Bounds        \* how many crashes, voided lines, paper-outs, resends,
                \* acknowledgements and new days a behaviour may have

ASSUME PrintingAssumption ==
  /\ Menus \subseteq [Lines -> Stations] /\ Routed \subseteq Stations
  /\ WriteOnly \in BOOLEAN /\ MaxAttempts \in Nat \ {0}
  /\ Bounds \subseteq [crashes : Nat, voids : Nat, rolls : Nat, resends : Nat,
                       acks : Nat, days : Nat]

VARIABLES
  order,     \* the fold's row: its confirm anchor, where each line stands, and the
             \* station the catalog gives it
  jobs,      \* print_jobs, in the order first written
  pass,      \* the running pump: where it is, and the states it began from
  bands,     \* raised: the alarm of a chit, and whether it offers a resend
  online,    \* printer_online
  narrow,    \* the configured printer refuses the document (03-F34)
  ledger,    \* what was appended: the chits of kot.printed, of kot.print_failed and of
             \* audit.print_acknowledged, and the last printer.status_changed
  today,     \* the order was confirmed on the current business day
  printer,   \* the roll, the documents held for it, and the copies on paper
  cut,       \* history: the chits whose print a crash kept from being reported
  left       \* what is left of the bounds

vars == <<order, jobs, pass, bands, online, narrow, ledger, today, printer, cut, left>>

(* Every chit of a station covers a line no earlier one did.               *)
ChitIds == Stations \X (0..Cardinality(Lines))

ASSUME StationsAssumption ==
  IsFiniteSet(Lines) /\ IsFiniteSet(Stations) /\ \A c \in SUBSET Lines : c # None

(* What an earlier version left kept no coverage (03-F55); a station's     *)
(* chits are numbered as they were made.                                   *)
ASSUME SpoolsAssumption ==
  \A spool \in Spools :
    /\ spool \in Seq([id : ChitIds, state : {"queued", "stalled", "printed", "failed"},
                      attempts : 0..MaxAttempts, covers : {None}])
    /\ \A i \in DOMAIN spool :
         /\ spool[i].id[2] = Cardinality({k \in 1..(i - 1) : spool[k].id[1] = spool[i].id[1]})
         /\ spool[i].state = "queued" => spool[i].attempts < MaxAttempts

Job(id, covers) == [id |-> id, state |-> "queued", attempts |-> 0, covers |-> covers]

Terminal(j) == j.state \in {"printed", "failed"}
Chits(s) == {i \in DOMAIN jobs : jobs[i].id[1] = s}
Row(id) == {i \in DOMAIN jobs : jobs[i].id = id}

NoPass == [step |-> "idle", at |-> 0, taken |-> FALSE, before |-> <<>>, skip |-> {}]
Idle == pass.step = "idle"

(* Handlers run while the pass awaits, not while it goes on.               *)
Free == pass.step # "next"

Band(id, again) == [id |-> id, again |-> again]
Raised(id) == \E b \in bands : b.id = id

Spend(what) == left[what] > 0 /\ left' = [left EXCEPT ![what] = @ - 1]

-----------------------------------------------------------------------------
(* What the paper still owes.                                              *)

Standing(s) == {l \in Lines : order.lines[l] = "on" /\ order.at[l] = s}

(* A row from before 03-F55 kept no coverage: the paper is honoured.       *)
Unrecorded(s) == \E i \in Chits(s) : jobs[i].covers = None

FlawCommitted(s) == UNION {jobs[i].covers : i \in {x \in Chits(s) : jobs[x].state # "failed"}}

Committed(s) == UNION {jobs[i].covers : i \in Chits(s)}

(* owedChits: absence is decided before a job exists, from the routing and *)
(* from the coverage of every chit the station was ever made.              *)
OwedAt(s) == IF s \in Routed /\ ~Unrecorded(s) THEN Standing(s) \ Committed(s) ELSE {}
OwedChits == {s \in Stations : OwedAt(s) # {}}

(* kitchenFor: what the counter's glass says.                              *)
KitchenFor == IF ~order.confirmed THEN "none"
              ELSE IF OwedChits = {} THEN "sent" ELSE "owed"

NextChit(s) == <<s, Cardinality(Chits(s))>>

-----------------------------------------------------------------------------

Init ==
  /\ \E menu \in Menus :
       order = [confirmed |-> FALSE, lines |-> [l \in Lines |-> "none"], at |-> menu]
  /\ jobs \in Spools
  /\ pass = NoPass
  /\ bands = {}
  /\ online = TRUE
  /\ narrow \in BOOLEAN
  /\ ledger = [printed |-> {jobs[i].id : i \in {x \in DOMAIN jobs : jobs[x].state = "printed"}},
               failed |-> {},
               acked |-> {}, status |-> "online"]
  /\ today = TRUE
  /\ printer = [roll |-> TRUE, hold |-> [id \in ChitIds |-> 0],
                copies |-> [id \in ChitIds |-> 0]]
  /\ cut = {}
  /\ left \in Bounds

host == <<jobs, pass, bands, online, narrow>>

AddLine(l) ==
  /\ Free /\ order.lines[l] = "none"
  /\ order' = [order EXCEPT !.lines[l] = "on"]
  /\ UNCHANGED <<host, ledger, today, printer, cut, left>>

VoidLine(l) ==
  /\ Free /\ order.lines[l] = "on"
  /\ Spend("voids")
  /\ order' = [order EXCEPT !.lines[l] = "off"]
  /\ UNCHANGED <<host, ledger, today, printer, cut>>

(* The chits confirmed() makes, a station after the other.                 *)
NewChits == LET stations == SetToSeq(OwedChits) IN
  [i \in DOMAIN stations |-> Job(NextChit(stations[i]), OwedAt(stations[i]))]

(* confirmed: a document the printer cannot show is refused with a band    *)
(* and makes no job (03-F34).                                              *)
Confirmed ==
  LET refused == {j.id : j \in ToSet(NewChits)} IN
  /\ Free
  /\ order' = [order EXCEPT !.confirmed = TRUE]
  /\ \/ /\ ~narrow
        /\ jobs' = jobs \o NewChits
        /\ UNCHANGED <<bands, ledger>>
     \/ /\ narrow
        /\ bands' = bands \cup {Band(id, FALSE) : id \in {r \in refused : ~Raised(r)}}
        /\ ledger' = [ledger EXCEPT !.failed = @ \cup {r \in refused : ~Raised(r)}]
        /\ UNCHANGED jobs
  /\ UNCHANGED <<pass, online, narrow, today, printer, cut, left>>

-----------------------------------------------------------------------------
(* The pump: one pass at a time, one interaction for each job that was     *)
(* there when it began.                                                    *)

StartPass ==
  /\ Idle
  /\ \E i \in DOMAIN jobs : ~Terminal(jobs[i])
  /\ pass' = [NoPass EXCEPT !.step = "next", !.before = [i \in DOMAIN jobs |-> jobs[i].state]]
  /\ UNCHANGED <<order, jobs, bands, online, narrow, ledger, today, printer, cut, left>>

FlawAhead == {i \in DOMAIN pass.before : /\ i > pass.at /\ i \notin pass.skip
                                         /\ jobs[i].state \in {"queued", "transmitting"}}

Ahead == {i \in DOMAIN pass.before : i > pass.at /\ i \notin pass.skip /\ ~Terminal(jobs[i])}

(* advance: a stalled job is asked about, any other is sent.               *)
NextJob ==
  /\ pass.step = "next" /\ Ahead # {}
  /\ LET i == CHOOSE x \in Ahead : \A y \in Ahead : x <= y IN
       \/ /\ jobs[i].state = "stalled"
          /\ pass' = [pass EXCEPT !.step = "asking", !.at = i]
          /\ UNCHANGED jobs
       \/ /\ jobs[i].state # "stalled"
          /\ pass' = [pass EXCEPT !.step = "sending", !.at = i, !.taken = FALSE]
          /\ jobs' = [jobs EXCEPT ![i].state = "transmitting"]
  /\ UNCHANGED <<order, bands, online, narrow, ledger, today, printer, cut, left>>

(* The printer takes the document: it is on paper, or held for a roll.     *)
TakeDocument ==
  /\ pass.step = "sending" /\ ~pass.taken
  /\ pass' = [pass EXCEPT !.taken = TRUE]
  /\ LET id == jobs[pass.at].id IN
       printer' = IF printer.roll THEN [printer EXCEPT !.copies[id] = @ + 1]
                  ELSE [printer EXCEPT !.hold[id] = @ + 1]
  /\ UNCHANGED <<order, jobs, bands, online, narrow, ledger, today, cut, left>>

Answered(state, attempts) ==
  /\ jobs' = [jobs EXCEPT ![pass.at].state = state, ![pass.at].attempts = attempts]
  /\ pass' = [pass EXCEPT !.step = "next"]
  /\ UNCHANGED <<order, bands, online, narrow, ledger, today, printer, cut, left>>

Attempts == jobs[pass.at].attempts

(* classifyTransmit: paper out is a stall, which spends no attempt.        *)
SendHeld ==
  /\ pass.step = "sending" /\ pass.taken /\ ~printer.roll /\ ~WriteOnly
  /\ Answered("stalled", Attempts)

SendTaken ==
  /\ pass.step = "sending" /\ pass.taken /\ (printer.roll \/ WriteOnly)
  /\ Answered("printed", Attempts + 1)

AfterFailure == IF Attempts + 1 >= MaxAttempts THEN "failed" ELSE "queued"

(* The link breaks or the answer does not come in time, whether the        *)
(* document was taken or not.                                              *)
SendFails ==
  /\ pass.step = "sending"
  /\ Answered(AfterFailure, Attempts + 1)

(* status(): only a sensor that sees paper releases a stalled job.         *)
PaperSeen ==
  /\ pass.step = "asking" /\ (printer.roll \/ WriteOnly)
  /\ Answered("printed", Attempts)

NoPaperSeen ==
  /\ pass.step = "asking" /\ ~WriteOnly
  /\ Answered("stalled", Attempts)

(* reconcile: what the pass changed is told, in the ledger and in bands;   *)
(* the printer's status when it is another than the one last believed.     *)
Changed == {i \in DOMAIN jobs :
              IF i \in DOMAIN pass.before THEN pass.before[i] # jobs[i].state ELSE TRUE}
ChangedTo(state) == {jobs[i].id : i \in {x \in Changed : jobs[x].state = state}}

Reconcile ==
  LET failed == ChangedTo("failed")
      ended == {i \in Changed : Terminal(jobs[i])}
      last == CHOOSE i \in ended : \A k \in ended : k <= i
      other == {i \in ended : (jobs[i].state = "printed") # online}
  IN  /\ pass.step = "next" /\ Ahead = {}
      /\ online' = IF ended = {} THEN online ELSE jobs[last].state = "printed"
      /\ ledger' = [ledger EXCEPT
           !.printed = @ \cup ChangedTo("printed"),
           !.failed = @ \cup failed,
           !.status = IF other = {} THEN @ ELSE IF online' THEN "online" ELSE "offline"]
      /\ bands' = bands \cup {Band(id, TRUE) : id \in {f \in failed : ~Raised(f)}}
      /\ pass' = NoPass
      /\ UNCHANGED <<order, jobs, narrow, today, printer, cut, left>>

-----------------------------------------------------------------------------
(* The operator and the band.                                              *)

(* resend: the failed row is written over in place, with the lines it      *)
(* covered and a fresh budget.  A running pass holds the old row.          *)
Resend(b) ==
  /\ Free /\ b.again
  /\ Spend("resends")
  /\ \E i \in Row(b.id) :
       \/ /\ jobs[i].state = "failed" /\ jobs[i].covers # None /\ ~narrow
          /\ jobs' = [jobs EXCEPT ![i] = Job(b.id, jobs[i].covers)]
          /\ bands' = bands \ {b}
          /\ pass' = [pass EXCEPT !.skip = IF Idle THEN @ ELSE @ \cup {i}]
       \/ /\ jobs[i].state # "failed" \/ jobs[i].covers = None \/ narrow
          /\ bands' = (bands \ {b}) \cup {Band(b.id, FALSE)}
          /\ UNCHANGED <<jobs, pass>>
  /\ UNCHANGED <<order, online, narrow, ledger, today, printer, cut>>

Acknowledge(b) ==
  /\ Free /\ Spend("acks")
  /\ bands' = bands \ {b}
  /\ ledger' = [ledger EXCEPT !.acked = @ \cup {b.id}]
  /\ UNCHANGED <<order, jobs, pass, online, narrow, today, printer, cut>>

-----------------------------------------------------------------------------
(* The printer, the day, and crashes.                                      *)

RollOut ==
  /\ printer.roll
  /\ Spend("rolls")
  /\ printer' = [printer EXCEPT !.roll = FALSE]
  /\ UNCHANGED <<order, host, ledger, today, cut>>

NewRoll ==
  /\ ~printer.roll
  /\ printer' = [roll |-> TRUE, hold |-> [id \in ChitIds |-> 0],
                 copies |-> [id \in ChitIds |-> printer.copies[id] + printer.hold[id]]]
  /\ UNCHANGED <<order, host, ledger, today, cut, left>>

NextDay ==
  /\ today /\ order.confirmed
  /\ Spend("days")
  /\ today' = FALSE
  /\ UNCHANGED <<order, host, ledger, printer, cut>>

FlawReread(spool) ==
  [i \in DOMAIN spool |-> [spool[i] EXCEPT !.state = IF @ \in {"transmitting", "stalled"} THEN "queued" ELSE @]]

(* createSpooler: a job caught in transmission is queued again.            *)
Reread(spool) ==
  [i \in DOMAIN spool |-> [spool[i] EXCEPT !.state = IF @ = "transmitting" THEN "queued" ELSE @]]

FlawRestored(spool) == {}

(* restoreBands: the failed chits of the day whose lines are on no printed *)
(* chit of their station.                                                  *)
Restored(spool) ==
  LET printed(s) == {i \in DOMAIN spool : spool[i].id[1] = s /\ spool[i].state = "printed"}
      onPaper(s) == UNION {spool[i].covers : i \in {x \in printed(s) : spool[x].covers # None}}
  IN  {Band(spool[i].id, TRUE) : i \in {x \in DOMAIN spool :
         /\ today /\ order.confirmed
         /\ spool[x].state = "failed" /\ spool[x].covers # None
         /\ ~(spool[x].covers \subseteq onPaper(spool[x].id[1]))}}

(* The process stops and starts again, perhaps with another printer.       *)
Relaunch(spool) ==
  /\ Spend("crashes")
  /\ jobs' = Reread(spool)
  /\ pass' = NoPass
  /\ bands' = Restored(Reread(spool))
  /\ online' = TRUE
  /\ narrow' \in {narrow, FALSE}
  /\ cut' = cut \cup {jobs[i].id : i \in {x \in DOMAIN jobs :
              jobs[x].state = "printed" /\ jobs[x].id \notin ledger.printed}}
  /\ UNCHANGED <<ledger, today, printer>>

Crash == Relaunch(jobs) /\ UNCHANGED order

(* ... between the append of order.confirmed and the last chit.            *)
CrashInConfirm ==
  /\ Free /\ ~narrow
  /\ \E n \in 0..(Len(NewChits) - 1) : Relaunch(jobs \o SubSeq(NewChits, 1, n))
  /\ order' = [order EXCEPT !.confirmed = TRUE]

-----------------------------------------------------------------------------

Answer == SendHeld \/ SendTaken \/ SendFails \/ PaperSeen \/ NoPaperSeen

Pump == StartPass \/ NextJob \/ Answer \/ Reconcile

Next ==
  \/ \E l \in Lines : AddLine(l) \/ VoidLine(l)
  \/ Confirmed
  \/ Pump \/ TakeDocument
  \/ \E b \in bands : Resend(b) \/ Acknowledge(b)
  \/ RollOut \/ NewRoll
  \/ NextDay \/ Crash \/ CrashInConfirm

Spec == Init /\ [][Next]_vars

(* The interval timer runs and the deadlines of printer-link.ts end every  *)
(* interaction; somebody replaces the roll, and a printer with paper does  *)
(* not leave every query unanswered.                                       *)
Fairness ==
  /\ WF_vars(Pump) /\ WF_vars(NewRoll)
  /\ SF_vars(PaperSeen)

FairSpec == Spec /\ Fairness

-----------------------------------------------------------------------------
(* Properties.                                                             *)

JobStates == {"queued", "transmitting", "stalled", "printed", "failed"}

TypeOK ==
  /\ order \in [confirmed : BOOLEAN, lines : [Lines -> {"none", "on", "off"}], at : Menus]
  /\ jobs \in Seq([id : ChitIds, state : JobStates,
                   attempts : 0..MaxAttempts, covers : (SUBSET Lines) \cup {None}])
  /\ pass.step \in {"idle", "next", "sending", "asking"} /\ pass.at \in 0..Len(jobs)
  /\ pass.before \in Seq(JobStates) /\ Len(pass.before) <= Len(jobs)
  /\ bands \subseteq [id : ChitIds, again : BOOLEAN]
  /\ online \in BOOLEAN /\ narrow \in BOOLEAN /\ today \in BOOLEAN
  /\ ledger \in [printed : SUBSET ChitIds, failed : SUBSET ChitIds, acked : SUBSET ChitIds,
                 status : {"online", "offline"}]
  /\ printer \in [roll : BOOLEAN, hold : [ChitIds -> Nat], copies : [ChitIds -> Nat]]

(* No dish is cooked twice for a second press: no two chits cover one      *)
(* line, over presses, additions, failed chits and relaunches between the  *)
(* stations of one confirm (03-F55; owedChits, confirmed, resend).         *)
OneChitPerLine ==
  \A i, k \in DOMAIN jobs :
    i # k /\ None \notin {jobs[i].covers, jobs[k].covers} => jobs[i].covers \cap jobs[k].covers = {}

Given(id) == printer.copies[id] + printer.hold[id]

(* 03-F5, silent failure is forbidden: when the glass says the kitchen has *)
(* the order, every line due on paper is on a chit that the printer took   *)
(* or that is still being tried; one that failed has its band up, was      *)
(* acknowledged, or is of an earlier day; and what printed is reported     *)
(* unless a crash came between.                                            *)
Accounted(j) ==
  CASE j.state = "failed" -> Raised(j.id) \/ j.id \in ledger.acked \/ ~today
    [] j.state = "printed" -> Given(j.id) > 0 /\ (j.id \in ledger.printed \/ j.id \in cut)
    [] j.state = "stalled" -> Given(j.id) > 0
    [] OTHER -> j.state = "queued"

NothingSilent ==
  Idle /\ KitchenFor = "sent" =>
    \A s \in Routed : ~Unrecorded(s) =>
      \A l \in Standing(s) : \E i \in Chits(s) : l \in jobs[i].covers /\ Accounted(jobs[i])

(* 03-F41: once the till has learned that the printer took a document, by  *)
(* a stall or a success, it never gets it again, over relaunches, resends  *)
(* and retries.                                                            *)
NeverSentAgain ==
  [][\A i \in DOMAIN jobs : jobs[i].state \in {"stalled", "printed"} =>
       jobs'[i].state \in {"stalled", "printed"} /\ Given(jobs[i].id)' = Given(jobs[i].id)]_vars

(* Every job comes to an end, also one held for a roll or caught by a      *)
(* crash: it is printed, or its budget is spent and the band is due.       *)
ChitsSettle == <>[](\A i \in DOMAIN jobs : Terminal(jobs[i]))

(* "A LINE THAT LEFT THE ORDER IS NOT COOKED" (printing.ts, on owedChits). *)
ExitedNotSent ==
  [][\A i \in DOMAIN jobs' :
       (i \notin DOMAIN jobs \/ (jobs[i].state = "failed" /\ jobs'[i].state = "queued"))
         => \A l \in jobs'[i].covers : order'.lines[l] = "on"]_vars

=============================================================================
