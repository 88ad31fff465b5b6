----------------------------- MODULE MergedLog -----------------------------
(***************************************************************************)
(* What the gateway promises its devices, with the pipeline left out: one  *)
(* append-only log per organisation, every event id in it at most once,    *)
(* each origin's events in the order the origin numbered them; and an      *)
(* acknowledgement of a watermark only when each slot up to it is settled, *)
(* that is, durably in the log or durably rejected.                        *)
(***************************************************************************)
EXTENDS Integers, Sequences, SequencesExt

CONSTANT Devices

VARIABLES
  log,        \* the merged events, in global_seq order
  rejected,   \* <<device, slot>> pairs a quarantine row stands for
  settled,    \* per origin, the highest slot with nothing missing below it
  promised    \* per origin, the highest watermark a push_ack has carried

vars == <<log, rejected, settled, promised>>

Init ==
  /\ log = <<>>
  /\ rejected = {}
  /\ settled = [x \in Devices |-> -1]
  /\ promised = [x \in Devices |-> -1]

InLog(l, x, s) == \E i \in DOMAIN l : l[i].author = x /\ l[i].slot = s

(* One transaction: it only appends, never repeats an id, never goes back  *)
(* to a slot it has settled, and settles a slot by holding it.             *)
Settle ==
  /\ IsPrefix(log, log')
  /\ \A i, j \in DOMAIN log' : log'[i].id = log'[j].id => i = j
  /\ \A j \in DOMAIN log' \ DOMAIN log : log'[j].slot > settled[log'[j].author]
  /\ \A i, j \in DOMAIN log' \ DOMAIN log :
       i < j /\ log'[i].author = log'[j].author => log'[i].slot < log'[j].slot
  /\ rejected \subseteq rejected'
  /\ \A x \in Devices :
       /\ settled[x] <= settled'[x]
       /\ \A s \in (settled[x] + 1)..settled'[x] :
            InLog(log', x, s) \/ <<x, s>> \in rejected'
  /\ \A i \in DOMAIN log' : log'[i].slot <= settled'[log'[i].author]
  /\ UNCHANGED promised

Promise(x) ==
  /\ promised'[x] \in (promised[x] + 1)..settled[x]
  /\ promised' = [promised EXCEPT ![x] = promised'[x]]
  /\ UNCHANGED <<log, rejected, settled>>

Next == Settle \/ \E x \in Devices : Promise(x)

Spec == Init /\ [][Next]_vars

=============================================================================
