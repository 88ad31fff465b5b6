--------------------------- MODULE ReferenceData ---------------------------
(***************************************************************************)
(* What the reference transport promises, with requests, pages, sessions   *)
(* and connections left out: an artifact is a list of versions, each one a *)
(* set of changed rows; a device holds, of each artifact, what is live at  *)
(* one published version in full, and only ever moves to a later one.      *)
(***************************************************************************)
EXTENDS Integers, Sequences, FiniteSets, FiniteSetsExt

CONSTANTS Devices, Artifacts, Ids

VARIABLES
  published,   \* per artifact, its versions: each a set of [id, deleted]
  live         \* per device and artifact, [version, rows] with what can be used

vars == <<published, live>>

(* The rows that changed after version lo, as they are at version v: one   *)
(* row for each changed id, the latest, named by the version it is from.   *)
Changed(versions, lo, v) ==
  {i \in Ids : \E w \in (lo + 1)..v : \E c \in versions[w] : c.id = i}

Latest(versions, v, i) == Max({w \in 1..v : \E c \in versions[w] : c.id = i})

RowAt(versions, v, i) ==
  LET w == Latest(versions, v, i)
  IN  [id |-> i, from |-> w, deleted |-> [id |-> i, deleted |-> TRUE] \in versions[w]]

Fold(versions, lo, v) == {RowAt(versions, v, i) : i \in Changed(versions, lo, v)}

Usable(rows) == {r \in rows : ~r.deleted}

Init ==
  /\ published = [a \in Artifacts |-> <<>>]
  /\ live = [d \in Devices |-> [a \in Artifacts |-> [version |-> 0, rows |-> {}]]]

Publish(a) ==
  /\ \E c \in (SUBSET [id : Ids, deleted : BOOLEAN]) \ {{}} :
       published' = [published EXCEPT ![a] = Append(@, c)]
  /\ UNCHANGED live

Take(d, a) ==
  /\ \E v \in (live[d][a].version + 1)..Len(published[a]) :
       live' = [live EXCEPT ![d][a] =
                  [version |-> v, rows |-> Usable(Fold(published[a], 0, v))]]
  /\ UNCHANGED published

Next ==
  \/ \E a \in Artifacts : Publish(a)
  \/ \E d \in Devices, a \in Artifacts : Take(d, a)

Spec == Init /\ [][Next]_vars

=============================================================================
