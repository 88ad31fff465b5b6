--------------------------- MODULE SessionsProofs ---------------------------
(***************************************************************************)
(* For every set of devices, rows, publishes and bounds, whatever expires, *)
(* is revoked, disconnects or interleaves: no token gains a relay right by *)
(* being renewed, branch data goes to those alone who may read it, and an  *)
(* artifact on a device is a published version in full.                    *)
(***************************************************************************)
EXTENDS Sessions, FiniteSetTheorems, WellFoundedInduction, TLAPS

(* A token and a session carry no right their device was not given.        *)
Tokens == [expires : Nat, relay : BOOLEAN]
Token(d) == {t \in Tokens : t.relay => d \in RelayClaim}
MaybeToken(d) == Token(d) \cup {NoToken}
Session(d) == {s \in [draining : BOOLEAN, relay : BOOLEAN] :
                 s.relay => d \in RelayClaim \cap HubClass}

Row == [id : Ids, from : Nat, deleted : BOOLEAN]
Form == {"delta", "snapshot"}
Pages == [form : Form, version : Nat, base : Nat, entries : SUBSET Row, complete : BOOLEAN,
          next : Nat]
Fetches == [have : Nat, shape : {<<>>} \cup (Form \X Nat \X Nat), entries : SUBSET Row]
Told == [Artifacts -> Nat]

PushOf == [kind : {"push"}, origin : Devices, upto : Nat]
Reads == [kind : {"catchup_request"}] \cup
         [kind : {"reference_request"}, artifact : Artifacts, have : Nat, from : Nat, at : Nat]
UpFrame(d) == [kind : {"hello"}, token : Token(d)] \cup PushOf \cup Reads

Renewing == {f \in [kind : {"push_ack"}, origin : Devices, upto : Nat, token : Tokens \cup {NoToken}] :
               f.token \in MaybeToken(f.origin)}
Responses == [kind : {"reference_response"}, artifact : Artifacts, page : Pages]
DownFrame(d) ==
  [kind : {"purge_command", "event_batch", "catchup_response"}] \cup
  [kind : {"hello_ack"}, token : MaybeToken(d), versions : Told, relay : BOOLEAN] \cup
  Renewing \cup [kind : {"origin_revoked"}, origin : Devices] \cup
  [kind : {"reference_notice"}, artifact : Artifacts, version : Nat] \cup Responses

Acking == {t \in [at : {"ack"}, origin : Devices, upto : Nat, fresh : BOOLEAN,
                   token : Tokens \cup {NoToken}] : t.token \in MaybeToken(t.origin)}
FanningOut ==
  [at : {"send"}, peers : SUBSET Devices, culled : SUBSET Devices, lost : SUBSET Devices]

Record(d) == [open : BOOLEAN, session : Session(d) \cup {NoSession}, joined : BOOLEAN]
Task(d) ==
  {NoTask} \cup [at : {"join"}, token : Token(d), expired : BOOLEAN] \cup
  [at : {"versions"}, token : Token(d)] \cup
  [at : {"hello_ack"}, token : Token(d), versions : Told] \cup
  [at : {"merge"}, push : PushOf, session : Session(d)] \cup
  [at : {"renew"}, origin : Devices, session : Session(d), upto : Nat, fresh : BOOLEAN] \cup
  Acking \cup [at : {"fan_out"}] \cup FanningOut \cup [at : {"page"}, request : Reads]
Memory(d) ==
  [link : {"down", "up", "closing"}, connected : BOOLEAN, token : Token(d), relay : BOOLEAN,
   own : Nat, acked : Nat, fetch : [Artifacts -> Fetches \cup {NoFetch}], told : Told,
   renewals : {r \in [Devices -> Tokens \cup {NoToken}] :
                 \A o \in Devices : r[o] \in MaybeToken(o)}]

Mapped(f) == f = [d \in Devices |-> f[d]]

RegistryTypes ==
  /\ now \in Nat
  /\ revoked \subseteq Devices
  /\ expires \in [Devices -> Nat]
  /\ merged \in [Devices -> Nat]
  /\ published \in [Artifacts -> Seq(Changes)]
  /\ unannounced \subseteq [artifact : Artifacts, version : Nat]
  /\ cleared \in [Devices -> SUBSET Devices]

RecordTypes == Mapped(record) /\ \A d \in Devices : record[d] \in Record(d)
TaskTypes == Mapped(task) /\ \A d \in Devices : task[d] \in Task(d)
SweepTypes == sweep \in {NoSweep} \cup [at : {"drop"}, found : SUBSET Devices, proven : BOOLEAN]
UpTypes == Mapped(up) /\ \A d \in Devices : up[d] \in Seq(UpFrame(d))
DownTypes == Mapped(down) /\ \A d \in Devices : down[d] \in Seq(DownFrame(d))
DeviceTypes == Mapped(device) /\ \A d \in Devices : device[d] \in Memory(d)
HeldTypes == held \in [Devices -> [Artifacts -> [version : Nat, rows : SUBSET Row]]]

Types ==
  /\ RegistryTypes /\ RecordTypes /\ TaskTypes /\ SweepTypes
  /\ UpTypes /\ DownTypes /\ DeviceTypes /\ HeldTypes

-----------------------------------------------------------------------------
(* Who may read.                                                           *)

Sends(x, d) == task[x].at = "send" /\ d \in task[x].peers

(* A device that is not connected has nothing on its way and no part in    *)
(* what the gateway does.                                                  *)
Gone(d) ==
  device[d].link = "down" =>
    /\ up[d] = <<>> /\ down[d] = <<>>
    /\ ~HasSession(d) /\ ~record[d].open
    /\ \A a \in Artifacts : device[d].fetch[a] = NoFetch
    /\ \A x \in Devices : ~Sends(x, d)

(* A hello is the first frame of a connection, which has no session yet.   *)
HelloIsFirst(d) ==
  \A i \in 1..Len(up[d]) :
    up[d][i].kind = "hello" => i = 1 /\ ~HasSession(d) /\ \A x \in Devices : ~Sends(x, d)

(* Nor has a connection whose hello is still being answered.               *)
JoinIsFirst(d) ==
  task[d].at = "join" =>
    /\ \A i \in 1..Len(up[d]) : up[d][i].kind # "hello"
    /\ ~HasSession(d) /\ \A x \in Devices : ~Sends(x, d)

(* Those in the fan-out set, those a fan-out sends to and those served do  *)
(* not merely drain.                                                       *)
ReadersRead(d) ==
  (HasSession(d) /\ record[d].session.draining) =>
    /\ ~record[d].joined
    /\ task[d].at # "page"
    /\ \A x \in Devices : ~Sends(x, d)

(* Who still sends to a revoked device read the registry before.           *)
ClearedBefore(d) ==
  d \in revoked =>
    /\ task[d].at = "page" => d \in cleared[d]
    /\ \A x \in Devices : Sends(x, d) /\ d \notin task[x].culled => x \in cleared[d]

-----------------------------------------------------------------------------
(* What is fetched.                                                        *)

About(f, k, a) == f.kind = k /\ f.artifact = a
None(s, k, a) == \A i \in 1..Len(s) : ~About(s[i], k, a)
Single(s, k, a) == \A i, j \in 1..Len(s) : About(s[i], k, a) /\ About(s[j], k, a) => i = j

Serves(t, a) == t.at = "page" /\ About(t.request, "reference_request", a)

(* What pages up to an offset have brought of what changed up to v.        *)
Gathered(versions, have, v, from) ==
  LET rows == Reference!Fold(versions, have, v)
  IN  {r \in rows : Rank(rows, r) <= from}
ShapeOf(have, v) == <<IF have > 0 THEN "delta" ELSE "snapshot", v, have>>
Reached(f, versions, from, v) ==
  /\ v \in 0..Len(versions) /\ f.have <= v /\ from \in Nat
  /\ IF from = 0 THEN f.shape = <<>> /\ f.entries = {}
     ELSE /\ f.have < v /\ f.shape = ShapeOf(f.have, v)
          /\ f.entries = Gathered(versions, f.have, v, from)

Asks(q, f, versions) ==
  /\ f # NoFetch /\ q.have = f.have
  /\ IF q.from = 0 THEN f.shape = <<>> /\ f.entries = {} ELSE Reached(f, versions, q.from, q.at)

Answers(p, f, versions) ==
  /\ f # NoFetch
  /\ \E from \in Nat, v \in Nat :
       Reached(f, versions, from, v) /\ p = PageOf(versions, f.have, from, v)

(* Of a fetch, one request, handler or response is under way at most, and  *)
(* it goes on where the fetch is.                                          *)
Flows(u, w, t, f, h, versions, a) ==
  /\ Single(u, "reference_request", a) /\ Single(w, "reference_response", a)
  /\ None(u, "reference_request", a) \/ (None(w, "reference_response", a) /\ ~Serves(t, a))
  /\ None(w, "reference_response", a) \/ ~Serves(t, a)
  /\ \A i \in 1..Len(u) : About(u[i], "reference_request", a) => Asks(u[i], f, versions)
  /\ Serves(t, a) => Asks(t.request, f, versions)
  /\ \A i \in 1..Len(w) : About(w[i], "reference_response", a) => Answers(w[i].page, f, versions)
  /\ f # NoFetch => f.have = h.version

(* What a device has of an artifact is usable as it was published.         *)
Whole(h, versions) ==
  /\ h.version <= Len(versions)
  /\ Reference!Usable(h.rows) = Reference!Usable(Reference!Fold(versions, 0, h.version))

Fetching(d, a) ==
  device[d].link # "down" =>
    Flows(up[d], down[d], task[d], device[d].fetch[a], held[d][a], published[a], a)

-----------------------------------------------------------------------------
(* Least and greatest elements.                                            *)

(* Every nonempty set of naturals has a least element.                     *)
LEMMA LeastNatural ==
  ASSUME NEW S \in SUBSET Nat, S # {}
  PROVE  \E m \in S : \A n \in S : m <= n
<1> DEFINE Below == OpToRel(<, Nat)
<1>1. IsWellFoundedOn(Below, Nat)
  BY NatLessThanWellFounded, Zenon
<1>2. \A m, n \in Nat : n < m => <<n, m>> \in Below
  BY Zenon DEF OpToRel
<1> HIDE DEF Below
<1>3. PICK m \in S : \A n \in S : ~ (<<n, m>> \in Below)
  BY <1>1, WFMin, Zenon
<1>4. ASSUME NEW n \in S PROVE ~(n < m)
  BY <1>2, <1>3, Zenon
<1>5. \A n \in S : m <= n
  BY <1>4, SMT
<1> QED BY <1>5, Zenon

(* And a greatest one, if there is a bound.                                *)
LEMMA GreatestNatural ==
  ASSUME NEW S \in SUBSET Nat, S # {}, NEW b \in Nat, \A n \in S : n <= b
  PROVE  Max(S) \in S /\ \A n \in S : n <= Max(S)
<1> DEFINE D == {b - n : n \in S}
<1>1. D \in SUBSET Nat /\ D # {} /\ \A n \in S : b - n \in D
  <2>1. \A n \in S : b - n \in Nat
    OBVIOUS
  <2> QED BY <2>1
<1>2. \A d \in D : \E n \in S : d = b - n
  OBVIOUS
<1> HIDE DEF D
<1>3. PICK d \in D : \A c \in D : d <= c
  BY <1>1, LeastNatural
<1>4. PICK m \in S : d = b - m
  BY <1>2
<1>5. \A n \in S : m >= n
  BY <1>1, <1>3, <1>4
<1>6. Max(S) \in S /\ \A n \in S : Max(S) >= n
  BY <1>5, Zenon DEF Max
<1> QED BY <1>6

-----------------------------------------------------------------------------
(* Versions: what changed, and where the latest row of an id is.           *)

Names(versions, w, i) == \E c \in versions[w] : c.id = i

LEMMA LatestIs ==
  ASSUME NEW vs \in Seq(Changes), NEW v \in 0..Len(vs), NEW i \in Reference!Changed(vs, 0, v)
  PROVE  /\ Reference!Latest(vs, v, i) \in 1..v
         /\ Names(vs, Reference!Latest(vs, v, i), i)
         /\ \A w \in 1..v : Names(vs, w, i) => w <= Reference!Latest(vs, v, i)
<1> DEFINE S == {w \in 1..v : \E c \in vs[w] : c.id = i}
<1>1. v \in Nat
  OBVIOUS
<1>2. S \in SUBSET Nat /\ S # {} /\ \A n \in S : n <= v
  BY <1>1 DEF Reference!Changed
<1>3. Max(S) \in S /\ \A n \in S : n <= Max(S)
  BY <1>1, <1>2, GreatestNatural
<1>4. Reference!Latest(vs, v, i) = Max(S)
  BY Zenon DEF Reference!Latest, Reference!Max, Max
<1> QED BY <1>3, <1>4 DEF Names

(* What did not change after lo is as it was.                              *)
LEMMA Unchanged ==
  ASSUME NEW vs \in Seq(Changes), NEW v \in 0..Len(vs), NEW lo \in 0..v,
         NEW i \in Ids, i \notin Reference!Changed(vs, lo, v)
  PROVE  /\ i \in Reference!Changed(vs, 0, v) <=> i \in Reference!Changed(vs, 0, lo)
         /\ Reference!RowAt(vs, v, i) = Reference!RowAt(vs, lo, i)
<1>1. v \in Nat /\ lo \in Nat /\ lo <= v
  OBVIOUS
<1>2. \A w \in (lo + 1)..v : ~Names(vs, w, i)
  BY DEF Reference!Changed, Names
<1>3. \A w \in 1..v : Names(vs, w, i) => w \in 1..lo
  BY <1>1, <1>2
<1>4. {w \in 1..v : Names(vs, w, i)} = {w \in 1..lo : Names(vs, w, i)}
  BY <1>1, <1>3
<1>5. Reference!Latest(vs, v, i) = Reference!Latest(vs, lo, i)
  BY <1>4, Zenon DEF Reference!Latest, Names
<1>6. i \in Reference!Changed(vs, 0, v) <=> i \in Reference!Changed(vs, 0, lo)
  BY <1>1, <1>4 DEF Reference!Changed, Names
<1> QED BY <1>5, <1>6 DEF Reference!RowAt

LEMMA ChangedGrows ==
  ASSUME NEW vs, NEW v \in Nat, NEW lo \in 0..v
  PROVE  Reference!Changed(vs, lo, v) \subseteq Reference!Changed(vs, 0, v)
<1>1. \A w \in (lo + 1)..v : w \in (0 + 1)..v
  OBVIOUS
<1> QED BY <1>1 DEF Reference!Changed

LEMMA FoldIs ==
  ASSUME NEW vs, NEW lo, NEW v
  PROVE  /\ \A r \in Reference!Fold(vs, lo, v) :
              r.id \in Reference!Changed(vs, lo, v) /\ r = Reference!RowAt(vs, v, r.id)
         /\ \A i \in Reference!Changed(vs, lo, v) :
              Reference!RowAt(vs, v, i) \in Reference!Fold(vs, lo, v)
         /\ \A i \in Ids : Reference!RowAt(vs, v, i).id = i
         /\ Reference!Changed(vs, lo, v) \subseteq Ids
<1>1. \A i \in Ids : Reference!RowAt(vs, v, i).id = i
  BY DEF Reference!RowAt
<1>2. Reference!Changed(vs, lo, v) \subseteq Ids
  BY DEF Reference!Changed
<1> QED BY <1>1, <1>2 DEF Reference!Fold

LEMMA FoldIsFinite ==
  ASSUME NEW vs \in Seq(Changes), NEW v \in 0..Len(vs), NEW lo \in 0..v
  PROVE  IsFiniteSet(Reference!Fold(vs, lo, v))
<1> DEFINE W == (lo + 1)..v
           C == {vs[w] : w \in W}
           R == UNION C
           F == Reference!Fold(vs, lo, v)
<1>1. lo \in Nat /\ v \in Nat /\ W \subseteq 1..Len(vs)
  OBVIOUS
<1>2. IsFiniteSet(W)
  BY <1>1, FS_Interval
<1>3. [w \in W |-> vs[w]] \in Surjection(W, C)
  BY DEF Surjection
<1>4. IsFiniteSet(C)
  BY <1>2, <1>3, FS_Surjection
<1>5. \A c \in C : IsFiniteSet(c)
  BY <1>1, SessionsAssumption
<1>6. IsFiniteSet(R)
  BY <1>4, <1>5, FS_UNION
<1> DEFINE H == {c.id : c \in R}
<1>7. [c \in R |-> c.id] \in Surjection(R, H)
  BY DEF Surjection
<1>8. IsFiniteSet(H)
  BY <1>6, <1>7, FS_Surjection
<1>9. \A i \in Reference!Changed(vs, lo, v) : i \in H
  <2>1. ASSUME NEW i \in Reference!Changed(vs, lo, v) PROVE i \in H
    <3>1. PICK w \in W : \E c \in vs[w] : c.id = i
      BY DEF Reference!Changed
    <3>2. PICK c \in vs[w] : c.id = i
      BY <3>1
    <3>3. vs[w] \in C
      OBVIOUS
    <3>4. c \in R
      BY <3>3
    <3> QED BY <3>2, <3>4
  <2> QED BY <2>1
<1>10. IsFiniteSet(Reference!Changed(vs, lo, v))
  <2> HIDE DEF H
  <2> QED BY <1>8, <1>9, FS_Subset
<1>11. [i \in Reference!Changed(vs, lo, v) |-> Reference!RowAt(vs, v, i)]
          \in Surjection(Reference!Changed(vs, lo, v), F)
  BY DEF Surjection, Reference!Fold
<1> QED BY <1>10, <1>11, FS_Surjection

LEMMA FoldRows ==
  ASSUME NEW vs \in Seq(Changes), NEW v \in 0..Len(vs), NEW lo \in 0..v
  PROVE  Reference!Fold(vs, lo, v) \subseteq Row
<1>1. ASSUME NEW r \in Reference!Fold(vs, lo, v) PROVE r \in Row
  <2>1. /\ r.id \in Reference!Changed(vs, lo, v) /\ r = Reference!RowAt(vs, v, r.id)
        /\ r.id \in Ids
    BY FoldIs
  <2>2. r.id \in Reference!Changed(vs, 0, v)
    BY <2>1, ChangedGrows
  <2>3. Reference!Latest(vs, v, r.id) \in Nat
    BY <2>2, LatestIs
  <2> DEFINE n == Reference!Latest(vs, v, r.id)
             x == [id |-> r.id, from |-> n, deleted |-> [id |-> r.id, deleted |-> TRUE] \in vs[n]]
  <2>4. r = x
    BY <2>1, Zenon DEF Reference!RowAt
  <2> HIDE DEF n
  <2>5. x \in Row
    BY <2>1, <2>3 DEF Row, n
  <2> QED BY <2>4, <2>5, Zenon
<1> QED BY <1>1

(* A later publish leaves what earlier versions say.                       *)
LEMMA EarlierStay ==
  ASSUME NEW vs \in Seq(Changes), NEW c, NEW v \in 0..Len(vs), NEW lo \in 0..v
  PROVE  Reference!Fold(Append(vs, c), lo, v) = Reference!Fold(vs, lo, v)
<1> DEFINE us == Append(vs, c)
<1>1. lo \in Nat /\ v \in Nat /\ \A w \in 1..v : us[w] = vs[w]
  OBVIOUS
<1> HIDE DEF us
<1>2. \A i : {w \in 1..v : \E r \in us[w] : r.id = i} = {w \in 1..v : \E r \in vs[w] : r.id = i}
  BY <1>1
<1>3. \A i : Reference!Latest(us, v, i) = Reference!Latest(vs, v, i)
  BY <1>2 DEF Reference!Latest
<1>4. Reference!Changed(us, lo, v) = Reference!Changed(vs, lo, v)
  <2>1. \A w \in (lo + 1)..v : us[w] = vs[w]
    BY <1>1
  <2> QED BY <2>1 DEF Reference!Changed
<1>5. ASSUME NEW i \in Reference!Changed(vs, lo, v)
      PROVE  Reference!RowAt(us, v, i) = Reference!RowAt(vs, v, i)
  <2>1. i \in Reference!Changed(vs, 0, v)
    BY <1>1, <1>5, ChangedGrows
  <2>2. Reference!Latest(vs, v, i) \in 1..v
    BY <2>1, LatestIs
  <2>3. us[Reference!Latest(vs, v, i)] = vs[Reference!Latest(vs, v, i)]
    BY <1>1, <2>2
  <2> QED BY <1>3, <2>3 DEF Reference!RowAt
<1>6. Reference!Fold(us, lo, v) = Reference!Fold(vs, lo, v)
  BY <1>4, <1>5 DEF Reference!Fold
<1> QED BY <1>6 DEF us

(* What a delta does to what was usable.                                   *)
LEMMA DeltaIs ==
  ASSUME NEW vs \in Seq(Changes), NEW v \in 0..Len(vs), NEW lo \in 0..v
  PROVE  Reference!Usable(Reference!Fold(vs, 0, v)) =
           Reference!Usable(Reference!Fold(vs, lo, v)) \cup
           {r \in Reference!Usable(Reference!Fold(vs, 0, lo)) :
              r.id \notin Reference!Changed(vs, lo, v)}
<1> DEFINE new == Reference!Fold(vs, lo, v)
           all == Reference!Fold(vs, 0, v)
           old == Reference!Fold(vs, 0, lo)
           ch == Reference!Changed(vs, lo, v)
<1>0. v \in Nat /\ lo \in Nat
  OBVIOUS
<1>1. ASSUME NEW r \in all, r.id \in ch PROVE r \in new
  BY <1>1, FoldIs
<1>2. ASSUME NEW r \in new PROVE r \in all
  <2>1. r.id \in Reference!Changed(vs, 0, v)
    BY <1>0, FoldIs, ChangedGrows
  <2> QED BY <2>1, FoldIs
<1>3. ASSUME NEW r \in all, r.id \notin ch PROVE r \in old
  <2>1. r.id \in Ids /\ r.id \in Reference!Changed(vs, 0, v) /\ r = Reference!RowAt(vs, v, r.id)
    BY FoldIs
  <2>2. r.id \in Reference!Changed(vs, 0, lo) /\ r = Reference!RowAt(vs, lo, r.id)
    BY <1>3, <2>1, Unchanged
  <2> QED BY <2>2, FoldIs
<1>4. ASSUME NEW r \in old, r.id \notin ch PROVE r \in all
  <2>1. r.id \in Ids /\ r.id \in Reference!Changed(vs, 0, lo) /\ r = Reference!RowAt(vs, lo, r.id)
    BY FoldIs
  <2>2. r.id \in Reference!Changed(vs, 0, v) /\ r = Reference!RowAt(vs, v, r.id)
    BY <1>4, <2>1, Unchanged
  <2> QED BY <2>2, FoldIs
<1> HIDE DEF new, all, old, ch
<1>5. Reference!Usable(all) =
        Reference!Usable(new) \cup {r \in Reference!Usable(old) : r.id \notin ch}
  <2>1. \A r : r \in all <=> r \in new \/ (r \in old /\ r.id \notin ch)
    BY <1>1, <1>2, <1>3, <1>4
  <2> QED BY <2>1 DEF Reference!Usable
<1> QED BY <1>5 DEF new, all, old, ch

-----------------------------------------------------------------------------
(* Pages.                                                                  *)

LEMMA RankIs ==
  ASSUME NEW rows, IsFiniteSet(rows), NEW r \in rows
  PROVE  Rank(rows, r) \in Nat /\ Cardinality(rows) \in Nat /\ Rank(rows, r) <= Cardinality(rows)
<1> DEFINE S == {s \in rows : s.id <= r.id}
<1>1. S \subseteq rows
  OBVIOUS
<1> HIDE DEF S
<1>2. Cardinality(S) \in Nat /\ Cardinality(rows) \in Nat /\ Cardinality(S) <= Cardinality(rows)
  BY <1>1, FS_Subset, FS_CardinalityType
<1> QED BY <1>2 DEF Rank, S

(* A row is the first at least.                                            *)
LEMMA RankIsPositive ==
  ASSUME NEW rows \in SUBSET Row, IsFiniteSet(rows), NEW r \in rows
  PROVE  Rank(rows, r) > 0
<1> DEFINE S == {s \in rows : s.id <= r.id}
<1>1. r.id \in Nat
  BY SessionsAssumption DEF Row
<1>2. S \subseteq rows /\ S # {}
  BY <1>1
<1> HIDE DEF S
<1>3. IsFiniteSet(S)
  BY <1>2, FS_Subset
<1>4. Cardinality(S) \in Nat /\ Cardinality(S) # 0
  BY <1>2, <1>3, FS_CardinalityType, FS_EmptySet
<1> QED BY <1>4 DEF Rank, S

LEMMA GatheredIs ==
  ASSUME NEW vs \in Seq(Changes), NEW v \in 0..Len(vs), NEW have \in 0..v, NEW from \in Nat
  PROVE  LET rows == Reference!Fold(vs, have, v)
             next == {r \in rows : Rank(rows, r) \in (from + 1)..(from + PageSize)}
         IN  /\ Gathered(vs, have, v, 0) = {}
             /\ Gathered(vs, have, v, from) \cup next = Gathered(vs, have, v, from + PageSize)
             /\ Cardinality(rows) <= from + PageSize =>
                  Gathered(vs, have, v, from + PageSize) = rows
<1> DEFINE rows == Reference!Fold(vs, have, v)
<1>1. rows \in SUBSET Row /\ IsFiniteSet(rows)
  BY FoldRows, FoldIsFinite
<1>2. PageSize \in Nat
  BY SessionsAssumption
<1> DEFINE rank == [r \in rows |-> Rank(rows, r)]
<1> HIDE DEF rows
<1>3. \A r \in rows : rank[r] \in Nat /\ rank[r] > 0 /\ rank[r] <= Cardinality(rows)
  BY <1>1, RankIs, RankIsPositive
<1>4. Cardinality(rows) \in Nat
  BY <1>1, FS_CardinalityType
<1>5. \A n : Gathered(vs, have, v, n) = {r \in rows : rank[r] <= n}
  BY DEF Gathered, rows
<1> HIDE DEF rank
<1>6. {r \in rows : rank[r] <= 0} = {}
  BY <1>3
<1>7. {r \in rows : rank[r] <= from} \cup {r \in rows : rank[r] \in (from + 1)..(from + PageSize)}
        = {r \in rows : rank[r] <= from + PageSize}
  BY <1>2, <1>3
<1>8. Cardinality(rows) <= from + PageSize => {r \in rows : rank[r] <= from + PageSize} = rows
  BY <1>2, <1>3, <1>4
<1>9. {r \in rows : Rank(rows, r) \in (from + 1)..(from + PageSize)}
        = {r \in rows : rank[r] \in (from + 1)..(from + PageSize)}
  BY DEF rank
<1> QED BY <1>5, <1>6, <1>7, <1>8, <1>9 DEF rows

LEMMA PageIsEmpty ==
  ASSUME NEW vs, NEW have \in Nat, NEW v \in Nat, NEW from, v = 0 \/ have = v
  PROVE  PageOf(vs, have, from, v) =
           IF v = 0 THEN EmptyPage("snapshot", 0, 0) ELSE EmptyPage("delta", v, v)
BY Zenon DEF PageOf

Part(p, rows, have, from, v) ==
  /\ p.form = IF have > 0 THEN "delta" ELSE "snapshot"
  /\ p.version = v /\ p.base = have
  /\ p.entries = {r \in rows : Rank(rows, r) \in (from + 1)..(from + PageSize)}
  /\ p.complete = (Cardinality(rows) <= from + PageSize)
  /\ p.next = IF p.complete THEN 0 ELSE from + PageSize

LEMMA PageIsPart ==
  ASSUME NEW vs, NEW v \in Nat, NEW have \in Nat, have < v, NEW from \in Nat
  PROVE  Part(PageOf(vs, have, from, v), Reference!Fold(vs, have, v), have, from, v)
<1> DEFINE p == PageOf(vs, have, from, v)
           lo == IF have > 0 /\ have <= v THEN have ELSE 0
           rows == Reference!Fold(vs, have, v)
           c == Cardinality(rows) <= from + PageSize
<1>1. lo = have /\ (lo > 0 <=> have > 0) /\ v # 0 /\ have # v
  OBVIOUS
<1>2. p = [form |-> IF lo > 0 THEN "delta" ELSE "snapshot", version |-> v, base |-> lo,
           entries |-> {r \in Reference!Fold(vs, lo, v) :
              Rank(Reference!Fold(vs, lo, v), r) \in (from + 1)..(from + PageSize)},
           complete |-> Cardinality(Reference!Fold(vs, lo, v)) <= from + PageSize,
           next |-> IF Cardinality(Reference!Fold(vs, lo, v)) <= from + PageSize THEN 0
                    ELSE from + PageSize]
  BY <1>1, Zenon DEF PageOf
<1> HIDE DEF p, lo
<1>3. p = [form |-> IF have > 0 THEN "delta" ELSE "snapshot", version |-> v, base |-> have,
           entries |-> {r \in rows : Rank(rows, r) \in (from + 1)..(from + PageSize)},
           complete |-> c, next |-> IF c THEN 0 ELSE from + PageSize]
  BY <1>1, <1>2
<1> DEFINE e == {r \in rows : Rank(rows, r) \in (from + 1)..(from + PageSize)}
<1> HIDE DEF c, e
<1>4. /\ p.form = IF have > 0 THEN "delta" ELSE "snapshot"
      /\ p.version = v /\ p.base = have /\ p.entries = e /\ p.complete = c
      /\ p.next = IF c THEN 0 ELSE from + PageSize
  BY <1>3, Zenon DEF e
<1>5. p.next = IF p.complete THEN 0 ELSE from + PageSize
  BY <1>4, Zenon
<1> QED BY <1>4, <1>5, Zenon DEF p, c, e, Part

LEMMA PageIsTyped ==
  ASSUME NEW vs \in Seq(Changes), NEW v \in 0..Len(vs), NEW have \in Nat, NEW from \in Nat
  PROVE  PageOf(vs, have, from, v) \in Pages
<1> DEFINE lo == IF have > 0 /\ have <= v THEN have ELSE 0
           rows == Reference!Fold(vs, lo, v)
           c == Cardinality(rows) <= from + PageSize
           e == {r \in rows : Rank(rows, r) \in (from + 1)..(from + PageSize)}
           full == [form |-> IF lo > 0 THEN "delta" ELSE "snapshot", version |-> v, base |-> lo,
                    entries |-> e, complete |-> c, next |-> IF c THEN 0 ELSE from + PageSize]
<1>1. lo \in 0..v /\ lo \in Nat /\ v \in Nat /\ PageSize \in Nat
  BY SessionsAssumption
<1>2. rows \in SUBSET Row
  BY <1>1, FoldRows
<1>3. e \in SUBSET Row
  BY <1>2
<1>4. \/ PageOf(vs, have, from, v) = EmptyPage("snapshot", 0, 0)
      \/ PageOf(vs, have, from, v) = EmptyPage("delta", v, have)
      \/ PageOf(vs, have, from, v) = full
  BY Zenon DEF PageOf
<1>5. EmptyPage("snapshot", 0, 0) \in Pages /\ EmptyPage("delta", v, have) \in Pages
  BY <1>1 DEF EmptyPage, Pages, Form
<1>6. full \in Pages
  <2>1. c \in BOOLEAN /\ from + PageSize \in Nat
    BY <1>1
  <2> HIDE DEF e, c, lo
  <2> QED BY <1>1, <1>3, <2>1 DEF Pages, Form
<1> QED BY <1>4, <1>5, <1>6

LEMMA PageStays ==
  ASSUME NEW vs \in Seq(Changes), NEW c, NEW v \in 0..Len(vs), NEW have \in Nat, NEW from
  PROVE  PageOf(Append(vs, c), have, from, v) = PageOf(vs, have, from, v)
<1> DEFINE lo == IF have > 0 /\ have <= v THEN have ELSE 0
<1>1. lo \in 0..v
  OBVIOUS
<1>2. Reference!Fold(Append(vs, c), lo, v) = Reference!Fold(vs, lo, v)
  BY <1>1, EarlierStay
<1> QED BY <1>2, Zenon DEF PageOf

-----------------------------------------------------------------------------
(* Fetches: a publish leaves them where they are, a page brings them on.   *)

LEMMA ReachedStays ==
  ASSUME NEW vs \in Seq(Changes), NEW c \in Changes, NEW f \in Fetches, NEW from, NEW v,
         Reached(f, vs, from, v)
  PROVE  Reached(f, Append(vs, c), from, v)
<1>1. v \in 0..Len(vs) /\ v \in 0..Len(Append(vs, c)) /\ f.have \in 0..v
  BY DEF Reached, Fetches
<1>2. Gathered(Append(vs, c), f.have, v, from) = Gathered(vs, f.have, v, from)
  BY <1>1, EarlierStay, Zenon DEF Gathered
<1> QED BY <1>1, <1>2 DEF Reached

LEMMA AsksStays ==
  ASSUME NEW vs \in Seq(Changes), NEW c \in Changes, NEW f \in Fetches, NEW q, Asks(q, f, vs)
  PROVE  Asks(q, f, Append(vs, c))
BY ReachedStays DEF Asks

LEMMA AnswersStays ==
  ASSUME NEW vs \in Seq(Changes), NEW c \in Changes, NEW f \in Fetches, NEW p, Answers(p, f, vs)
  PROVE  Answers(p, f, Append(vs, c))
<1>1. PICK from \in Nat, v \in Nat : Reached(f, vs, from, v) /\ p = PageOf(vs, f.have, from, v)
  BY DEF Answers
<1>2. v \in 0..Len(vs) /\ f.have \in Nat
  BY <1>1 DEF Reached, Fetches
<1>3. p = PageOf(Append(vs, c), f.have, from, v)
  BY <1>1, <1>2, PageStays
<1>4. Reached(f, Append(vs, c), from, v)
  BY <1>1, ReachedStays
<1> QED BY <1>1, <1>3, <1>4 DEF Answers

(* What is asked for is answered.                                          *)
LEMMA AskedIsAnswered ==
  ASSUME NEW a \in Artifacts, published[a] \in Seq(Changes), NEW f \in Fetches,
         NEW q, q.from \in Nat, Asks(q, f, published[a]), f.have <= Len(published[a])
  PROVE  Answers(Page(a, q.have, q.from, q.at), f, published[a])
<1> DEFINE vs == published[a]
           v == Target(a, q.from, q.at)
<1>1. Reached(f, vs, q.from, v) /\ v \in Nat
  <2>1. CASE q.from = 0
    <3>1. v = Len(vs)
      BY <2>1 DEF Target
    <3> QED BY <2>1, <3>1 DEF Asks, Reached
  <2>2. CASE q.from # 0
    <3>1. Reached(f, vs, q.from, q.at) /\ f.have \in Nat
      BY <2>2 DEF Asks, Fetches
    <3>2. q.at \in 0..Len(vs) /\ f.have < q.at
      BY <2>2, <3>1 DEF Reached
    <3>3. v = q.at
      BY <2>2, <3>1, <3>2 DEF Target
    <3> QED BY <3>1, <3>2, <3>3
  <2> QED BY <2>1, <2>2
<1>2. Page(a, q.have, q.from, q.at) = PageOf(vs, f.have, q.from, v) /\ f # NoFetch
  BY Zenon DEF Page, Asks
<1> HIDE DEF v
<1> QED BY <1>1, <1>2 DEF Answers

(* A page agrees with the fetch it answers, and either leaves more to ask  *)
(* for, or says that there is nothing new, or makes the fetch whole.       *)
Fresh(p, f) ==
  /\ p.complete
  /\ \/ p.form = "snapshot" /\ p.version = 0 /\ f.have = 0 /\ f.entries = {} /\ p.entries = {}
     \/ p.form = "delta" /\ p.version = f.have /\ p.base = f.have

LEMMA PageBrings ==
  ASSUME NEW vs \in Seq(Changes), NEW f \in Fetches, NEW p, Answers(p, f, vs),
         NEW a \in Artifacts
  PROVE  LET shape == <<p.form, p.version, p.base>>
             more == [f EXCEPT !.shape = shape, !.entries = f.entries \cup p.entries]
         IN  /\ f.shape \in {<<>>, shape}
             /\ ~p.complete => p.next > 0 /\ Asks(Request(a, f.have, p.next, p.version), more, vs)
             /\ p.complete =>
                  \/ Fresh(p, f)
                  \/ /\ p.version \in (f.have + 1)..Len(vs)
                     /\ shape = ShapeOf(f.have, p.version)
                     /\ f.entries \cup p.entries = Reference!Fold(vs, f.have, p.version)
<1> DEFINE shape == <<p.form, p.version, p.base>>
           entries == f.entries \cup p.entries
           more == [f EXCEPT !.shape = shape, !.entries = entries]
<1>1. PICK from \in Nat, v \in Nat : Reached(f, vs, from, v) /\ p = PageOf(vs, f.have, from, v)
  BY DEF Answers
<1>2. f.have \in Nat /\ v \in 0..Len(vs) /\ f.have \in 0..v /\ PageSize \in Nat \ {0}
  BY <1>1, SessionsAssumption DEF Reached, Fetches
<1>3. CASE v = 0 \/ f.have = v
  <2>1. from = 0 /\ f.shape = <<>> /\ f.entries = {}
    BY <1>1, <1>2, <1>3 DEF Reached
  <2>2. p = IF v = 0 THEN EmptyPage("snapshot", 0, 0) ELSE EmptyPage("delta", v, v)
    BY <1>1, <1>2, <1>3, PageIsEmpty
  <2>3. p.complete /\ Fresh(p, f)
    <3>1. CASE v = 0
      <4>1. f.have = 0
        BY <1>2, <3>1
      <4>2. /\ p.form = "snapshot" /\ p.version = 0 /\ p.entries = {} /\ p.complete
        BY <2>2, <3>1 DEF EmptyPage
      <4> QED BY <2>1, <4>1, <4>2 DEF Fresh
    <3>2. CASE v # 0
      <4>1. f.have = v
        BY <1>3, <3>2
      <4>2. /\ p.form = "delta" /\ p.version = v /\ p.base = v /\ p.complete
        BY <2>2, <3>2 DEF EmptyPage
      <4> QED BY <4>1, <4>2 DEF Fresh
    <3> QED BY <3>1, <3>2
  <2> QED BY <2>1, <2>3
<1>4. CASE v # 0 /\ f.have # v
  <2> DEFINE rows == Reference!Fold(vs, f.have, v)
             got == {r \in rows : Rank(rows, r) \in (from + 1)..(from + PageSize)}
  <2>1. f.have < v
    BY <1>2, <1>4
  <2>2. /\ p.form = IF f.have > 0 THEN "delta" ELSE "snapshot"
        /\ p.version = v /\ p.base = f.have /\ p.entries = got
        /\ p.complete = (Cardinality(rows) <= from + PageSize)
        /\ p.next = IF p.complete THEN 0 ELSE from + PageSize
    <3>1. v \in Nat /\ f.have \in Nat /\ from \in Nat
      BY <1>1, <1>2 DEF Reached
    <3>2. Part(p, rows, f.have, from, v)
      BY <1>1, <2>1, <3>1, PageIsPart
    <3> QED BY <3>2, Zenon DEF Part
  <2>3. /\ Gathered(vs, f.have, v, 0) = {}
        /\ Gathered(vs, f.have, v, from) \cup got = Gathered(vs, f.have, v, from + PageSize)
        /\ Cardinality(rows) <= from + PageSize =>
             Gathered(vs, f.have, v, from + PageSize) = rows
    BY <1>2, GatheredIs
  <2> HIDE DEF got, rows
  <2>4. shape = ShapeOf(f.have, v)
    BY <2>2 DEF ShapeOf
  <2>5. f.shape \in {<<>>, shape} /\ f.entries = Gathered(vs, f.have, v, from)
    BY <1>1, <2>3, <2>4 DEF Reached
  <2>6. entries = Gathered(vs, f.have, v, from + PageSize)
    BY <2>2, <2>3, <2>5
  <2>7. p.complete => entries = rows
    BY <2>2, <2>3, <2>6
  <2>8. ASSUME ~p.complete
        PROVE  p.next > 0 /\ Asks(Request(a, f.have, p.next, p.version), more, vs)
    <3>1. p.next = from + PageSize /\ p.next \in Nat /\ p.next > 0
      BY <1>2, <2>2, <2>8
    <3>2. more.have = f.have /\ more.shape = shape /\ more.entries = entries /\ more # NoFetch
      BY DEF Fetches, NoFetch
    <3> HIDE DEF more, shape, entries
    <3>3. Reached(more, vs, p.next, p.version)
      BY <1>2, <2>1, <2>2, <2>4, <2>6, <3>1, <3>2 DEF Reached
    <3> DEFINE q == Request(a, f.have, p.next, p.version)
    <3>4. q.have = f.have /\ q.from = p.next /\ q.at = p.version
      BY DEF Request
    <3> HIDE DEF q
    <3>5. Asks(q, more, vs)
      BY <3>1, <3>2, <3>3, <3>4 DEF Asks
    <3> QED BY <3>1, <3>5 DEF q
  <2>9. p.version \in (f.have + 1)..Len(vs)
    BY <1>2, <2>1, <2>2
  <2> HIDE DEF shape, entries, more
  <2>10. p.complete => /\ shape = ShapeOf(f.have, p.version)
                       /\ entries = Reference!Fold(vs, f.have, p.version)
    BY <2>2, <2>4, <2>7 DEF rows
  <2> QED BY <2>5, <2>8, <2>9, <2>10 DEF shape, entries, more
<1> QED BY <1>3, <1>4

-----------------------------------------------------------------------------
(* What a whole fetch makes of what a device holds.                        *)

Holding == [version : Nat, rows : SUBSET Row]

Marked(gone, r) == IF \E g \in gone : g.id = r.id THEN [r EXCEPT !.deleted = TRUE] ELSE r

(* The two ways an update is applied, and the third, that it is not.       *)
AsSnapshot(a, version, entries) ==
  [version |-> version,
   rows |-> IF a \in KeepsDeleted THEN entries ELSE {r \in entries : ~r.deleted}]
AsDelta(a, h, version, entries) ==
  LET gone == {r \in entries : r.deleted}
      new == {r \in entries : ~r.deleted}
      kept == {r \in h.rows : \A n \in new : n.id # r.id}
  IN  [version |-> version,
       rows |-> new \cup IF a \in KeepsDeleted THEN {Marked(gone, r) : r \in kept}
                         ELSE {r \in kept : \A g \in gone : g.id # r.id}]

LEMMA AppliedCases ==
  ASSUME NEW a, NEW h, NEW form, NEW version, NEW base, NEW entries
  PROVE  Applied(a, h, form, version, base, entries) =
           IF form = "snapshot" /\ version >= h.version THEN AsSnapshot(a, version, entries)
           ELSE IF form = "delta" /\ version > h.version /\ base = h.version
           THEN AsDelta(a, h, version, entries)
           ELSE h
<1> DEFINE gone == {r \in entries : r.deleted}
<1>1. entries \ gone = {r \in entries : ~r.deleted}
  OBVIOUS
<1>2. CASE form = "snapshot" /\ version >= h.version
  BY <1>1, <1>2, Zenon DEF Applied, AsSnapshot
<1>3. CASE form = "delta" /\ version > h.version /\ base = h.version
  <2>1. ~(form = "snapshot" /\ version >= h.version)
    BY <1>3
  <2> QED BY <1>1, <1>3, <2>1, Zenon DEF Applied, AsDelta, Marked
<1>4. CASE /\ ~(form = "snapshot" /\ version >= h.version)
           /\ ~(form = "delta" /\ version > h.version /\ base = h.version)
  BY <1>4, Zenon DEF Applied
<1> QED BY <1>2, <1>3, <1>4, Zenon

LEMMA MarkedIs ==
  ASSUME NEW gone, NEW r \in Row
  PROVE  /\ Marked(gone, r) \in Row /\ Marked(gone, r).id = r.id
         /\ Marked(gone, r).deleted = (r.deleted \/ \E g \in gone : g.id = r.id)
         /\ ~Marked(gone, r).deleted => Marked(gone, r) = r
<1>1. CASE \E g \in gone : g.id = r.id
  <2>1. Marked(gone, r) = [r EXCEPT !.deleted = TRUE]
    BY <1>1, Zenon DEF Marked
  <2>2. [r EXCEPT !.deleted = TRUE] \in Row /\ [r EXCEPT !.deleted = TRUE].id = r.id
        /\ [r EXCEPT !.deleted = TRUE].deleted = TRUE
    BY DEF Row
  <2> QED BY <1>1, <2>1, <2>2
<1>2. CASE ~\E g \in gone : g.id = r.id
  <2>1. Marked(gone, r) = r
    BY <1>2, Zenon DEF Marked
  <2>2. r.deleted \in BOOLEAN
    BY DEF Row
  <2> QED BY <1>2, <2>1, <2>2
<1> QED BY <1>1, <1>2

LEMMA AppliedIsTyped ==
  ASSUME NEW a, NEW h \in Holding, NEW form, NEW version \in Nat, NEW base,
         NEW entries \in SUBSET Row
  PROVE  Applied(a, h, form, version, base, entries) \in Holding
<1>1. AsSnapshot(a, version, entries) \in Holding
  BY DEF AsSnapshot, Holding
<1>2. AsDelta(a, h, version, entries) \in Holding
  <2> DEFINE gone == {r \in entries : r.deleted}
             new == {r \in entries : ~r.deleted}
             kept == {r \in h.rows : \A n \in new : n.id # r.id}
             rest == IF a \in KeepsDeleted THEN {Marked(gone, r) : r \in kept}
                     ELSE {r \in kept : \A g \in gone : g.id # r.id}
  <2>1. new \in SUBSET Row /\ kept \in SUBSET Row
    BY DEF Holding
  <2> HIDE DEF gone, new, kept
  <2>2. \A r \in kept : Marked(gone, r) \in Row
    BY <2>1, MarkedIs
  <2>3. rest \in SUBSET Row
    BY <2>1, <2>2
  <2> HIDE DEF rest
  <2>4. AsDelta(a, h, version, entries) = [version |-> version, rows |-> new \cup rest]
    BY Zenon DEF AsDelta, gone, new, kept, rest
  <2> QED BY <2>1, <2>3, <2>4 DEF Holding
<1> QED BY <1>1, <1>2, AppliedCases

LEMMA SnapshotIsWhole ==
  ASSUME NEW a, NEW version, NEW entries \in SUBSET Row
  PROVE  Reference!Usable(AsSnapshot(a, version, entries).rows) = Reference!Usable(entries)
BY DEF AsSnapshot, Reference!Usable

LEMMA DeltaIsWhole ==
  ASSUME NEW a, NEW h \in Holding, NEW version, NEW entries \in SUBSET Row
  PROVE  Reference!Usable(AsDelta(a, h, version, entries).rows) =
           Reference!Usable(entries) \cup
           {r \in Reference!Usable(h.rows) : \A n \in entries : n.id # r.id}
<1> DEFINE gone == {r \in entries : r.deleted}
           new == {r \in entries : ~r.deleted}
           kept == {r \in h.rows : \A n \in new : n.id # r.id}
           rest == IF a \in KeepsDeleted THEN {Marked(gone, r) : r \in kept}
                   ELSE {r \in kept : \A g \in gone : g.id # r.id}
           old == {r \in Reference!Usable(h.rows) : \A n \in entries : n.id # r.id}
<1>1. new \in SUBSET Row /\ kept \in SUBSET Row /\ new = Reference!Usable(entries)
      /\ Reference!Usable(new) = new
  BY DEF Holding, Reference!Usable
<1>2. \A r : (\A n \in entries : n.id # r.id) <=>
             (\A n \in new : n.id # r.id) /\ (\A g \in gone : g.id # r.id)
  <2>1. \A n \in entries : n \in new \/ n \in gone
    OBVIOUS
  <2> QED BY <2>1
<1>3. old = {r \in kept : ~r.deleted /\ \A g \in gone : g.id # r.id}
  BY <1>2 DEF Reference!Usable
<1> HIDE DEF gone, new, kept, old
<1>4. Reference!Usable(rest) = old
  <2>1. CASE a \in KeepsDeleted
    <3>1. ASSUME NEW r \in kept PROVE ~Marked(gone, r).deleted <=> r \in old
      <4>1. r \in Row /\ r.deleted \in BOOLEAN
        BY <1>1 DEF Row
      <4>2. Marked(gone, r).deleted = (r.deleted \/ \E g \in gone : g.id = r.id)
        BY <4>1, MarkedIs
      <4> QED BY <1>3, <4>2
    <3>2. \A r \in kept : ~Marked(gone, r).deleted => Marked(gone, r) = r
      BY <1>1, MarkedIs
    <3>3. rest = {Marked(gone, r) : r \in kept} /\ old \subseteq kept
      BY <2>1, <1>3
    <3>4. Reference!Usable(rest) = {s \in rest : ~s.deleted}
      BY DEF Reference!Usable
    <3> HIDE DEF rest
    <3>5. ASSUME NEW s \in rest, ~s.deleted PROVE s \in old
      <4>1. PICK r \in kept : s = Marked(gone, r)
        BY <3>3, <3>5
      <4> QED BY <3>1, <3>2, <3>5, <4>1
    <3>6. ASSUME NEW s \in old PROVE s \in rest /\ ~s.deleted
      <4>1. s \in kept /\ ~Marked(gone, s).deleted /\ Marked(gone, s) = s
        BY <3>1, <3>2, <3>3, <3>6
      <4> QED BY <3>3, <4>1
    <3> QED BY <3>4, <3>5, <3>6
  <2>2. CASE a \notin KeepsDeleted
    BY <2>2, <1>3 DEF Reference!Usable
  <2> QED BY <2>1, <2>2
<1> HIDE DEF rest
<1>5. AsDelta(a, h, version, entries).rows = new \cup rest
  <2>1. AsDelta(a, h, version, entries) = [version |-> version, rows |-> new \cup rest]
    BY Zenon DEF AsDelta, gone, new, kept, rest
  <2> QED BY <2>1
<1>6. Reference!Usable(new \cup rest) = Reference!Usable(new) \cup Reference!Usable(rest)
  BY DEF Reference!Usable
<1> QED BY <1>1, <1>4, <1>5, <1>6 DEF old

(* What a complete fetch makes of what the device holds: nothing new, or   *)
(* a later version in full.                                                *)
Brings(h, n, versions) ==
  \/ n.version = h.version /\ Reference!Usable(n.rows) = Reference!Usable(h.rows)
  \/ /\ n.version \in (h.version + 1)..Len(versions)
     /\ Reference!Usable(n.rows) = Reference!Usable(Reference!Fold(versions, 0, n.version))

(* The update that brings a device to a version gives it that version.     *)
LEMMA UpdateIsWhole ==
  ASSUME NEW vs \in Seq(Changes), NEW h \in Holding, Whole(h, vs), NEW a,
         NEW v \in (h.version + 1)..Len(vs)
  PROVE  LET n == Applied(a, h, IF h.version > 0 THEN "delta" ELSE "snapshot", v, h.version,
                          Reference!Fold(vs, h.version, v))
         IN  /\ n.version = v
             /\ Reference!Usable(n.rows) = Reference!Usable(Reference!Fold(vs, 0, v))
<1> DEFINE entries == Reference!Fold(vs, h.version, v)
           form == IF h.version > 0 THEN "delta" ELSE "snapshot"
           n == Applied(a, h, form, v, h.version, entries)
<1>1. h.version \in 0..v /\ h.version \in Nat /\ v \in Nat /\ v \in 0..Len(vs) /\ v > h.version
  BY DEF Holding
<1>2. entries \in SUBSET Row
  BY <1>1, FoldRows
<1>3. \A r : (\A e \in entries : e.id # r.id) <=> r.id \notin Reference!Changed(vs, h.version, v)
  BY FoldIs
<1>4. Reference!Usable(Reference!Fold(vs, 0, v)) =
        Reference!Usable(entries) \cup
        {r \in Reference!Usable(h.rows) : r.id \notin Reference!Changed(vs, h.version, v)}
  BY <1>1, DeltaIs DEF Whole
<1> HIDE DEF entries
<1>5. CASE h.version > 0
  <2>1. n = AsDelta(a, h, v, entries)
    BY <1>1, <1>5, AppliedCases
  <2>2. n.version = v
    BY <2>1 DEF AsDelta
  <2>3. Reference!Usable(n.rows) = Reference!Usable(entries) \cup
          {r \in Reference!Usable(h.rows) : \A e \in entries : e.id # r.id}
    BY <1>2, <2>1, DeltaIsWhole
  <2> HIDE DEF n
  <2>4. Reference!Usable(n.rows) = Reference!Usable(Reference!Fold(vs, 0, v))
    BY <1>3, <1>4, <2>3
  <2> QED BY <2>2, <2>4 DEF n, entries
<1>6. CASE h.version = 0
  <2>1. n = AsSnapshot(a, v, entries)
    BY <1>1, <1>6, AppliedCases
  <2>2. n.version = v
    BY <2>1 DEF AsSnapshot
  <2>3. Reference!Usable(n.rows) = Reference!Usable(entries)
    BY <1>2, <2>1, SnapshotIsWhole
  <2>4. entries = Reference!Fold(vs, 0, v)
    BY <1>6 DEF entries
  <2> HIDE DEF n
  <2>5. Reference!Usable(n.rows) = Reference!Usable(Reference!Fold(vs, 0, v))
    BY <2>3, <2>4
  <2> QED BY <2>2, <2>5 DEF n, entries
<1> QED BY <1>1, <1>5, <1>6

Both(f, p) == f.entries \cup p.entries

(* And a page that says that there is nothing new changes nothing.         *)
LEMMA FreshChangesNothing ==
  ASSUME NEW vs, NEW h \in Holding, Whole(h, vs), NEW a, NEW f, f.have = h.version,
         NEW p, Fresh(p, f)
  PROVE  Brings(h, Applied(a, h, p.form, p.version, p.base, Both(f, p)), vs)
<1> DEFINE e == Both(f, p)
           n == Applied(a, h, p.form, p.version, p.base, e)
<1>0. h.version \in Nat
  BY DEF Holding
<1>1. CASE p.form = "snapshot" /\ p.version = 0 /\ f.have = 0 /\ f.entries = {} /\ p.entries = {}
  <2>0. n = Applied(a, h, "snapshot", 0, p.base, {}) /\ 0 >= h.version
    <3>1. e = {}
      BY <1>1 DEF Both
    <3> QED BY <1>1, <3>1
  <2>1. n = AsSnapshot(a, 0, {})
    BY <2>0, AppliedCases
  <2>2. n.version = 0 /\ n.rows = {}
    BY <2>1 DEF AsSnapshot
  <2>3. Reference!Fold(vs, 0, 0) = {}
    BY DEF Reference!Fold, Reference!Changed
  <2>4. Reference!Usable(h.rows) = {}
    BY <1>1, <2>3 DEF Whole, Reference!Usable
  <2> HIDE DEF n
  <2>5. Reference!Usable(n.rows) = {}
    BY <2>2 DEF Reference!Usable
  <2> QED BY <1>1, <2>2, <2>4, <2>5 DEF n, Brings
<1>2. CASE p.form = "delta" /\ p.version = f.have /\ p.base = f.have
  <2>1. n = h
    BY <1>0, <1>2, AppliedCases
  <2> QED BY <2>1 DEF Brings
<1> QED BY <1>1, <1>2 DEF Fresh

-----------------------------------------------------------------------------
(* Frames and tasks, by their kind.                                        *)

LEMMA UpFrameIs ==
  ASSUME NEW d \in Devices, NEW x \in UpFrame(d)
  PROVE  /\ x.kind = "hello" => x.token \in Token(d)
         /\ x.kind = "push" => x \in PushOf
         /\ x.kind \in {"catchup_request", "reference_request"} => x \in Reads
BY DEF UpFrame, PushOf, Reads

LEMMA ReadIs ==
  ASSUME NEW x \in Reads, x.kind = "reference_request"
  PROVE  x.artifact \in Artifacts /\ x.have \in Nat /\ x.from \in Nat /\ x.at \in Nat
BY DEF Reads

LEMMA DownFrameIs ==
  ASSUME NEW d \in Devices, NEW x \in DownFrame(d)
  PROVE  /\ x.kind = "hello_ack" => /\ x.token \in MaybeToken(d) /\ x.versions \in Told
                                    /\ x.relay \in BOOLEAN
         /\ x.kind = "push_ack" => x.origin \in Devices /\ x.upto \in Nat
                                   /\ x.token \in MaybeToken(x.origin)
         /\ x.kind = "origin_revoked" => x.origin \in Devices
         /\ x.kind = "reference_notice" => x.artifact \in Artifacts /\ x.version \in Nat
         /\ x.kind = "reference_response" => x.artifact \in Artifacts /\ x.page \in Pages
BY DEF DownFrame, Renewing, Responses

LEMMA TaskIs ==
  ASSUME NEW d \in Devices, NEW t \in Task(d)
  PROVE  /\ t.at \in {"join", "versions", "hello_ack"} => t.token \in Token(d)
         /\ t.at = "join" => t.expired \in BOOLEAN
         /\ t.at = "hello_ack" => t.versions \in Told
         /\ t.at = "merge" => t.push \in PushOf /\ t.session \in Session(d)
         /\ t.at = "renew" => t.origin \in Devices /\ t.session \in Session(d)
                              /\ t.upto \in Nat /\ t.fresh \in BOOLEAN
         /\ t.at = "ack" => t.origin \in Devices /\ t.upto \in Nat /\ t.fresh \in BOOLEAN
                            /\ t.token \in MaybeToken(t.origin)
         /\ t.at = "send" => t \in FanningOut
         /\ t.at = "page" => t.request \in Reads
BY DEF Task, Acking, FanningOut, NoTask

-----------------------------------------------------------------------------
(* What the parts of steps do to the state.                                *)

LEMMA UpSet ==
  ASSUME UpTypes, NEW d \in Devices, NEW u \in Seq(UpFrame(d)), up' = [up EXCEPT ![d] = u]
  PROVE  UpTypes' /\ up'[d] = u /\ \A e \in Devices : e # d => up'[e] = up[e]
<1>1. up' = [e \in Devices |-> IF e = d THEN u ELSE up[e]]
  BY DEF UpTypes, Mapped
<1>2. \A e \in Devices : up'[e] = IF e = d THEN u ELSE up[e]
  BY <1>1
<1>3. Mapped(up')
  BY <1>1, <1>2 DEF Mapped
<1> QED BY <1>2, <1>3 DEF UpTypes

LEMMA DownSet ==
  ASSUME DownTypes, NEW d \in Devices, NEW w \in Seq(DownFrame(d)), down' = [down EXCEPT ![d] = w]
  PROVE  DownTypes' /\ down'[d] = w /\ \A e \in Devices : e # d => down'[e] = down[e]
<1>1. down' = [e \in Devices |-> IF e = d THEN w ELSE down[e]]
  BY DEF DownTypes, Mapped
<1>2. \A e \in Devices : down'[e] = IF e = d THEN w ELSE down[e]
  BY <1>1
<1>3. Mapped(down')
  BY <1>1, <1>2 DEF Mapped
<1> QED BY <1>2, <1>3 DEF DownTypes

LEMMA RecordSet ==
  ASSUME RecordTypes, NEW d \in Devices, NEW r \in Record(d), record' = [record EXCEPT ![d] = r]
  PROVE  RecordTypes' /\ record'[d] = r /\ \A e \in Devices : e # d => record'[e] = record[e]
<1>1. record' = [e \in Devices |-> IF e = d THEN r ELSE record[e]]
  BY DEF RecordTypes, Mapped
<1>2. \A e \in Devices : record'[e] = IF e = d THEN r ELSE record[e]
  BY <1>1
<1>3. Mapped(record')
  BY <1>1, <1>2 DEF Mapped
<1> QED BY <1>2, <1>3 DEF RecordTypes

LEMMA TaskSet ==
  ASSUME TaskTypes, NEW d \in Devices, NEW t \in Task(d), task' = [task EXCEPT ![d] = t]
  PROVE  TaskTypes' /\ task'[d] = t /\ \A e \in Devices : e # d => task'[e] = task[e]
<1>1. task' = [e \in Devices |-> IF e = d THEN t ELSE task[e]]
  BY DEF TaskTypes, Mapped
<1>2. \A e \in Devices : task'[e] = IF e = d THEN t ELSE task[e]
  BY <1>1
<1>3. Mapped(task')
  BY <1>1, <1>2 DEF Mapped
<1> QED BY <1>2, <1>3 DEF TaskTypes

LEMMA DeviceSet ==
  ASSUME DeviceTypes, NEW d \in Devices, NEW m \in Memory(d), device' = [device EXCEPT ![d] = m]
  PROVE  DeviceTypes' /\ device'[d] = m /\ \A e \in Devices : e # d => device'[e] = device[e]
<1>1. device' = [e \in Devices |-> IF e = d THEN m ELSE device[e]]
  BY DEF DeviceTypes, Mapped
<1>2. \A e \in Devices : device'[e] = IF e = d THEN m ELSE device[e]
  BY <1>1
<1>3. Mapped(device')
  BY <1>1, <1>2 DEF Mapped
<1> QED BY <1>2, <1>3 DEF DeviceTypes

Linked(m, l) == [m EXCEPT !.link = l]

LEMMA LinkSet ==
  ASSUME NEW d \in Devices, NEW m \in Memory(d), NEW l \in {"down", "up", "closing"}
  PROVE  /\ Linked(m, l) \in Memory(d)
         /\ Linked(m, l).link = l /\ Linked(m, l).fetch = m.fetch
BY DEF Memory, Linked

LEMMA NoTaskIs == ASSUME NEW d PROVE NoTask \in Task(d) /\ NoTask.at = "none"
BY DEF NoTask, Task

LEMMA FramesTyped ==
  ASSUME DownTypes, NEW d \in Devices, NEW fs \in Seq(DownFrame(d))
  PROVE  Frames(d, fs) \in Seq(DownFrame(d))
BY DEF DownTypes, Frames

LEMMA ReplyIs ==
  ASSUME DownTypes, NEW d \in Devices, NEW fs \in Seq(DownFrame(d)), Reply(d, fs)
  PROVE  DownTypes' /\ down'[d] = Frames(d, fs) /\ \A e \in Devices : e # d => down'[e] = down[e]
BY FramesTyped, DownSet DEF Reply

LEMMA Next1Is ==
  ASSUME UpTypes, NEW d \in Devices, NEW kinds, Next1(d, kinds)
  PROVE  /\ UpTypes' /\ up[d] # <<>> /\ task[d] = NoTask
         /\ Head(up[d]) \in UpFrame(d) /\ Head(up[d]).kind \in kinds
         /\ up'[d] = Tail(up[d]) /\ \A e \in Devices : e # d => up'[e] = up[e]
<1>1. up[d] # <<>> /\ task[d] = NoTask /\ Head(up[d]).kind \in kinds /\ up[d] \in Seq(UpFrame(d))
      /\ up' = [up EXCEPT ![d] = Tail(up[d])]
  BY DEF Next1, UpTypes
<1>2. Head(up[d]) \in UpFrame(d) /\ Tail(up[d]) \in Seq(UpFrame(d))
  BY <1>1
<1> QED BY <1>1, <1>2, UpSet

LEMMA ReceivesIs ==
  ASSUME DownTypes, NEW d \in Devices, NEW kinds, Receives(d, kinds)
  PROVE  /\ DownTypes' /\ down[d] # <<>>
         /\ Head(down[d]) \in DownFrame(d) /\ Head(down[d]).kind \in kinds
         /\ down'[d] = Tail(down[d]) /\ \A e \in Devices : e # d => down'[e] = down[e]
<1>1. down[d] # <<>> /\ Head(down[d]).kind \in kinds /\ down[d] \in Seq(DownFrame(d))
      /\ down' = [down EXCEPT ![d] = Tail(down[d])]
  BY DEF Receives, DownTypes
<1>2. Head(down[d]) \in DownFrame(d) /\ Tail(down[d]) \in Seq(DownFrame(d))
  BY <1>1
<1> QED BY <1>1, <1>2, DownSet

LEMMA AskIs ==
  ASSUME UpTypes, NEW d \in Devices, NEW fs \in Seq(UpFrame(d)), Ask(d, fs)
  PROVE  /\ UpTypes' /\ up'[d] = IF device[d].link = "up" THEN up[d] \o fs ELSE up[d]
         /\ \A e \in Devices : e # d => up'[e] = up[e]
<1> DEFINE u == IF device[d].link = "up" THEN up[d] \o fs ELSE up[d]
<1>1. u \in Seq(UpFrame(d))
  BY DEF UpTypes
<1>2. up' = [up EXCEPT ![d] = u]
  BY DEF Ask
<1> HIDE DEF u
<1>3. UpTypes' /\ up'[d] = u /\ \A e \in Devices : e # d => up'[e] = up[e]
  BY <1>1, <1>2, UpSet
<1> QED BY <1>3 DEF u

LEMMA RefuseIs ==
  ASSUME DownTypes, RecordTypes, DeviceTypes, NEW d \in Devices, NEW fs \in Seq(DownFrame(d)),
         Refuse(d, fs)
  PROVE  /\ DownTypes' /\ down'[d] = Frames(d, fs)
         /\ \A e \in Devices : e # d => down'[e] = down[e]
         /\ RecordTypes' /\ record'[d].session = record[d].session
         /\ ~record'[d].open /\ ~record'[d].joined
         /\ \A e \in Devices : e # d => record'[e] = record[e]
         /\ DeviceTypes' /\ \A e \in Devices : e # d => device'[e] = device[e]
         /\ device'[d].link = IF device[d].link = "up" THEN "closing" ELSE device[d].link
         /\ device'[d].fetch = device[d].fetch
         /\ task' = task
<1>1. DownTypes' /\ down'[d] = Frames(d, fs) /\ \A e \in Devices : e # d => down'[e] = down[e]
  BY ReplyIs DEF Refuse
<1> DEFINE r == [record[d] EXCEPT !.open = FALSE, !.joined = FALSE]
<1>2. r \in Record(d) /\ r.session = record[d].session /\ r.joined = FALSE /\ r.open = FALSE
  BY DEF RecordTypes, Record
<1>3. record' = [record EXCEPT ![d] = r]
  BY DEF Refuse, RecordTypes, Mapped
<1> HIDE DEF r
<1>4. RecordTypes' /\ record'[d] = r /\ \A e \in Devices : e # d => record'[e] = record[e]
  BY <1>2, <1>3, RecordSet
<1> DEFINE l == IF device[d].link = "up" THEN "closing" ELSE device[d].link
           m == Linked(device[d], l)
<1>5. device[d] \in Memory(d) /\ l \in {"down", "up", "closing"}
  BY DEF DeviceTypes, Memory
<1>6. device' = [device EXCEPT ![d] = m]
  BY DEF Refuse, DeviceTypes, Mapped, Linked
<1> HIDE DEF l
<1>7. m \in Memory(d) /\ m.link = l /\ m.fetch = device[d].fetch
  BY <1>5, LinkSet
<1> HIDE DEF m
<1>8. DeviceTypes' /\ device'[d] = m /\ \A e \in Devices : e # d => device'[e] = device[e]
  BY <1>6, <1>7, DeviceSet
<1> QED BY <1>1, <1>2, <1>4, <1>7, <1>8 DEF l, Refuse

LEMMA OneFrame == ASSUME NEW S, NEW x \in S PROVE <<x>> \in Seq(S) /\ <<>> \in Seq(S)
OBVIOUS

-----------------------------------------------------------------------------
(* Most steps are tame: of what the invariants are about they only take    *)
(* away.                                                                   *)

Leading == {"hello", "reference_request"}
Bringing == {"reference_response"}

Fewer(s2, s, kinds) ==
  \E n \in {0, 1} : \A i \in 1..Len(s2) :
    s2[i].kind \in kinds => i + n \in 1..Len(s) /\ s[i + n] = s2[i]
Harmless(fs, kinds) == \A i \in 1..Len(fs) : fs[i].kind \notin kinds

UpTame(e) ==
  Fewer(up'[e], up[e], Leading) /\ (device[e].link = "down" => up'[e] = up[e])
DownTame(e) ==
  Fewer(down'[e], down[e], Bringing) /\ (device[e].link = "down" => down'[e] = down[e])
DeviceTame(e) ==
  /\ device'[e].link = "down" <=> device[e].link = "down"
  /\ device'[e].fetch = device[e].fetch
RecordTame(e) ==
  /\ record'[e].session \in {record[e].session, NoSession}
  /\ record'[e].joined => record[e].joined
  /\ record'[e].open => record[e].open
PageTame(e) == task'[e].at = "page" => task'[e] = task[e]
TaskTame(e) == PageTame(e) /\ (task'[e].at = "join" => task'[e] = task[e])
SendsTame(e) ==
  \A x \in Devices : Sends(x, e)' => Sends(x, e) /\ (e \notin task'[x].culled => e \notin task[x].culled)

Calm(e) == UpTame(e) /\ DownTame(e) /\ DeviceTame(e) /\ PageTame(e) /\ held'[e] = held[e]
Tame(e) ==
  /\ Calm(e) /\ RecordTame(e) /\ TaskTame(e) /\ SendsTame(e)
  /\ (e \in revoked' => e \in revoked) /\ cleared'[e] = cleared[e]

Legal(d) ==
  Gone(d) /\ HelloIsFirst(d) /\ JoinIsFirst(d) /\ ReadersRead(d) /\ ClearedBefore(d)
Supplied(d) == \A a \in Artifacts : Fetching(d, a) /\ Whole(held[d][a], published[a])

IInv == Types /\ \A d \in Devices : Legal(d) /\ Supplied(d)

LEMMA FewerOfTail ==
  ASSUME NEW S, NEW s \in Seq(S), NEW kinds
  PROVE  Fewer(s, s, kinds) /\ (s # <<>> => Fewer(Tail(s), s, kinds))
<1>1. \A i \in 1..Len(s) : i + 0 \in 1..Len(s) /\ s[i + 0] = s[i]
  OBVIOUS
<1>2. ASSUME s # <<>>, NEW i \in 1..Len(Tail(s))
      PROVE  i + 1 \in 1..Len(s) /\ s[i + 1] = Tail(s)[i]
  BY <1>2
<1> QED BY <1>1, <1>2 DEF Fewer

LEMMA FewerWithHarmless ==
  ASSUME NEW S, NEW s \in Seq(S), NEW fs \in Seq(S), NEW kinds, Harmless(fs, kinds)
  PROVE  Fewer(s \o fs, s, kinds)
<1>1. ASSUME NEW i \in 1..Len(s \o fs), (s \o fs)[i].kind \in kinds
      PROVE  i + 0 \in 1..Len(s) /\ s[i + 0] = (s \o fs)[i]
  <2>1. CASE i <= Len(s)
    BY <2>1
  <2>2. CASE i > Len(s)
    <3>1. i - Len(s) \in 1..Len(fs) /\ (s \o fs)[i] = fs[i - Len(s)]
      BY <2>2
    <3> QED BY <1>1, <3>1 DEF Harmless
  <2> QED BY <2>1, <2>2
<1> QED BY <1>1 DEF Fewer

LEMMA FramesAreTame ==
  ASSUME DownTypes, NEW d \in Devices, NEW fs \in Seq(DownFrame(d)), Harmless(fs, Bringing),
         down'[d] = Frames(d, fs)
  PROVE  DownTame(d)
BY FewerOfTail, FewerWithHarmless DEF DownTypes, Frames, DownTame

LEMMA AskIsTame ==
  ASSUME UpTypes, NEW d \in Devices, NEW fs \in Seq(UpFrame(d)), Harmless(fs, Leading),
         up'[d] = IF device[d].link = "up" THEN up[d] \o fs ELSE up[d]
  PROVE  UpTame(d)
BY FewerOfTail, FewerWithHarmless DEF UpTypes, UpTame

LEMMA TakenIsTame ==
  ASSUME UpTypes, NEW d \in Devices, up[d] # <<>>, up'[d] = Tail(up[d]), Gone(d)
  PROVE  UpTame(d)
BY FewerOfTail DEF UpTypes, UpTame, Gone

LEMMA ReceivedIsTame ==
  ASSUME DownTypes, NEW d \in Devices, down[d] # <<>>, down'[d] = Tail(down[d]), Gone(d)
  PROVE  DownTame(d)
BY FewerOfTail DEF DownTypes, DownTame, Gone

LEMMA SameIsTame ==
  ASSUME Types, NEW e \in Devices
  PROVE  /\ up'[e] = up[e] => UpTame(e)
         /\ down'[e] = down[e] => DownTame(e)
         /\ device'[e] = device[e] => DeviceTame(e)
         /\ record'[e] = record[e] => RecordTame(e)
         /\ task'[e] = task[e] => TaskTame(e)
<1>1. Fewer(up[e], up[e], Leading) /\ Fewer(down[e], down[e], Bringing)
  BY FewerOfTail DEF Types, UpTypes, DownTypes
<1> QED BY <1>1 DEF UpTame, DownTame, DeviceTame, RecordTame, TaskTame, PageTame

(* No fan-out sends to anyone it did not send to.                          *)
LEMMA SendsStay ==
  ASSUME NEW e \in Devices, \A x \in Devices : task'[x].at = "send" => task'[x] = task[x]
  PROVE  SendsTame(e)
BY DEF SendsTame, Sends


Inherits(s2, s, k, a) ==
  /\ Single(s, k, a) => Single(s2, k, a)
  /\ None(s, k, a) => None(s2, k, a)
  /\ \A i \in 1..Len(s2) : About(s2[i], k, a) => \E j \in 1..Len(s) : s[j] = s2[i]

LEMMA FewerAbout ==
  ASSUME NEW S, NEW s \in Seq(S), NEW s2 \in Seq(S), NEW kinds, NEW k \in kinds, NEW a,
         Fewer(s2, s, kinds)
  PROVE  Inherits(s2, s, k, a)
<1>1. PICK n \in {0, 1} : \A i \in 1..Len(s2) :
        s2[i].kind \in kinds => i + n \in 1..Len(s) /\ s[i + n] = s2[i]
  BY DEF Fewer
<1>2. \A i \in 1..Len(s2) : About(s2[i], k, a) =>
        i + n \in 1..Len(s) /\ s[i + n] = s2[i] /\ About(s[i + n], k, a)
  BY <1>1 DEF About
<1>3. \A i, j \in 1..Len(s2) : i + n = j + n => i = j
  BY <1>1
<1>4. Single(s, k, a) => Single(s2, k, a)
  BY <1>2, <1>3 DEF Single
<1>5. None(s, k, a) => None(s2, k, a)
  BY <1>2 DEF None
<1> QED BY <1>2, <1>4, <1>5 DEF Inherits

LEMMA FlowsInherit ==
  ASSUME NEW u, NEW u2, NEW w, NEW w2, NEW t, NEW t2, NEW f, NEW h, NEW versions, NEW a,
         Flows(u, w, t, f, h, versions, a),
         Inherits(u2, u, "reference_request", a), Inherits(w2, w, "reference_response", a),
         Serves(t2, a) => t2 = t
  PROVE  Flows(u2, w2, t2, f, h, versions, a)
<1>2. /\ Single(u, "reference_request", a) => Single(u2, "reference_request", a)
      /\ None(u, "reference_request", a) => None(u2, "reference_request", a)
      /\ \A i \in 1..Len(u2) : About(u2[i], "reference_request", a) =>
           \E j \in 1..Len(u) : u[j] = u2[i]
  BY DEF Inherits
<1>3. /\ Single(w, "reference_response", a) => Single(w2, "reference_response", a)
      /\ None(w, "reference_response", a) => None(w2, "reference_response", a)
      /\ \A i \in 1..Len(w2) : About(w2[i], "reference_response", a) =>
           \E j \in 1..Len(w) : w[j] = w2[i]
  BY DEF Inherits
<1>4. Serves(t2, a) => Serves(t, a) /\ t2 = t
  OBVIOUS
<1>5. /\ Single(u2, "reference_request", a) /\ Single(w2, "reference_response", a)
      /\ None(u2, "reference_request", a) \/ (None(w2, "reference_response", a) /\ ~Serves(t2, a))
      /\ None(w2, "reference_response", a) \/ ~Serves(t2, a)
      /\ Serves(t2, a) => Asks(t2.request, f, versions)
      /\ f # NoFetch => f.have = h.version
  BY <1>2, <1>3, <1>4 DEF Flows
<1>6. \A i \in 1..Len(u2) : About(u2[i], "reference_request", a) => Asks(u2[i], f, versions)
  <2>1. \A j \in 1..Len(u) : About(u[j], "reference_request", a) => Asks(u[j], f, versions)
    BY DEF Flows
  <2> QED BY <1>2, <2>1
<1>7. \A i \in 1..Len(w2) : About(w2[i], "reference_response", a) => Answers(w2[i].page, f, versions)
  <2>1. \A j \in 1..Len(w) : About(w[j], "reference_response", a) => Answers(w[j].page, f, versions)
    BY DEF Flows
  <2> QED BY <1>3, <2>1
<1> QED BY <1>5, <1>6, <1>7 DEF Flows

LEMMA FlowsFewer ==
  ASSUME NEW S, NEW u \in Seq(S), NEW u2 \in Seq(S), NEW R, NEW w \in Seq(R), NEW w2 \in Seq(R),
         NEW t, NEW t2, NEW f, NEW h, NEW versions, NEW a, Flows(u, w, t, f, h, versions, a),
         Fewer(u2, u, Leading), Fewer(w2, w, Bringing), Serves(t2, a) => t2 = t
  PROVE  Flows(u2, w2, t2, f, h, versions, a)
<1>1. "reference_request" \in Leading /\ "reference_response" \in Bringing
  BY DEF Leading, Bringing
<1>2. Inherits(u2, u, "reference_request", a) /\ Inherits(w2, w, "reference_response", a)
  BY <1>1, FewerAbout
<1> QED BY <1>2, FlowsInherit

LEMMA TameStaysLegal ==
  ASSUME Types, Types', NEW e \in Devices, Legal(e), Tame(e)
  PROVE  Legal(e)'
<1>1. Gone(e)'
  BY DEF Legal, Gone, Tame, Calm, UpTame, DownTame, DeviceTame, RecordTame, SendsTame, HasSession
<1>2. HelloIsFirst(e)'
  <2>1. ASSUME NEW i \in 1..Len(up'[e]), up'[e][i].kind = "hello"
        PROVE  i = 1 /\ ~HasSession(e)' /\ \A x \in Devices : ~Sends(x, e)'
    <3>1. PICK n \in {0, 1} : i + n \in 1..Len(up[e]) /\ up[e][i + n] = up'[e][i]
      BY <2>1 DEF Tame, Calm, UpTame, Fewer, Leading
    <3>2. i + n = 1 /\ ~HasSession(e) /\ \A x \in Devices : ~Sends(x, e)
      BY <2>1, <3>1 DEF Legal, HelloIsFirst
    <3>3. i \in Nat /\ i >= 1
      BY DEF Types, UpTypes
    <3>4. i = 1
      BY <3>1, <3>2, <3>3
    <3> QED BY <3>2, <3>4 DEF Tame, Calm, RecordTame, SendsTame, HasSession
  <2> QED BY <2>1 DEF HelloIsFirst
<1>3. ReadersRead(e)'
  <2>1. HasSession(e)' => HasSession(e) /\ record'[e].session = record[e].session
    BY DEF Tame, Calm, RecordTame, HasSession
  <2> QED BY <2>1 DEF Legal, ReadersRead, Tame, Calm, RecordTame, PageTame, SendsTame
<1>4. ClearedBefore(e)'
  BY DEF Legal, ClearedBefore, Tame, Calm, PageTame, SendsTame
<1>5. JoinIsFirst(e)'
  <2>1. SUFFICES ASSUME task'[e].at = "join" PROVE JoinIsFirst(e)'
    BY DEF JoinIsFirst
  <2>2. /\ \A i \in 1..Len(up[e]) : up[e][i].kind # "hello"
        /\ ~HasSession(e) /\ \A x \in Devices : ~Sends(x, e)
    BY <2>1 DEF Tame, TaskTame, Legal, JoinIsFirst
  <2>3. \A i \in 1..Len(up'[e]) : up'[e][i].kind # "hello"
    BY <2>2 DEF Tame, Calm, UpTame, Fewer, Leading
  <2>4. ~HasSession(e)' /\ \A x \in Devices : ~Sends(x, e)'
    BY <2>2 DEF Tame, RecordTame, SendsTame, HasSession
  <2> QED BY <2>3, <2>4 DEF JoinIsFirst
<1> QED BY <1>1, <1>2, <1>3, <1>4, <1>5 DEF Legal

LEMMA SuppliedStays ==
  ASSUME Types, Types', NEW e \in Devices, Supplied(e), Calm(e), published' = published
  PROVE  Supplied(e)'
<1>1. ASSUME NEW a \in Artifacts PROVE Fetching(e, a)' /\ Whole(held[e][a], published[a])'
  <2>1. Fetching(e, a) /\ Whole(held[e][a], published[a])
    BY DEF Supplied
  <2>2. held'[e][a] = held[e][a] /\ published'[a] = published[a]
    BY DEF Calm
  <2>3. Whole(held[e][a], published[a])'
    BY <2>1, <2>2 DEF Whole
  <2>4. ASSUME device'[e].link # "down"
        PROVE  Flows(up[e], down[e], task[e], device[e].fetch[a], held[e][a], published[a], a)'
    <3>1. Flows(up[e], down[e], task[e], device[e].fetch[a], held[e][a], published[a], a)
      BY <2>1, <2>4 DEF Fetching, Calm, DeviceTame
    <3>2. up[e] \in Seq(UpFrame(e)) /\ up'[e] \in Seq(UpFrame(e))
      BY DEF Types, UpTypes
    <3>3. down[e] \in Seq(DownFrame(e)) /\ down'[e] \in Seq(DownFrame(e))
      BY DEF Types, DownTypes
    <3>4. /\ Fewer(up'[e], up[e], Leading) /\ Fewer(down'[e], down[e], Bringing)
          /\ Serves(task'[e], a) => task'[e] = task[e]
          /\ device'[e].fetch = device[e].fetch
      BY DEF Calm, UpTame, DownTame, PageTame, DeviceTame, Serves
    <3>5. Flows(up'[e], down'[e], task'[e], device[e].fetch[a], held[e][a], published[a], a)
      BY <3>1, <3>2, <3>3, <3>4, FlowsFewer
    <3> QED BY <2>2, <3>4, <3>5
  <2> QED BY <2>3, <2>4 DEF Fetching
<1> QED BY <1>1 DEF Supplied

LEMMA TameIf ==
  ASSUME Types, NEW e \in Devices,
         up'[e] = up[e] \/ UpTame(e), down'[e] = down[e] \/ DownTame(e),
         device'[e] = device[e] \/ DeviceTame(e), record'[e] = record[e] \/ RecordTame(e),
         task'[e] = task[e] \/ TaskTame(e), held'[e] = held[e],
         (\A x \in Devices : task'[x].at = "send" => task'[x] = task[x]) \/ SendsTame(e),
         revoked' = revoked, cleared' = cleared
  PROVE  Tame(e)
BY SameIsTame, SendsStay DEF Tame, Calm, TaskTame

LEMMA RenewedIs ==
  ASSUME now \in Nat, NEW o \in Devices, NEW relay \in BOOLEAN, relay => o \in RelayClaim
  PROVE  Renewed(o, relay) \in Token(o) /\ Renewed(o, relay).expires \in Nat
BY SessionsAssumption DEF Renewed, Token, Tokens

LEMMA GreaterIs ==
  ASSUME NEW m \in Nat, NEW n \in Nat
  PROVE  Max({m, n}) \in Nat
<1>1. \E x \in {m, n} : \A y \in {m, n} : x >= y
  <2>1. CASE m >= n
    BY <2>1
  <2>2. CASE ~(m >= n)
    BY <2>2
  <2> QED BY <2>1, <2>2
<1>2. Max({m, n}) \in {m, n}
  BY <1>1, Zenon DEF Max
<1> QED BY <1>2

(* The registry's variables that a step leaves alone.                      *)
LEMMA RegistryStays ==
  ASSUME RegistryTypes, now' = now, UNCHANGED <<revoked, merged, published, unannounced, cleared>>,
         expires' \in [Devices -> Nat]
  PROVE  RegistryTypes'
BY DEF RegistryTypes

-----------------------------------------------------------------------------
(* The gateway's tame steps.                                               *)

TameStep == Types' /\ published' = published /\ \A e \in Devices : Tame(e)

LEMMA HelloVersionsIs ==
  ASSUME IInv, NEW d \in Devices, HelloVersions(d)
  PROVE  TameStep
<1> DEFINE t == [at |-> "hello_ack", token |-> task[d].token,
                 versions |-> [a \in Artifacts |-> Len(published[a])]]
<1>1. Types /\ task[d].at = "versions" /\ task' = [task EXCEPT ![d] = t]
      /\ UNCHANGED <<now, registry, record, sweep, up, down, device, held, cleared, left>>
  BY DEF HelloVersions, IInv
<1>2. t \in Task(d)
  <2>1. task[d].token \in Token(d)
    BY <1>1, TaskIs DEF Types, TaskTypes
  <2>2. [a \in Artifacts |-> Len(published[a])] \in Told
    BY <1>1 DEF Types, RegistryTypes, Told
  <2> QED BY <2>1, <2>2 DEF Task
<1>3. t.at \notin {"page", "join", "send"}
  OBVIOUS
<1> HIDE DEF t
<1>4. TaskTypes' /\ task'[d] = t /\ \A e \in Devices : e # d => task'[e] = task[e]
  BY <1>1, <1>2, TaskSet DEF Types
<1>5. Types' /\ published' = published
  BY <1>1, <1>4 DEF Types, RegistryTypes, RecordTypes, SweepTypes, UpTypes, DownTypes,
     DeviceTypes, HeldTypes, registry
<1>6. ASSUME NEW e \in Devices PROVE Tame(e)
  <2>1. task'[e] = task[e] \/ TaskTame(e)
    BY <1>3, <1>4 DEF TaskTame, PageTame
  <2>2. \A x \in Devices : task'[x].at = "send" => task'[x] = task[x]
    BY <1>3, <1>4
  <2> QED BY <1>1, <2>1, <2>2, TameIf DEF registry
<1> QED BY <1>5, <1>6 DEF TameStep

LEMMA HelloAckIs ==
  ASSUME IInv, NEW d \in Devices, HelloAck(d)
  PROVE  TameStep
<1> DEFINE token == task[d].token
           due == Due(token.expires, token.expires <= now)
           new == Renewed(d, token.relay)
           f == [kind |-> "hello_ack", token |-> IF due THEN new ELSE NoToken,
                 versions |-> task[d].versions, relay |-> token.relay /\ d \in HubClass]
<1>1. /\ Types /\ task[d].at = "hello_ack" /\ Reply(d, <<f>>) /\ task' = [task EXCEPT ![d] = NoTask]
      /\ expires' = IF due THEN [expires EXCEPT ![d] = new.expires] ELSE expires
      /\ UNCHANGED <<now, revoked, merged, published, unannounced, record, sweep, up, device,
                     held, cleared, left>>
  BY DEF HelloAck, IInv
<1>2. token \in Token(d) /\ task[d].versions \in Told /\ token.relay \in BOOLEAN
  BY <1>1, TaskIs DEF Types, TaskTypes, Token, Tokens
<1>3. new \in Token(d) /\ new.expires \in Nat
  BY <1>1, <1>2, RenewedIs DEF Types, RegistryTypes, Token
<1>4. expires' \in [Devices -> Nat]
  BY <1>1, <1>3 DEF Types, RegistryTypes
<1> HIDE DEF new, due
<1>5. f \in DownFrame(d) /\ f.kind \notin Bringing
  BY <1>2, <1>3 DEF DownFrame, MaybeToken, Bringing
<1> HIDE DEF f
<1>6. <<f>> \in Seq(DownFrame(d)) /\ Harmless(<<f>>, Bringing)
  BY <1>5 DEF Harmless
<1>7. DownTypes' /\ down'[d] = Frames(d, <<f>>) /\ \A e \in Devices : e # d => down'[e] = down[e]
  BY <1>1, <1>6, ReplyIs DEF Types
<1>8. TaskTypes' /\ task'[d] = NoTask /\ \A e \in Devices : e # d => task'[e] = task[e]
  BY <1>1, NoTaskIs, TaskSet DEF Types
<1>9. Types' /\ published' = published
  BY <1>1, <1>4, <1>7, <1>8, RegistryStays DEF Types, RecordTypes, SweepTypes, UpTypes,
     DeviceTypes, HeldTypes
<1>10. DownTame(d)
  BY <1>1, <1>6, <1>7, FramesAreTame DEF Types
<1>11. ASSUME NEW e \in Devices PROVE Tame(e)
  <2>1. task'[e] = task[e] \/ TaskTame(e)
    BY <1>8, NoTaskIs DEF TaskTame, PageTame
  <2>2. \A x \in Devices : task'[x].at = "send" => task'[x] = task[x]
    BY <1>8, NoTaskIs
  <2>3. down'[e] = down[e] \/ DownTame(e)
    BY <1>7, <1>10
  <2> QED BY <1>1, <2>1, <2>2, <2>3, TameIf
<1> QED BY <1>9, <1>11 DEF TameStep


LEMMA RefusedIs ==
  ASSUME IInv, NEW d \in Devices, NEW kinds, Next1(d, kinds), NEW fs \in Seq(DownFrame(d)),
         Harmless(fs, Bringing), Refuse(d, fs),
         UNCHANGED <<now, registry, sweep, held, cleared, left>>
  PROVE  TameStep
<1>1. Types /\ Gone(d)
  BY DEF IInv, Legal
<1>2. UpTypes' /\ up[d] # <<>> /\ up'[d] = Tail(up[d]) /\ \A e \in Devices : e # d => up'[e] = up[e]
  BY <1>1, Next1Is DEF Types
<1>3. /\ DownTypes' /\ down'[d] = Frames(d, fs) /\ \A e \in Devices : e # d => down'[e] = down[e]
      /\ RecordTypes' /\ record'[d].session = record[d].session
      /\ ~record'[d].open /\ ~record'[d].joined
      /\ \A e \in Devices : e # d => record'[e] = record[e]
      /\ DeviceTypes' /\ \A e \in Devices : e # d => device'[e] = device[e]
      /\ device'[d].link = IF device[d].link = "up" THEN "closing" ELSE device[d].link
      /\ device'[d].fetch = device[d].fetch
      /\ task' = task
  BY <1>1, RefuseIs DEF Types
<1>4. UpTame(d)
  BY <1>1, <1>2, TakenIsTame DEF Types
<1>5. DownTame(d)
  BY <1>1, <1>3, FramesAreTame DEF Types
<1>6. DeviceTame(d) /\ RecordTame(d)
  BY <1>3 DEF DeviceTame, RecordTame
<1>7. Types' /\ published' = published
  BY <1>1, <1>2, <1>3 DEF Types, RegistryTypes, TaskTypes, SweepTypes, HeldTypes, registry
<1>8. ASSUME NEW e \in Devices PROVE Tame(e)
  <2>1. /\ up'[e] = up[e] \/ UpTame(e)
        /\ down'[e] = down[e] \/ DownTame(e)
        /\ device'[e] = device[e] \/ DeviceTame(e)
        /\ record'[e] = record[e] \/ RecordTame(e)
    BY <1>2, <1>3, <1>4, <1>5, <1>6
  <2> QED BY <1>1, <1>3, <2>1, TameIf DEF registry
<1> QED BY <1>7, <1>8 DEF TameStep

LEMMA PushFrameIs ==
  ASSUME IInv, NEW d \in Devices, PushFrame(d)
  PROVE  TameStep
<1>1. /\ Types /\ Gone(d) /\ Next1(d, {"push"})
      /\ UNCHANGED <<now, registry, sweep, held, cleared, left>>
  BY DEF PushFrame, IInv, Legal
<1>2. CASE Refuse(d, <<>>)
  <2>1. <<>> \in Seq(DownFrame(d)) /\ Harmless(<<>>, Bringing)
    BY DEF Harmless
  <2> QED BY <1>1, <1>2, <2>1, RefusedIs
<1>3. CASE ~(d \in revoked \/ ~HasSession(d))
  <2> DEFINE t == [at |-> "merge", push |-> Head(up[d]), session |-> record[d].session]
  <2>1. task' = [task EXCEPT ![d] = t] /\ UNCHANGED <<record, down, device>>
    BY <1>3 DEF PushFrame
  <2>2. /\ UpTypes' /\ up[d] # <<>> /\ up'[d] = Tail(up[d])
        /\ \A e \in Devices : e # d => up'[e] = up[e]
        /\ Head(up[d]) \in UpFrame(d) /\ Head(up[d]).kind = "push"
    BY <1>1, Next1Is DEF Types
  <2>3. Head(up[d]) \in PushOf
    BY <2>2, UpFrameIs
  <2>4. record[d].session \in Session(d)
    BY <1>1, <1>3 DEF Types, RecordTypes, Record, HasSession
  <2>5. t \in Task(d) /\ t.at \notin {"page", "join", "send"}
    BY <2>3, <2>4 DEF Task
  <2> HIDE DEF t
  <2>6. TaskTypes' /\ task'[d] = t /\ \A e \in Devices : e # d => task'[e] = task[e]
    BY <1>1, <2>1, <2>5, TaskSet DEF Types
  <2>7. UpTame(d)
    BY <1>1, <2>2, TakenIsTame DEF Types
  <2>8. Types' /\ published' = published
    BY <1>1, <2>1, <2>2, <2>6 DEF Types, RegistryTypes, RecordTypes, DownTypes, DeviceTypes,
       SweepTypes, HeldTypes, registry
  <2>9. ASSUME NEW e \in Devices PROVE Tame(e)
    <3>1. /\ up'[e] = up[e] \/ UpTame(e)
          /\ task'[e] = task[e] \/ TaskTame(e)
      BY <2>2, <2>5, <2>6, <2>7 DEF TaskTame, PageTame
    <3>2. \A x \in Devices : task'[x].at = "send" => task'[x] = task[x]
      BY <2>5, <2>6
    <3> QED BY <1>1, <2>1, <3>1, <3>2, TameIf DEF registry
  <2> QED BY <2>8, <2>9 DEF TameStep
<1> QED BY <1>2, <1>3 DEF PushFrame

LEMMA FanOutSendIs ==
  ASSUME IInv, NEW d \in Devices, FanOutSend(d)
  PROVE  TameStep
<1> DEFINE t == task[d]
           throws == t.lost # {}
           fs(p) == <<[kind |-> IF p \in t.culled THEN "purge_command" ELSE "event_batch"]>>
           shut(p, reached) == p \in reached \cap t.culled \/ (throws /\ p = d)
           l == IF throws /\ device[d].link = "up" THEN "closing" ELSE device[d].link
           m == Linked(device[d], l)
<1>1. PICK reached \in SUBSET (t.peers \ t.lost) :
        /\ down' = [p \in Devices |-> IF p \in reached THEN Frames(p, fs(p)) ELSE down[p]]
        /\ record' = [p \in Devices |->
             IF shut(p, reached) THEN [record[p] EXCEPT !.open = FALSE, !.joined = FALSE]
             ELSE record[p]]
        /\ device' = [device EXCEPT ![d].link = IF throws /\ @ = "up" THEN "closing" ELSE @]
  BY DEF FanOutSend
<1>2. /\ Types /\ task[d].at = "send" /\ task' = [task EXCEPT ![d] = NoTask]
      /\ UNCHANGED <<now, registry, sweep, up, held, cleared, left>>
  BY DEF FanOutSend, IInv
<1>3. TaskTypes' /\ task'[d] = NoTask /\ \A e \in Devices : e # d => task'[e] = task[e]
  BY <1>2, NoTaskIs, TaskSet DEF Types
<1>4. \A p \in Devices : fs(p) \in Seq(DownFrame(p)) /\ Harmless(fs(p), Bringing)
  BY DEF DownFrame, Harmless, Bringing
<1> HIDE DEF fs
<1>5. ASSUME NEW p \in Devices
      PROVE  down'[p] \in Seq(DownFrame(p)) /\ (down'[p] = down[p] \/ DownTame(p))
  <2>1. CASE p \in reached
    <3>1. down'[p] = Frames(p, fs(p))
      BY <1>1, <2>1
    <3> QED BY <1>2, <1>4, <3>1, FramesTyped, FramesAreTame DEF Types
  <2>2. CASE p \notin reached
    BY <1>1, <1>2, <2>2 DEF Types, DownTypes
  <2> QED BY <2>1, <2>2
<1>6. DownTypes'
  <2>1. down' = [p \in Devices |-> down'[p]]
    BY <1>1
  <2> QED BY <1>5, <2>1 DEF DownTypes, Mapped
<1>7. ASSUME NEW p \in Devices
      PROVE  /\ record'[p] \in Record(p) /\ record'[p].session = record[p].session
             /\ record'[p].joined => record[p].joined
             /\ record'[p].open => record[p].open
  <2>1. record[p] \in Record(p)
    BY <1>2 DEF Types, RecordTypes
  <2>2. record'[p] \in {record[p], [record[p] EXCEPT !.open = FALSE, !.joined = FALSE]}
    BY <1>1
  <2> QED BY <2>1, <2>2 DEF Record
<1>8. RecordTypes'
  <2>1. record' = [p \in Devices |-> record'[p]]
    BY <1>1
  <2> QED BY <1>7, <2>1 DEF RecordTypes, Mapped
<1>9. device[d] \in Memory(d) /\ l \in {"down", "up", "closing"}
  BY <1>2 DEF Types, DeviceTypes, Memory
<1>10. device' = [device EXCEPT ![d] = m]
  BY <1>1, <1>2 DEF Types, DeviceTypes, Mapped, Linked
<1>11. l = "down" <=> device[d].link = "down"
  OBVIOUS
<1> HIDE DEF l
<1>12. m \in Memory(d) /\ m.link = l /\ m.fetch = device[d].fetch
  BY <1>9, LinkSet
<1> HIDE DEF m
<1>13. DeviceTypes' /\ device'[d] = m /\ \A e \in Devices : e # d => device'[e] = device[e]
  BY <1>2, <1>10, <1>12, DeviceSet DEF Types
<1>14. Types' /\ published' = published
  BY <1>2, <1>3, <1>6, <1>8, <1>13 DEF Types, RegistryTypes, UpTypes, SweepTypes, HeldTypes,
     registry
<1>15. ASSUME NEW e \in Devices PROVE Tame(e)
  <2>1. /\ down'[e] = down[e] \/ DownTame(e)
        /\ record'[e] = record[e] \/ RecordTame(e)
        /\ task'[e] = task[e] \/ TaskTame(e)
    BY <1>3, <1>5, <1>7, NoTaskIs DEF RecordTame, TaskTame, PageTame
  <2>2. \A x \in Devices : task'[x].at = "send" => task'[x] = task[x]
    BY <1>3, NoTaskIs
  <2>3. device'[e] = device[e] \/ DeviceTame(e)
    BY <1>11, <1>12, <1>13 DEF DeviceTame
  <2> QED BY <1>2, <2>1, <2>2, <2>3, TameIf DEF registry
<1> QED BY <1>14, <1>15 DEF TameStep

LEMMA SweepReadIs ==
  ASSUME IInv, NEW readable \in BOOLEAN, SweepRead(readable)
  PROVE  TameStep
<1> DEFINE all == {d \in Devices : record[d].joined /\ HasSession(d)}
           found == Swept(all, readable)
<1>1. /\ Types /\ sweep' = [at |-> "drop", found |-> found, proven |-> readable]
      /\ UNCHANGED <<now, registry, record, task, up, down, device, held, cleared>>
  BY DEF SweepRead, IInv
<1>2. found \subseteq Devices
  BY DEF Swept
<1> HIDE DEF found
<1>3. SweepTypes'
  BY <1>1, <1>2 DEF SweepTypes
<1>4. Types' /\ published' = published
  BY <1>1, <1>3 DEF Types, RegistryTypes, RecordTypes, TaskTypes, UpTypes, DownTypes, DeviceTypes,
     HeldTypes, registry
<1>5. \A e \in Devices : Tame(e)
  BY <1>1, TameIf DEF registry
<1> QED BY <1>4, <1>5 DEF TameStep

Losing(t, found) == [t EXCEPT !.lost = @ \cup (t.peers \cap found)]

LEMMA LosingIs ==
  ASSUME NEW x \in Devices, NEW t \in Task(x), t.at = "send", NEW found
  PROVE  /\ Losing(t, found) \in Task(x) /\ Losing(t, found).at = "send"
         /\ Losing(t, found).peers = t.peers /\ Losing(t, found).culled = t.culled
<1>1. t \in FanningOut
  BY TaskIs
<1>2. /\ Losing(t, found) \in FanningOut /\ Losing(t, found).at = "send"
      /\ Losing(t, found).peers = t.peers /\ Losing(t, found).culled = t.culled
  BY <1>1 DEF FanningOut, Losing
<1> QED BY <1>2 DEF Task

LEMMA SweepDropIs ==
  ASSUME IInv, SweepDrop
  PROVE  TameStep
<1> DEFINE fs == <<[kind |-> "purge_command"]>>
<1>1. /\ Types
      /\ down' = [d \in Devices |->
           IF d \in sweep.found /\ sweep.proven /\ record[d].open THEN Frames(d, fs) ELSE down[d]]
      /\ record' = [d \in Devices |-> IF d \in sweep.found THEN Closed ELSE record[d]]
      /\ device' = [d \in Devices |->
           IF d \in sweep.found /\ device[d].link = "up" THEN Linked(device[d], "closing")
           ELSE device[d]]
      /\ task' = [x \in Devices |->
           IF task[x].at = "send" THEN Losing(task[x], sweep.found) ELSE task[x]]
      /\ sweep' = NoSweep
      /\ UNCHANGED <<now, registry, up, held, cleared, left>>
  BY DEF SweepDrop, IInv, Linked, Losing
<1>2. ASSUME NEW d \in Devices
      PROVE  down'[d] \in Seq(DownFrame(d)) /\ (down'[d] = down[d] \/ DownTame(d))
  <2>1. fs \in Seq(DownFrame(d)) /\ Harmless(fs, Bringing)
    BY DEF DownFrame, Harmless, Bringing
  <2> HIDE DEF fs
  <2>2. CASE down'[d] = Frames(d, fs)
    BY <1>1, <2>1, <2>2, FramesTyped, FramesAreTame DEF Types
  <2>3. CASE down'[d] = down[d]
    BY <1>1, <2>3 DEF Types, DownTypes
  <2> QED BY <1>1, <2>2, <2>3
<1>3. DownTypes'
  BY <1>1, <1>2 DEF DownTypes, Mapped
<1>4. ASSUME NEW d \in Devices
      PROVE  record'[d] \in Record(d) /\ (record'[d] = record[d] \/ RecordTame(d))
  <2>1. Closed \in Record(d) /\ Closed.session = NoSession /\ ~Closed.joined /\ ~Closed.open
    BY DEF Closed, Record
  <2> QED BY <1>1, <2>1 DEF Types, RecordTypes, RecordTame
<1>5. RecordTypes'
  BY <1>1, <1>4 DEF RecordTypes, Mapped
<1>6. ASSUME NEW d \in Devices
      PROVE  device'[d] \in Memory(d) /\ (device'[d] = device[d] \/ DeviceTame(d))
  <2>1. device[d] \in Memory(d)
    BY <1>1 DEF Types, DeviceTypes
  <2>2. CASE d \in sweep.found /\ device[d].link = "up"
    <3>1. device'[d] = Linked(device[d], "closing")
      BY <1>1, <2>2
    <3> QED BY <2>1, <2>2, <3>1, LinkSet DEF DeviceTame
  <2>3. CASE ~(d \in sweep.found /\ device[d].link = "up")
    BY <1>1, <2>1, <2>3
  <2> QED BY <2>2, <2>3
<1>7. DeviceTypes'
  BY <1>1, <1>6 DEF DeviceTypes, Mapped
<1>8. ASSUME NEW x \in Devices
      PROVE  /\ task'[x] \in Task(x) /\ task'[x].at = task[x].at
             /\ task[x].at # "send" => task'[x] = task[x]
             /\ task[x].at = "send" => /\ task'[x].peers = task[x].peers
                                       /\ task'[x].culled = task[x].culled
  <2>1. task'[x] = IF task[x].at = "send" THEN Losing(task[x], sweep.found) ELSE task[x]
    BY <1>1
  <2>2. task[x] \in Task(x)
    BY <1>1 DEF Types, TaskTypes
  <2> QED BY <2>1, <2>2, LosingIs
<1>9. TaskTypes'
  <2>1. task' = [x \in Devices |-> task'[x]]
    BY <1>1
  <2> QED BY <1>8, <2>1, Zenon DEF TaskTypes, Mapped
<1>10. Types' /\ published' = published
  BY <1>1, <1>3, <1>5, <1>7, <1>9 DEF Types, RegistryTypes, UpTypes, SweepTypes, HeldTypes,
     registry
<1>11. ASSUME NEW e \in Devices PROVE Tame(e)
  <2>1. SendsTame(e)
    BY <1>8 DEF SendsTame, Sends
  <2>2. TaskTame(e)
    BY <1>8 DEF TaskTame, PageTame
  <2> QED BY <1>1, <1>2, <1>4, <1>6, <2>1, <2>2, TameIf DEF registry
<1> QED BY <1>10, <1>11 DEF TameStep


LEMMA AnnounceIs ==
  ASSUME IInv, Announce
  PROVE  TameStep
<1>1. PICK u \in unannounced :
        /\ unannounced' = unannounced \ {u}
        /\ down' = [d \in Devices |->
             IF record[d].joined /\ record[d].open /\ HasSession(d) /\ ~record[d].session.draining
             THEN Frames(d, <<[kind |-> "reference_notice", artifact |-> u.artifact,
                               version |-> u.version]>>)
             ELSE down[d]]
  BY DEF Announce
<1> DEFINE fs == <<[kind |-> "reference_notice", artifact |-> u.artifact, version |-> u.version]>>
<1>2. /\ Types
      /\ UNCHANGED <<now, revoked, expires, merged, published, gateway, up, device, held, cleared,
                     left>>
  BY DEF Announce, IInv
<1>3. u.artifact \in Artifacts /\ u.version \in Nat
  BY <1>2 DEF Types, RegistryTypes
<1>4. ASSUME NEW d \in Devices
      PROVE  down'[d] \in Seq(DownFrame(d)) /\ (down'[d] = down[d] \/ DownTame(d))
  <2>1. fs \in Seq(DownFrame(d)) /\ Harmless(fs, Bringing)
    BY <1>3 DEF DownFrame, Harmless, Bringing
  <2>2. down'[d] = Frames(d, fs) \/ down'[d] = down[d]
    BY <1>1
  <2> HIDE DEF fs
  <2>3. CASE down'[d] = Frames(d, fs)
    BY <1>2, <2>1, <2>3, FramesTyped, FramesAreTame DEF Types
  <2>4. CASE down'[d] = down[d]
    BY <1>2, <2>4 DEF Types, DownTypes
  <2> QED BY <2>2, <2>3, <2>4
<1>5. DownTypes'
  <2>1. down' = [d \in Devices |-> down'[d]]
    BY <1>1
  <2> QED BY <1>4, <2>1 DEF DownTypes, Mapped
<1>6. RegistryTypes'
  BY <1>1, <1>2 DEF Types, RegistryTypes
<1>7. Types' /\ published' = published
  BY <1>2, <1>5, <1>6 DEF Types, RecordTypes, UpTypes, DeviceTypes, TaskTypes, SweepTypes,
     HeldTypes, gateway
<1>8. ASSUME NEW e \in Devices PROVE Tame(e)
  BY <1>2, <1>4, TameIf DEF gateway
<1> QED BY <1>7, <1>8 DEF TameStep

LEMMA TickIs ==
  ASSUME IInv, Tick
  PROVE  TameStep
<1>1. /\ Types /\ now' = now + 1
      /\ UNCHANGED <<registry, gateway, up, down, device, held, cleared>>
  BY DEF Tick, IInv
<1>2. RegistryTypes'
  BY <1>1 DEF Types, RegistryTypes, registry
<1>3. Types' /\ published' = published
  BY <1>1, <1>2 DEF Types, RecordTypes, UpTypes, DownTypes, DeviceTypes, TaskTypes, SweepTypes,
     HeldTypes, gateway, registry
<1>4. ASSUME NEW e \in Devices PROVE Tame(e)
  BY <1>1, TameIf DEF gateway, registry
<1> QED BY <1>3, <1>4 DEF TameStep

-----------------------------------------------------------------------------
(* The devices' tame steps.                                                *)

LEMMA PushIs ==
  ASSUME NEW d \in Devices, NEW m, m.own \in Nat
  PROVE  Push(d, m) \in Seq(UpFrame(d)) /\ Harmless(Push(d, m), Leading)
<1> DEFINE fs == <<[kind |-> "push", origin |-> d, upto |-> m.own]>>
<1>1. fs \in Seq(UpFrame(d)) /\ Harmless(fs, Leading)
  BY DEF UpFrame, PushOf, Harmless, Leading
<1>2. <<>> \in Seq(UpFrame(d)) /\ Harmless(<<>>, Leading)
  BY DEF Harmless
<1>3. Push(d, m) = fs \/ Push(d, m) = <<>>
  BY DEF Push
<1> HIDE DEF fs
<1> QED BY <1>1, <1>2, <1>3

(* A step that changes, of a device's memory, neither link nor fetch.      *)
LEMMA MemoryStep ==
  ASSUME Types, RegistryTypes', UpTypes', DownTypes', HeldTypes', NEW o \in Devices,
         NEW m \in Memory(o), m.link = device[o].link, m.fetch = device[o].fetch,
         device' = [device EXCEPT ![o] = m], UNCHANGED <<gateway, revoked, cleared, published>>,
         \A e \in Devices : held'[e] = held[e], 
         \A e \in Devices : up'[e] = up[e] \/ UpTame(e),
         \A e \in Devices : down'[e] = down[e] \/ DownTame(e)
  PROVE  TameStep
<1>1. DeviceTypes' /\ device'[o] = m /\ \A e \in Devices : e # o => device'[e] = device[e]
  BY DeviceSet DEF Types
<1>2. Types'
  BY <1>1 DEF Types, RecordTypes, TaskTypes, SweepTypes, gateway
<1>3. \A e \in Devices : device'[e] = device[e] \/ DeviceTame(e)
  BY <1>1 DEF DeviceTame
<1>4. \A e \in Devices : Tame(e)
  BY <1>3, TameIf DEF gateway
<1> QED BY <1>2, <1>4 DEF TameStep

Owning(m) == [m EXCEPT !.own = @ + 1]
Holds(m, o, t) == [m EXCEPT !.renewals = [@ EXCEPT ![o] = t]]
Acked(m, t, n) == [Stored(t, m) EXCEPT !.acked = n]

LEMMA OwningIs ==
  ASSUME NEW d \in Devices, NEW m \in Memory(d)
  PROVE  /\ Owning(m) \in Memory(d) /\ Owning(m).own \in Nat
         /\ Owning(m).link = m.link /\ Owning(m).fetch = m.fetch
BY DEF Memory, Owning

LEMMA StoredIs ==
  ASSUME NEW d \in Devices, NEW m \in Memory(d), NEW t \in MaybeToken(d)
  PROVE  /\ Stored(t, m) \in Memory(d)
         /\ Stored(t, m).link = m.link /\ Stored(t, m).fetch = m.fetch /\ Stored(t, m).own = m.own
<1>1. CASE t = NoToken
  BY <1>1 DEF Stored
<1>2. CASE t # NoToken
  <2>1. t \in Token(d) /\ Stored(t, m) = [m EXCEPT !.token = t]
    BY <1>2 DEF Stored, MaybeToken
  <2> QED BY <2>1 DEF Memory
<1> QED BY <1>1, <1>2

LEMMA AckedIs ==
  ASSUME NEW d \in Devices, NEW m \in Memory(d), NEW t \in MaybeToken(d), NEW n \in Nat
  PROVE  /\ Acked(m, t, n) \in Memory(d) /\ Acked(m, t, n).own \in Nat
         /\ Acked(m, t, n).link = m.link /\ Acked(m, t, n).fetch = m.fetch
<1> DEFINE s == Stored(t, m)
<1>1. s \in Memory(d) /\ s.link = m.link /\ s.fetch = m.fetch
  BY StoredIs
<1> HIDE DEF s
<1>2. [s EXCEPT !.acked = n] \in Memory(d) /\ [s EXCEPT !.acked = n].own \in Nat
      /\ [s EXCEPT !.acked = n].link = m.link /\ [s EXCEPT !.acked = n].fetch = m.fetch
  BY <1>1 DEF Memory
<1> QED BY <1>2 DEF Acked, s

LEMMA HoldsIs ==
  ASSUME NEW d \in Devices, NEW m \in Memory(d), NEW o \in Devices, NEW t \in MaybeToken(o)
  PROVE  /\ Holds(m, o, t) \in Memory(d)
         /\ Holds(m, o, t).link = m.link /\ Holds(m, o, t).fetch = m.fetch
<1> DEFINE r == [m.renewals EXCEPT ![o] = t]
           R == {q \in [Devices -> Tokens \cup {NoToken}] : \A p \in Devices : q[p] \in MaybeToken(p)}
<1>1. m.renewals \in R
  BY DEF Memory
<1>2. r \in R
  <2>1. t \in Tokens \cup {NoToken}
    BY DEF MaybeToken, Token
  <2> QED BY <1>1, <2>1
<1>3. Holds(m, o, t) = [m EXCEPT !.renewals = r]
  BY DEF Holds
<1> HIDE DEF r
<1>4. [m EXCEPT !.renewals = r] \in Memory(d) /\ [m EXCEPT !.renewals = r].link = m.link
      /\ [m EXCEPT !.renewals = r].fetch = m.fetch
  BY <1>2 DEF Memory
<1> QED BY <1>3, <1>4


LEMMA OnPushAckIs ==
  ASSUME IInv, NEW d \in Devices, OnPushAck(d)
  PROVE  TameStep
<1> DEFINE f == Head(down[d])
           n == Max({device[d].acked, f.upto})
           new == Acked(device[d], f.token, n)
<1>1. /\ Types /\ Gone(d) /\ Receives(d, {"push_ack"})
      /\ UNCHANGED <<now, registry, gateway, held, cleared, left>>
  BY DEF OnPushAck, IInv, Legal
<1>2. /\ DownTypes' /\ down[d] # <<>> /\ f \in DownFrame(d) /\ f.kind = "push_ack"
      /\ down'[d] = Tail(down[d]) /\ \A e \in Devices : e # d => down'[e] = down[e]
  BY <1>1, ReceivesIs DEF Types
<1>3. \A e \in Devices : down'[e] = down[e] \/ DownTame(e)
  BY <1>1, <1>2, ReceivedIsTame DEF Types
<1>4. f.origin \in Devices /\ f.upto \in Nat /\ f.token \in MaybeToken(f.origin)
  BY <1>2, DownFrameIs
<1>5. device[d] \in Memory(d) /\ device[d].acked \in Nat
  BY <1>1 DEF Types, DeviceTypes, Memory
<1>6. RegistryTypes' /\ HeldTypes'
  BY <1>1 DEF Types, RegistryTypes, HeldTypes, registry
<1>7. CASE f.origin = d
  <2>1. n \in Nat
    BY <1>4, <1>5, GreaterIs
  <2>2. Stored(f.token, device[d]).acked = device[d].acked
    BY <1>5 DEF Stored, Memory
  <2>3. /\ device' = [device EXCEPT ![d] = new]
        /\ Ask(d, IF new.acked > device[d].acked THEN Push(d, new) ELSE <<>>)
    BY <1>7, <2>2 DEF OnPushAck, Acked
  <2> HIDE DEF f, n
  <2>4. /\ new \in Memory(d) /\ new.own \in Nat
        /\ new.link = device[d].link /\ new.fetch = device[d].fetch
    BY <1>4, <1>5, <1>7, <2>1, AckedIs
  <2> HIDE DEF new
  <2> DEFINE fs == IF new.acked > device[d].acked THEN Push(d, new) ELSE <<>>
  <2>5. fs \in Seq(UpFrame(d)) /\ Harmless(fs, Leading)
    BY <2>4, PushIs DEF Harmless
  <2> HIDE DEF fs
  <2>6. Ask(d, fs)
    BY <2>3 DEF fs
  <2>7. /\ UpTypes' /\ up'[d] = IF device[d].link = "up" THEN up[d] \o fs ELSE up[d]
        /\ \A e \in Devices : e # d => up'[e] = up[e]
    BY <1>1, <2>5, <2>6, AskIs DEF Types
  <2>8. \A e \in Devices : up'[e] = up[e] \/ UpTame(e)
    BY <1>1, <2>5, <2>7, AskIsTame DEF Types
  <2> QED BY <1>1, <1>2, <1>3, <1>6, <2>3, <2>4, <2>7, <2>8, MemoryStep DEF registry
<1>8. CASE f.origin # d
  <2> DEFINE t == IF f.token = NoToken THEN device[d].renewals[f.origin] ELSE f.token
             m == Holds(device[d], f.origin, t)
  <2>1. up' = up /\ device' = [device EXCEPT ![d] = m]
    BY <1>8 DEF OnPushAck, Holds
  <2>2. t \in MaybeToken(f.origin)
    BY <1>4, <1>5 DEF Memory
  <2> HIDE DEF t, f
  <2>3. m \in Memory(d) /\ m.link = device[d].link /\ m.fetch = device[d].fetch
    BY <1>4, <1>5, <2>2, HoldsIs
  <2> HIDE DEF m
  <2>4. UpTypes'
    BY <1>1, <2>1 DEF Types, UpTypes
  <2> QED BY <1>1, <1>2, <1>3, <1>6, <2>1, <2>3, <2>4, MemoryStep DEF registry
<1> QED BY <1>7, <1>8

LEMMA OnOriginRevokedIs ==
  ASSUME IInv, NEW d \in Devices, OnOriginRevoked(d)
  PROVE  TameStep
<1> DEFINE o == Head(down[d]).origin
           m == Holds(device[d], o, NoToken)
<1>1. /\ Types /\ Gone(d) /\ Receives(d, {"origin_revoked"})
      /\ device' = [device EXCEPT ![d] = m]
      /\ UNCHANGED <<now, registry, gateway, up, held, cleared, left>>
  BY DEF OnOriginRevoked, IInv, Legal, Holds
<1>2. /\ DownTypes' /\ down[d] # <<>> /\ Head(down[d]) \in DownFrame(d)
      /\ Head(down[d]).kind = "origin_revoked"
      /\ down'[d] = Tail(down[d]) /\ \A e \in Devices : e # d => down'[e] = down[e]
  BY <1>1, ReceivesIs DEF Types
<1>3. \A e \in Devices : down'[e] = down[e] \/ DownTame(e)
  BY <1>1, <1>2, ReceivedIsTame DEF Types
<1>4. o \in Devices /\ NoToken \in MaybeToken(o)
  BY <1>2, DownFrameIs DEF MaybeToken
<1>5. device[d] \in Memory(d)
  BY <1>1 DEF Types, DeviceTypes
<1> HIDE DEF o
<1>6. m \in Memory(d) /\ m.link = device[d].link /\ m.fetch = device[d].fetch
  BY <1>4, <1>5, HoldsIs
<1> HIDE DEF m
<1>7. RegistryTypes' /\ HeldTypes' /\ UpTypes'
  BY <1>1 DEF Types, RegistryTypes, HeldTypes, UpTypes, registry
<1> QED BY <1>1, <1>2, <1>3, <1>6, <1>7, MemoryStep DEF registry

(* A frame that is taken and changes nothing else.                         *)
LEMMA IdleReceiveIs ==
  ASSUME IInv, NEW d \in Devices, NEW kinds, Receives(d, kinds),
         UNCHANGED <<now, registry, gateway, up, device, held, cleared, left>>
  PROVE  TameStep
<1>1. Types /\ Gone(d)
  BY DEF IInv, Legal
<1>2. /\ DownTypes' /\ down[d] # <<>>
      /\ down'[d] = Tail(down[d]) /\ \A e \in Devices : e # d => down'[e] = down[e]
  BY <1>1, ReceivesIs DEF Types
<1>3. \A e \in Devices : down'[e] = down[e] \/ DownTame(e)
  BY <1>1, <1>2, ReceivedIsTame DEF Types
<1>4. Types' /\ published' = published
  BY <1>1, <1>2 DEF Types, RegistryTypes, RecordTypes, TaskTypes, SweepTypes, UpTypes, DeviceTypes,
     HeldTypes, registry, gateway
<1>5. \A e \in Devices : Tame(e)
  BY <1>1, <1>3, TameIf DEF registry, gateway
<1> QED BY <1>4, <1>5 DEF TameStep

LEMMA OnOtherIs ==
  ASSUME IInv, NEW d \in Devices, OnOther(d)
  PROVE  TameStep
BY IdleReceiveIs DEF OnOther

(* An event of o is pushed by d.                                           *)
LEMMA OwnedIs ==
  ASSUME IInv, NEW d \in Devices, NEW o \in Devices, NEW fs \in Seq(UpFrame(d)),
         Harmless(fs, Leading), Ask(d, fs), device' = [device EXCEPT ![o] = Owning(device[o])],
         UNCHANGED <<now, registry, gateway, down, held, cleared>>
  PROVE  TameStep
<1>1. Types
  BY DEF IInv
<1>2. /\ UpTypes' /\ up'[d] = IF device[d].link = "up" THEN up[d] \o fs ELSE up[d]
      /\ \A e \in Devices : e # d => up'[e] = up[e]
  BY <1>1, AskIs DEF Types
<1>3. \A e \in Devices : up'[e] = up[e] \/ UpTame(e)
  BY <1>1, <1>2, AskIsTame DEF Types
<1> DEFINE m == Owning(device[o])
<1>4. m \in Memory(o) /\ m.link = device[o].link /\ m.fetch = device[o].fetch
  BY <1>1, OwningIs DEF Types, DeviceTypes
<1> HIDE DEF m
<1>5. device' = [device EXCEPT ![o] = m]
  BY DEF m
<1>6. RegistryTypes' /\ HeldTypes' /\ DownTypes'
  BY <1>1 DEF Types, RegistryTypes, HeldTypes, DownTypes, registry
<1> QED BY <1>1, <1>2, <1>3, <1>4, <1>5, <1>6, MemoryStep DEF registry

LEMMA OwningAt ==
  ASSUME DeviceTypes, NEW o \in Devices, device' = [device EXCEPT ![o].own = @ + 1]
  PROVE  /\ device' = [device EXCEPT ![o] = Owning(device[o])] /\ device'[o] = Owning(device[o])
         /\ device'[o].own \in Nat
<1>1. device' = [device EXCEPT ![o] = Owning(device[o])]
  BY DEF Owning, DeviceTypes, Mapped
<1>2. device'[o] = Owning(device[o])
  BY <1>1 DEF DeviceTypes, Mapped
<1> QED BY <1>1, <1>2, OwningIs DEF DeviceTypes

LEMMA Append1Is ==
  ASSUME IInv, NEW d \in Devices, Append1(d)
  PROVE  TameStep
<1> DEFINE fs == IF device[d].connected THEN Push(d, device'[d]) ELSE <<>>
<1>1. /\ Types /\ Ask(d, fs) /\ device' = [device EXCEPT ![d].own = @ + 1]
      /\ UNCHANGED <<now, registry, gateway, down, held, cleared>>
  BY DEF Append1, IInv
<1>2. device' = [device EXCEPT ![d] = Owning(device[d])] /\ device'[d].own \in Nat
  BY <1>1, OwningAt DEF Types
<1>3. fs \in Seq(UpFrame(d)) /\ Harmless(fs, Leading)
  BY <1>2, PushIs DEF Harmless
<1> HIDE DEF fs
<1> QED BY <1>1, <1>2, <1>3, OwnedIs

LEMMA RelayIs ==
  ASSUME IInv, NEW d \in Devices, NEW o \in Devices, Relay(d, o)
  PROVE  TameStep
<1> DEFINE fs == <<[kind |-> "push", origin |-> o, upto |-> device'[o].own]>>
<1>1. /\ Types /\ Ask(d, fs) /\ device' = [device EXCEPT ![o].own = @ + 1]
      /\ UNCHANGED <<now, registry, gateway, down, held, cleared>>
  BY DEF Relay, IInv
<1>2. device' = [device EXCEPT ![o] = Owning(device[o])] /\ device'[o].own \in Nat
  BY <1>1, OwningAt DEF Types
<1>3. fs \in Seq(UpFrame(d)) /\ Harmless(fs, Leading)
  BY <1>2 DEF UpFrame, PushOf, Harmless, Leading
<1> HIDE DEF fs
<1> QED BY <1>1, <1>2, <1>3, OwnedIs

LEMMA ForwardIs ==
  ASSUME IInv, NEW d \in Devices, NEW o \in Devices, Forward(d, o)
  PROVE  TameStep
<1> DEFINE t == device[d].renewals[o]
           m == Stored(t, device[o])
<1>1. /\ Types /\ t # NoToken /\ device' = [device EXCEPT ![o].token = t]
      /\ UNCHANGED <<now, registry, gateway, up, down, held, cleared, left>>
  BY DEF Forward, IInv
<1>2. t \in MaybeToken(o)
  BY <1>1 DEF Types, DeviceTypes, Memory
<1> HIDE DEF t
<1>3. device' = [device EXCEPT ![o] = m]
  BY <1>1 DEF Stored, Types, DeviceTypes, Mapped
<1>4. m \in Memory(o) /\ m.link = device[o].link /\ m.fetch = device[o].fetch
  BY <1>1, <1>2, StoredIs DEF Types, DeviceTypes
<1> HIDE DEF m
<1>5. RegistryTypes' /\ HeldTypes' /\ UpTypes' /\ DownTypes'
  BY <1>1 DEF Types, RegistryTypes, HeldTypes, UpTypes, DownTypes, registry
<1> QED BY <1>1, <1>3, <1>4, <1>5, MemoryStep DEF registry

-----------------------------------------------------------------------------
(* The other steps of the gateway: a session begins, renews in passing,    *)
(* is fanned out to and is served.                                         *)

LEMMA TameKeeps ==
  ASSUME IInv, TameStep
  PROVE  IInv'
<1>1. ASSUME NEW e \in Devices PROVE Legal(e)' /\ Supplied(e)'
  BY <1>1, TameStaysLegal, SuppliedStays DEF IInv, TameStep, Tame
<1> QED BY <1>1 DEF IInv, TameStep

(* A step that is tame for all devices but one, and moves no data there.   *)
LEMMA OneOfAll ==
  ASSUME IInv, Types', published' = published, NEW d \in Devices,
         \A e \in Devices : e # d => Tame(e), Calm(d), Legal(d)'
  PROVE  IInv'
<1>1. ASSUME NEW e \in Devices PROVE Legal(e)' /\ Supplied(e)'
  <2>1. Calm(e)
    BY DEF Tame
  <2>2. Legal(e)'
    BY TameStaysLegal DEF IInv
  <2> QED BY <2>1, <2>2, SuppliedStays DEF IInv
<1> QED BY <1>1 DEF IInv

(* What the registry let in waits to join, ahead of all that its           *)
(* connection may be sent.                                                 *)
LEMMA HelloIs ==
  ASSUME IInv, NEW d \in Devices, Hello(d)
  PROVE  IInv'
<1>1. /\ Types /\ Legal(d) /\ Next1(d, {"hello"})
      /\ UNCHANGED <<now, registry, sweep, held, cleared, left>>
  BY DEF Hello, IInv
<1>2. CASE d \in revoked
  <2> DEFINE fs == <<[kind |-> "purge_command"]>>
  <2>1. fs \in Seq(DownFrame(d)) /\ Harmless(fs, Bringing)
    BY DEF DownFrame, Harmless, Bringing
  <2>2. Refuse(d, fs)
    BY <1>2 DEF Hello
  <2> HIDE DEF fs
  <2> QED BY <1>1, <2>1, <2>2, RefusedIs, TameKeeps
<1>3. CASE d \notin revoked
  <2> DEFINE token == Head(up[d]).token
             t == [at |-> "join", token |-> token, expired |-> token.expires <= now]
  <2>1. task' = [task EXCEPT ![d] = t] /\ UNCHANGED <<record, down, device>>
    BY <1>3 DEF Hello
  <2>2. /\ UpTypes' /\ up[d] # <<>> /\ up'[d] = Tail(up[d])
        /\ \A e \in Devices : e # d => up'[e] = up[e]
        /\ Head(up[d]) \in UpFrame(d) /\ Head(up[d]).kind = "hello"
    BY <1>1, Next1Is DEF Types
  <2>3. token \in Token(d)
    BY <2>2, UpFrameIs
  <2>4. t \in Task(d) /\ t.at = "join"
    BY <2>3 DEF Task
  <2> HIDE DEF t, token
  <2>5. TaskTypes' /\ task'[d] = t /\ \A e \in Devices : e # d => task'[e] = task[e]
    BY <1>1, <2>1, <2>4, TaskSet DEF Types
  <2>6. Types' /\ published' = published
    BY <1>1, <2>1, <2>2, <2>5 DEF Types, RegistryTypes, RecordTypes, DownTypes, DeviceTypes,
       SweepTypes, HeldTypes, registry
  <2>7. \A x \in Devices : task'[x].at = "send" => task'[x] = task[x]
    BY <2>4, <2>5
  <2>8. \A e \in Devices : e # d => Tame(e)
    BY <1>1, <2>1, <2>2, <2>5, <2>7, TameIf DEF registry
  <2>9. UpTame(d)
    BY <1>1, <2>2, TakenIsTame DEF Types, Legal
  <2>10. Calm(d)
    BY <1>1, <2>1, <2>4, <2>5, <2>9, SameIsTame DEF Calm, PageTame
  <2>11. up[d] \in Seq(UpFrame(d)) /\ 1 \in 1..Len(up[d]) /\ up[d][1] = Head(up[d])
    BY <1>1, <2>2 DEF Types, UpTypes
  <2>12. ~HasSession(d) /\ \A x \in Devices : ~Sends(x, d)
    BY <1>1, <2>2, <2>11 DEF Legal, HelloIsFirst
  <2>13. ~HasSession(d)' /\ \A x \in Devices : ~Sends(x, d)'
    BY <2>1, <2>7, <2>12 DEF Sends, HasSession
  <2>14. \A i \in 1..Len(up'[d]) : up'[d][i].kind # "hello"
    <3>1. ASSUME NEW i \in 1..Len(Tail(up[d])), Tail(up[d])[i].kind = "hello" PROVE FALSE
      <4>1. i + 1 \in 1..Len(up[d]) /\ up[d][i + 1].kind = "hello" /\ i + 1 # 1
        BY <2>2, <2>11, <3>1
      <4> QED BY <1>1, <4>1 DEF Legal, HelloIsFirst
    <3> QED BY <2>2, <3>1
  <2>15. device'[d].link # "down"
    BY <1>1, <2>1, <2>2 DEF Legal, Gone
  <2>16. Legal(d)'
    BY <2>4, <2>5, <2>13, <2>14, <2>15
    DEF Legal, Gone, HelloIsFirst, JoinIsFirst, ReadersRead, ClearedBefore
  <2> QED BY <2>6, <2>8, <2>10, <2>16, OneOfAll
<1> QED BY <1>2, <1>3

Joining(r, s) == [r EXCEPT !.session = s, !.joined = ~s.draining]

LEMMA HelloJoinIs ==
  ASSUME IInv, NEW d \in Devices, HelloJoin(d)
  PROVE  IInv'
<1> DEFINE token == task[d].token
           s == [draining |-> task[d].expired, relay |-> token.relay /\ d \in HubClass]
           r == IF record[d].open THEN Joining(record[d], s) ELSE record[d]
           t == [at |-> "versions", token |-> token]
<1>1. /\ Types /\ Legal(d) /\ task[d].at = "join"
      /\ UNCHANGED <<now, registry, sweep, up, down, device, held, cleared, left>>
  BY DEF HelloJoin, IInv
<1>2. record' = [record EXCEPT ![d] = r] /\ task' = [task EXCEPT ![d] = t]
  BY <1>1 DEF HelloJoin, Joining, Types, RecordTypes, Mapped
<1>3. token \in Token(d) /\ task[d].expired \in BOOLEAN
  BY <1>1, TaskIs DEF Types, TaskTypes
<1>4. s \in Session(d) /\ s.draining = task[d].expired
  <2>1. token.relay \in BOOLEAN /\ (token.relay => d \in RelayClaim)
    BY <1>3 DEF Token, Tokens
  <2> DEFINE b == task[d].expired
             c == token.relay /\ d \in HubClass
  <2>2. b \in BOOLEAN /\ c \in BOOLEAN /\ (c => d \in RelayClaim \cap HubClass)
    BY <1>3, <2>1
  <2> HIDE DEF b, c
  <2>3. [draining |-> b, relay |-> c] \in Session(d)
    BY <2>2 DEF Session
  <2> QED BY <2>3 DEF b, c
<1>5. t \in Task(d) /\ t.at \notin {"page", "join", "send"}
  BY <1>3 DEF Task
<1> HIDE DEF s, t, token
<1>6. /\ r \in Record(d) /\ r.open = record[d].open
      /\ record[d].open => r.session = s /\ r.joined = ~s.draining
      /\ ~record[d].open => r = record[d]
  BY <1>1, <1>4 DEF Joining, Types, RecordTypes, Record, Session
<1> HIDE DEF r
<1>7. TaskTypes' /\ task'[d] = t /\ \A e \in Devices : e # d => task'[e] = task[e]
  BY <1>1, <1>2, <1>5, TaskSet DEF Types
<1>8. RecordTypes' /\ record'[d] = r /\ \A e \in Devices : e # d => record'[e] = record[e]
  BY <1>1, <1>2, <1>6, RecordSet DEF Types
<1>9. Types' /\ published' = published
  BY <1>1, <1>7, <1>8 DEF Types, RegistryTypes, UpTypes, DownTypes, DeviceTypes,
     SweepTypes, HeldTypes, registry
<1>10. \A x \in Devices : task'[x].at = "send" => task'[x] = task[x]
  BY <1>5, <1>7
<1>11. \A e \in Devices : e # d => Tame(e)
  BY <1>1, <1>7, <1>8, <1>10, TameIf DEF registry
<1>12. Calm(d)
  BY <1>1, <1>5, <1>7, SameIsTame DEF Calm, PageTame
<1>13. /\ \A i \in 1..Len(up'[d]) : up'[d][i].kind # "hello"
       /\ ~HasSession(d) /\ \A x \in Devices : ~Sends(x, d)
  BY <1>1 DEF Legal, JoinIsFirst
<1>14. \A x \in Devices : ~Sends(x, d)'
  BY <1>10, <1>13 DEF Sends
<1>15. HasSession(d)' => record[d].open /\ record'[d].joined = ~record'[d].session.draining
  BY <1>6, <1>8, <1>13 DEF HasSession
<1>16. Gone(d)'
  BY <1>1, <1>6, <1>8, <1>14, <1>15 DEF Legal, Gone
<1>17. ReadersRead(d)' /\ HelloIsFirst(d)' /\ JoinIsFirst(d)' /\ ClearedBefore(d)'
  BY <1>5, <1>7, <1>13, <1>14, <1>15 DEF ReadersRead, HelloIsFirst, JoinIsFirst, ClearedBefore
<1> QED BY <1>9, <1>11, <1>12, <1>16, <1>17, OneOfAll DEF Legal

Readmits(r) == [r EXCEPT !.session = [@ EXCEPT !.draining = FALSE], !.joined = TRUE]

LEMMA ReadmitsIs ==
  ASSUME NEW d, NEW r \in Record(d), r.session # NoSession
  PROVE  /\ Readmits(r) \in Record(d) /\ Readmits(r).session # NoSession
         /\ ~Readmits(r).session.draining
<1> DEFINE s == [r.session EXCEPT !.draining = FALSE]
<1>1. r.session \in Session(d)
  BY DEF Record
<1>2. s \in Session(d) /\ s.draining = FALSE
  BY <1>1 DEF Session
<1>3. s # NoSession
  <2>1. DOMAIN s = {"draining", "relay"} /\ DOMAIN NoSession = {"none"}
    BY <1>2 DEF Session, NoSession
  <2> QED BY <2>1
<1>4. Readmits(r) = [r EXCEPT !.session = s, !.joined = TRUE]
  BY DEF Readmits
<1> HIDE DEF s
<1>5. /\ [r EXCEPT !.session = s, !.joined = TRUE] \in Record(d)
      /\ [r EXCEPT !.session = s, !.joined = TRUE].session = s
  BY <1>2 DEF Record
<1> QED BY <1>2, <1>3, <1>4, <1>5

LEMMA PushMergeIs ==
  ASSUME IInv, NEW d \in Devices, PushMerge(d)
  PROVE  TameStep
<1> DEFINE push == task[d].push
           o == push.origin
           n == Max({merged[o], push.upto})
           b == push.upto > merged[o]
           f == [kind |-> "origin_revoked", origin |-> o]
           t == [at |-> "renew", origin |-> o, session |-> task[d].session, upto |-> n, fresh |-> b]
<1>1. /\ Types /\ task[d].at = "merge"
      /\ UNCHANGED <<now, revoked, expires, published, unannounced, record, sweep, up, device,
                     held, cleared, left>>
      /\ \/ Reply(d, <<f>>) /\ task' = [task EXCEPT ![d] = NoTask] /\ UNCHANGED merged
         \/ /\ merged' = [merged EXCEPT ![o] = n]
            /\ task' = [task EXCEPT ![d] = t] /\ UNCHANGED down
  BY DEF PushMerge, IInv
<1>2. o \in Devices /\ push.upto \in Nat /\ task[d].session \in Session(d)
  BY <1>1, TaskIs DEF Types, TaskTypes, PushOf
<1>3. n \in Nat /\ b \in BOOLEAN
  <2>1. merged[o] \in Nat
    BY <1>1, <1>2 DEF Types, RegistryTypes
  <2>2. n \in Nat
    BY <1>2, <2>1, GreaterIs
  <2> HIDE DEF n
  <2>3. b \in BOOLEAN
    BY <1>2, <2>1
  <2> QED BY <2>2, <2>3
<1> HIDE DEF n, b
<1>4. RegistryTypes'
  BY <1>1, <1>2, <1>3 DEF Types, RegistryTypes
<1>5. <<f>> \in Seq(DownFrame(d)) /\ Harmless(<<f>>, Bringing)
  BY <1>2 DEF DownFrame, Harmless, Bringing
<1>6. t \in Task(d) /\ NoTask \in Task(d)
      /\ t.at \notin {"page", "join", "send"} /\ NoTask.at \notin {"page", "join", "send"}
  BY <1>2, <1>3, NoTaskIs DEF Task
<1> HIDE DEF f, t, o
<1>7. PICK u \in {t, NoTask} : task' = [task EXCEPT ![d] = u]
  BY <1>1
<1>8. TaskTypes' /\ task'[d] = u /\ \A e \in Devices : e # d => task'[e] = task[e]
  BY <1>1, <1>6, <1>7, TaskSet DEF Types
<1>9. DownTypes' /\ \A e \in Devices : down'[e] = down[e] \/ DownTame(e)
  <2>1. CASE Reply(d, <<f>>)
    <3>1. /\ DownTypes' /\ down'[d] = Frames(d, <<f>>)
          /\ \A e \in Devices : e # d => down'[e] = down[e]
      BY <1>1, <1>5, <2>1, ReplyIs DEF Types
    <3>2. DownTame(d)
      BY <1>1, <1>5, <3>1, FramesAreTame DEF Types
    <3> QED BY <3>1, <3>2
  <2>2. CASE UNCHANGED down
    BY <1>1, <2>2 DEF Types, DownTypes
  <2> QED BY <1>1, <2>1, <2>2
<1>10. Types' /\ published' = published
  BY <1>1, <1>4, <1>8, <1>9 DEF Types, RecordTypes, SweepTypes, UpTypes, DeviceTypes, HeldTypes
<1>11. ASSUME NEW e \in Devices PROVE Tame(e)
  <2>1. task'[e] = task[e] \/ TaskTame(e)
    BY <1>6, <1>7, <1>8 DEF TaskTame, PageTame
  <2>2. \A x \in Devices : task'[x].at = "send" => task'[x] = task[x]
    BY <1>6, <1>7, <1>8
  <2> QED BY <1>1, <1>9, <2>1, <2>2, TameIf
<1> QED BY <1>10, <1>11 DEF TameStep

(* The renewal that an ack carries is one its device may have.             *)
LEMMA RenewReadIs ==
  ASSUME IInv, NEW d \in Devices, RenewRead(d)
  PROVE  TameStep
<1> DEFINE o == task[d].origin
           own == o = d
           due == o \notin revoked /\ Due(expires[o], own /\ task[d].session.draining)
           right == own /\ task[d].session.relay
           token == IF due THEN Renewed(o, right) ELSE NoToken
           t == [at |-> "ack", origin |-> o, upto |-> task[d].upto, fresh |-> task[d].fresh,
                 token |-> token]
<1>1. /\ Types /\ task[d].at = "renew" /\ task' = [task EXCEPT ![d] = t]
      /\ UNCHANGED <<now, registry, record, sweep, up, down, device, held, cleared, left>>
  BY DEF RenewRead, IInv
<1>2. /\ o \in Devices /\ task[d].session \in Session(d)
      /\ task[d].upto \in Nat /\ task[d].fresh \in BOOLEAN
  BY <1>1, TaskIs DEF Types, TaskTypes
<1>3. right \in BOOLEAN /\ (right => o \in RelayClaim)
  BY <1>2 DEF Session
<1> HIDE DEF right
<1>4. token \in MaybeToken(o) /\ token \in Tokens \cup {NoToken}
  <2>1. Renewed(o, right) \in Token(o)
    BY <1>1, <1>2, <1>3, RenewedIs DEF Types, RegistryTypes
  <2> QED BY <2>1 DEF MaybeToken, Token
<1> HIDE DEF token
<1>5. t \in Task(d) /\ t.at \notin {"page", "join", "send"}
  <2>1. t \in Acking
    BY <1>2, <1>4 DEF Acking
  <2> QED BY <2>1 DEF Task
<1> HIDE DEF t
<1>6. TaskTypes' /\ task'[d] = t /\ \A e \in Devices : e # d => task'[e] = task[e]
  BY <1>1, <1>5, TaskSet DEF Types
<1>7. Types' /\ published' = published
  BY <1>1, <1>6 DEF Types, RegistryTypes, RecordTypes, SweepTypes, UpTypes, DownTypes,
     DeviceTypes, HeldTypes, registry
<1>8. ASSUME NEW e \in Devices PROVE Tame(e)
  <2>1. task'[e] = task[e] \/ TaskTame(e)
    BY <1>5, <1>6 DEF TaskTame, PageTame
  <2>2. \A x \in Devices : task'[x].at = "send" => task'[x] = task[x]
    BY <1>5, <1>6
  <2> QED BY <1>1, <2>1, <2>2, TameIf DEF registry
<1> QED BY <1>7, <1>8 DEF TameStep

LEMMA PushAckIs ==
  ASSUME IInv, NEW d \in Devices, PushAck(d)
  PROVE  IInv'
<1> DEFINE o == task[d].origin
           token == task[d].token
           f == [kind |-> "push_ack", origin |-> o, upto |-> task[d].upto, token |-> token]
           t == IF task[d].fresh THEN [at |-> "fan_out"] ELSE NoTask
           readmitted == token # NoToken /\ o = d /\ HasSession(d) /\ record[d].session.draining
<1>1. /\ Types /\ Legal(d) /\ task[d].at = "ack"
      /\ expires' = IF token = NoToken THEN expires ELSE [expires EXCEPT ![o] = token.expires]
      /\ record' = IF readmitted THEN [record EXCEPT ![d] = Readmits(record[d])] ELSE record
      /\ Reply(d, <<f>>) /\ task' = [task EXCEPT ![d] = t]
      /\ UNCHANGED <<now, revoked, merged, published, unannounced, sweep, up, device, held,
                     cleared, left>>
  <2>1. Types /\ Legal(d)
    BY DEF IInv
  <2>2. [record EXCEPT ![d].session.draining = FALSE, ![d].joined = TRUE]
          = [record EXCEPT ![d] = Readmits(record[d])]
    BY <2>1 DEF Readmits, Types, RecordTypes, Mapped
  <2> QED BY <2>1, <2>2 DEF PushAck
<1>2. /\ o \in Devices /\ task[d].upto \in Nat /\ token \in MaybeToken(o)
      /\ token # NoToken => token.expires \in Nat
  BY <1>1, TaskIs DEF Types, TaskTypes, MaybeToken, Token, Tokens
<1>3. RegistryTypes'
  BY <1>1, <1>2, RegistryStays DEF Types, RegistryTypes
<1>4. f \in DownFrame(d) /\ f.kind \notin Bringing
  <2>1. f \in Renewing
    BY <1>2 DEF Renewing, MaybeToken, Token
  <2> QED BY <2>1 DEF DownFrame, Bringing
<1> HIDE DEF f
<1>5. <<f>> \in Seq(DownFrame(d)) /\ Harmless(<<f>>, Bringing)
  BY <1>4 DEF Harmless
<1>6. DownTypes' /\ down'[d] = Frames(d, <<f>>) /\ \A e \in Devices : e # d => down'[e] = down[e]
  BY <1>1, <1>5, ReplyIs DEF Types
<1>7. t \in Task(d) /\ t.at \notin {"page", "join", "send"}
  BY DEF Task, NoTask
<1> HIDE DEF t
<1>8. TaskTypes' /\ task'[d] = t /\ \A e \in Devices : e # d => task'[e] = task[e]
  BY <1>1, <1>7, TaskSet DEF Types
<1>9. readmitted => HasSession(d)
  OBVIOUS
<1> HIDE DEF readmitted
<1>10. /\ RecordTypes' /\ \A e \in Devices : e # d => record'[e] = record[e]
       /\ readmitted => record'[d] = Readmits(record[d])
       /\ ~readmitted => record'[d] = record[d]
  <2>1. CASE readmitted
    <3>1. Readmits(record[d]) \in Record(d)
      BY <1>1, <1>9, <2>1, ReadmitsIs DEF HasSession, Types, RecordTypes
    <3> QED BY <1>1, <2>1, <3>1, RecordSet DEF Types
  <2>2. CASE ~readmitted
    BY <1>1, <2>2 DEF Types, RecordTypes
  <2> QED BY <2>1, <2>2
<1>11. Types' /\ published' = published
  BY <1>1, <1>3, <1>6, <1>8, <1>10 DEF Types, SweepTypes, UpTypes, DeviceTypes, HeldTypes
<1>12. \A x \in Devices : task'[x].at = "send" => task'[x] = task[x]
  BY <1>7, <1>8
<1>13. \A e \in Devices : e # d => Tame(e)
  BY <1>1, <1>6, <1>8, <1>10, <1>12, TameIf
<1>14. DownTame(d)
  BY <1>1, <1>5, <1>6, FramesAreTame DEF Types
<1>15. Calm(d)
  BY <1>1, <1>7, <1>8, <1>14, SameIsTame DEF Calm, PageTame
<1>16. CASE ~readmitted
  <2>1. TaskTame(d)
    BY <1>7, <1>8 DEF TaskTame, PageTame
  <2>2. \A e \in Devices : Tame(e)
    BY <1>1, <1>6, <1>8, <1>10, <1>12, <1>14, <1>16, <2>1, TameIf
  <2> QED BY <1>11, <2>2, TameKeeps DEF TameStep
<1>17. CASE readmitted
  <2>1. HasSession(d) /\ HasSession(d)' /\ ~record'[d].session.draining
    BY <1>1, <1>9, <1>10, <1>17, ReadmitsIs DEF HasSession, Types, RecordTypes
  <2>2. \A x \in Devices : Sends(x, d)' => Sends(x, d) /\ task'[x] = task[x]
    BY <1>12 DEF Sends
  <2>3. device'[d].link # "down"
    BY <1>1, <2>1 DEF Legal, Gone
  <2>4. Legal(d)'
    BY <1>1, <1>7, <1>8, <2>1, <2>2, <2>3
    DEF Legal, Gone, HelloIsFirst, JoinIsFirst, ReadersRead, ClearedBefore
  <2> QED BY <1>11, <1>13, <1>15, <2>4, OneOfAll
<1> QED BY <1>16, <1>17

LEMMA FanOutReadIs ==
  ASSUME IInv, NEW d \in Devices, FanOutRead(d)
  PROVE  IInv'
<1> DEFINE peers == {p \in Devices : record[p].joined /\ record[p].open /\ HasSession(p)}
           t == [at |-> "send", peers |-> peers, culled |-> peers \cap revoked, lost |-> {}]
<1>1. /\ Types /\ task' = [task EXCEPT ![d] = t]
      /\ UNCHANGED <<now, registry, record, sweep, up, down, device, held, cleared, left>>
  BY DEF FanOutRead, IInv, Culled
<1>2. /\ t \in Task(d) /\ t.at = "send" /\ t.peers = peers /\ t.culled = peers \cap revoked
  BY DEF Task, FanningOut
<1>3. \A e \in peers : record[e].joined /\ HasSession(e)
  OBVIOUS
<1> HIDE DEF t, peers
<1>4. TaskTypes' /\ task'[d] = t /\ \A e \in Devices : e # d => task'[e] = task[e]
  BY <1>1, <1>2, TaskSet DEF Types
<1>5. Types' /\ published' = published
  BY <1>1, <1>4 DEF Types, RegistryTypes, RecordTypes, UpTypes, DownTypes, DeviceTypes, SweepTypes,
     HeldTypes, registry
<1>6. ASSUME NEW e \in Devices PROVE Legal(e)' /\ Supplied(e)'
  <2>1. Legal(e)
    BY DEF IInv
  <2>2. \A x \in Devices : Sends(x, e)' => \/ Sends(x, e) /\ task'[x] = task[x]
                                           \/ x = d /\ e \in peers /\ task'[x] = t
    BY <1>2, <1>4 DEF Sends
  <2>3. task'[e].at = "page" => task[e].at = "page"
    BY <1>2, <1>4
  <2>4. Gone(e)'
    BY <1>1, <1>3, <2>1, <2>2 DEF Legal, Gone, HasSession
  <2>5. HelloIsFirst(e)'
    BY <1>1, <1>3, <2>1, <2>2 DEF Legal, HelloIsFirst, HasSession
  <2>6. ReadersRead(e)'
    BY <1>1, <1>3, <2>1, <2>2, <2>3 DEF Legal, ReadersRead, HasSession
  <2>7. ClearedBefore(e)'
    BY <1>1, <1>2, <2>1, <2>2, <2>3 DEF Legal, ClearedBefore, registry
  <2>8. PageTame(e)
    BY <1>2, <1>4 DEF PageTame
  <2>9. Calm(e)
    BY <1>1, <2>8, SameIsTame DEF Calm
  <2>10. JoinIsFirst(e)'
    BY <1>1, <1>2, <1>3, <1>4, <2>1, <2>2 DEF Legal, JoinIsFirst, HasSession
  <2> QED BY <1>1, <1>5, <2>4, <2>5, <2>6, <2>7, <2>9, <2>10, SuppliedStays DEF Legal, IInv
<1> QED BY <1>5, <1>6 DEF IInv

-----------------------------------------------------------------------------
(* A request becomes a handler, and the handler a response.                *)

LEMMA FlowsServes ==
  ASSUME NEW S, NEW u \in Seq(S), u # <<>>, NEW w, NEW t, NEW t2, NEW f, NEW h, NEW versions, NEW a,
         Flows(u, w, t, f, h, versions, a), About(Head(u), "reference_request", a),
         t2.at = "page", t2.request = Head(u)
  PROVE  Flows(Tail(u), w, t2, f, h, versions, a)
<1>1. Len(u) \in Nat /\ 1 \in 1..Len(u) /\ u[1] = Head(u)
  OBVIOUS
<1>2. \A i \in 1..Len(Tail(u)) : i + 1 \in 1..Len(u) /\ i + 1 # 1 /\ u[i + 1] = Tail(u)[i]
  OBVIOUS
<1>3. None(Tail(u), "reference_request", a)
  BY <1>1, <1>2 DEF Flows, Single, None
<1>4. ~None(u, "reference_request", a)
  BY <1>1 DEF None
<1>5. None(w, "reference_response", a)
  BY <1>4 DEF Flows
<1>6. Asks(t2.request, f, versions)
  BY <1>1 DEF Flows
<1> QED BY <1>3, <1>5, <1>6 DEF Flows, None, Single

LEMMA FlowsAnswered ==
  ASSUME NEW R, NEW w \in Seq(R), NEW x \in R, NEW u, NEW t, NEW t2, NEW f, NEW h, NEW versions, NEW a,
         Flows(u, w, t, f, h, versions, a), Serves(t, a), ~Serves(t2, a),
         Answers(x.page, f, versions)
  PROVE  Flows(u, w \o <<x>>, t2, f, h, versions, a)
<1>1. None(u, "reference_request", a) /\ None(w, "reference_response", a)
      /\ Single(u, "reference_request", a)
      /\ (f # NoFetch => f.have = h.version)
  BY DEF Flows
<1>2. \A i \in 1..Len(w \o <<x>>) : \/ i \in 1..Len(w) /\ (w \o <<x>>)[i] = w[i]
                                    \/ i = Len(w) + 1 /\ (w \o <<x>>)[i] = x
  OBVIOUS
<1>3. \A i \in 1..Len(w \o <<x>>) :
        About((w \o <<x>>)[i], "reference_response", a) => i = Len(w) + 1 /\ (w \o <<x>>)[i] = x
  BY <1>1, <1>2 DEF None
<1>4. Single(w \o <<x>>, "reference_response", a)
  BY <1>3 DEF Single
<1>5. \A i \in 1..Len(w \o <<x>>) :
        About((w \o <<x>>)[i], "reference_response", a) => Answers((w \o <<x>>)[i].page, f, versions)
  BY <1>3
<1>6. \A i \in 1..Len(u) : About(u[i], "reference_request", a) => Asks(u[i], f, versions)
  BY <1>1 DEF None
<1> QED BY <1>1, <1>4, <1>5, <1>6 DEF Flows

(* Frames about other artifacts are no concern of this one.                *)
LEMMA OthersInherit ==
  ASSUME NEW S, NEW s \in Seq(S), NEW fs \in Seq(S), NEW k, NEW a, None(fs, k, a)
  PROVE  Inherits(s \o fs, s, k, a) /\ Inherits(s, s, k, a)
<1>1. \A i \in 1..Len(s \o fs) : \/ i \in 1..Len(s) /\ (s \o fs)[i] = s[i]
                                 \/ i - Len(s) \in 1..Len(fs) /\ (s \o fs)[i] = fs[i - Len(s)]
  OBVIOUS
<1>2. \A i \in 1..Len(s \o fs) :
        About((s \o fs)[i], k, a) => i \in 1..Len(s) /\ (s \o fs)[i] = s[i]
  BY <1>1 DEF None
<1> QED BY <1>2 DEF Inherits, Single, None

LEMMA TailInherits ==
  ASSUME NEW S, NEW s \in Seq(S), s # <<>>, NEW k, NEW a
  PROVE  Inherits(Tail(s), s, k, a)
<1>1. Fewer(Tail(s), s, {k}) /\ Tail(s) \in Seq(S) /\ k \in {k}
  BY FewerOfTail
<1> QED BY <1>1, FewerAbout

LEMMA ReadFrameIs ==
  ASSUME IInv, NEW d \in Devices, ReadFrame(d)
  PROVE  IInv'
<1> DEFINE q == Head(up[d])
           t == [at |-> "page", request |-> q]
           kinds == {"catchup_request", "reference_request"}
<1>1. /\ Types /\ Legal(d) /\ Supplied(d) /\ Next1(d, kinds)
      /\ UNCHANGED <<now, registry, sweep, held, cleared, left>>
  BY DEF ReadFrame, IInv
<1>2. CASE Refuse(d, <<>>)
  <2>1. <<>> \in Seq(DownFrame(d)) /\ Harmless(<<>>, Bringing)
    BY DEF Harmless
  <2> QED BY <1>1, <1>2, <2>1, RefusedIs, TameKeeps
<1>3. CASE ~(d \in revoked \/ ~HasSession(d) \/ record[d].session.draining)
  <2>1. task' = [task EXCEPT ![d] = t] /\ UNCHANGED <<record, down, device>>
    BY <1>3 DEF ReadFrame
  <2>2. /\ UpTypes' /\ up[d] # <<>> /\ up'[d] = Tail(up[d]) /\ task[d] = NoTask
        /\ \A e \in Devices : e # d => up'[e] = up[e]
        /\ q \in UpFrame(d) /\ q.kind \in kinds
    BY <1>1, Next1Is DEF Types
  <2>3. q \in Reads
    BY <2>2, UpFrameIs
  <2>4. t \in Task(d) /\ t.at = "page" /\ t.request = q
    BY <2>3 DEF Task
  <2> HIDE DEF t, q
  <2>5. TaskTypes' /\ task'[d] = t /\ \A e \in Devices : e # d => task'[e] = task[e]
    BY <1>1, <2>1, <2>4, TaskSet DEF Types
  <2>6. Types' /\ published' = published
    BY <1>1, <2>1, <2>2, <2>5 DEF Types, RegistryTypes, RecordTypes, DownTypes, DeviceTypes,
       SweepTypes, HeldTypes, registry
  <2>7. \A x \in Devices : task'[x].at = "send" => task'[x] = task[x]
    BY <2>4, <2>5
  <2>8. ASSUME NEW e \in Devices, e # d PROVE Legal(e)' /\ Supplied(e)'
    <3>1. Tame(e)
      BY <1>1, <2>1, <2>2, <2>5, <2>7, <2>8, TameIf DEF registry
    <3> QED BY <1>1, <2>6, <3>1, TameStaysLegal, SuppliedStays DEF IInv, Tame
  <2>9. Legal(d)'
    <3>1. up[d] \in Seq(UpFrame(d)) /\ device[d].link # "down"
      BY <1>1, <2>2 DEF Types, UpTypes, Legal, Gone
    <3>2. \A i \in 1..Len(up'[d]) : up'[d][i].kind # "hello"
      <4>1. ASSUME NEW i \in 1..Len(Tail(up[d])), Tail(up[d])[i].kind = "hello" PROVE FALSE
        <5>1. i + 1 \in 1..Len(up[d]) /\ up[d][i + 1].kind = "hello" /\ i + 1 # 1
          BY <2>2, <3>1, <4>1
        <5> QED BY <1>1, <5>1 DEF Legal, HelloIsFirst
      <4> QED BY <2>2, <4>1
    <3>3. \A x \in Devices : Sends(x, d)' => Sends(x, d) /\ task'[x] = task[x]
      BY <2>7 DEF Sends
    <3>4. HelloIsFirst(d)' /\ JoinIsFirst(d)'
      BY <2>4, <2>5, <3>2 DEF HelloIsFirst, JoinIsFirst
    <3>5. Gone(d)'
      BY <2>1, <3>1 DEF Gone
    <3> QED BY <1>1, <1>3, <2>1, <3>3, <3>4, <3>5
        DEF Legal, ReadersRead, ClearedBefore, HasSession, registry
  <2>10. ASSUME NEW a \in Artifacts PROVE Fetching(d, a)' /\ Whole(held[d][a], published[a])'
    <3>1. Fetching(d, a) /\ Whole(held[d][a], published[a])
      BY <1>1 DEF Supplied
    <3>2. Flows(up[d], down[d], task[d], device[d].fetch[a], held[d][a], published[a], a)
      BY <1>1, <2>2, <3>1 DEF Fetching, Legal, Gone
    <3>3. up[d] \in Seq(UpFrame(d)) /\ down[d] \in Seq(DownFrame(d))
      BY <1>1 DEF Types, UpTypes, DownTypes
    <3>4. Flows(Tail(up[d]), down[d], t, device[d].fetch[a], held[d][a], published[a], a)
      <4>1. CASE About(q, "reference_request", a)
        BY <2>2, <2>4, <3>2, <3>3, <4>1, FlowsServes DEF q
      <4>2. CASE ~About(q, "reference_request", a)
        <5>1. ~Serves(t, a)
          BY <2>4, <4>2 DEF Serves
        <5>2. /\ Inherits(Tail(up[d]), up[d], "reference_request", a)
              /\ Inherits(down[d], down[d], "reference_response", a)
          <6>1. <<>> \in Seq(DownFrame(d)) /\ None(<<>>, "reference_response", a)
            BY DEF None
          <6> QED BY <2>2, <3>3, <6>1, TailInherits, OthersInherit
        <5> QED BY <3>2, <5>1, <5>2, FlowsInherit
      <4> QED BY <4>1, <4>2
    <3> QED BY <1>1, <2>1, <2>2, <2>5, <3>1, <3>4 DEF Fetching, Whole, registry
  <2> QED BY <2>6, <2>8, <2>9, <2>10 DEF IInv, Supplied
<1> QED BY <1>2, <1>3 DEF ReadFrame

LEMMA ServePageIs ==
  ASSUME IInv, NEW d \in Devices, ServePage(d)
  PROVE  IInv'
<1> DEFINE r == task[d].request
           x == IF r.kind = "catchup_request" THEN [kind |-> "catchup_response"]
                ELSE [kind |-> "reference_response", artifact |-> r.artifact,
                      page |-> Page(r.artifact, r.have, r.from, r.at)]
<1>1. /\ Types /\ Legal(d) /\ Supplied(d) /\ task[d].at = "page" /\ Reply(d, <<x>>)
      /\ task' = [task EXCEPT ![d] = NoTask]
      /\ UNCHANGED <<now, registry, record, sweep, up, device, held, cleared, left>>
  <2>1. <<x>> = IF r.kind = "catchup_request" THEN <<[kind |-> "catchup_response"]>>
                ELSE <<[kind |-> "reference_response", artifact |-> r.artifact,
                        page |-> Page(r.artifact, r.have, r.from, r.at)]>>
    OBVIOUS
  <2> HIDE DEF x
  <2> QED BY <2>1 DEF ServePage, IInv
<1>2. r \in Reads
  BY <1>1, TaskIs DEF Types, TaskTypes
<1>3. TaskTypes' /\ task'[d] = NoTask /\ \A e \in Devices : e # d => task'[e] = task[e]
  BY <1>1, NoTaskIs, TaskSet DEF Types
<1>4. x \in DownFrame(d)
  <2>1. CASE r.kind = "catchup_request"
    BY <2>1 DEF DownFrame
  <2>2. CASE r.kind # "catchup_request"
    <3>1. /\ r.kind = "reference_request" /\ r.artifact \in Artifacts
          /\ r.have \in Nat /\ r.from \in Nat /\ r.at \in Nat
      BY <1>2, <2>2, ReadIs DEF Reads
    <3>2. published[r.artifact] \in Seq(Changes)
      BY <1>1, <3>1 DEF Types, RegistryTypes
    <3>3. Target(r.artifact, r.from, r.at) \in 0..Len(published[r.artifact])
      BY <3>1, <3>2 DEF Target
    <3>4. Page(r.artifact, r.have, r.from, r.at) \in Pages
      BY <3>1, <3>2, <3>3, PageIsTyped DEF Page
    <3>5. x = [kind |-> "reference_response", artifact |-> r.artifact,
               page |-> Page(r.artifact, r.have, r.from, r.at)]
      BY <2>2
    <3> QED BY <3>1, <3>4, <3>5 DEF DownFrame, Responses
  <2> QED BY <2>1, <2>2
<1>5. /\ r.kind = "catchup_request" => x.kind = "catchup_response"
      /\ r.kind # "catchup_request" =>
           /\ x.kind = "reference_response" /\ x.artifact = r.artifact
           /\ x.page = Page(r.artifact, r.have, r.from, r.at)
  OBVIOUS
<1> HIDE DEF x
<1>6. <<x>> \in Seq(DownFrame(d))
  BY <1>4
<1>7. DownTypes' /\ down'[d] = Frames(d, <<x>>) /\ \A e \in Devices : e # d => down'[e] = down[e]
  BY <1>1, <1>6, ReplyIs DEF Types
<1>8. Types' /\ published' = published
  BY <1>1, <1>3, <1>7 DEF Types, RegistryTypes, RecordTypes, UpTypes, DeviceTypes, SweepTypes,
     HeldTypes, registry
<1>9. \A y \in Devices : task'[y].at = "send" => task'[y] = task[y]
  BY <1>3, NoTaskIs
<1>10. ASSUME NEW e \in Devices, e # d PROVE Legal(e)' /\ Supplied(e)'
  <2>1. Tame(e)
    BY <1>1, <1>3, <1>7, <1>9, <1>10, TameIf DEF registry
  <2> QED BY <1>1, <1>8, <2>1, TameStaysLegal, SuppliedStays DEF IInv, Tame
<1>11. Legal(d)'
  <2>1. device[d].link = "down" => down'[d] = down[d]
    BY <1>7 DEF Frames
  <2>2. \A y \in Devices : Sends(y, d)' => Sends(y, d) /\ task'[y] = task[y]
    BY <1>9 DEF Sends
  <2>3. task'[d].at = "none"
    BY <1>3, NoTaskIs
  <2>4. Gone(d)'
    BY <1>1, <2>1, <2>2 DEF Legal, Gone, HasSession
  <2>5. HelloIsFirst(d)' /\ JoinIsFirst(d)'
    BY <1>1, <2>2, <2>3 DEF Legal, HelloIsFirst, JoinIsFirst, HasSession
  <2> QED BY <1>1, <2>2, <2>3, <2>4, <2>5
      DEF Legal, ReadersRead, ClearedBefore, HasSession, registry
<1>12. ASSUME NEW a \in Artifacts PROVE Fetching(d, a)' /\ Whole(held[d][a], published[a])'
  <2> DEFINE f == device[d].fetch[a]
             vs == published[a]
  <2>1. Fetching(d, a) /\ Whole(held[d][a], vs)
    BY <1>1 DEF Supplied
  <2>2. /\ up[d] \in Seq(UpFrame(d)) /\ down[d] \in Seq(DownFrame(d)) /\ ~Serves(NoTask, a)
        /\ vs \in Seq(Changes) /\ f \in Fetches \cup {NoFetch} /\ held[d][a] \in Holding
    BY <1>1 DEF Types, UpTypes, DownTypes, Serves, NoTask, RegistryTypes, DeviceTypes, Memory,
       HeldTypes, Holding
  <2>3. ASSUME device[d].link # "down"
        PROVE  Flows(up[d], down'[d], NoTask, f, held[d][a], vs, a)
    <3>1. Flows(up[d], down[d], task[d], f, held[d][a], vs, a)
      BY <2>1, <2>3 DEF Fetching
    <3>2. <<>> \in Seq(UpFrame(d)) /\ None(<<>>, "reference_request", a)
          /\ <<>> \in Seq(DownFrame(d)) /\ None(<<>>, "reference_response", a)
      BY DEF None
    <3>3. /\ Inherits(up[d], up[d], "reference_request", a)
          /\ Inherits(down[d], down[d], "reference_response", a)
      BY <2>2, <3>2, OthersInherit
    <3>4. CASE down'[d] = down[d]
      BY <2>2, <3>1, <3>3, <3>4, FlowsInherit
    <3>5. CASE down'[d] = down[d] \o <<x>> /\ ~About(x, "reference_response", a)
      <4>1. None(<<x>>, "reference_response", a)
        BY <3>5 DEF None
      <4>2. Inherits(down[d] \o <<x>>, down[d], "reference_response", a)
        BY <1>6, <2>2, <4>1, OthersInherit
      <4> QED BY <2>2, <3>1, <3>3, <3>5, <4>2, FlowsInherit
    <3>6. CASE down'[d] = down[d] \o <<x>> /\ About(x, "reference_response", a)
      <4>1. r.kind = "reference_request" /\ r.artifact = a
            /\ x.page = Page(a, r.have, r.from, r.at)
        BY <1>2, <1>5, <3>6 DEF About, Reads
      <4>2. Serves(task[d], a)
        BY <1>1, <4>1 DEF Serves, About
      <4>3. Asks(r, f, vs) /\ (f # NoFetch => f.have = held[d][a].version)
        BY <3>1, <4>2 DEF Flows
      <4>4. f \in Fetches /\ f.have <= Len(vs) /\ r.from \in Nat
        BY <1>2, <2>1, <2>2, <4>1, <4>3, ReadIs DEF Asks, Whole
      <4>5. Answers(x.page, f, vs)
        BY <2>2, <4>1, <4>3, <4>4, AskedIsAnswered
      <4> QED BY <1>4, <2>2, <3>1, <3>6, <4>2, <4>5, FlowsAnswered
    <3> QED BY <1>7, <3>4, <3>5, <3>6 DEF Frames
  <2> QED BY <1>1, <1>3, <2>1, <2>3 DEF Fetching, Whole, registry
<1> QED BY <1>8, <1>10, <1>11, <1>12 DEF IInv, Supplied

-----------------------------------------------------------------------------
(* Revocations and publishes; connections that come and go.                *)

LEMMA RevokeIs ==
  ASSUME IInv, NEW d \in Devices, Revoke(d)
  PROVE  IInv'
<1> DEFINE c == {x \in Devices : \/ task[x].at = "send" /\ d \in task[x].peers
                                 \/ task[x].at = "page" /\ x = d}
<1>1. /\ Types /\ revoked' = revoked \cup {d} /\ cleared' = [cleared EXCEPT ![d] = c]
      /\ UNCHANGED <<now, expires, merged, published, unannounced, gateway, up, down, device, held>>
  BY DEF Revoke, IInv
<1>2. cleared'[d] = c /\ \A e \in Devices : e # d => cleared'[e] = cleared[e]
  BY <1>1 DEF Types, RegistryTypes
<1>3. RegistryTypes'
  BY <1>1 DEF Types, RegistryTypes
<1>4. Types' /\ published' = published
  BY <1>1, <1>3 DEF Types, RecordTypes, TaskTypes, UpTypes, DownTypes, DeviceTypes, SweepTypes,
     HeldTypes, gateway
<1>5. \A e \in Devices : Calm(e)
  BY <1>1, SameIsTame DEF Calm, TaskTame, gateway
<1>6. \A e \in Devices : e # d => Tame(e)
  <2>1. \A e \in Devices : SendsTame(e) /\ RecordTame(e) /\ TaskTame(e)
    BY <1>1, SendsStay, SameIsTame DEF gateway
  <2> QED BY <1>1, <1>2, <1>5, <2>1 DEF Tame
<1>7. Legal(d)'
  <2>1. Legal(d)
    BY DEF IInv
  <2>2. Gone(d)' /\ HelloIsFirst(d)' /\ JoinIsFirst(d)' /\ ReadersRead(d)'
    BY <1>1, <2>1
    DEF Legal, Gone, HelloIsFirst, JoinIsFirst, ReadersRead, HasSession, Sends, gateway
  <2>3. ClearedBefore(d)'
    BY <1>1, <1>2 DEF ClearedBefore, Sends, gateway
  <2> QED BY <2>2, <2>3 DEF Legal
<1> QED BY <1>4, <1>5, <1>6, <1>7, OneOfAll

LEMMA FlowsStays ==
  ASSUME NEW vs \in Seq(Changes), NEW c \in Changes, NEW u, NEW w, NEW t,
         NEW f \in Fetches \cup {NoFetch}, NEW h, NEW a, Flows(u, w, t, f, h, vs, a)
  PROVE  Flows(u, w, t, f, h, Append(vs, c), a)
<1>1. \A q : Asks(q, f, vs) => Asks(q, f, Append(vs, c))
  BY AsksStays DEF Asks
<1>2. \A p : Answers(p, f, vs) => Answers(p, f, Append(vs, c))
  BY AnswersStays DEF Answers
<1> QED BY <1>1, <1>2 DEF Flows

LEMMA WholeStays ==
  ASSUME NEW vs \in Seq(Changes), NEW c \in Changes, NEW h \in Holding, Whole(h, vs)
  PROVE  Whole(h, Append(vs, c))
<1>1. h.version \in 0..Len(vs) /\ 0 \in 0..h.version /\ h.version <= Len(Append(vs, c))
  BY DEF Holding, Whole
<1>2. Reference!Fold(Append(vs, c), 0, h.version) = Reference!Fold(vs, 0, h.version)
  BY <1>1, EarlierStay
<1> QED BY <1>1, <1>2 DEF Whole

LEMMA PublishIs ==
  ASSUME IInv, NEW a \in Artifacts, Publish(a)
  PROVE  IInv'
<1>1. PICK c \in Changes : published' = [published EXCEPT ![a] = Append(@, c)]
  BY DEF Publish
<1>2. /\ Types
      /\ unannounced' = unannounced \cup {[artifact |-> a, version |-> Len(published'[a])]}
      /\ UNCHANGED <<now, revoked, expires, merged, gateway, up, down, device, held, cleared>>
  BY DEF Publish, IInv
<1>3. /\ published' \in [Artifacts -> Seq(Changes)]
      /\ published'[a] = Append(published[a], c)
      /\ \A b \in Artifacts : b # a => published'[b] = published[b]
  BY <1>1, <1>2 DEF Types, RegistryTypes
<1>4. Len(published'[a]) \in Nat
  BY <1>3
<1>5. RegistryTypes'
  BY <1>2, <1>3, <1>4 DEF Types, RegistryTypes
<1>6. Types'
  BY <1>2, <1>5 DEF Types, RecordTypes, TaskTypes, UpTypes, DownTypes, DeviceTypes, SweepTypes,
     HeldTypes, gateway
<1>7. ASSUME NEW e \in Devices PROVE Legal(e)'
  <2>1. Tame(e)
    BY <1>2, TameIf DEF gateway
  <2> QED BY <1>2, <1>6, <2>1, TameStaysLegal DEF IInv
<1>8. ASSUME NEW e \in Devices, NEW b \in Artifacts
      PROVE  Fetching(e, b)' /\ Whole(held[e][b], published[b])'
  <2> DEFINE f == device[e].fetch[b]
             vs == published[b]
  <2>1. Fetching(e, b) /\ Whole(held[e][b], vs)
    BY DEF IInv, Supplied
  <2>2. vs \in Seq(Changes) /\ f \in Fetches \cup {NoFetch} /\ held[e][b] \in Holding
    BY <1>2 DEF Types, RegistryTypes, DeviceTypes, Memory, HeldTypes, Holding
  <2>3. CASE b = a
    <3>1. Whole(held[e][b], Append(vs, c))
      BY <2>1, <2>2, WholeStays
    <3>2. ASSUME device[e].link # "down"
          PROVE  Flows(up[e], down[e], task[e], f, held[e][b], Append(vs, c), b)
      BY <2>1, <2>2, <3>2, FlowsStays DEF Fetching
    <3> QED BY <1>2, <1>3, <2>3, <3>1, <3>2 DEF Fetching, gateway, Whole
  <2>4. CASE b # a
    BY <1>2, <1>3, <2>1, <2>4 DEF Fetching, gateway, Whole
  <2> QED BY <2>3, <2>4
<1> QED BY <1>6, <1>7, <1>8 DEF IInv, Supplied

LEMMA ConnectIs ==
  ASSUME IInv, NEW d \in Devices, Connect(d)
  PROVE  IInv'
<1> DEFINE hello == [kind |-> "hello", token |-> device[d].token]
           r == [Closed EXCEPT !.open = TRUE]
           m == Linked(device[d], "up")
<1>1. /\ Types /\ Legal(d) /\ Supplied(d) /\ device[d].link = "down" /\ task[d] = NoTask
      /\ device' = [device EXCEPT ![d] = m] /\ record' = [record EXCEPT ![d] = r]
      /\ up' = [up EXCEPT ![d] = <<hello>>]
      /\ UNCHANGED <<now, registry, task, sweep, down, held, cleared, left>>
  BY DEF Connect, IInv, Linked, Types, DeviceTypes, Mapped
<1>2. hello \in UpFrame(d) /\ hello.kind = "hello"
  BY <1>1 DEF UpFrame, Types, DeviceTypes, Memory
<1>3. m \in Memory(d) /\ m.link = "up" /\ m.fetch = device[d].fetch
  BY <1>1, LinkSet DEF Types, DeviceTypes
<1>4. r \in Record(d) /\ r.session = NoSession /\ r.joined = FALSE
  BY DEF Closed, Record
<1> HIDE DEF hello, m, r
<1>5. UpTypes' /\ up'[d] = <<hello>> /\ \A e \in Devices : e # d => up'[e] = up[e]
  BY <1>1, <1>2, OneFrame, UpSet DEF Types
<1>6. DeviceTypes' /\ device'[d] = m /\ \A e \in Devices : e # d => device'[e] = device[e]
  BY <1>1, <1>3, DeviceSet DEF Types
<1>7. RecordTypes' /\ record'[d] = r /\ \A e \in Devices : e # d => record'[e] = record[e]
  BY <1>1, <1>4, RecordSet DEF Types
<1>8. Types' /\ published' = published
  BY <1>1, <1>5, <1>6, <1>7 DEF Types, RegistryTypes, TaskTypes, DownTypes, SweepTypes, HeldTypes,
     registry
<1>9. ASSUME NEW e \in Devices, e # d PROVE Legal(e)' /\ Supplied(e)'
  <2>1. Tame(e)
    BY <1>1, <1>5, <1>6, <1>7, <1>9, TameIf DEF registry
  <2> QED BY <1>1, <1>8, <2>1, TameStaysLegal, SuppliedStays DEF IInv, Tame
<1>10. /\ down[d] = <<>> /\ \A x \in Devices : ~Sends(x, d)
       /\ \A a \in Artifacts : device[d].fetch[a] = NoFetch
  BY <1>1 DEF Legal, Gone
<1>11. Legal(d)'
  <2>1. ~HasSession(d)' /\ \A x \in Devices : ~Sends(x, d)'
    BY <1>1, <1>4, <1>7, <1>10 DEF HasSession, Sends
  <2>2. \A i \in 1..Len(up'[d]) : i = 1
    BY <1>5
  <2>3. task'[d].at = "none" /\ device'[d].link # "down"
    BY <1>1, <1>3, <1>6, NoTaskIs
  <2> QED BY <2>1, <2>2, <2>3
      DEF Legal, Gone, HelloIsFirst, JoinIsFirst, ReadersRead, ClearedBefore
<1>12. ASSUME NEW a \in Artifacts PROVE Fetching(d, a)' /\ Whole(held[d][a], published[a])'
  <2>1. Whole(held[d][a], published[a])
    BY <1>1 DEF Supplied
  <2>2. /\ None(<<hello>>, "reference_request", a) /\ None(<<>>, "reference_response", a)
        /\ ~Serves(NoTask, a)
    BY <1>2, NoTaskIs DEF None, About, Serves
  <2>3. Flows(<<hello>>, <<>>, NoTask, NoFetch, held[d][a], published[a], a)
    BY <2>2 DEF Flows, None, Single
  <2>4. up'[d] = <<hello>> /\ down'[d] = <<>> /\ task'[d] = NoTask
        /\ device'[d].fetch[a] = NoFetch /\ held' = held /\ published' = published
    BY <1>1, <1>3, <1>5, <1>6, <1>10 DEF registry
  <2> QED BY <2>1, <2>3, <2>4 DEF Fetching, Whole
<1> QED BY <1>8, <1>9, <1>11, <1>12 DEF IInv, Supplied

LEMMA AfterDownIs ==
  ASSUME NEW d \in Devices, NEW m \in Memory(d)
  PROVE  /\ AfterDown(m) \in Memory(d) /\ AfterDown(m).link = "down"
         /\ \A a \in Artifacts : AfterDown(m).fetch[a] = NoFetch
<1>1. [a \in Artifacts |-> NoFetch] \in [Artifacts -> Fetches \cup {NoFetch}]
      /\ [a \in Artifacts |-> 0] \in Told
  BY DEF Told
<1> QED BY <1>1 DEF AfterDown, Memory

Without(t, d) == [t EXCEPT !.peers = @ \ {d}, !.culled = @ \ {d}]

LEMMA WithoutIs ==
  ASSUME NEW x \in Devices, NEW t \in Task(x), t.at = "send", NEW d
  PROVE  /\ Without(t, d) \in Task(x) /\ Without(t, d).at = "send"
         /\ Without(t, d).peers = t.peers \ {d} /\ Without(t, d).culled = t.culled \ {d}
<1>1. t \in FanningOut
  BY TaskIs
<1>2. /\ Without(t, d) \in FanningOut /\ Without(t, d).at = "send"
      /\ Without(t, d).peers = t.peers \ {d} /\ Without(t, d).culled = t.culled \ {d}
  BY <1>1 DEF FanningOut, Without
<1> QED BY <1>2 DEF Task

LEMMA DisconnectIs ==
  ASSUME IInv, NEW d \in Devices, Disconnect(d)
  PROVE  IInv'
<1> DEFINE m == AfterDown(device[d])
<1>1. /\ Types /\ Legal(d) /\ Supplied(d)
      /\ device' = [device EXCEPT ![d] = m] /\ record' = [record EXCEPT ![d] = Closed]
      /\ up' = [up EXCEPT ![d] = <<>>] /\ down' = [down EXCEPT ![d] = <<>>]
      /\ task' = [x \in Devices |-> IF task[x].at = "send" THEN Without(task[x], d) ELSE task[x]]
      /\ sweep' = IF sweep = NoSweep THEN sweep ELSE [sweep EXCEPT !.found = @ \ {d}]
      /\ UNCHANGED <<now, registry, held, cleared>>
  BY DEF Disconnect, IInv, Types, DeviceTypes, Mapped, Without
<1>2. m \in Memory(d) /\ m.link = "down" /\ \A a \in Artifacts : m.fetch[a] = NoFetch
  BY <1>1, AfterDownIs DEF Types, DeviceTypes
<1>3. Closed \in Record(d) /\ Closed.session = NoSession /\ ~Closed.joined /\ ~Closed.open
  BY DEF Closed, Record
<1> HIDE DEF m
<1>4. UpTypes' /\ up'[d] = <<>> /\ \A e \in Devices : e # d => up'[e] = up[e]
  <2>1. <<>> \in Seq(UpFrame(d))
    OBVIOUS
  <2> QED BY <1>1, <2>1, UpSet DEF Types
<1>5. DownTypes' /\ down'[d] = <<>> /\ \A e \in Devices : e # d => down'[e] = down[e]
  <2>1. <<>> \in Seq(DownFrame(d))
    OBVIOUS
  <2> QED BY <1>1, <2>1, DownSet DEF Types
<1>6. DeviceTypes' /\ device'[d] = m /\ \A e \in Devices : e # d => device'[e] = device[e]
  BY <1>1, <1>2, DeviceSet DEF Types
<1>7. RecordTypes' /\ record'[d] = Closed /\ \A e \in Devices : e # d => record'[e] = record[e]
  BY <1>1, <1>3, RecordSet DEF Types
<1>8. ASSUME NEW x \in Devices
      PROVE  /\ task'[x] \in Task(x) /\ task'[x].at = task[x].at
             /\ task[x].at # "send" => task'[x] = task[x]
             /\ task[x].at = "send" => /\ task'[x].peers = task[x].peers \ {d}
                                       /\ task'[x].culled = task[x].culled \ {d}
  <2>1. task'[x] = IF task[x].at = "send" THEN Without(task[x], d) ELSE task[x]
    BY <1>1
  <2>2. task[x] \in Task(x)
    BY <1>1 DEF Types, TaskTypes
  <2> QED BY <2>1, <2>2, WithoutIs
<1>9. TaskTypes'
  <2>1. task' = [x \in Devices |-> task'[x]]
    BY <1>1
  <2> QED BY <1>8, <2>1, Zenon DEF TaskTypes, Mapped
<1>10. SweepTypes'
  <2>1. CASE sweep = NoSweep
    BY <1>1, <2>1 DEF Types, SweepTypes
  <2>2. CASE sweep # NoSweep
    <3>1. sweep \in [at : {"drop"}, found : SUBSET Devices, proven : BOOLEAN]
      BY <1>1, <2>2 DEF Types, SweepTypes
    <3>2. sweep' = [sweep EXCEPT !.found = @ \ {d}]
      BY <1>1, <2>2
    <3> QED BY <3>1, <3>2 DEF SweepTypes
  <2> QED BY <2>1, <2>2
<1>11. Types' /\ published' = published
  BY <1>1, <1>4, <1>5, <1>6, <1>7, <1>9, <1>10 DEF Types, RegistryTypes, HeldTypes, registry
<1>12. ASSUME NEW e \in Devices, e # d PROVE Legal(e)' /\ Supplied(e)'
  <2>1. SendsTame(e)
    BY <1>8, <1>12 DEF SendsTame, Sends
  <2>2. Calm(e) /\ RecordTame(e) /\ TaskTame(e)
    BY <1>1, <1>4, <1>5, <1>6, <1>7, <1>8, <1>12, SameIsTame DEF Calm, TaskTame, PageTame
  <2>3. Tame(e)
    BY <1>1, <2>1, <2>2 DEF Tame, registry
  <2> QED BY <1>1, <1>11, <2>3, TameStaysLegal, SuppliedStays DEF IInv, Tame
<1>13. Legal(d)'
  <2>1. ~HasSession(d)' /\ \A x \in Devices : ~Sends(x, d)'
    BY <1>3, <1>7, <1>8 DEF HasSession, Sends
  <2>2. task'[d].at = "page" => task[d].at = "page"
    BY <1>8
  <2>3. Gone(d)' /\ HelloIsFirst(d)' /\ JoinIsFirst(d)'
    BY <1>2, <1>3, <1>4, <1>5, <1>6, <1>7, <2>1 DEF Gone, HelloIsFirst, JoinIsFirst
  <2>4. ReadersRead(d)' /\ ClearedBefore(d)'
    BY <1>1, <2>1, <2>2 DEF Legal, ReadersRead, ClearedBefore, registry
  <2> QED BY <2>3, <2>4 DEF Legal
<1>14. Supplied(d)'
  BY <1>1, <1>2, <1>6 DEF Supplied, Fetching, Whole, registry
<1> QED BY <1>11, <1>12, <1>13, <1>14 DEF IInv

-----------------------------------------------------------------------------
(* The device fetches: what it is told of, what it is brought, what it     *)
(* then holds.                                                             *)

LEMMA FlowsBegins ==
  ASSUME NEW S, NEW u \in Seq(S), NEW fs \in Seq(S), NEW w, NEW t, NEW f, NEW h, NEW versions, NEW a,
         None(u, "reference_request", a), None(w, "reference_response", a), ~Serves(t, a),
         Single(fs, "reference_request", a),
         \A i \in 1..Len(fs) : About(fs[i], "reference_request", a) => Asks(fs[i], f, versions),
         f # NoFetch => f.have = h.version
  PROVE  Flows(u \o fs, w, t, f, h, versions, a)
<1> DEFINE s == u \o fs
<1>1. \A i \in 1..Len(s) : \/ i \in 1..Len(u) /\ s[i] = u[i]
                           \/ i - Len(u) \in 1..Len(fs) /\ s[i] = fs[i - Len(u)]
  OBVIOUS
<1>2. Len(u) \in Nat /\ Len(s) \in Nat
  OBVIOUS
<1> HIDE DEF s
<1>3. \A i \in 1..Len(s) : About(s[i], "reference_request", a) =>
        i - Len(u) \in 1..Len(fs) /\ s[i] = fs[i - Len(u)]
  BY <1>1 DEF None
<1>4. \A i, j \in 1..Len(s) : i - Len(u) = j - Len(u) => i = j
  BY <1>2
<1>5. Single(s, "reference_request", a)
  BY <1>3, <1>4 DEF Single
<1>6. \A i \in 1..Len(s) : About(s[i], "reference_request", a) => Asks(s[i], f, versions)
  BY <1>3
<1>7. Single(w, "reference_response", a)
      /\ \A i \in 1..Len(w) : About(w[i], "reference_response", a) => Answers(w[i].page, f, versions)
  BY DEF None, Single
<1> QED BY <1>5, <1>6, <1>7 DEF Flows, s

(* A device takes a frame, and moves on with some of its fetches: of those *)
(* nothing is under way.                                                   *)
Idle(d, a) ==
  /\ None(up[d], "reference_request", a) /\ None(Tail(down[d]), "reference_response", a)
  /\ ~Serves(task[d], a)

Moves(d, m, h, fs, a) ==
  /\ Idle(d, a) /\ Single(fs, "reference_request", a)
  /\ \A i \in 1..Len(fs) : About(fs[i], "reference_request", a) => Asks(fs[i], m.fetch[a], published[a])
  /\ m.fetch[a] # NoFetch => m.fetch[a].have = h[a].version
Rests(d, m, h, fs, a) ==
  None(fs, "reference_request", a) /\ m.fetch[a] = device[d].fetch[a] /\ h[a] = held[d][a]

LEMMA MovesIs ==
  ASSUME IInv, NEW d \in Devices, NEW kinds, Receives(d, kinds),
         UNCHANGED <<now, registry, gateway, cleared, left>>,
         NEW fs \in Seq(UpFrame(d)), Ask(d, fs), Harmless(fs, {"hello"}),
         NEW m \in Memory(d), device' = [device EXCEPT ![d] = m], m.link = device[d].link,
         NEW h \in [Artifacts -> Holding], held' = [held EXCEPT ![d] = h],
         \A a \in Artifacts : Whole(h[a], published[a]),
         \A a \in Artifacts : Moves(d, m, h, fs, a) \/ Rests(d, m, h, fs, a)
  PROVE  IInv'
<1>1. Types /\ Legal(d) /\ Supplied(d)
  BY DEF IInv
<1>2. /\ DownTypes' /\ down[d] # <<>> /\ down'[d] = Tail(down[d])
      /\ \A e \in Devices : e # d => down'[e] = down[e]
  BY <1>1, ReceivesIs DEF Types
<1>3. /\ UpTypes' /\ up'[d] = IF device[d].link = "up" THEN up[d] \o fs ELSE up[d]
      /\ \A e \in Devices : e # d => up'[e] = up[e]
  BY <1>1, AskIs DEF Types
<1>4. DeviceTypes' /\ device'[d] = m /\ \A e \in Devices : e # d => device'[e] = device[e]
  BY <1>1, DeviceSet DEF Types
<1>5. held'[d] = h /\ HeldTypes' /\ \A e \in Devices : e # d => held'[e] = held[e]
  BY <1>1 DEF Types, HeldTypes, Holding
<1>6. Types' /\ published' = published
  BY <1>1, <1>2, <1>3, <1>4, <1>5 DEF Types, RegistryTypes, RecordTypes, TaskTypes, SweepTypes,
     registry, gateway
<1>7. ASSUME NEW e \in Devices, e # d PROVE Legal(e)' /\ Supplied(e)'
  <2>1. Tame(e)
    BY <1>1, <1>2, <1>3, <1>4, <1>5, <1>7, TameIf DEF registry, gateway
  <2> QED BY <1>6, <2>1, TameStaysLegal, SuppliedStays DEF IInv, Tame
<1>8. device[d].link # "down" /\ device'[d].link # "down"
  BY <1>1, <1>2, <1>4 DEF Legal, Gone
<1>9. up[d] \in Seq(UpFrame(d)) /\ down[d] \in Seq(DownFrame(d))
  BY <1>1 DEF Types, UpTypes, DownTypes
<1>10. Legal(d)'
  <2>1. \A i \in 1..Len(up'[d]) : up'[d][i].kind = "hello" =>
          i \in 1..Len(up[d]) /\ up[d][i] = up'[d][i]
    <3>1. \A i \in 1..Len(up[d] \o fs) :
            \/ i \in 1..Len(up[d]) /\ (up[d] \o fs)[i] = up[d][i]
            \/ i - Len(up[d]) \in 1..Len(fs) /\ (up[d] \o fs)[i] = fs[i - Len(up[d])]
      BY <1>9
    <3>2. \A i \in 1..Len(up[d] \o fs) : (up[d] \o fs)[i].kind = "hello" =>
            i \in 1..Len(up[d]) /\ up[d][i] = (up[d] \o fs)[i]
      BY <3>1 DEF Harmless
    <3> QED BY <1>3, <3>2
  <2>2. HelloIsFirst(d)'
    BY <1>1, <2>1 DEF Legal, HelloIsFirst, HasSession, Sends, gateway
  <2>3. JoinIsFirst(d)'
    BY <1>1, <2>1 DEF Legal, JoinIsFirst, HasSession, Sends, gateway
  <2> QED BY <1>1, <1>8, <2>2, <2>3
      DEF Legal, Gone, ReadersRead, ClearedBefore, HasSession, Sends, gateway, registry
<1>11. ASSUME NEW a \in Artifacts PROVE Fetching(d, a)' /\ Whole(held[d][a], published[a])'
  <2> DEFINE vs == published[a]
             t == task[d]
             f == m.fetch[a]
  <2>1. Flows(up[d], down[d], t, device[d].fetch[a], held[d][a], vs, a)
    BY <1>1, <1>8 DEF Supplied, Fetching
  <2>2. Flows(up'[d], Tail(down[d]), t, f, h[a], vs, a)
    <3>1. CASE Moves(d, m, h, fs, a)
      <4>1. /\ Idle(d, a) /\ Single(fs, "reference_request", a)
            /\ \A i \in 1..Len(fs) : About(fs[i], "reference_request", a) => Asks(fs[i], f, vs)
            /\ f # NoFetch => f.have = h[a].version
        BY <3>1 DEF Moves
      <4>2. /\ None(up[d], "reference_request", a) /\ None(Tail(down[d]), "reference_response", a)
            /\ ~Serves(t, a)
        BY <4>1 DEF Idle
      <4>3. CASE up'[d] = up[d] \o fs
        BY <1>9, <4>1, <4>2, <4>3, FlowsBegins
      <4>4. CASE up'[d] = up[d]
        <5>1. up[d] \o <<>> = up[d] /\ <<>> \in Seq(UpFrame(d)) /\ Len(<<>>) = 0
          BY <1>9
        <5>2. Single(<<>>, "reference_request", a)
          BY DEF Single
        <5>3. \A i \in 1..Len(<<>>) : About(<<>>[i], "reference_request", a) => Asks(<<>>[i], f, vs)
          OBVIOUS
        <5>4. Flows(up[d] \o <<>>, Tail(down[d]), t, f, h[a], vs, a)
          BY <1>9, <4>1, <4>2, <5>1, <5>2, <5>3, FlowsBegins
        <5> QED BY <4>4, <5>1, <5>4
      <4> QED BY <1>3, <4>3, <4>4
    <3>2. CASE Rests(d, m, h, fs, a)
      <4>1. None(fs, "reference_request", a) /\ f = device[d].fetch[a] /\ h[a] = held[d][a]
        BY <3>2 DEF Rests
      <4>2. /\ Inherits(up[d] \o fs, up[d], "reference_request", a)
            /\ Inherits(up[d], up[d], "reference_request", a)
            /\ Inherits(Tail(down[d]), down[d], "reference_response", a)
        BY <1>2, <1>9, <4>1, OthersInherit, TailInherits
      <4>3. Inherits(up'[d], up[d], "reference_request", a)
        BY <1>3, <4>2
      <4> QED BY <2>1, <4>1, <4>2, <4>3, FlowsInherit
    <3> QED BY <3>1, <3>2
  <2>3. /\ task' = task /\ published' = published /\ held'[d][a] = h[a]
        /\ device'[d].fetch[a] = f /\ down'[d] = Tail(down[d])
    BY <1>2, <1>4, <1>5 DEF gateway, registry
  <2>4. Whole(h[a], vs)
    OBVIOUS
  <2> HIDE DEF vs, t, f
  <2> QED BY <2>2, <2>3, <2>4 DEF Fetching, Whole, vs, t, f
<1> QED BY <1>6, <1>7, <1>10, <1>11 DEF IInv, Supplied

(* Of an artifact that is not fetched nothing is under way.                *)
LEMMA NotFetched ==
  ASSUME IInv, NEW d \in Devices, down[d] # <<>>, NEW a \in Artifacts, device[d].fetch[a] = NoFetch
  PROVE  Idle(d, a)
<1>1. Types /\ Legal(d) /\ Supplied(d)
  BY DEF IInv
<1>2. Flows(up[d], down[d], task[d], NoFetch, held[d][a], published[a], a)
  BY <1>1 DEF Legal, Gone, Supplied, Fetching
<1>3. down[d] \in Seq(DownFrame(d))
  BY <1>1 DEF Types, DownTypes
<1>4. None(up[d], "reference_request", a) /\ None(down[d], "reference_response", a)
      /\ ~Serves(task[d], a)
  BY <1>2 DEF Flows, None, Asks, Answers
<1>5. None(Tail(down[d]), "reference_response", a)
  BY <1>3, <1>4, TailInherits DEF Inherits
<1> QED BY <1>4, <1>5 DEF Idle

Takes(m, a, f) == [m EXCEPT !.fetch = [@ EXCEPT ![a] = f]]

LEMMA TakesIs ==
  ASSUME NEW d \in Devices, NEW m \in Memory(d), NEW a \in Artifacts, NEW f \in Fetches \cup {NoFetch}
  PROVE  /\ Takes(m, a, f) \in Memory(d) /\ Takes(m, a, f).link = m.link
         /\ Takes(m, a, f).fetch[a] = f
         /\ \A b \in Artifacts : b # a => Takes(m, a, f).fetch[b] = m.fetch[b]
<1> DEFINE g == [m.fetch EXCEPT ![a] = f]
<1>1. m.fetch \in [Artifacts -> Fetches \cup {NoFetch}]
  BY DEF Memory
<1>2. /\ g \in [Artifacts -> Fetches \cup {NoFetch}] /\ g[a] = f
      /\ \A b \in Artifacts : b # a => g[b] = m.fetch[b]
  BY <1>1
<1>3. Takes(m, a, f) = [m EXCEPT !.fetch = g]
  BY DEF Takes
<1> HIDE DEF g
<1>4. [m EXCEPT !.fetch = g] \in Memory(d) /\ [m EXCEPT !.fetch = g].link = m.link
      /\ [m EXCEPT !.fetch = g].fetch = g
  BY <1>2 DEF Memory
<1> QED BY <1>2, <1>3, <1>4

LEMMA RequestIs ==
  ASSUME NEW d \in Devices, NEW a \in Artifacts, NEW have \in Nat, NEW from \in Nat, NEW at \in Nat
  PROVE  LET q == Request(a, have, from, at)
         IN  /\ q \in UpFrame(d) /\ q.kind = "reference_request" /\ q.artifact = a
             /\ q.have = have /\ q.from = from /\ q.at = at
             /\ <<q>> \in Seq(UpFrame(d)) /\ Harmless(<<q>>, {"hello"})
             /\ Single(<<q>>, "reference_request", a)
             /\ \A b : b # a => None(<<q>>, "reference_request", b)
<1> DEFINE q == Request(a, have, from, at)
<1>1. /\ q \in UpFrame(d) /\ q.kind = "reference_request" /\ q.artifact = a
      /\ q.have = have /\ q.from = from /\ q.at = at
  BY DEF Request, UpFrame, Reads
<1> HIDE DEF q
<1>2. <<q>> \in Seq(UpFrame(d)) /\ \A i \in 1..Len(<<q>>) : i = 1 /\ <<q>>[i] = q
  BY <1>1
<1>3. Harmless(<<q>>, {"hello"}) /\ Single(<<q>>, "reference_request", a)
      /\ \A b : b # a => None(<<q>>, "reference_request", b)
  BY <1>1, <1>2 DEF Harmless, Single, None, About
<1> QED BY <1>1, <1>2, <1>3 DEF q

LEMMA NewFetchIs ==
  ASSUME Types, NEW d \in Devices, NEW a \in Artifacts
  PROVE  /\ NewFetch(d, a) \in Fetches /\ NewFetch(d, a).have = held[d][a].version
         /\ held[d][a].version \in Nat
         /\ \A vs : Asks(Request(a, held[d][a].version, 0, 0), NewFetch(d, a), vs)
<1>1. held[d][a].version \in Nat
  BY DEF Types, HeldTypes
<1>2. NewFetch(d, a) # NoFetch
  <2>1. DOMAIN NewFetch(d, a) = {"have", "shape", "entries"} /\ DOMAIN NoFetch = {"none"}
    BY DEF NewFetch, NoFetch
  <2> QED BY <2>1
<1>3. /\ Request(a, held[d][a].version, 0, 0).have = held[d][a].version
      /\ Request(a, held[d][a].version, 0, 0).from = 0
  BY DEF Request
<1>4. /\ NewFetch(d, a) \in Fetches /\ NewFetch(d, a).have = held[d][a].version
      /\ NewFetch(d, a).shape = <<>> /\ NewFetch(d, a).entries = {}
  BY <1>1 DEF NewFetch, Fetches
<1> QED BY <1>1, <1>2, <1>3, <1>4 DEF Asks

LEMMA HeldIs ==
  ASSUME IInv, NEW d \in Devices
  PROVE  /\ held[d] \in [Artifacts -> Holding]
         /\ \A a \in Artifacts : Whole(held[d][a], published[a])
         /\ held' = held => held' = [held EXCEPT ![d] = held[d]]
BY DEF IInv, Types, HeldTypes, Holding, Supplied

LEMMA OnNoticeIs ==
  ASSUME IInv, NEW d \in Devices, OnNotice(d)
  PROVE  IInv'
<1> DEFINE a == Head(down[d]).artifact
<1>1. /\ Types /\ Receives(d, {"reference_notice"})
      /\ UNCHANGED <<now, registry, gateway, held, cleared, left>>
  BY DEF OnNotice, IInv
<1>2. down[d] # <<>> /\ Head(down[d]) \in DownFrame(d) /\ Head(down[d]).kind = "reference_notice"
  BY <1>1, ReceivesIs DEF Types
<1>3. a \in Artifacts
  BY <1>2, DownFrameIs
<1>4. CASE ~Behind(d, a, Head(down[d]).version)
  <2>1. UNCHANGED <<device, up>>
    BY <1>4 DEF OnNotice
  <2> QED BY <1>1, <2>1, IdleReceiveIs, TameKeeps
<1>5. CASE Behind(d, a, Head(down[d]).version)
  <2> DEFINE m == Takes(device[d], a, NewFetch(d, a))
             fs == <<Request(a, held[d][a].version, 0, 0)>>
  <2>1. device' = [device EXCEPT ![d] = m] /\ Ask(d, fs) /\ device[d].fetch[a] = NoFetch
    BY <1>1, <1>5 DEF OnNotice, Takes, Behind, Types, DeviceTypes, Mapped
  <2> HIDE DEF a
  <2>2. /\ NewFetch(d, a) \in Fetches /\ NewFetch(d, a).have = held[d][a].version
        /\ held[d][a].version \in Nat
        /\ Asks(Request(a, held[d][a].version, 0, 0), NewFetch(d, a), published[a])
    BY <1>1, <1>3, NewFetchIs
  <2>3. /\ m \in Memory(d) /\ m.link = device[d].link /\ m.fetch[a] = NewFetch(d, a)
        /\ \A b \in Artifacts : b # a => m.fetch[b] = device[d].fetch[b]
    BY <1>1, <1>3, <2>2, TakesIs DEF Types, DeviceTypes
  <2>4. /\ fs \in Seq(UpFrame(d)) /\ Harmless(fs, {"hello"}) /\ Single(fs, "reference_request", a)
        /\ \A b : b # a => None(fs, "reference_request", b)
    BY <1>3, <2>2, RequestIs
  <2>5. \A i \in 1..Len(fs) : fs[i] = Request(a, held[d][a].version, 0, 0)
    OBVIOUS
  <2> HIDE DEF m, fs
  <2>6. Idle(d, a)
    BY <1>2, <1>3, <2>1, NotFetched
  <2>7. \A b \in Artifacts : Moves(d, m, held[d], fs, b) \/ Rests(d, m, held[d], fs, b)
    BY <2>2, <2>3, <2>4, <2>5, <2>6 DEF Moves, Rests
  <2> QED BY <1>1, <2>1, <2>3, <2>4, <2>7, HeldIs, MovesIs
<1> QED BY <1>4, <1>5

Page1(d) == Head(down[d]).page
Result(d, a) ==
  Applied(a, held[d][a], Page1(d).form, Page1(d).version, Page1(d).base,
          device[d].fetch[a].entries \cup Page1(d).entries)
Onward(d, a) ==
  [device[d].fetch[a] EXCEPT !.shape = <<Page1(d).form, Page1(d).version, Page1(d).base>>,
                             !.entries = device[d].fetch[a].entries \cup Page1(d).entries]

(* The page that is taken goes on with the fetch or ends it.               *)
LEMMA PageTaken ==
  ASSUME IInv, NEW d \in Devices, down[d] # <<>>, Head(down[d]) \in DownFrame(d),
         NEW a \in Artifacts, About(Head(down[d]), "reference_response", a),
         device[d].fetch[a] # NoFetch
  PROVE  LET f == device[d].fetch[a]
             p == Page1(d)
         IN  /\ Idle(d, a) /\ f.shape \in {<<>>, <<p.form, p.version, p.base>>}
             /\ f \in Fetches /\ f.have = held[d][a].version
             /\ p \in Pages
             /\ ~p.complete => /\ p.next > 0 /\ Onward(d, a) \in Fetches
                               /\ Onward(d, a).have = held[d][a].version
                               /\ Asks(Request(a, f.have, p.next, p.version), Onward(d, a), published[a])
             /\ p.complete => /\ Result(d, a) \in Holding
                              /\ Brings(held[d][a], Result(d, a), published[a])
                              /\ Whole(Result(d, a), published[a])
<1> DEFINE f == device[d].fetch[a]
           p == Page1(d)
           vs == published[a]
           h == held[d][a]
           w == down[d]
           e == f.entries \cup p.entries
<1>1. Types /\ Legal(d) /\ Supplied(d)
  BY DEF IInv
<1>2. p \in Pages
  BY DownFrameIs DEF Page1, About
<1>3. w \in Seq(DownFrame(d)) /\ f \in Fetches /\ vs \in Seq(Changes) /\ h \in Holding
  BY <1>1 DEF Types, DownTypes, DeviceTypes, Memory, RegistryTypes, HeldTypes, Holding
<1>4. Flows(up[d], w, task[d], f, h, vs, a) /\ Whole(h, vs)
  BY <1>1 DEF Legal, Gone, Supplied, Fetching
<1>5. 1 \in 1..Len(w) /\ w[1] = Head(w)
      /\ \A i \in 1..Len(Tail(w)) : i + 1 \in 1..Len(w) /\ i + 1 # 1 /\ w[i + 1] = Tail(w)[i]
  BY <1>3
<1>6. Answers(p, f, vs) /\ f.have = h.version
  BY <1>4, <1>5 DEF Flows, Page1
<1>7. Idle(d, a)
  <2>1. ~None(w, "reference_response", a)
    BY <1>5 DEF None
  <2>2. None(Tail(w), "reference_response", a)
    BY <1>4, <1>5 DEF Flows, Single, None
  <2> QED BY <1>4, <2>1, <2>2 DEF Idle, Flows
<1>8. /\ f.shape \in {<<>>, <<p.form, p.version, p.base>>}
      /\ ~p.complete => p.next > 0 /\ Asks(Request(a, f.have, p.next, p.version), Onward(d, a), vs)
      /\ p.complete =>
           \/ Fresh(p, f)
           \/ /\ p.version \in (f.have + 1)..Len(vs)
              /\ <<p.form, p.version, p.base>> = ShapeOf(f.have, p.version)
              /\ e = Reference!Fold(vs, f.have, p.version)
  BY <1>3, <1>6, PageBrings DEF Onward
<1> HIDE DEF f, p, vs, h, w, e
<1>9. e \in SUBSET Row /\ p.version \in Nat /\ p.base \in Nat /\ p.form \in Form
  BY <1>2, <1>3 DEF Pages, Fetches, e
<1>10. Onward(d, a) \in Fetches /\ Onward(d, a).have = f.have
  <2> DEFINE s == <<p.form, p.version, p.base>>
  <2>1. s \in Form \X Nat \X Nat
    BY <1>9
  <2>2. Onward(d, a) = [f EXCEPT !.shape = s, !.entries = e]
    BY DEF Onward, f, p, e
  <2> HIDE DEF s
  <2> QED BY <1>3, <1>9, <2>1, <2>2 DEF Fetches
<1>11. Result(d, a) = Applied(a, h, p.form, p.version, p.base, e)
  BY DEF Result, f, p, h, e
<1>12. Result(d, a) \in Holding
  BY <1>3, <1>9, <1>11, AppliedIsTyped
<1>13. ASSUME p.complete PROVE Brings(h, Result(d, a), vs)
  <2>1. CASE Fresh(p, f)
    <3> DEFINE n == Applied(a, h, p.form, p.version, p.base, Both(f, p))
    <3>0. h \in Holding /\ Whole(h, vs) /\ f.have = h.version /\ Fresh(p, f)
      BY <1>3, <1>4, <1>6, <2>1
    <3>1. Brings(h, n, vs)
      BY <3>0, FreshChangesNothing
    <3>2. Result(d, a) = n
      BY <1>11 DEF e, Both
    <3> HIDE DEF n
    <3> QED BY <3>1, <3>2
  <2>2. CASE /\ p.version \in (f.have + 1)..Len(vs)
             /\ <<p.form, p.version, p.base>> = ShapeOf(f.have, p.version)
             /\ e = Reference!Fold(vs, f.have, p.version)
    <3> DEFINE v == p.version
               n == Applied(a, h, IF h.version > 0 THEN "delta" ELSE "snapshot", v, h.version,
                            Reference!Fold(vs, h.version, v))
    <3>1. p.form = IF h.version > 0 THEN "delta" ELSE "snapshot"
      BY <1>6, <2>2 DEF ShapeOf
    <3>2. p.base = h.version
      BY <1>6, <2>2 DEF ShapeOf
    <3>3. Result(d, a) = n
      BY <1>6, <1>11, <2>2, <3>1, <3>2
    <3>4. v \in (h.version + 1)..Len(vs)
      BY <1>6, <2>2
    <3>5. /\ n.version = v
          /\ Reference!Usable(n.rows) = Reference!Usable(Reference!Fold(vs, 0, v))
      BY <1>3, <1>4, <3>4, UpdateIsWhole
    <3> HIDE DEF n, v
    <3> QED BY <3>3, <3>4, <3>5 DEF Brings
  <2> QED BY <1>8, <1>13, <2>1, <2>2
<1>14. ASSUME p.complete PROVE Whole(Result(d, a), vs)
  <2>1. vs \in Seq(Changes) /\ h.version \in Nat /\ Len(vs) \in Nat
    BY <1>3 DEF Holding
  <2> QED BY <1>4, <1>13, <1>14, <2>1 DEF Brings, Whole
<1> QED BY <1>2, <1>3, <1>6, <1>7, <1>8, <1>10, <1>12, <1>13, <1>14 DEF f, p, vs, h

LEMMA OnPageIs ==
  ASSUME IInv, NEW d \in Devices, OnPage(d)
  PROVE  IInv'
<1> DEFINE a == Head(down[d]).artifact
           p == Page1(d)
           f == device[d].fetch[a]
           shape == <<p.form, p.version, p.base>>
           agrees == f.shape \in {<<>>, shape}
           request == Request(a, f.have, p.next, p.version)
           more == Takes(device[d], a, Onward(d, a))
           done == Takes(device[d], a, NoFetch)
           h == [held[d] EXCEPT ![a] = Result(d, a)]
<1>1. /\ Types /\ Receives(d, {"reference_response"})
      /\ UNCHANGED <<now, registry, gateway, cleared, left>>
  BY DEF OnPage, IInv
<1>2. down[d] # <<>> /\ Head(down[d]) \in DownFrame(d) /\ Head(down[d]).kind = "reference_response"
  BY <1>1, ReceivesIs DEF Types
<1>3. a \in Artifacts /\ About(Head(down[d]), "reference_response", a)
  BY <1>2, DownFrameIs DEF About
<1>4. /\ f = NoFetch => UNCHANGED <<device, held, up>>
      /\ f # NoFetch /\ agrees /\ ~p.complete /\ p.next > 0 =>
           /\ device' = [device EXCEPT ![d] = more] /\ Ask(d, <<request>>) /\ UNCHANGED held
      /\ f # NoFetch /\ agrees /\ p.complete =>
           /\ device' = [device EXCEPT ![d] = done] /\ held' = [held EXCEPT ![d] = h]
           /\ UNCHANGED up
  <2>1. /\ [device EXCEPT ![d].fetch[a] = Onward(d, a)] = [device EXCEPT ![d] = more]
        /\ [device EXCEPT ![d].fetch[a] = NoFetch] = [device EXCEPT ![d] = done]
        /\ [held EXCEPT ![d][a] = Result(d, a)] = [held EXCEPT ![d] = h]
    BY <1>1 DEF Takes, Types, DeviceTypes, Mapped, HeldTypes
  <2>2. /\ Onward(d, a) = [f EXCEPT !.shape = shape, !.entries = f.entries \cup p.entries]
        /\ [held EXCEPT ![d][a] =
              Applied(a, @, p.form, p.version, p.base, f.entries \cup p.entries)]
           = [held EXCEPT ![d][a] = Result(d, a)]
    BY <1>1, <1>3 DEF Onward, Result, Types, HeldTypes
  <2> HIDE DEF more, done, h
  <2>3. p = Head(down[d]).page
    BY DEF Page1
  <2>4. p.complete => (p.complete /\ ~(~p.complete /\ p.next > 0))
    OBVIOUS
  <2> HIDE DEF p
  <2>5. f = NoFetch => UNCHANGED <<device, held, up>>
    BY Zenon DEF OnPage
  <2>6. ASSUME f # NoFetch, agrees, ~p.complete, p.next > 0
        PROVE  /\ device' = [device EXCEPT ![d].fetch[a] =
                              [f EXCEPT !.shape = shape, !.entries = f.entries \cup p.entries]]
               /\ Ask(d, <<request>>) /\ UNCHANGED held
    BY <2>3, <2>6, Zenon DEF OnPage
  <2>7. ASSUME f # NoFetch, agrees, p.complete
        PROVE  /\ device' = [device EXCEPT ![d].fetch[a] = NoFetch]
               /\ held' = [held EXCEPT ![d][a] =
                             Applied(a, @, p.form, p.version, p.base, f.entries \cup p.entries)]
               /\ UNCHANGED up
    BY <2>3, <2>7, Zenon DEF OnPage
  <2> QED BY <2>1, <2>2, <2>5, <2>6, <2>7
<1>5. CASE f = NoFetch
  <2>1. UNCHANGED <<device, up, held>>
    BY <1>4, <1>5
  <2> QED BY <1>1, <2>1, IdleReceiveIs, TameKeeps
<1>6. CASE f # NoFetch
  <2> HIDE DEF a, p, f, request, more, done, h
  <2>1. /\ Idle(d, a) /\ agrees /\ f \in Fetches /\ f.have = held[d][a].version /\ p \in Pages
        /\ ~p.complete => /\ p.next > 0 /\ Onward(d, a) \in Fetches
                          /\ Onward(d, a).have = held[d][a].version
                          /\ Asks(request, Onward(d, a), published[a])
        /\ p.complete => /\ Result(d, a) \in Holding
                         /\ Whole(Result(d, a), published[a])
    BY <1>2, <1>3, <1>6, PageTaken DEF f, p, request
  <2>2. f.have \in Nat /\ p.next \in Nat /\ p.version \in Nat
    BY <2>1 DEF Fetches, Pages
  <2>3. device[d] \in Memory(d) /\ held[d] \in [Artifacts -> Holding]
    BY <1>1, HeldIs DEF Types, DeviceTypes
  <2>4. CASE ~p.complete
    <3>1. device' = [device EXCEPT ![d] = more] /\ Ask(d, <<request>>) /\ held' = held
      BY <1>4, <1>6, <2>1, <2>4
    <3>2. /\ more \in Memory(d) /\ more.link = device[d].link /\ more.fetch[a] = Onward(d, a)
          /\ \A b \in Artifacts : b # a => more.fetch[b] = device[d].fetch[b]
      BY <1>3, <2>1, <2>3, <2>4, TakesIs DEF more
    <3>3. /\ <<request>> \in Seq(UpFrame(d)) /\ Harmless(<<request>>, {"hello"})
          /\ Single(<<request>>, "reference_request", a)
          /\ \A b : b # a => None(<<request>>, "reference_request", b)
      BY <1>3, <2>2, RequestIs DEF request
    <3>4. \A i \in 1..Len(<<request>>) : <<request>>[i] = request
      OBVIOUS
    <3> DEFINE fs == <<request>>
    <3> HIDE DEF fs
    <3>5. \A b \in Artifacts : Moves(d, more, held[d], fs, b) \/ Rests(d, more, held[d], fs, b)
      BY <2>1, <2>4, <3>2, <3>3, <3>4 DEF Moves, Rests, fs
    <3> QED BY <1>1, <3>1, <3>2, <3>3, <3>5, HeldIs, MovesIs DEF fs
  <2>5. CASE p.complete
    <3>1. device' = [device EXCEPT ![d] = done] /\ held' = [held EXCEPT ![d] = h] /\ up' = up
      BY <1>4, <1>6, <2>1, <2>5
    <3>2. /\ done \in Memory(d) /\ done.link = device[d].link /\ done.fetch[a] = NoFetch
          /\ \A b \in Artifacts : b # a => done.fetch[b] = device[d].fetch[b]
      BY <1>3, <2>3, TakesIs DEF done
    <3>3. /\ h \in [Artifacts -> Holding] /\ h[a] = Result(d, a)
          /\ \A b \in Artifacts : b # a => h[b] = held[d][b]
      BY <1>3, <2>1, <2>3, <2>5 DEF h
    <3>4. \A b \in Artifacts : Whole(h[b], published[b])
      BY <2>1, <2>5, <3>3, HeldIs
    <3> DEFINE fs == <<>>
    <3>5. /\ fs \in Seq(UpFrame(d)) /\ Harmless(fs, {"hello"})
          /\ \A b : Single(fs, "reference_request", b) /\ None(fs, "reference_request", b)
      BY DEF Harmless, Single, None
    <3>6. Len(fs) = 0
      OBVIOUS
    <3>7. Ask(d, fs)
      <4>1. up[d] \in Seq(UpFrame(d)) /\ up = [up EXCEPT ![d] = up[d]]
        BY <1>1 DEF Types, UpTypes, Mapped
      <4>2. up[d] \o <<>> = up[d]
        BY <4>1
      <4> QED BY <3>1, <4>1, <4>2 DEF Ask
    <3> HIDE DEF fs
    <3>8. \A b \in Artifacts : Moves(d, done, h, fs, b) \/ Rests(d, done, h, fs, b)
      BY <2>1, <3>2, <3>3, <3>5, <3>6 DEF Moves, Rests
    <3> QED BY <1>1, <3>1, <3>2, <3>3, <3>4, <3>5, <3>7, <3>8, MovesIs
  <2> QED BY <2>4, <2>5
<1> QED BY <1>5, <1>6

(* The sequence of a finite set has no element twice.                      *)
LEMMA SequenceIs ==
  ASSUME NEW S, IsFiniteSet(S)
  PROVE  /\ SetToSeq(S) \in Seq(S)
         /\ \A i, j \in 1..Len(SetToSeq(S)) : SetToSeq(S)[i] = SetToSeq(S)[j] => i = j
<1> DEFINE n == Cardinality(S)
<1>1. n \in Nat /\ ExistsBijection(1..n, S)
  BY FS_CardinalityType
<1> HIDE DEF n
<1>2. \E s \in [1..n -> S] : IsInjective(s)
  BY <1>1 DEF ExistsBijection, Bijection, Injection
<1>3. SetToSeq(S) \in [1..n -> S] /\ IsInjective(SetToSeq(S))
  <2>1. SetToSeq(S) = CHOOSE s \in [1..n -> S] : IsInjective(s)
    BY DEF SetToSeq, n
  <2> QED BY <1>2, <2>1, Zenon
<1> DEFINE s == SetToSeq(S)
<1> HIDE DEF s
<1>4. s \in Seq(S) /\ Len(s) = n /\ DOMAIN s = 1..n
  BY <1>1, <1>3 DEF s
<1>5. \A i, j \in 1..n : s[i] = s[j] => i = j
  BY <1>3, <1>4 DEF IsInjective, s
<1> QED BY <1>4, <1>5 DEF s

(* What a greeted device asks for: a new fetch of each artifact that it is *)
(* behind with, once.                                                      *)
NewRequest(d, a) == Request(a, held[d][a].version, 0, 0)
NewRequests(d, behind) == {NewRequest(d, a) : a \in behind}

LEMMA RequestsAre ==
  ASSUME Types, NEW d \in Devices, NEW behind \in SUBSET Artifacts
  PROVE  LET s == SetToSeq(NewRequests(d, behind))
         IN  /\ s \in Seq(UpFrame(d))
             /\ \A i \in 1..Len(s) :
                  s[i].kind = "reference_request" /\ \E a \in behind : s[i] = NewRequest(d, a)
             /\ \A a : Single(s, "reference_request", a)
             /\ \A a : a \notin behind => None(s, "reference_request", a)
             /\ \A a \in Artifacts : \A i \in 1..Len(s) :
                  About(s[i], "reference_request", a) => s[i] = NewRequest(d, a)
<1> DEFINE R == NewRequests(d, behind)
           s == SetToSeq(R)
<1>1. ASSUME NEW a \in Artifacts
      PROVE  /\ NewRequest(d, a) \in UpFrame(d) /\ NewRequest(d, a).artifact = a
             /\ NewRequest(d, a).kind = "reference_request"
  <2> DEFINE v == held[d][a].version
  <2>1. v \in Nat
    BY DEF Types, HeldTypes
  <2> HIDE DEF v
  <2>2. /\ Request(a, v, 0, 0) \in UpFrame(d) /\ Request(a, v, 0, 0).artifact = a
        /\ Request(a, v, 0, 0).kind = "reference_request"
    BY <2>1 DEF Request, UpFrame, Reads
  <2> QED BY <2>2 DEF NewRequest, v
<1>2. IsFiniteSet(R)
  <2>1. IsFiniteSet(behind)
    BY FS_Subset, SessionsAssumption
  <2>2. [a \in behind |-> NewRequest(d, a)] \in Surjection(behind, R)
    BY DEF Surjection, NewRequests
  <2> HIDE DEF R
  <2> QED BY <2>1, <2>2, FS_Surjection
<1>3. \A r \in R : \E a \in behind : r = NewRequest(d, a)
  BY DEF NewRequests
<1> HIDE DEF R
<1>4. s \in Seq(R) /\ \A i, j \in 1..Len(s) : s[i] = s[j] => i = j
  BY <1>2, SequenceIs
<1> HIDE DEF s
<1>5. \A r \in R : r \in UpFrame(d)
  BY <1>1, <1>3
<1>6. s \in Seq(UpFrame(d))
  BY <1>4, <1>5
<1>7. \A i \in 1..Len(s) : \E a \in behind : s[i] = NewRequest(d, a)
  <2>1. \A i \in 1..Len(s) : s[i] \in R
    BY <1>4
  <2> QED BY <1>3, <2>1
<1>8. \A a : \A i \in 1..Len(s) :
        About(s[i], "reference_request", a) => a \in behind /\ s[i] = NewRequest(d, a)
  BY <1>1, <1>7 DEF About
<1>9. ASSUME NEW a PROVE Single(s, "reference_request", a)
  <2>1. ASSUME NEW i \in 1..Len(s), NEW j \in 1..Len(s), About(s[i], "reference_request", a),
               About(s[j], "reference_request", a)
        PROVE  i = j
    <3>1. s[i] = s[j]
      BY <1>8, <2>1
    <3> QED BY <1>4, <3>1
  <2> QED BY <2>1 DEF Single
<1>10. \A a : a \notin behind => None(s, "reference_request", a)
  BY <1>8 DEF None
<1> QED BY <1>1, <1>6, <1>7, <1>8, <1>9, <1>10 DEF s, R

(* Frames of another kind ahead of a sequence change nothing for it.       *)
LEMMA AheadIs ==
  ASSUME NEW S, NEW fs \in Seq(S), NEW s \in Seq(S), NEW k, \A i \in 1..Len(fs) : fs[i].kind # k,
         NEW a
  PROVE  Inherits(fs \o s, s, k, a)
<1> DEFINE u == fs \o s
<1>1. \A i \in 1..Len(u) : \/ i \in 1..Len(fs) /\ u[i] = fs[i]
                           \/ i - Len(fs) \in 1..Len(s) /\ u[i] = s[i - Len(fs)]
  OBVIOUS
<1>2. Len(fs) \in Nat /\ Len(u) \in Nat
  OBVIOUS
<1> HIDE DEF u
<1>3. \A i \in 1..Len(u) :
        About(u[i], k, a) => i - Len(fs) \in 1..Len(s) /\ u[i] = s[i - Len(fs)]
  BY <1>1 DEF About
<1>4. \A i, j \in 1..Len(u) : i - Len(fs) = j - Len(fs) => i = j
  BY <1>2
<1> QED BY <1>3, <1>4 DEF Inherits, Single, None, u

Greeted(m, relay, versions, g) ==
  [m EXCEPT !.connected = TRUE, !.relay = relay, !.told = versions, !.fetch = g]

LEMMA GreetedIs ==
  ASSUME NEW d \in Devices, NEW m \in Memory(d), NEW relay \in BOOLEAN, NEW versions \in Told,
         NEW g \in [Artifacts -> Fetches \cup {NoFetch}]
  PROVE  /\ Greeted(m, relay, versions, g) \in Memory(d)
         /\ Greeted(m, relay, versions, g).link = m.link
         /\ Greeted(m, relay, versions, g).fetch = g
BY DEF Memory, Greeted

LEMMA OnHelloAckIs ==
  ASSUME IInv, NEW d \in Devices, OnHelloAck(d)
  PROVE  IInv'
<1> DEFINE f == Head(down[d])
           behind == {a \in Artifacts : Behind(d, a, f.versions[a])}
           s == SetToSeq(NewRequests(d, behind))
           ahead == Push(d, device[d]) \o <<[kind |-> "catchup_request"]>>
           fs == ahead \o s
           stored == Stored(f.token, device[d])
           g == [a \in Artifacts |-> IF a \in behind THEN NewFetch(d, a) ELSE stored.fetch[a]]
           m == Greeted(stored, f.relay, f.versions, g)
<1>1. /\ Types /\ Receives(d, {"hello_ack"})
      /\ UNCHANGED <<now, registry, gateway, held, cleared, left>>
  BY DEF OnHelloAck, IInv
<1>2. /\ down[d] # <<>> /\ f \in DownFrame(d) /\ f.kind = "hello_ack"
  BY <1>1, ReceivesIs DEF Types
<1>3. f.token \in MaybeToken(d) /\ f.versions \in Told /\ f.relay \in BOOLEAN
  BY <1>2, DownFrameIs
<1>4. device' = [device EXCEPT ![d] = m]
  BY Zenon DEF OnHelloAck, Greeted
<1>5. Ask(d, fs)
  <2> DEFINE asks == [a \in behind |-> NewRequest(d, a)]
  <2>1. {asks[a] : a \in behind} = NewRequests(d, behind)
    BY DEF NewRequests
  <2>2. Ask(d, Push(d, device[d]) \o <<[kind |-> "catchup_request"]>> \o
               SetToSeq({asks[a] : a \in behind}))
    BY DEF OnHelloAck, NewRequest
  <2> QED BY <2>1, <2>2
<1>6. device[d] \in Memory(d)
  BY <1>1 DEF Types, DeviceTypes
<1> HIDE DEF f
<1>7. stored \in Memory(d) /\ stored.link = device[d].link /\ stored.fetch = device[d].fetch
  BY <1>3, <1>6, StoredIs
<1>8. behind \in SUBSET Artifacts /\ \A a \in behind : device[d].fetch[a] = NoFetch
  BY DEF Behind
<1> HIDE DEF stored, behind
<1>9. /\ g \in [Artifacts -> Fetches \cup {NoFetch}]
      /\ \A a \in Artifacts : g[a] = IF a \in behind THEN NewFetch(d, a) ELSE device[d].fetch[a]
  <2>1. \A a \in Artifacts : NewFetch(d, a) \in Fetches
    BY <1>1, NewFetchIs
  <2> QED BY <1>6, <1>7, <2>1 DEF Memory
<1> HIDE DEF g
<1>10. m \in Memory(d) /\ m.link = device[d].link /\ m.fetch = g
  BY <1>3, <1>7, <1>9, GreetedIs
<1> HIDE DEF m
<1>11. /\ ahead \in Seq(UpFrame(d)) /\ Harmless(ahead, Leading)
  <2> DEFINE p == Push(d, device[d])
             c == <<[kind |-> "catchup_request"]>>
  <2>1. p \in Seq(UpFrame(d)) /\ Harmless(p, Leading)
    BY <1>6, PushIs DEF Memory
  <2>2. c \in Seq(UpFrame(d)) /\ Harmless(c, Leading)
    BY DEF UpFrame, Reads, Harmless, Leading
  <2> HIDE DEF p, c
  <2>3. \A i \in 1..Len(p \o c) : \/ i \in 1..Len(p) /\ (p \o c)[i] = p[i]
                                  \/ i - Len(p) \in 1..Len(c) /\ (p \o c)[i] = c[i - Len(p)]
    BY <2>1, <2>2
  <2>4. p \o c \in Seq(UpFrame(d)) /\ Harmless(p \o c, Leading)
    BY <2>1, <2>2, <2>3 DEF Harmless
  <2> QED BY <2>4 DEF p, c
<1> HIDE DEF ahead
<1>12. /\ s \in Seq(UpFrame(d))
       /\ \A i \in 1..Len(s) : s[i].kind = "reference_request"
       /\ \A a : Single(s, "reference_request", a)
       /\ \A a : a \notin behind => None(s, "reference_request", a)
       /\ \A a \in Artifacts : \A i \in 1..Len(s) :
            About(s[i], "reference_request", a) => s[i] = NewRequest(d, a)
  BY <1>1, <1>8, RequestsAre
<1> HIDE DEF s
<1>13. fs \in Seq(UpFrame(d)) /\ Harmless(fs, {"hello"})
  <2>1. \A i \in 1..Len(ahead \o s) :
          \/ i \in 1..Len(ahead) /\ (ahead \o s)[i] = ahead[i]
          \/ i - Len(ahead) \in 1..Len(s) /\ (ahead \o s)[i] = s[i - Len(ahead)]
    BY <1>11, <1>12
  <2> QED BY <1>11, <1>12, <2>1 DEF Harmless, Leading
<1>14. ASSUME NEW a
       PROVE  /\ Single(fs, "reference_request", a)
              /\ a \notin behind => None(fs, "reference_request", a)
              /\ \A i \in 1..Len(fs) : About(fs[i], "reference_request", a) =>
                   \E j \in 1..Len(s) : s[j] = fs[i]
  <2>1. \A i \in 1..Len(ahead) : ahead[i].kind # "reference_request"
    BY <1>11 DEF Harmless, Leading
  <2>2. Single(s, "reference_request", a) /\ (a \notin behind => None(s, "reference_request", a))
    BY <1>12
  <2>3. Inherits(fs, s, "reference_request", a)
    BY <1>11, <1>12, <2>1, AheadIs
  <2> HIDE DEF fs
  <2> QED BY <2>2, <2>3 DEF Inherits
<1> HIDE DEF fs
<1>15. ASSUME NEW a \in Artifacts PROVE Moves(d, m, held[d], fs, a) \/ Rests(d, m, held[d], fs, a)
  <2>1. CASE a \in behind
    <3>1. Idle(d, a)
      BY <1>2, <1>8, <2>1, NotFetched
    <3>2. m.fetch[a] = NewFetch(d, a)
      BY <1>9, <1>10, <2>1
    <3>3. /\ NewFetch(d, a).have = held[d][a].version
          /\ Asks(NewRequest(d, a), NewFetch(d, a), published[a])
      BY <1>1, NewFetchIs DEF NewRequest
    <3>4. \A i \in 1..Len(fs) : About(fs[i], "reference_request", a) => fs[i] = NewRequest(d, a)
      BY <1>12, <1>14
    <3> QED BY <1>14, <3>1, <3>2, <3>3, <3>4 DEF Moves
  <2>2. CASE a \notin behind
    BY <1>9, <1>10, <1>14, <2>2 DEF Rests
  <2> QED BY <2>1, <2>2
<1> QED BY <1>1, <1>4, <1>5, <1>10, <1>13, <1>15, HeldIs, MovesIs

-----------------------------------------------------------------------------
(* The invariant.                                                          *)

LEMMA StutterIs == ASSUME IInv, UNCHANGED vars PROVE IInv'
<1>1. Types /\ UNCHANGED <<now, registry, gateway, up, down, device, held, cleared>>
  BY DEF IInv, vars
<1>2. Types' /\ published' = published
  BY <1>1 DEF Types, RegistryTypes, RecordTypes, TaskTypes, SweepTypes, UpTypes, DownTypes,
     DeviceTypes, HeldTypes, registry, gateway
<1>3. ASSUME NEW e \in Devices PROVE Tame(e)
  BY <1>1, TameIf DEF registry, gateway
<1> QED BY <1>2, <1>3, TameKeeps DEF TameStep

LEMMA FreshDeviceIs ==
  ASSUME NEW d \in Devices
  PROVE  /\ FreshDevice(d) \in Memory(d) /\ FreshDevice(d).link = "down"
         /\ \A a \in Artifacts : FreshDevice(d).fetch[a] = NoFetch
<1> DEFINE b == d \in RelayClaim
           t == [expires |-> Ttl, relay |-> b]
           f == [a \in Artifacts |-> NoFetch]
           v == [a \in Artifacts |-> 0]
           r == [o \in Devices |-> NoToken]
<1>1. t \in Token(d)
  <2>1. b \in BOOLEAN /\ (b => d \in RelayClaim) /\ Ttl \in Nat
    BY SessionsAssumption
  <2> HIDE DEF b
  <2> QED BY <2>1 DEF Token, Tokens
<1>2. f \in [Artifacts -> Fetches \cup {NoFetch}] /\ v \in Told
      /\ \A a \in Artifacts : f[a] = NoFetch
  BY DEF Told
<1>3. r \in {q \in [Devices -> Tokens \cup {NoToken}] : \A o \in Devices : q[o] \in MaybeToken(o)}
  BY DEF MaybeToken
<1>4. FreshDevice(d) = [link |-> "down", connected |-> FALSE, token |-> t, relay |-> FALSE, own |-> 0,
                        acked |-> 0, fetch |-> f, told |-> v, renewals |-> r]
  BY DEF FreshDevice
<1> HIDE DEF t, f, v, r
<1> QED BY <1>1, <1>2, <1>3, <1>4 DEF Memory

LEMMA InitIs == Init => IInv
<1> SUFFICES ASSUME Init PROVE IInv
  OBVIOUS
<1>1. RegistryTypes
  BY SessionsAssumption DEF Init, RegistryTypes
<1>2. Closed.session = NoSession /\ \A d : Closed \in Record(d) /\ NoTask \in Task(d)
  BY DEF Closed, Record, NoTask, Task
<1>3. /\ Mapped(record) /\ Mapped(task) /\ Mapped(up) /\ Mapped(down) /\ Mapped(device)
      /\ \A d \in Devices : /\ record[d] = Closed /\ task[d] = NoTask
                            /\ up[d] = <<>> /\ down[d] = <<>> /\ device[d] = FreshDevice(d)
      /\ revoked = {} /\ sweep = NoSweep
  BY DEF Init, Mapped
<1>4. \A d \in Devices, a \in Artifacts : /\ held[d][a].version = 0 /\ held[d][a].rows = {}
                                          /\ published[a] = <<>>
  BY DEF Init
<1>5. HeldTypes
  BY DEF Init, HeldTypes
<1>6. Types
  <2>1. RecordTypes /\ TaskTypes /\ SweepTypes
    BY <1>2, <1>3 DEF RecordTypes, TaskTypes, SweepTypes
  <2>2. UpTypes /\ DownTypes
    <3>1. \A S : <<>> \in Seq(S)
      OBVIOUS
    <3>2. \A d \in Devices : up[d] \in Seq(UpFrame(d)) /\ down[d] \in Seq(DownFrame(d))
      BY <1>3, <3>1, Zenon
    <3> QED BY <1>3, <3>2, Zenon DEF UpTypes, DownTypes
  <2>3. DeviceTypes
    BY <1>3, FreshDeviceIs DEF DeviceTypes
  <2> QED BY <1>1, <1>5, <2>1, <2>2, <2>3 DEF Types
<1>7. ASSUME NEW d \in Devices PROVE Legal(d)
  <2>1. ~HasSession(d) /\ \A x \in Devices : ~Sends(x, d)
    BY <1>2, <1>3, NoTaskIs DEF HasSession, Sends
  <2>2. \A a \in Artifacts : device[d].fetch[a] = NoFetch
    BY <1>3, FreshDeviceIs
  <2>3. ~record[d].open /\ task[d].at = "none"
    BY <1>3, NoTaskIs DEF Closed
  <2> QED BY <1>3, <2>1, <2>2, <2>3
      DEF Legal, Gone, HelloIsFirst, JoinIsFirst, ReadersRead, ClearedBefore
<1>8. ASSUME NEW d \in Devices, NEW a \in Artifacts
      PROVE  Fetching(d, a) /\ Whole(held[d][a], published[a])
  <2>1. device[d].link = "down"
    BY <1>3, FreshDeviceIs
  <2>2. Reference!Fold(published[a], 0, 0) = {}
    BY DEF Reference!Fold, Reference!Changed
  <2>3. Whole(held[d][a], published[a])
    BY <1>4, <2>2 DEF Whole, Reference!Usable
  <2> QED BY <2>1, <2>3 DEF Fetching
<1> QED BY <1>6, <1>7, <1>8 DEF IInv, Supplied

LEMMA NextIs == IInv /\ [Next]_vars => IInv'
<1> SUFFICES ASSUME IInv, [Next]_vars PROVE IInv'
  OBVIOUS
<1>1. CASE UNCHANGED vars
  BY <1>1, StutterIs
<1>2. ASSUME NEW d \in Devices, Handle(d) PROVE IInv'
  BY <1>2, TameKeeps, HelloIs, HelloJoinIs, HelloVersionsIs, HelloAckIs, PushFrameIs, PushMergeIs,
     RenewReadIs, PushAckIs, FanOutReadIs, FanOutSendIs, ReadFrameIs, ServePageIs DEF Handle
<1>3. ASSUME NEW d \in Devices, Receive(d) PROVE IInv'
  BY <1>3, TameKeeps, OnHelloAckIs, OnPushAckIs, OnOriginRevokedIs, OnNoticeIs, OnPageIs,
     OnOtherIs DEF Receive
<1>4. ASSUME NEW d \in Devices,
             Connect(d) \/ SeeClosed(d) \/ Drop(d) \/ Append1(d) \/ Revoke(d)
      PROVE  IInv'
  BY <1>4, TameKeeps, ConnectIs, DisconnectIs, Append1Is, RevokeIs DEF SeeClosed, Drop
<1>5. ASSUME NEW d \in Devices, NEW o \in Devices, Relay(d, o) \/ Forward(d, o) PROVE IInv'
  BY <1>5, TameKeeps, RelayIs, ForwardIs
<1>6. ASSUME NEW a \in Artifacts, Publish(a) PROVE IInv'
  BY <1>6, PublishIs
<1>7. ASSUME NEW readable \in BOOLEAN, SweepRead(readable) PROVE IInv'
  BY <1>7, TameKeeps, SweepReadIs
<1>8. ASSUME Announce \/ SweepDrop \/ Tick PROVE IInv'
  BY <1>8, TameKeeps, AnnounceIs, SweepDropIs, TickIs
<1> QED BY <1>1, <1>2, <1>3, <1>4, <1>5, <1>6, <1>7, <1>8 DEF Next

(* Of every behaviour: frames, tasks, sessions and tokens are of their     *)
(* types, no session serves or is sent what it may not read, and whatever  *)
(* is fetched goes on where the device is and ends with a version in full  *)
(* (gateway.ts, catalog.ts and catalog-fetch.ts).                          *)
THEOREM SessionsInvariant == Spec => []IInv
BY InitIs, NextIs, PTL DEF Spec

(* Rights are part of the types of tokens and sessions.                    *)
LEMMA TypesGiveRights == Types => RenewalNeverEscalates
<1> SUFFICES ASSUME Types, NEW d \in Devices
             PROVE  /\ device[d].token.relay => d \in RelayClaim
                    /\ HasSession(d) /\ record[d].session.relay => d \in RelayClaim \cap HubClass
  BY DEF RenewalNeverEscalates
<1>1. device[d].token \in Token(d)
  BY DEF Types, DeviceTypes, Memory
<1>2. HasSession(d) => record[d].session \in Session(d)
  BY DEF Types, RecordTypes, Record, HasSession
<1> QED BY <1>1, <1>2 DEF Token, Session

(* No renewal, at a hello, an ack or through a hub, gives a token a relay  *)
(* right the device was not provisioned with, and no session has one its   *)
(* class forbids (mintRenewal, gateway.ts:371).                            *)
THEOREM RenewalIsSafe == Spec => []RenewalNeverEscalates
<1>1. IInv => RenewalNeverEscalates
  BY TypesGiveRights DEF IInv
<1> QED BY <1>1, SessionsInvariant, PTL

-----------------------------------------------------------------------------
(* What a step may send.                                                   *)

Branch == {"event_batch", "catchup_response", "reference_response"}

LEMMA GainIs ==
  ASSUME DownTypes, NEW d \in Devices, NEW f, down'[d] = Frames(d, <<f>>), Gains(d)
  PROVE  f.kind \in Branch
<1>1. down[d] \in Seq(DownFrame(d))
  BY DEF DownTypes
<1>2. PICK m \in Branch : Len(down'[d]) = Len(down[d]) + 1 /\ down'[d][Len(down'[d])].kind = m
  BY DEF Gains, Branch
<1>3. down'[d] = down[d] \o <<f>>
  BY <1>1, <1>2 DEF Frames
<1>4. down'[d][Len(down'[d])] = f
  <2> DEFINE w == down[d]
  <2>1. w \in Seq(DownFrame(d) \cup {f}) /\ <<f>> \in Seq(DownFrame(d) \cup {f})
    BY <1>1
  <2> HIDE DEF w
  <2>2. Len(w \o <<f>>) = Len(w) + 1 /\ (w \o <<f>>)[Len(w) + 1] = f
    BY <2>1
  <2> QED BY <1>3, <2>2 DEF w
<1> QED BY <1>2, <1>4

(* A connection that gains no frame gains no data.                         *)
LEMMA NoGain ==
  ASSUME DownTypes, NEW d \in Devices,
         \/ down'[d] = down[d] \/ down'[d] = <<>>
         \/ down[d] # <<>> /\ down'[d] = Tail(down[d])
         \/ down'[d] = Frames(d, <<>>)
         \/ \E f : f.kind \notin Branch /\ down'[d] = Frames(d, <<f>>)
  PROVE  ~Gains(d)
<1>1. down[d] \in Seq(DownFrame(d)) /\ Len(down[d]) \in Nat
  BY DEF DownTypes
<1>2. ASSUME Len(down'[d]) # Len(down[d]) + 1 PROVE ~Gains(d)
  BY <1>2 DEF Gains
<1>3. CASE down'[d] = down[d]
  BY <1>1, <1>2, <1>3
<1>4. CASE down'[d] = <<>>
  BY <1>1, <1>2, <1>4
<1>5. CASE down[d] # <<>> /\ down'[d] = Tail(down[d])
  <2>1. Len(Tail(down[d])) = Len(down[d]) - 1
    BY <1>1, <1>5
  <2> QED BY <1>1, <1>2, <1>5, <2>1
<1>6. CASE down'[d] = Frames(d, <<>>)
  <2>1. down[d] \o <<>> = down[d]
    BY <1>1
  <2> QED BY <1>1, <1>2, <1>6, <2>1 DEF Frames
<1>7. CASE \E f : f.kind \notin Branch /\ down'[d] = Frames(d, <<f>>)
  BY <1>7, GainIs
<1> QED BY <1>3, <1>4, <1>5, <1>6, <1>7

Quiet == \A d \in Devices : ~Gains(d)

LEMMA KeepingIsQuiet == ASSUME DownTypes, UNCHANGED down PROVE Quiet
BY NoGain DEF Quiet

LEMMA ReceivingIsQuiet ==
  ASSUME DownTypes, NEW d \in Devices, NEW kinds, Receives(d, kinds)
  PROVE  Quiet
BY ReceivesIs, NoGain DEF Quiet

LEMMA ReplyingIsQuiet ==
  ASSUME DownTypes, NEW d \in Devices, NEW fs, Reply(d, fs),
         fs = <<>> \/ \E f : f.kind \notin Branch /\ fs = <<f>>
  PROVE  Quiet
<1>1. down'[d] = Frames(d, fs) /\ \A e \in Devices : e # d => down'[e] = down[e]
  BY DEF Reply, DownTypes, Mapped
<1>2. ~Gains(d)
  BY <1>1, NoGain
<1>3. \A e \in Devices : e # d => ~Gains(e)
  BY <1>1, NoGain
<1> QED BY <1>2, <1>3 DEF Quiet

(* Of the gateway's handlers, two send data of the branch.                 *)
LEMMA MostHandlersAreQuiet ==
  ASSUME DownTypes, NEW d \in Devices,
         \/ Hello(d) \/ HelloJoin(d) \/ HelloVersions(d) \/ HelloAck(d)
         \/ PushFrame(d) \/ PushMerge(d) \/ RenewRead(d) \/ PushAck(d)
         \/ FanOutRead(d) \/ ReadFrame(d)
  PROVE  Quiet
<1>1. CASE Hello(d)
  <2> DEFINE f == [kind |-> "purge_command"]
  <2>1. f.kind \notin Branch
    BY DEF Branch
  <2>2. Reply(d, <<f>>) \/ UNCHANGED down
    BY <1>1 DEF Hello, Refuse
  <2> HIDE DEF f
  <2> QED BY <2>1, <2>2, ReplyingIsQuiet, KeepingIsQuiet
<1>2. CASE HelloJoin(d) \/ HelloVersions(d) \/ RenewRead(d) \/ FanOutRead(d)
  BY <1>2, KeepingIsQuiet DEF HelloJoin, HelloVersions, RenewRead, FanOutRead
<1>3. CASE HelloAck(d)
  <2>1. PICK f : f.kind = "hello_ack" /\ Reply(d, <<f>>)
    BY <1>3 DEF HelloAck
  <2> QED BY <2>1, ReplyingIsQuiet DEF Branch
<1>4. CASE PushFrame(d) \/ ReadFrame(d)
  <2>1. Reply(d, <<>>) \/ UNCHANGED down
    BY <1>4 DEF PushFrame, ReadFrame, Refuse
  <2> QED BY <2>1, ReplyingIsQuiet, KeepingIsQuiet
<1>5. CASE PushMerge(d)
  <2> DEFINE f == [kind |-> "origin_revoked", origin |-> task[d].push.origin]
  <2>1. f.kind \notin Branch
    BY DEF Branch
  <2>2. Reply(d, <<f>>) \/ UNCHANGED down
    BY <1>5 DEF PushMerge
  <2> HIDE DEF f
  <2> QED BY <2>1, <2>2, ReplyingIsQuiet, KeepingIsQuiet
<1>6. CASE PushAck(d)
  <2>1. PICK f : f.kind = "push_ack" /\ Reply(d, <<f>>)
    BY <1>6 DEF PushAck
  <2> QED BY <2>1, ReplyingIsQuiet DEF Branch
<1> QED BY <1>1, <1>2, <1>3, <1>4, <1>5, <1>6

(* The other steps send none.                                              *)
LEMMA OthersAreQuiet ==
  ASSUME DownTypes,
         \/ \E d \in Devices :
              Receive(d) \/ Connect(d) \/ SeeClosed(d) \/ Drop(d) \/ Append1(d) \/ Revoke(d)
         \/ \E d, o \in Devices : Relay(d, o) \/ Forward(d, o)
         \/ \E a \in Artifacts : Publish(a)
         \/ Announce \/ (\E readable \in BOOLEAN : SweepRead(readable)) \/ SweepDrop \/ Tick
  PROVE  Quiet
<1>1. ASSUME NEW d \in Devices, Receive(d) PROVE Quiet
  BY <1>1, ReceivingIsQuiet DEF Receive, OnHelloAck, OnPushAck, OnOriginRevoked, OnNotice, OnPage,
     OnOther
<1>2. ASSUME NEW d \in Devices, Connect(d) \/ Append1(d) \/ Revoke(d) PROVE Quiet
  BY <1>2, KeepingIsQuiet DEF Connect, Append1, Revoke
<1>3. ASSUME NEW d \in Devices, SeeClosed(d) \/ Drop(d) PROVE Quiet
  <2>1. down' = [down EXCEPT ![d] = <<>>]
    BY <1>3 DEF SeeClosed, Drop, Disconnect
  <2>2. \A e \in Devices : down'[e] = down[e] \/ down'[e] = <<>>
    BY <2>1 DEF DownTypes, Mapped
  <2> QED BY <2>2, NoGain DEF Quiet
<1>4. ASSUME NEW d \in Devices, NEW o \in Devices, Relay(d, o) \/ Forward(d, o) PROVE Quiet
  BY <1>4, KeepingIsQuiet DEF Relay, Forward
<1>5. ASSUME NEW a \in Artifacts, Publish(a) PROVE Quiet
  BY <1>5, KeepingIsQuiet DEF Publish
<1>6. CASE Announce
  <2>1. PICK f : /\ f.kind = "reference_notice"
                 /\ \A e \in Devices : down'[e] = down[e] \/ down'[e] = Frames(e, <<f>>)
    <3>1. PICK u \in unannounced :
            down' = [d \in Devices |->
              IF record[d].joined /\ record[d].open /\ HasSession(d) /\ ~record[d].session.draining
              THEN Frames(d, <<[kind |-> "reference_notice", artifact |-> u.artifact,
                                version |-> u.version]>>)
              ELSE down[d]]
      BY <1>6 DEF Announce
    <3> DEFINE f == [kind |-> "reference_notice", artifact |-> u.artifact, version |-> u.version]
    <3>2. f.kind = "reference_notice"
      OBVIOUS
    <3>3. \A e \in Devices : down'[e] = down[e] \/ down'[e] = Frames(e, <<f>>)
      BY <3>1
    <3> HIDE DEF f
    <3> QED BY <3>2, <3>3
  <2> QED BY <2>1, NoGain DEF Quiet, Branch
<1>7. ASSUME NEW readable \in BOOLEAN, SweepRead(readable) PROVE Quiet
  BY <1>7, KeepingIsQuiet DEF SweepRead
<1>8. CASE SweepDrop
  <2> DEFINE f == [kind |-> "purge_command"]
  <2>1. f.kind \notin Branch
    BY DEF Branch
  <2>2. \A e \in Devices : down'[e] = down[e] \/ down'[e] = Frames(e, <<f>>)
    BY <1>8 DEF SweepDrop
  <2> HIDE DEF f
  <2> QED BY <2>1, <2>2, NoGain DEF Quiet
<1>9. CASE Tick
  BY <1>9, KeepingIsQuiet DEF Tick
<1> QED BY <1>1, <1>2, <1>3, <1>4, <1>5, <1>6, <1>7, <1>8, <1>9

LawfulGain(d) ==
  Gains(d) =>
    /\ HasSession(d) => ~record[d].session.draining
    /\ d \in revoked => \E x \in cleared[d] : task[x].at \in {"send", "page"} /\ task'[x] = NoTask

(* A fan-out sends data to the peers that it has not culled.               *)
LEMMA FanOutIsLawful ==
  ASSUME IInv, NEW x \in Devices, FanOutSend(x), NEW d \in Devices
  PROVE  LawfulGain(d)
<1> DEFINE f == [kind |-> IF d \in task[x].culled THEN "purge_command" ELSE "event_batch"]
<1>1. /\ DownTypes /\ Legal(d) /\ task[x].at = "send" /\ task'[x] = NoTask
      /\ \/ d \in task[x].peers /\ down'[d] = Frames(d, <<f>>)
         \/ down'[d] = down[d]
  <2>1. DownTypes /\ Legal(d) /\ task[x].at = "send" /\ task'[x] = NoTask
    BY DEF FanOutSend, IInv, Types, TaskTypes, Mapped
  <2>2. PICK reached \in SUBSET (task[x].peers \ task[x].lost) :
          down'[d] = IF d \in reached THEN Frames(d, <<f>>) ELSE down[d]
    BY DEF FanOutSend
  <2> QED BY <2>1, <2>2
<1>2. d \in task[x].culled => f.kind \notin Branch
  BY DEF Branch
<1> HIDE DEF f
<1>3. ASSUME Gains(d) PROVE Sends(x, d) /\ d \notin task[x].culled
  BY <1>1, <1>2, <1>3, NoGain DEF Sends
<1>4. ASSUME Sends(x, d) PROVE HasSession(d) => ~record[d].session.draining
  BY <1>1, <1>4 DEF Legal, ReadersRead
<1>5. ASSUME Sends(x, d), d \notin task[x].culled, d \in revoked PROVE x \in cleared[d]
  BY <1>1, <1>5 DEF Legal, ClearedBefore
<1> QED BY <1>1, <1>3, <1>4, <1>5 DEF LawfulGain

(* A page goes to the device that asked for it.                            *)
LEMMA PageIsLawful ==
  ASSUME IInv, NEW x \in Devices, ServePage(x), NEW d \in Devices
  PROVE  LawfulGain(d)
<1>1. DownTypes /\ Legal(d) /\ task[x].at = "page" /\ task'[x] = NoTask
  BY DEF ServePage, IInv, Types, TaskTypes, Mapped
<1>2. CASE d # x
  <2>1. down'[d] = down[d]
    BY <1>1, <1>2 DEF ServePage, Reply, DownTypes, Mapped
  <2> QED BY <1>1, <2>1, NoGain DEF LawfulGain
<1>3. CASE d = x
  BY <1>1, <1>3 DEF LawfulGain, Legal, ReadersRead, ClearedBefore
<1> QED BY <1>2, <1>3

(* Branch data goes to a session that is not drained-only, and after the   *)
(* device is revoked only from a handler that had read the registry before *)
(* (requireUnrevoked, gateway.ts:656, and the cull of gateway.ts:1155).    *)
THEOREM ReadsStayLawful == Spec => ReadsAreLawful
<1>1. IInv /\ [Next]_vars => [\A d \in Devices : LawfulGain(d)]_vars
  <2> SUFFICES ASSUME IInv, Next PROVE \A d \in Devices : LawfulGain(d)
    OBVIOUS
  <2>1. DownTypes
    BY DEF IInv, Types
  <2>2. CASE Quiet
    BY <2>2 DEF Quiet, LawfulGain
  <2>3. CASE \E x \in Devices : FanOutSend(x) \/ ServePage(x)
    BY <2>3, FanOutIsLawful, PageIsLawful
  <2> QED BY <2>1, <2>2, <2>3, MostHandlersAreQuiet, OthersAreQuiet DEF Next, Handle
<1>2. [\A d \in Devices : LawfulGain(d)]_vars
      => [\A d \in Devices : Gains(d) =>
            /\ HasSession(d) => ~record[d].session.draining
            /\ d \in revoked =>
                 \E x \in cleared[d] : task[x].at \in {"send", "page"} /\ task'[x] = NoTask]_vars
  BY DEF LawfulGain
<1> QED BY <1>1, <1>2, SessionsInvariant, PTL DEF Spec, ReadsAreLawful

-----------------------------------------------------------------------------
(* What a device holds and its refinement.                                 *)

View(h) == [version |-> h.version, rows |-> Reference!Usable(h.rows)]
Live == [d \in Devices |-> [a \in Artifacts |-> View(held[d][a])]]

LEMMA SameVersions ==
  /\ \A rows : Stocked!Usable(rows) = Reference!Usable(rows)
  /\ \A vs, lo, v : Stocked!Fold(vs, lo, v) = Reference!Fold(vs, lo, v)
<1>1. \A rows : Stocked!Usable(rows) = Reference!Usable(rows)
  BY DEF Stocked!Usable, Reference!Usable
<1>2. ASSUME NEW vs, NEW lo, NEW v PROVE Stocked!Fold(vs, lo, v) = Reference!Fold(vs, lo, v)
  <2>1. Stocked!Changed(vs, lo, v) = Reference!Changed(vs, lo, v)
    BY Zenon DEF Stocked!Changed, Reference!Changed
  <2>2. \A i : Stocked!Latest(vs, v, i) = Reference!Latest(vs, v, i)
    BY Zenon DEF Stocked!Latest, Reference!Latest, Stocked!Max, Reference!Max
  <2>3. \A i : Stocked!RowAt(vs, v, i) = Reference!RowAt(vs, v, i)
    BY <2>2, Zenon DEF Stocked!RowAt, Reference!RowAt
  <2> QED BY <2>1, <2>3, Zenon DEF Stocked!Fold, Reference!Fold
<1> QED BY <1>1, <1>2, Zenon

(* A page leaves what is held as it was, or gives one device a version of  *)
(* one artifact.                                                           *)
LEMMA PageHolds ==
  ASSUME IInv, NEW d \in Devices, OnPage(d), held' # held
  PROVE  \E a \in Artifacts, n \in Holding :
           /\ held' = [held EXCEPT ![d] = [@ EXCEPT ![a] = n]]
           /\ Brings(held[d][a], n, published[a])
<1> DEFINE a == Head(down[d]).artifact
           p == Page1(d)
           f == device[d].fetch[a]
           agrees == f.shape \in {<<>>, <<p.form, p.version, p.base>>}
<1>1. Types /\ Receives(d, {"reference_response"})
  BY DEF OnPage, IInv
<1>2. down[d] # <<>> /\ Head(down[d]) \in DownFrame(d) /\ Head(down[d]).kind = "reference_response"
  BY <1>1, ReceivesIs DEF Types
<1>3. a \in Artifacts /\ About(Head(down[d]), "reference_response", a)
  BY <1>2, DownFrameIs DEF About
<1>4. p = Head(down[d]).page
  BY DEF Page1
<1> HIDE DEF p
<1>5. /\ f # NoFetch /\ p.complete
      /\ held' = [held EXCEPT ![d][a] =
                    Applied(a, @, p.form, p.version, p.base, f.entries \cup p.entries)]
  BY <1>4, Zenon DEF OnPage
<1>6. held' = [held EXCEPT ![d] = [@ EXCEPT ![a] = Result(d, a)]]
  BY <1>1, <1>3, <1>5 DEF Result, Types, HeldTypes, p
<1>7. Result(d, a) \in Holding /\ Brings(held[d][a], Result(d, a), published[a])
  BY <1>2, <1>3, <1>5, PageTaken DEF p
<1> HIDE DEF a
<1> QED BY <1>3, <1>6, <1>7

(* Which is a step of the promise: the same version again, or a later one. *)
LEMMA HoldingTakes ==
  ASSUME HeldTypes, NEW d \in Devices, NEW a \in Artifacts, NEW n \in Holding,
         held' = [held EXCEPT ![d] = [@ EXCEPT ![a] = n]],
         Brings(held[d][a], n, published[a]), published' = published
  PROVE  Stocked!Take(d, a) \/ Live' = Live
<1> DEFINE l == View(n)
<1>1. held[d][a].version \in Nat /\ n.version \in Nat
  BY DEF HeldTypes, Holding
<1>2. /\ held'[d][a] = n
      /\ \A e \in Devices, b \in Artifacts : e # d \/ b # a => held'[e][b] = held[e][b]
  BY DEF HeldTypes
<1>3. Live' = [Live EXCEPT ![d][a] = l]
  <2> DEFINE Shown(h) == [b \in Artifacts |-> View(h[b])]
             s == [Shown(held[d]) EXCEPT ![a] = l]
  <2>1. /\ Live = [e \in Devices |-> Shown(held[e])]
        /\ Live' = [e \in Devices |-> Shown(held'[e])]
    BY DEF Live
  <2>2. Shown(held'[d]) = s
    <3>1. \A b \in Artifacts : View(held'[d][b]) = IF b = a THEN l ELSE View(held[d][b])
      BY <1>2
    <3>2. s = [b \in Artifacts |-> IF b = a THEN l ELSE View(held[d][b])]
      <4> HIDE DEF l
      <4> QED OBVIOUS
    <3> HIDE DEF l, s
    <3> QED BY <3>1, <3>2
  <2>3. \A e \in Devices : e # d => held'[e] = held[e]
    BY DEF HeldTypes
  <2>4. \A e \in Devices : Live'[e] = IF e = d THEN s ELSE Live[e]
    <3> HIDE DEF s, Shown
    <3> QED BY <2>1, <2>2, <2>3
  <2>5. Live[d] = Shown(held[d])
    BY <2>1, Zenon
  <2>6. Live' = [Live EXCEPT ![d] = s]
    <3> HIDE DEF s, Shown
    <3> QED BY <2>1, <2>4
  <2>7. [Live EXCEPT ![d][a] = l] = [Live EXCEPT ![d] = [Live[d] EXCEPT ![a] = l]]
    BY <2>1, Zenon
  <2> HIDE DEF Shown, l
  <2> QED BY <2>5, <2>6, <2>7
<1>4. CASE n.version = held[d][a].version /\ Reference!Usable(n.rows) = Reference!Usable(held[d][a].rows)
  <2>1. \A e \in Devices, b \in Artifacts :
          /\ held'[e][b].version = held[e][b].version
          /\ Reference!Usable(held'[e][b].rows) = Reference!Usable(held[e][b].rows)
    BY <1>2, <1>4
  <2> QED BY <2>1, Zenon DEF Live, View
<1>5. CASE /\ n.version \in (held[d][a].version + 1)..Len(published[a])
           /\ Reference!Usable(n.rows) = Reference!Usable(Reference!Fold(published[a], 0, n.version))
  <2>1. Live[d][a].version = held[d][a].version
    BY DEF Live, View
  <2>2. l = [version |-> n.version,
             rows |-> Stocked!Usable(Stocked!Fold(published[a], 0, n.version))]
    BY <1>5, SameVersions DEF View
  <2> HIDE DEF l
  <2> QED BY <1>3, <1>5, <2>1, <2>2 DEF Stocked!Take, Live, View
<1> QED BY <1>4, <1>5 DEF Brings

(* The other steps do not touch what is held, and most not what is         *)
(* published.                                                              *)
LEMMA HeldStays ==
  ASSUME Next
  PROVE  \/ held' = held /\ (published' = published \/ \E a \in Artifacts : Publish(a))
         \/ \E d \in Devices : OnPage(d) /\ published' = published
<1>1. ASSUME NEW d \in Devices, Handle(d) PROVE held' = held /\ published' = published
  BY <1>1 DEF Handle, Hello, HelloJoin, HelloVersions, HelloAck, PushFrame, PushMerge, RenewRead,
     PushAck, FanOutRead, FanOutSend, ReadFrame, ServePage, registry
<1>2. ASSUME NEW d \in Devices, Receive(d)
      PROVE  published' = published /\ (held' = held \/ OnPage(d))
  BY <1>2 DEF Receive, OnHelloAck, OnPushAck, OnOriginRevoked, OnNotice, OnPage, OnOther, registry
<1>3. ASSUME NEW d \in Devices,
             Connect(d) \/ SeeClosed(d) \/ Drop(d) \/ Append1(d) \/ Revoke(d)
      PROVE  held' = held /\ published' = published
  BY <1>3 DEF Connect, SeeClosed, Drop, Disconnect, Append1, Revoke, registry
<1>4. ASSUME NEW d \in Devices, NEW o \in Devices, Relay(d, o) \/ Forward(d, o)
      PROVE  held' = held /\ published' = published
  BY <1>4 DEF Relay, Forward, registry
<1>5. ASSUME NEW a \in Artifacts, Publish(a) PROVE held' = held
  BY <1>5 DEF Publish
<1>6. ASSUME NEW readable \in BOOLEAN, SweepRead(readable)
      PROVE  held' = held /\ published' = published
  BY <1>6 DEF SweepRead, registry
<1>7. ASSUME Announce \/ SweepDrop \/ Tick PROVE held' = held /\ published' = published
  BY <1>7 DEF Announce, SweepDrop, Tick, registry
<1> QED BY <1>1, <1>2, <1>3, <1>4, <1>5, <1>6, <1>7 DEF Next

LEMMA PublishesPromise ==
  ASSUME NEW a \in Artifacts, Publish(a)
  PROVE  Stocked!Publish(a)
<1>1. PICK c \in Changes : published' = [published EXCEPT ![a] = Append(@, c)]
  BY DEF Publish
<1>2. c \in (SUBSET [id : Ids, deleted : BOOLEAN]) \ {{}}
  BY SessionsAssumption
<1>3. Live' = Live
  BY DEF Publish, Live
<1> QED BY <1>1, <1>2, <1>3 DEF Stocked!Publish, Live, View

(* The artifacts on the devices are published versions, in full and in     *)
(* their order, whatever publishes, disconnects and pages interleave       *)
(* (catalog-fetch.ts:110, catalog.ts:312 of the gateway).                  *)
THEOREM ImplementsReferenceData == Spec => HoldsPublishedVersions
<1>1. Init => Stocked!Init
  <2> SUFFICES ASSUME Init PROVE Stocked!Init
    OBVIOUS
  <2>1. \A d \in Devices, a \in Artifacts :
          /\ held[d][a].version = 0
          /\ Reference!Usable(held[d][a].rows) = {}
    BY DEF Init, Reference!Usable
  <2>2. Live = [d \in Devices |-> [a \in Artifacts |-> [version |-> 0, rows |-> {}]]]
    BY <2>1 DEF Live, View
  <2> QED BY <2>2 DEF Init, Live, View, Stocked!Init
<1>2. IInv /\ [Next]_vars => [Stocked!Next]_(Stocked!vars)
  <2> SUFFICES ASSUME IInv, [Next]_vars PROVE [Stocked!Next]_(Stocked!vars)
    OBVIOUS
  <2>1. ASSUME held' = held, published' = published PROVE UNCHANGED Stocked!vars
    BY <2>1 DEF Stocked!vars
  <2>2. CASE UNCHANGED vars
    BY <2>1, <2>2 DEF vars, registry
  <2>3. ASSUME NEW a \in Artifacts, Publish(a) PROVE Stocked!Next
    BY <2>3, PublishesPromise DEF Stocked!Next
  <2>4. ASSUME NEW d \in Devices, OnPage(d), published' = published, held' # held
        PROVE  [Stocked!Next]_(Stocked!vars)
    <3>1. PICK a \in Artifacts, n \in Holding :
            /\ held' = [held EXCEPT ![d] = [@ EXCEPT ![a] = n]]
            /\ Brings(held[d][a], n, published[a])
      BY <2>4, PageHolds
    <3>2. Stocked!Take(d, a) \/ Live' = Live
      BY <2>4, <3>1, HoldingTakes DEF IInv, Types
    <3>3. ASSUME Live' = Live PROVE UNCHANGED Stocked!vars
      BY <2>4, <3>3 DEF Live, View, Stocked!vars
    <3> QED BY <3>2, <3>3 DEF Stocked!Next
  <2> QED BY <2>1, <2>2, <2>3, <2>4, HeldStays
<1> QED BY <1>1, <1>2, SessionsInvariant, PTL DEF Spec, HoldsPublishedVersions, Stocked!Spec

=============================================================================
