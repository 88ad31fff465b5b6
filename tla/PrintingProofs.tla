--------------------------- MODULE PrintingProofs ---------------------------
(***************************************************************************)
(* For every kitchen and every printer: no line is on two chits, a job the *)
(* printer took is never sent again, and no chit fails in silence.         *)
(***************************************************************************)
EXTENDS Printing, FiniteSetTheorems, WellFoundedInduction, TLAPS

-----------------------------------------------------------------------------
(* Least elements.                                                         *)

(* Every nonempty set of naturals has a least element.                     *)
LEMMA LeastNatural ==
  ASSUME NEW S \in SUBSET Nat, S # {}
  PROVE  \E m \in S : \A n \in S : m <= n
<1> DEFINE Below == OpToRel(<, Nat)
<1>1. IsWellFoundedOn(Below, Nat)
  BY NatLessThanWellFounded, Zenon
<1>2. \A m, n \in Nat : n < m => <<n, m>> \in Below
  BY Zenon DEF OpToRel
<1> HIDE DEF Below
<1>3. PICK m \in S : \A n \in S : ~ (<<n, m>> \in Below)
  BY <1>1, WFMin, Zenon
<1>4. ASSUME NEW n \in S PROVE ~(n < m)
  BY <1>2, <1>3, Zenon
<1>5. \A n \in S : m <= n
  BY <1>4, SMT
<1> QED BY <1>5, Zenon

-----------------------------------------------------------------------------
Jobs == [id : ChitIds, state : JobStates, attempts : 0..MaxAttempts, covers : (SUBSET Lines) \cup {None}]
Passes == [step : {"idle", "next", "sending", "asking"}, at : Nat, taken : BOOLEAN,
           before : Seq(JobStates), skip : SUBSET Nat]

-----------------------------------------------------------------------------
(* What is said of a spool js alone.                                       *)

ChitsIn(js, s) == {i \in DOMAIN js : js[i].id[1] = s}
EarlierIn(js, i) == {k \in 1..(i - 1) : js[k].id[1] = js[i].id[1]}
CoveredIn(js, s) == UNION {js[i].covers : i \in ChitsIn(js, s)}
RecordedIn(js, s) == \A i \in ChitsIn(js, s) : js[i].covers # None

(* The chits of a station are numbered as they were made.                  *)
Numbered(js) == \A i \in DOMAIN js : js[i].id[2] = Cardinality(EarlierIn(js, i))

(* A chit covers lines of its own station, and not none.                   *)
RightStation(js, at) ==
  \A i \in DOMAIN js : js[i].covers # None =>
    js[i].covers # {} /\ \A l \in js[i].covers : at[l] = js[i].id[1]

Apart(js) ==
  \A i, k \in DOMAIN js :
    i # k /\ js[i].covers # None /\ js[k].covers # None => js[i].covers \cap js[k].covers = {}

(* So a station has no more chits than lines.                              *)
Counted(js) ==
  \A s \in Stations :
    RecordedIn(js, s) => Cardinality(ChitsIn(js, s)) <= Cardinality(CoveredIn(js, s))

Budgeted(js) ==
  \A i \in DOMAIN js : js[i].state \in {"queued", "transmitting"} => js[i].attempts < MaxAttempts

SpoolOK(js, at) ==
  /\ js \in Seq(Jobs)
  /\ Numbered(js) /\ RightStation(js, at) /\ Apart(js) /\ Counted(js) /\ Budgeted(js)

-----------------------------------------------------------------------------
(* The inductive invariant.                                                *)

Typed ==
  /\ order \in [confirmed : BOOLEAN, lines : [Lines -> {"none", "on", "off"}], at : [Lines -> Stations]]
  /\ pass \in Passes
  /\ bands \subseteq [id : ChitIds, again : BOOLEAN]
  /\ online \in BOOLEAN /\ narrow \in BOOLEAN /\ today \in BOOLEAN
  /\ ledger \in [printed : SUBSET ChitIds, failed : SUBSET ChitIds, acked : SUBSET ChitIds,
                 status : {"online", "offline"}]
  /\ printer \in [roll : BOOLEAN, hold : [ChitIds -> Nat], copies : [ChitIds -> Nat]]
  /\ left \in [crashes : Nat, voids : Nat, rolls : Nat, resends : Nat, acks : Nat, days : Nat]

Confirms == \A i \in DOMAIN jobs : jobs[i].covers # None => order.confirmed

(* The pass works on one job, and nobody else does.                        *)
PassOK ==
  /\ pass.at \in 0..Len(jobs) /\ Len(pass.before) <= Len(jobs)
  /\ pass.step = "idle" => pass.before = <<>>
  /\ pass.step = "sending" =>
       /\ pass.at \in DOMAIN pass.before /\ jobs[pass.at].state = "transmitting"
       /\ pass.taken /\ jobs[pass.at].covers # None => Given(jobs[pass.at].id) > 0
  /\ pass.step = "asking" => pass.at \in DOMAIN pass.before /\ jobs[pass.at].state = "stalled"
  /\ \A i \in DOMAIN jobs : jobs[i].state = "transmitting" => pass.step = "sending" /\ i = pass.at

(* What it has not come to stands as it began, and it began with no job    *)
(* that was at its end.                                                    *)
PassFresh ==
  /\ \A i \in DOMAIN pass.before :
       i > pass.at /\ i \notin pass.skip => pass.before[i] = jobs[i].state
  /\ pass.step \in {"sending", "asking"} => pass.before[pass.at] \notin {"printed", "failed"}

(* The pass will still tell of job i.                                      *)
ToBeTold(i) == ~Idle /\ (i \in DOMAIN pass.before => pass.before[i] # jobs[i].state)

JobTold(i) ==
  jobs[i].covers # None =>
    /\ jobs[i].state = "failed" =>
         Raised(jobs[i].id) \/ jobs[i].id \in ledger.acked \/ ~today \/ ToBeTold(i)
    /\ jobs[i].state = "printed" => jobs[i].id \in ledger.printed \cup cut \/ ToBeTold(i)
    /\ jobs[i].state \in {"printed", "stalled"} => Given(jobs[i].id) > 0

AllTold == \A i \in DOMAIN jobs : JobTold(i)

IInv == Typed /\ SpoolOK(jobs, order.at) /\ Confirms /\ PassOK /\ PassFresh /\ AllTold

-----------------------------------------------------------------------------
(* Sequences from sets, and numbers of chits.                              *)

LEMMA SetToSeqIsOne ==
  ASSUME NEW S, IsFiniteSet(S)
  PROVE  /\ SetToSeq(S) \in Seq(S) /\ Len(SetToSeq(S)) = Cardinality(S)
         /\ Cardinality(S) \in Nat
         /\ \A i, k \in 1..Cardinality(S) : SetToSeq(S)[i] = SetToSeq(S)[k] => i = k
<1> DEFINE n == Cardinality(S)
<1>1. n \in Nat /\ ExistsBijection(1..n, S)
  BY FS_CardinalityType
<1>2. \E f \in [1..n -> S] : IsInjective(f)
  BY <1>1 DEF ExistsBijection, Bijection, Injection, IsInjective
<1>3. SetToSeq(S) \in [1..n -> S] /\ IsInjective(SetToSeq(S))
  BY <1>2 DEF SetToSeq
<1> QED BY <1>1, <1>3 DEF IsInjective

LEMMA ChitsAreFinite ==
  ASSUME NEW js \in Seq(Jobs)
  PROVE  /\ \A s : IsFiniteSet(ChitsIn(js, s)) /\ Cardinality(ChitsIn(js, s)) \in Nat
         /\ \A i \in DOMAIN js : IsFiniteSet(EarlierIn(js, i)) /\ Cardinality(EarlierIn(js, i)) \in Nat
<1>1. Len(js) \in Nat /\ DOMAIN js = 1..Len(js)
  OBVIOUS
<1>2. IsFiniteSet(1..Len(js))
  BY <1>1, FS_Interval
<1>3. \A s : ChitsIn(js, s) \in SUBSET (1..Len(js))
  BY <1>1 DEF ChitsIn
<1>4. \A i \in DOMAIN js : EarlierIn(js, i) \in SUBSET (1..Len(js))
  BY <1>1 DEF EarlierIn
<1> QED BY <1>2, <1>3, <1>4, FS_Subset, FS_CardinalityType

(* Two chits have two ids.                                                 *)
LEMMA IdsDiffer ==
  ASSUME NEW js \in Seq(Jobs), Numbered(js), NEW i \in DOMAIN js, NEW k \in DOMAIN js,
         js[i].id = js[k].id
  PROVE  i = k
<1>1. SUFFICES ASSUME NEW a \in DOMAIN js, NEW b \in DOMAIN js, a < b, js[a].id = js[b].id
               PROVE  FALSE
  <2>1. i \in Int /\ k \in Int
    OBVIOUS
  <2> QED BY <1>1, <2>1
<1>2. a \in Int /\ b \in Int
  OBVIOUS
<1>3. EarlierIn(js, a) \cup {a} \in SUBSET EarlierIn(js, b) /\ a \notin EarlierIn(js, a)
  BY <1>1, <1>2 DEF EarlierIn
<1>4. Cardinality(EarlierIn(js, a) \cup {a}) = Cardinality(EarlierIn(js, a)) + 1
  BY <1>3, ChitsAreFinite, FS_AddElement
<1>5. Cardinality(EarlierIn(js, a) \cup {a}) <= Cardinality(EarlierIn(js, b))
  BY <1>3, ChitsAreFinite, FS_Subset
<1>6. Cardinality(EarlierIn(js, a)) = Cardinality(EarlierIn(js, b))
  BY <1>1 DEF Numbered
<1> QED BY <1>4, <1>5, <1>6, ChitsAreFinite

(* What is said of a spool depends on ids and coverage.                    *)
LEMMA SameChits ==
  ASSUME NEW js, NEW at, SpoolOK(js, at), NEW new \in Seq(Jobs), Len(new) = Len(js), Budgeted(new),
         \A i \in DOMAIN js : new[i].id = js[i].id /\ new[i].covers = js[i].covers
  PROVE  SpoolOK(new, at)
<1>1. js \in Seq(Jobs) /\ DOMAIN new = DOMAIN js /\ DOMAIN js = 1..Len(js) /\ Len(js) \in Nat
  BY DEF SpoolOK
<1>2. \A s : ChitsIn(new, s) = ChitsIn(js, s)
  BY <1>1 DEF ChitsIn
<1>3. \A i \in DOMAIN js : EarlierIn(new, i) = EarlierIn(js, i)
  BY <1>1 DEF EarlierIn
<1>4. \A s : CoveredIn(new, s) = CoveredIn(js, s) /\ (RecordedIn(new, s) <=> RecordedIn(js, s))
  <2> TAKE s
  <2>1. {new[i].covers : i \in ChitsIn(new, s)} = {js[i].covers : i \in ChitsIn(js, s)}
    BY <1>1, <1>2 DEF ChitsIn
  <2> QED BY <2>1, <1>1, <1>2 DEF CoveredIn, RecordedIn, ChitsIn
<1>5. Numbered(new)
  BY <1>1, <1>3 DEF Numbered, SpoolOK
<1>6. RightStation(new, at) /\ Apart(new)
  BY <1>1 DEF RightStation, Apart, SpoolOK
<1>7. Counted(new)
  BY <1>2, <1>4 DEF Counted, SpoolOK
<1> QED BY <1>5, <1>6, <1>7 DEF SpoolOK

(* What one confirm adds to a spool: a chit for each of some stations, for *)
(* lines that no chit of the station covers.                               *)
Addition(js, add, at) ==
  /\ add \in Seq(Jobs)
  /\ \A i, k \in DOMAIN add : add[i].id[1] = add[k].id[1] => i = k
  /\ \A i \in DOMAIN add :
       /\ add[i].id[2] = Cardinality(ChitsIn(js, add[i].id[1]))
       /\ RecordedIn(js, add[i].id[1])
       /\ add[i].covers \in SUBSET Lines /\ add[i].covers # {}
       /\ add[i].covers \cap CoveredIn(js, add[i].id[1]) = {}
       /\ \A l \in add[i].covers : at[l] = add[i].id[1]
       /\ add[i].state = "queued" /\ add[i].attempts = 0

LEMMA AdditionKeeps ==
  ASSUME NEW js, NEW at, SpoolOK(js, at), NEW add, Addition(js, add, at)
  PROVE  SpoolOK(js \o add, at)
<1> DEFINE new == js \o add
           n == Len(js)
<1>1. /\ js \in Seq(Jobs) /\ add \in Seq(Jobs) /\ n \in Nat /\ Len(add) \in Nat
      /\ DOMAIN js = 1..n /\ DOMAIN add = 1..Len(add)
  BY DEF SpoolOK, Addition
<1>2. /\ new \in Seq(Jobs) /\ DOMAIN new = 1..(n + Len(add))
      /\ \A i \in DOMAIN js : new[i] = js[i]
      /\ \A k \in DOMAIN add : new[n + k] = add[k]
  BY <1>1
<1>3. \A i \in DOMAIN new : i \in DOMAIN js \/ \E k \in DOMAIN add : i = n + k
  <2> SUFFICES ASSUME NEW i \in DOMAIN new, i \notin DOMAIN js
               PROVE  \E k \in DOMAIN add : i = n + k
    OBVIOUS
  <2>1. i - n \in DOMAIN add /\ i = n + (i - n)
    BY <1>1, <1>2
  <2> QED BY <2>1
<1> HIDE DEF new, n
<1>4. \A i \in DOMAIN js : i \in DOMAIN new /\ i \in Nat /\ i <= n
  BY <1>1, <1>2
<1>5. \A k \in DOMAIN add : n + k \in DOMAIN new /\ n + k > n /\ k \in Nat /\ n + k \notin DOMAIN js
  BY <1>1, <1>2
<1>6. Numbered(new)
  <2> SUFFICES ASSUME NEW i \in DOMAIN new
               PROVE  new[i].id[2] = Cardinality(EarlierIn(new, i))
    BY DEF Numbered
  <2>1. CASE i \in DOMAIN js
    <3>1. \A k \in 1..(i - 1) : k \in DOMAIN js
      BY <2>1, <1>1
    <3>2. EarlierIn(new, i) = EarlierIn(js, i)
      BY <2>1, <3>1, <1>2 DEF EarlierIn
    <3> QED BY <2>1, <3>2, <1>2 DEF Numbered, SpoolOK
  <2>2. ASSUME NEW k \in DOMAIN add, i = n + k
        PROVE  new[i].id[2] = Cardinality(EarlierIn(new, i))
    <3>1. ASSUME NEW m
          PROVE  m \in EarlierIn(new, i) <=> m \in ChitsIn(js, add[k].id[1])
      <4>1. CASE m \in DOMAIN js
        <5>1. m \in 1..(i - 1)
          BY <4>1, <2>2, <1>1, <1>5
        <5> QED BY <5>1, <4>1, <2>2, <1>2 DEF EarlierIn, ChitsIn
      <4>2. CASE m \in 1..(i - 1) /\ m \notin DOMAIN js
        <5>1. m \in DOMAIN new
          BY <4>2, <2>2, <1>1, <1>2, <1>5
        <5>2. PICK j \in DOMAIN add : m = n + j
          BY <5>1, <4>2, <1>3
        <5>3. j # k
          BY <5>2, <4>2, <2>2, <1>1, <1>5
        <5>4. add[j].id[1] # add[k].id[1]
          BY <5>3 DEF Addition
        <5> QED BY <5>2, <5>4, <4>2, <2>2, <1>2 DEF EarlierIn, ChitsIn
      <4> QED BY <4>1, <4>2 DEF EarlierIn, ChitsIn
    <3>2. EarlierIn(new, i) = ChitsIn(js, add[k].id[1])
      BY <3>1
    <3> QED BY <3>2, <2>2, <1>2 DEF Addition
  <2> QED BY <1>3, <2>1, <2>2
<1>7. RightStation(new, at)
  <2> SUFFICES ASSUME NEW i \in DOMAIN new, new[i].covers # None
               PROVE  new[i].covers # {} /\ \A l \in new[i].covers : at[l] = new[i].id[1]
    BY DEF RightStation
  <2>1. CASE i \in DOMAIN js
    BY <2>1, <1>2 DEF RightStation, SpoolOK
  <2>2. ASSUME NEW k \in DOMAIN add, i = n + k
        PROVE  new[i].covers # {} /\ \A l \in new[i].covers : at[l] = new[i].id[1]
    BY <2>2, <1>2 DEF Addition
  <2> QED BY <1>3, <2>1, <2>2
<1>8. Apart(new)
  <2>1. ASSUME NEW i \in DOMAIN js, NEW k \in DOMAIN add, js[i].covers # None
        PROVE  js[i].covers \cap add[k].covers = {}
    <3>1. CASE js[i].id[1] = add[k].id[1]
      <4>1. js[i].covers \subseteq CoveredIn(js, add[k].id[1])
        BY <3>1 DEF CoveredIn, ChitsIn
      <4> QED BY <4>1 DEF Addition
    <3>2. CASE js[i].id[1] # add[k].id[1]
      BY <2>1, <3>2 DEF Addition, RightStation, SpoolOK
    <3> QED BY <3>1, <3>2
  <2>2. ASSUME NEW i \in DOMAIN add, NEW k \in DOMAIN add, i # k
        PROVE  add[i].covers \cap add[k].covers = {}
    BY <2>2 DEF Addition
  <2> SUFFICES ASSUME NEW i \in DOMAIN new, NEW k \in DOMAIN new, i # k,
                      new[i].covers # None, new[k].covers # None
               PROVE  new[i].covers \cap new[k].covers = {}
    BY DEF Apart
  <2>3. CASE i \in DOMAIN js /\ k \in DOMAIN js
    BY <2>3, <1>2 DEF Apart, SpoolOK
  <2>4. ASSUME i \in DOMAIN js, NEW b \in DOMAIN add, k = n + b
        PROVE  new[i].covers \cap new[k].covers = {}
    BY <2>1, <2>4, <1>2
  <2>5. ASSUME k \in DOMAIN js, NEW b \in DOMAIN add, i = n + b
        PROVE  new[i].covers \cap new[k].covers = {}
    BY <2>1, <2>5, <1>2
  <2>6. ASSUME NEW a \in DOMAIN add, i = n + a, NEW b \in DOMAIN add, k = n + b
        PROVE  new[i].covers \cap new[k].covers = {}
    BY <2>2, <2>6, <1>2
  <2> QED BY <1>3, <2>3, <2>4, <2>5, <2>6
<1>9. Counted(new)
  <2> SUFFICES ASSUME NEW s \in Stations, RecordedIn(new, s)
               PROVE  Cardinality(ChitsIn(new, s)) <= Cardinality(CoveredIn(new, s))
    BY DEF Counted
  <2>1. RecordedIn(js, s)
    BY <1>2, <1>4 DEF RecordedIn, ChitsIn
  <2>2. CoveredIn(js, s) \in SUBSET Lines
    <3>1. \A i \in ChitsIn(js, s) : i \in DOMAIN js /\ js[i] \in Jobs
      BY <1>1 DEF ChitsIn
    <3>2. \A i \in ChitsIn(js, s) : js[i].covers \in SUBSET Lines
      <4>1. \A j \in Jobs : j.covers \in SUBSET Lines \/ j.covers = None
        BY DEF Jobs
      <4> QED BY <3>1, <4>1, <2>1 DEF RecordedIn
    <3> QED BY <3>2 DEF CoveredIn
  <2>3. IsFiniteSet(CoveredIn(js, s)) /\ Cardinality(CoveredIn(js, s)) \in Nat
    BY <2>2, StationsAssumption, FS_Subset, FS_CardinalityType
  <2>4. /\ IsFiniteSet(ChitsIn(js, s)) /\ Cardinality(ChitsIn(js, s)) \in Nat
        /\ Cardinality(ChitsIn(js, s)) <= Cardinality(CoveredIn(js, s))
    BY <2>1, <1>1, ChitsAreFinite DEF Counted, SpoolOK
  <2>5. CASE \A k \in DOMAIN add : add[k].id[1] # s
    <3>1. ChitsIn(new, s) = ChitsIn(js, s)
      BY <2>5, <1>2, <1>3, <1>4 DEF ChitsIn
    <3>2. CoveredIn(new, s) = CoveredIn(js, s)
      <4>1. {new[i].covers : i \in ChitsIn(new, s)} = {js[i].covers : i \in ChitsIn(js, s)}
        BY <3>1, <1>2 DEF ChitsIn
      <4> QED BY <4>1 DEF CoveredIn
    <3> QED BY <3>1, <3>2, <2>4
  <2>6. ASSUME NEW k \in DOMAIN add, add[k].id[1] = s
        PROVE  Cardinality(ChitsIn(new, s)) <= Cardinality(CoveredIn(new, s))
    <3>1. ASSUME NEW m
          PROVE  m \in ChitsIn(new, s) <=> m \in ChitsIn(js, s) \cup {n + k}
      <4>1. CASE m \in DOMAIN js
        BY <4>1, <1>2, <1>4, <1>5 DEF ChitsIn
      <4>2. ASSUME NEW j \in DOMAIN add, m = n + j
            PROVE  m \in ChitsIn(new, s) <=> m \in ChitsIn(js, s) \cup {n + k}
        <5>1. add[j].id[1] = s <=> j = k
          BY <2>6 DEF Addition
        <5>2. m = n + k <=> j = k
          BY <4>2, <1>1, <1>5
        <5> QED BY <5>1, <5>2, <4>2, <1>2, <1>5 DEF ChitsIn
      <4>3. CASE m \notin DOMAIN new
        BY <4>3, <1>4, <1>5 DEF ChitsIn
      <4> QED BY <1>3, <4>1, <4>2, <4>3
    <3>2. ChitsIn(new, s) = ChitsIn(js, s) \cup {n + k} /\ n + k \notin ChitsIn(js, s)
      BY <3>1, <1>5 DEF ChitsIn
    <3>3. Cardinality(ChitsIn(new, s)) = Cardinality(ChitsIn(js, s)) + 1
      BY <3>2, <2>4, FS_AddElement
    <3> DEFINE cov == add[k].covers
    <3>4. cov \in SUBSET Lines /\ cov # {} /\ cov \cap CoveredIn(js, s) = {}
      BY <2>6 DEF Addition
    <3>5. IsFiniteSet(cov) /\ Cardinality(cov) \in Nat
      BY <3>4, StationsAssumption, FS_Subset, FS_CardinalityType
    <3>6. Cardinality(cov) # 0
      BY <3>4, <3>5, FS_EmptySet
    <3>7. CoveredIn(new, s) = CoveredIn(js, s) \cup cov
      <4>1. \A i \in ChitsIn(js, s) : new[i].covers = js[i].covers
        BY <1>2 DEF ChitsIn
      <4>2. new[n + k].covers = cov
        BY <1>2
      <4> HIDE DEF cov
      <4> QED BY <4>1, <4>2, <3>2 DEF CoveredIn
    <3>8. Cardinality(CoveredIn(js, s) \cup cov) = Cardinality(CoveredIn(js, s)) + Cardinality(cov)
      <4>1. CoveredIn(js, s) \cap cov = {}
        BY <3>4
      <4>2. Cardinality(CoveredIn(js, s) \cap cov) = 0
        BY <4>1, FS_EmptySet
      <4> HIDE DEF cov
      <4>3. Cardinality(CoveredIn(js, s) \cup cov) =
              Cardinality(CoveredIn(js, s)) + Cardinality(cov) - Cardinality(CoveredIn(js, s) \cap cov)
        BY <2>3, <3>5, FS_Union
      <4> QED BY <4>2, <4>3, <2>3, <3>5
    <3> QED BY <3>3, <3>5, <3>6, <3>7, <3>8, <2>3, <2>4
  <2> QED BY <2>5, <2>6
<1>10. Budgeted(new)
  <2> SUFFICES ASSUME NEW i \in DOMAIN new, new[i].state \in {"queued", "transmitting"}
               PROVE  new[i].attempts < MaxAttempts
    BY DEF Budgeted
  <2>1. CASE i \in DOMAIN js
    BY <2>1, <1>2 DEF Budgeted, SpoolOK
  <2>2. ASSUME NEW k \in DOMAIN add, i = n + k
        PROVE  new[i].attempts < MaxAttempts
    BY <2>2, <1>2, PrintingAssumption DEF Addition
  <2> QED BY <1>3, <2>1, <2>2
<1> QED BY <1>2, <1>6, <1>7, <1>8, <1>9, <1>10 DEF SpoolOK, new

(* What confirmed() adds is of that kind, also when it is cut short.       *)
LEMMA NewChitsAdd ==
  ASSUME IInv
  PROVE  /\ NewChits \in Seq(Jobs) /\ Len(NewChits) \in Nat
         /\ \A n \in 0..Len(NewChits) : Addition(jobs, SubSeq(NewChits, 1, n), order.at)
<1> DEFINE st == SetToSeq(OwedChits)
<1>1. OwedChits \in SUBSET Stations
  BY DEF OwedChits
<1>2. IsFiniteSet(OwedChits)
  BY <1>1, StationsAssumption, FS_Subset
<1>3. /\ st \in Seq(OwedChits) /\ Len(st) \in Nat /\ DOMAIN st = 1..Len(st)
      /\ \A i, k \in DOMAIN st : st[i] = st[k] => i = k
  <2>1. /\ SetToSeq(OwedChits) \in Seq(OwedChits) /\ Len(SetToSeq(OwedChits)) = Cardinality(OwedChits)
        /\ \A i, k \in 1..Cardinality(OwedChits) :
             SetToSeq(OwedChits)[i] = SetToSeq(OwedChits)[k] => i = k
    BY <1>2, SetToSeqIsOne
  <2> QED BY <2>1
<1> HIDE DEF st
<1>4. NewChits = [i \in DOMAIN st |-> Job(NextChit(st[i]), OwedAt(st[i]))]
  BY DEF NewChits, st
<1>5. jobs \in Seq(Jobs) /\ order.at \in [Lines -> Stations]
  BY DEF IInv, SpoolOK, Typed
<1>6. ASSUME NEW s \in OwedChits
      PROVE  /\ RecordedIn(jobs, s)
             /\ OwedAt(s) \in SUBSET Lines /\ OwedAt(s) # {}
             /\ OwedAt(s) \cap CoveredIn(jobs, s) = {}
             /\ \A l \in OwedAt(s) : order.at[l] = s
             /\ NextChit(s) = <<s, Cardinality(ChitsIn(jobs, s))>>
             /\ NextChit(s) \in ChitIds
  <2>1. /\ Chits(s) = ChitsIn(jobs, s) /\ Committed(s) = CoveredIn(jobs, s)
        /\ s \in Stations /\ OwedAt(s) # {}
    BY <1>1 DEF Chits, ChitsIn, Committed, CoveredIn, OwedChits
  <2>2. ~Unrecorded(s) /\ OwedAt(s) = Standing(s) \ Committed(s)
    BY <2>1 DEF OwedAt
  <2>3. RecordedIn(jobs, s)
    BY <2>1, <2>2 DEF Unrecorded, RecordedIn
  <2>4. CoveredIn(jobs, s) \in SUBSET Lines
    <3>1. \A j \in Jobs : j.covers \in SUBSET Lines \/ j.covers = None
      BY DEF Jobs
    <3>2. \A i \in ChitsIn(jobs, s) : jobs[i] \in Jobs
      BY <1>5 DEF ChitsIn
    <3> QED BY <2>3, <3>1, <3>2 DEF CoveredIn, RecordedIn
  <2>5. Cardinality(CoveredIn(jobs, s)) \in Nat /\ Cardinality(CoveredIn(jobs, s)) <= Cardinality(Lines)
    BY <2>4, StationsAssumption, FS_Subset, FS_CardinalityType
  <2>6. /\ Cardinality(ChitsIn(jobs, s)) \in Nat
        /\ Cardinality(ChitsIn(jobs, s)) <= Cardinality(CoveredIn(jobs, s))
    BY <2>1, <2>3, <1>5, ChitsAreFinite DEF IInv, SpoolOK, Counted
  <2>7. Cardinality(Lines) \in Nat
    BY StationsAssumption, FS_CardinalityType
  <2>8. Cardinality(ChitsIn(jobs, s)) \in 0..Cardinality(Lines)
    BY <2>5, <2>6, <2>7
  <2> QED BY <2>1, <2>2, <2>3, <2>8 DEF Standing, NextChit, ChitIds
<1>7. ASSUME NEW i \in DOMAIN st
      PROVE  /\ NewChits[i] \in Jobs
             /\ NewChits[i].id = NextChit(st[i]) /\ NewChits[i].covers = OwedAt(st[i])
             /\ NewChits[i].state = "queued" /\ NewChits[i].attempts = 0
  <2>1. NewChits[i] = Job(NextChit(st[i]), OwedAt(st[i])) /\ st[i] \in OwedChits
    BY <1>3, <1>4
  <2>2. NextChit(st[i]) \in ChitIds /\ OwedAt(st[i]) \in SUBSET Lines
    BY <2>1, <1>6
  <2>3. 0 \in 0..MaxAttempts
    BY PrintingAssumption
  <2> QED BY <2>1, <2>2, <2>3 DEF Job, Jobs, JobStates
<1>8. NewChits \in Seq(Jobs) /\ Len(NewChits) = Len(st) /\ DOMAIN NewChits = DOMAIN st
  BY <1>3, <1>4, <1>7
<1>9. ASSUME NEW n \in 0..Len(NewChits)
      PROVE  Addition(jobs, SubSeq(NewChits, 1, n), order.at)
  <2> DEFINE add == SubSeq(NewChits, 1, n)
  <2>1. /\ add \in Seq(Jobs) /\ DOMAIN add = 1..n
        /\ \A i \in DOMAIN add : i \in DOMAIN st /\ add[i] = NewChits[i]
    BY <1>3, <1>8
  <2> HIDE DEF add
  <2>2. ASSUME NEW i \in DOMAIN add
        PROVE  /\ add[i].id = <<st[i], Cardinality(ChitsIn(jobs, st[i]))>>
               /\ add[i].covers = OwedAt(st[i]) /\ st[i] \in OwedChits
               /\ add[i].state = "queued" /\ add[i].attempts = 0
    BY <2>1, <1>3, <1>6, <1>7
  <2>3. \A i, k \in DOMAIN add : add[i].id[1] = add[k].id[1] => i = k
    BY <2>1, <2>2, <1>3
  <2>4. ASSUME NEW i \in DOMAIN add
        PROVE  /\ add[i].id[1] = st[i] /\ add[i].id[2] = Cardinality(ChitsIn(jobs, st[i]))
    BY <2>2
  <2> QED BY <2>1, <2>2, <2>3, <2>4, <1>6 DEF Addition, add
<1> QED BY <1>3, <1>8, <1>9

-----------------------------------------------------------------------------
(* The actions.                                                            *)

LEMMA InitKeeps == Init => IInv
<1> SUFFICES ASSUME Init PROVE IInv
  OBVIOUS
<1>1. /\ jobs \in Spools /\ pass = NoPass /\ bands = {} /\ order.confirmed = FALSE
      /\ \E menu \in Menus : order = [confirmed |-> FALSE, lines |-> [l \in Lines |-> "none"], at |-> menu]
  <2>1. PICK menu \in Menus :
          order = [confirmed |-> FALSE, lines |-> [l \in Lines |-> "none"], at |-> menu]
    BY DEF Init
  <2> QED BY <2>1 DEF Init
<1> DEFINE Old == [id : ChitIds, state : {"queued", "stalled", "printed", "failed"},
                   attempts : 0..MaxAttempts, covers : {None}]
<1>2. /\ jobs \in Seq(Old)
      /\ \A i \in DOMAIN jobs :
           /\ jobs[i].id[2] = Cardinality({k \in 1..(i - 1) : jobs[k].id[1] = jobs[i].id[1]})
           /\ jobs[i].state = "queued" => jobs[i].attempts < MaxAttempts
  BY <1>1, SpoolsAssumption
<1>3. /\ jobs \in Seq(Jobs)
      /\ \A i \in DOMAIN jobs : jobs[i].covers = None /\ jobs[i].state # "transmitting"
  <2>1. \A j \in Old : j \in Jobs /\ j.covers = None /\ j.state # "transmitting"
    BY DEF Jobs, JobStates
  <2> HIDE DEF Old
  <2>2. \A i \in DOMAIN jobs : jobs[i] \in Old
    BY <1>2
  <2> QED BY <2>1, <2>2, <1>2
<1>4. Typed
  <2>1. order \in [confirmed : BOOLEAN, lines : [Lines -> {"none", "on", "off"}], at : [Lines -> Stations]]
    BY <1>1, PrintingAssumption
  <2>2. pass \in Passes
    BY <1>1 DEF NoPass, Passes
  <2>3. {jobs[i].id : i \in {x \in DOMAIN jobs : jobs[x].state = "printed"}} \in SUBSET ChitIds
    <3>1. \A j \in Jobs : j.id \in ChitIds
      BY DEF Jobs
    <3> QED BY <1>3, <3>1
  <2>4. left \in [crashes : Nat, voids : Nat, rolls : Nat, resends : Nat, acks : Nat, days : Nat]
    BY PrintingAssumption DEF Init
  <2> QED BY <1>1, <2>1, <2>2, <2>3, <2>4 DEF Init, Typed
<1>5. SpoolOK(jobs, order.at)
  <2>1. Numbered(jobs) /\ Budgeted(jobs)
    BY <1>2, <1>3 DEF Numbered, EarlierIn, Budgeted
  <2>2. RightStation(jobs, order.at) /\ Apart(jobs)
    BY <1>3 DEF RightStation, Apart
  <2>3. Counted(jobs)
    <3> SUFFICES ASSUME NEW s \in Stations, RecordedIn(jobs, s)
                 PROVE  Cardinality(ChitsIn(jobs, s)) <= Cardinality(CoveredIn(jobs, s))
      BY DEF Counted
    <3>1. ChitsIn(jobs, s) = {}
      BY <1>3 DEF RecordedIn, ChitsIn
    <3>2. CoveredIn(jobs, s) = {}
      BY <3>1 DEF CoveredIn
    <3> QED BY <3>1, <3>2, FS_EmptySet
  <2> QED BY <1>3, <2>1, <2>2, <2>3 DEF SpoolOK
<1>6. PassOK /\ PassFresh /\ Confirms /\ AllTold
  <2>1. pass.step = "idle" /\ pass.at = 0 /\ pass.before = <<>>
    BY <1>1 DEF NoPass
  <2> QED BY <2>1, <1>3 DEF PassOK, PassFresh, Confirms, AllTold, JobTold
<1> QED BY <1>4, <1>5, <1>6 DEF IInv

(* Who has been told that a chit failed.                                   *)
Noticed(id) == Raised(id) \/ id \in ledger.acked \/ ~today

LEMMA ChitIdsOfJobs ==
  ASSUME IInv, NEW i \in DOMAIN jobs
  PROVE  jobs[i] \in Jobs /\ jobs[i].id \in ChitIds /\ i \in Nat /\ i \in 1..Len(jobs)
<1>1. jobs \in Seq(Jobs)
  BY DEF IInv, SpoolOK
<1>2. jobs[i] \in Jobs
  BY <1>1
<1>3. \A j \in Jobs : j.id \in ChitIds
  BY DEF Jobs
<1> QED BY <1>1, <1>2, <1>3

LEMMA SpoolPrime == SpoolOK(jobs, order.at)' <=> SpoolOK(jobs', order'.at)
BY DEF SpoolOK, Numbered, RightStation, Apart, Counted, Budgeted, ChitsIn, EarlierIn, CoveredIn, RecordedIn

(* An action that leaves the spool and the pass alone, and forgets neither *)
(* a notice, nor a report, nor a document the printer has.                 *)
LEMMA QuietKeeps ==
  ASSUME IInv, Typed', UNCHANGED <<jobs, pass>>,
         order'.at = order.at, order.confirmed => order'.confirmed,
         \A id \in ChitIds : Noticed(id) => Noticed(id)',
         ledger.printed \cup cut \subseteq ledger'.printed \cup cut',
         \A id \in ChitIds : Given(id) > 0 => Given(id)' > 0
  PROVE  IInv'
<1>1. \A i \in DOMAIN jobs : jobs[i].id \in ChitIds
  BY ChitIdsOfJobs
<1>2. SpoolOK(jobs, order.at)' /\ Confirms'
  BY SpoolPrime DEF IInv, Confirms
<1>3. PassOK'
  <2>1. pass.step = "sending" => pass.at \in DOMAIN jobs
    BY SMTT(30) DEF IInv, PassOK, PassFresh, Typed, Passes, SpoolOK
  <2> QED BY <1>1, <2>1 DEF IInv, PassOK
<1>4. PassFresh'
  BY DEF IInv, PassFresh
<1>5. AllTold'
  <2> SUFFICES ASSUME NEW i \in DOMAIN jobs
               PROVE  JobTold(i)'
    BY DEF AllTold
  <2>1. JobTold(i)
    BY DEF IInv, AllTold
  <2>2. ToBeTold(i)' <=> ToBeTold(i)
    BY DEF ToBeTold, Idle
  <2>3. jobs[i].id \in ChitIds
    BY <1>1
  <2>4. jobs'[i] = jobs[i]
    OBVIOUS
  <2>5. jobs[i].covers # None /\ jobs[i].state = "failed" => Noticed(jobs[i].id)' \/ ToBeTold(i)'
    BY <2>1, <2>2, <2>3 DEF JobTold, Noticed
  <2> QED BY <2>1, <2>2, <2>3, <2>4, <2>5 DEF JobTold, Noticed
<1> QED BY <1>2, <1>3, <1>4, <1>5 DEF IInv

LEMMA SpendTypes ==
  ASSUME Typed, NEW what, Spend(what)
  PROVE  left' \in [crashes : Nat, voids : Nat, rolls : Nat, resends : Nat, acks : Nat, days : Nat]
BY DEF Typed, Spend

LEMMA LinesKeep ==
  ASSUME IInv, NEW l \in Lines, AddLine(l) \/ VoidLine(l)
  PROVE  IInv'
<1>1. \/ order' = [order EXCEPT !.lines[l] = "on"]
      \/ order' = [order EXCEPT !.lines[l] = "off"]
  BY DEF AddLine, VoidLine
<1>2. order' \in [confirmed : BOOLEAN, lines : [Lines -> {"none", "on", "off"}], at : [Lines -> Stations]]
  BY <1>1 DEF IInv, Typed
<1>3. order'.at = order.at /\ order'.confirmed = order.confirmed
  BY <1>1 DEF IInv, Typed
<1>4. UNCHANGED <<jobs, pass, bands, online, narrow, ledger, today, printer, cut>>
  BY DEF AddLine, VoidLine, host
<1>5. left' \in [crashes : Nat, voids : Nat, rolls : Nat, resends : Nat, acks : Nat, days : Nat]
  <2>1. CASE AddLine(l)
    BY <2>1 DEF AddLine, IInv, Typed
  <2>2. CASE VoidLine(l)
    BY <2>2, SpendTypes DEF VoidLine, IInv
  <2> QED BY <2>1, <2>2
<1>6. Typed'
  BY <1>2, <1>4, <1>5 DEF IInv, Typed
<1> QED BY <1>3, <1>4, <1>6, QuietKeeps DEF Noticed, Raised, Given

LEMMA PrinterKeeps ==
  ASSUME IInv, RollOut \/ NewRoll
  PROVE  IInv'
<1>1. UNCHANGED <<order, jobs, pass, bands, online, narrow, ledger, today, cut>>
  BY DEF RollOut, NewRoll, host
<1>2. \A id \in ChitIds : printer.copies[id] \in Nat /\ printer.hold[id] \in Nat
  BY DEF IInv, Typed
<1>3. /\ printer' \in [roll : BOOLEAN, hold : [ChitIds -> Nat], copies : [ChitIds -> Nat]]
      /\ \A id \in ChitIds : Given(id)' = Given(id)
      /\ left' \in [crashes : Nat, voids : Nat, rolls : Nat, resends : Nat, acks : Nat, days : Nat]
  <2>1. CASE RollOut
    BY <2>1, SpendTypes DEF RollOut, IInv, Typed, Given
  <2>2. CASE NewRoll
    BY <2>2, <1>2 DEF NewRoll, IInv, Typed, Given
  <2> QED BY <2>1, <2>2
<1>4. Typed'
  BY <1>1, <1>3 DEF IInv, Typed
<1> QED BY <1>1, <1>3, <1>4, QuietKeeps DEF Noticed, Raised

LEMMA NextDayKeeps ==
  ASSUME IInv, NextDay
  PROVE  IInv'
<1>1. /\ UNCHANGED <<order, jobs, pass, bands, online, narrow, ledger, printer, cut>>
      /\ today' = FALSE
  BY DEF NextDay, host
<1>2. Typed'
  BY <1>1, SpendTypes, ZenonT(60) DEF IInv, Typed, NextDay
<1> QED BY <1>1, <1>2, QuietKeeps DEF Noticed, Given

LEMMA AcknowledgeKeeps ==
  ASSUME IInv, NEW b \in bands, Acknowledge(b)
  PROVE  IInv'
<1>1. /\ UNCHANGED <<order, jobs, pass, online, narrow, today, printer, cut>>
      /\ bands' = bands \ {b} /\ ledger' = [ledger EXCEPT !.acked = @ \cup {b.id}]
  BY DEF Acknowledge
<1>2. b.id \in ChitIds
  BY DEF IInv, Typed
<1>3. /\ ledger' \in [printed : SUBSET ChitIds, failed : SUBSET ChitIds, acked : SUBSET ChitIds,
                      status : {"online", "offline"}]
      /\ ledger'.acked = ledger.acked \cup {b.id} /\ ledger'.printed = ledger.printed
  BY <1>1, <1>2 DEF IInv, Typed
<1>4. Typed'
  BY <1>1, <1>3, SpendTypes DEF IInv, Typed, Acknowledge
<1>5. \A id \in ChitIds : Noticed(id) => Noticed(id)'
  BY <1>1, <1>3 DEF Noticed, Raised
<1> QED BY <1>1, <1>3, <1>4, <1>5, QuietKeeps DEF Given

(* A refused confirm raises bands and makes no job; any other makes jobs.  *)
LEMMA ConfirmedKeeps ==
  ASSUME IInv, Confirmed
  PROVE  IInv'
<1>1. /\ order' = [order EXCEPT !.confirmed = TRUE]
      /\ UNCHANGED <<pass, online, narrow, today, printer, cut, left>> /\ Free
  BY DEF Confirmed
<1>2. /\ order' \in [confirmed : BOOLEAN, lines : [Lines -> {"none", "on", "off"}], at : [Lines -> Stations]]
      /\ order'.at = order.at /\ order'.confirmed
  BY <1>1 DEF IInv, Typed
<1>3. /\ NewChits \in Seq(Jobs) /\ Len(NewChits) \in Nat
      /\ Addition(jobs, SubSeq(NewChits, 1, Len(NewChits)), order.at)
      /\ SubSeq(NewChits, 1, Len(NewChits)) = NewChits
  <2>1. /\ NewChits \in Seq(Jobs) /\ Len(NewChits) \in Nat
        /\ \A n \in 0..Len(NewChits) : Addition(jobs, SubSeq(NewChits, 1, n), order.at)
    BY NewChitsAdd
  <2>2. Len(NewChits) \in 0..Len(NewChits)
    BY <2>1
  <2>3. SubSeq(NewChits, 1, Len(NewChits)) = NewChits
    BY <2>1
  <2> QED BY <2>1, <2>2, <2>3
<1>4. CASE ~narrow
  <2>1. jobs' = jobs \o NewChits /\ UNCHANGED <<bands, ledger>>
    BY <1>4 DEF Confirmed
  <2>2. Typed'
    BY <1>1, <1>2, <2>1 DEF IInv, Typed
  <2>3. SpoolOK(jobs', order'.at)
    <3>1. SpoolOK(jobs, order.at) /\ Addition(jobs, NewChits, order.at)
      BY <1>3 DEF IInv
    <3> QED BY <3>1, <2>1, <1>2, AdditionKeeps
  <2>4. /\ jobs \in Seq(Jobs) /\ Len(jobs) \in Nat /\ DOMAIN jobs \subseteq DOMAIN jobs'
        /\ Len(jobs) <= Len(jobs')
        /\ \A i \in DOMAIN jobs : jobs'[i] = jobs[i]
        /\ \A i \in DOMAIN jobs' \ DOMAIN jobs : jobs'[i].state = "queued" /\ i > Len(jobs)
    <3>1. jobs \in Seq(Jobs)
      BY DEF IInv, SpoolOK
    <3>2. \A k \in DOMAIN NewChits : NewChits[k].state = "queued"
      BY <1>3 DEF Addition
    <3>3. ASSUME NEW i \in DOMAIN jobs' \ DOMAIN jobs
          PROVE  jobs'[i].state = "queued" /\ i > Len(jobs)
      <4>1. i - Len(jobs) \in DOMAIN NewChits /\ jobs'[i] = NewChits[i - Len(jobs)] /\ i > Len(jobs)
        BY <3>1, <1>3, <2>1
      <4> QED BY <4>1, <3>2
    <3> QED BY <3>1, <3>3, <1>3, <2>1
  <2>5. PassOK'
    <3>1. pass.at \in 0..Len(jobs)'
      BY <2>3, <2>4 DEF IInv, PassOK, SpoolOK
    <3>2. pass.step \in {"sending", "asking"} => pass.at \in DOMAIN jobs
      BY <2>4 DEF IInv, PassOK, Typed, Passes
    <3>3. Len(pass.before) \in Nat /\ Len(pass.before) <= Len(jobs')
      BY <2>3, <2>4 DEF IInv, PassOK, Typed, Passes, SpoolOK
    <3>4. \A i \in DOMAIN jobs' : jobs'[i].state = "transmitting" =>
            i \in DOMAIN jobs /\ jobs[i].state = "transmitting"
      BY <2>4
    <3>5. \A i \in DOMAIN jobs : Given(jobs[i].id)' = Given(jobs[i].id)
      BY <1>1, <2>4 DEF Given
    <3> QED BY <3>1, <3>2, <3>3, <3>4, <3>5, <2>4, <1>1 DEF IInv, PassOK
  <2>6. PassFresh'
    <3>1. DOMAIN pass.before \subseteq DOMAIN jobs
      BY <2>4 DEF IInv, PassOK, Typed, Passes
    <3> QED BY <3>1, <2>4, <1>1 DEF IInv, PassFresh
  <2>7. AllTold'
    <3> SUFFICES ASSUME NEW i \in DOMAIN jobs'
                 PROVE  JobTold(i)'
      BY DEF AllTold
    <3>1. CASE i \in DOMAIN jobs
      <4>1. JobTold(i) /\ jobs'[i] = jobs[i]
        BY <3>1, <2>4 DEF IInv, AllTold
      <4>2. ToBeTold(i)' <=> ToBeTold(i)
        BY <4>1, <1>1 DEF ToBeTold, Idle
      <4> QED BY <4>1, <4>2, <1>1, <2>1 DEF JobTold, Raised, Given
    <3>2. CASE i \notin DOMAIN jobs
      BY <3>2, <2>4 DEF JobTold
    <3> QED BY <3>1, <3>2
  <2>8. Confirms'
    BY <1>2 DEF Confirms
  <2> QED BY <2>2, <2>3, <2>5, <2>6, <2>7, <2>8, SpoolPrime DEF IInv
<1>5. CASE narrow
  <2> DEFINE refused == {j.id : j \in ToSet(NewChits)}
             told == {r \in refused : ~Raised(r)}
  <2>1. /\ UNCHANGED jobs
        /\ bands' = bands \cup {Band(id, FALSE) : id \in told}
        /\ ledger' = [ledger EXCEPT !.failed = @ \cup told]
    BY <1>5 DEF Confirmed
  <2>2. told \subseteq ChitIds
    <3>1. ToSet(NewChits) \subseteq Jobs
      BY <1>3 DEF ToSet
    <3>2. \A j \in Jobs : j.id \in ChitIds
      BY DEF Jobs
    <3> QED BY <3>1, <3>2
  <2> HIDE DEF told
  <2>3. /\ bands' \subseteq [id : ChitIds, again : BOOLEAN]
        /\ ledger' \in [printed : SUBSET ChitIds, failed : SUBSET ChitIds, acked : SUBSET ChitIds,
                        status : {"online", "offline"}]
        /\ ledger'.printed = ledger.printed /\ ledger'.acked = ledger.acked
    <3>1. \A id \in told : Band(id, FALSE) \in [id : ChitIds, again : BOOLEAN]
      BY <2>2 DEF Band
    <3>2. /\ bands \subseteq [id : ChitIds, again : BOOLEAN]
          /\ ledger \in [printed : SUBSET ChitIds, failed : SUBSET ChitIds, acked : SUBSET ChitIds,
                         status : {"online", "offline"}]
      BY DEF IInv, Typed
    <3>3. bands' \subseteq [id : ChitIds, again : BOOLEAN]
      BY <2>1, <3>1, <3>2
    <3>4. /\ ledger' \in [printed : SUBSET ChitIds, failed : SUBSET ChitIds, acked : SUBSET ChitIds,
                          status : {"online", "offline"}]
          /\ ledger'.printed = ledger.printed /\ ledger'.acked = ledger.acked
      BY <2>1, <2>2, <3>2
    <3> QED BY <3>3, <3>4
  <2>4. Typed'
    BY <1>1, <1>2, <2>3 DEF IInv, Typed
  <2>5. \A id \in ChitIds : Noticed(id) => Noticed(id)'
    BY <1>1, <2>1, <2>3 DEF Noticed, Raised
  <2> QED BY <1>1, <1>2, <2>1, <2>3, <2>4, <2>5, QuietKeeps DEF Given
<1> QED BY <1>4, <1>5

(* One row of the spool is written over, with the lines it covered.        *)
LEMMA RowWritten ==
  ASSUME IInv, UNCHANGED order, NEW i \in DOMAIN jobs, NEW row \in Jobs,
         row.id = jobs[i].id, row.covers = jobs[i].covers,
         row.state \in {"queued", "transmitting"} => row.attempts < MaxAttempts,
         jobs' = [jobs EXCEPT ![i] = row]
  PROVE  /\ SpoolOK(jobs, order.at)' /\ Confirms'
         /\ DOMAIN jobs' = DOMAIN jobs /\ Len(jobs') = Len(jobs)
         /\ jobs'[i] = row /\ \A k \in DOMAIN jobs : k # i => jobs'[k] = jobs[k]
         /\ \A k \in DOMAIN jobs : jobs'[k].id = jobs[k].id /\ jobs'[k].covers = jobs[k].covers
<1>1. jobs \in Seq(Jobs) /\ SpoolOK(jobs, order.at) /\ Budgeted(jobs)
  BY DEF IInv, SpoolOK
<1>2. /\ jobs' \in Seq(Jobs) /\ DOMAIN jobs' = DOMAIN jobs /\ Len(jobs') = Len(jobs)
      /\ jobs'[i] = row /\ \A k \in DOMAIN jobs : k # i => jobs'[k] = jobs[k]
  BY <1>1
<1>3. \A k \in DOMAIN jobs : jobs'[k].id = jobs[k].id /\ jobs'[k].covers = jobs[k].covers
  BY <1>2
<1>4. Budgeted(jobs')
  BY <1>1, <1>2 DEF Budgeted
<1>5. SpoolOK(jobs', order'.at)
  BY <1>1, <1>2, <1>3, <1>4, SameChits
<1>6. Confirms'
  BY <1>2, <1>3 DEF IInv, Confirms
<1> QED BY <1>2, <1>3, <1>5, <1>6, SpoolPrime

(* Where the pass stands.                                                  *)
LEMMA PassFacts ==
  ASSUME IInv
  PROVE  /\ pass.before \in Seq(JobStates) /\ DOMAIN pass.before \subseteq DOMAIN jobs
         /\ pass.at \in Nat /\ pass.skip \subseteq Nat /\ jobs \in Seq(Jobs)
         /\ Len(jobs) \in Nat /\ DOMAIN jobs = 1..Len(jobs) /\ Len(pass.before) \in Nat
         /\ DOMAIN pass.before = 1..Len(pass.before)
         /\ pass.step \in {"sending", "asking"} => pass.at \in DOMAIN pass.before /\ pass.at \in DOMAIN jobs
<1>1. pass.before \in Seq(JobStates) /\ jobs \in Seq(Jobs) /\ Len(pass.before) <= Len(jobs)
  BY DEF IInv, Typed, Passes, PassOK, SpoolOK
<1>2. DOMAIN pass.before \subseteq DOMAIN jobs
  BY <1>1
<1> QED BY <1>1, <1>2 DEF IInv, Typed, Passes, PassOK

LEMMA StartPassKeeps ==
  ASSUME IInv, StartPass
  PROVE  IInv'
<1>1. /\ Idle /\ UNCHANGED <<order, jobs, bands, online, narrow, ledger, today, printer, cut, left>>
      /\ pass' = [NoPass EXCEPT !.step = "next", !.before = [i \in DOMAIN jobs |-> jobs[i].state]]
  BY DEF StartPass
<1>2. /\ pass'.step = "next" /\ pass'.at = 0 /\ pass'.before = [i \in DOMAIN jobs |-> jobs[i].state]
      /\ pass'.taken = FALSE /\ pass'.skip = {}
  BY <1>1 DEF NoPass
<1>3. /\ pass'.before \in Seq(JobStates) /\ Len(pass'.before) = Len(jobs)
  <2>1. \A j \in Jobs : j.state \in JobStates
    BY DEF Jobs
  <2> QED BY <2>1, <1>2, PassFacts
<1>4. Typed'
  <2>1. PICK old \in Seq(JobStates) : old = [i \in DOMAIN jobs |-> jobs[i].state]
    BY <1>2, <1>3
  <2>2. pass' = [step |-> "next", at |-> 0, taken |-> FALSE, before |-> old, skip |-> {}]
    BY <1>1, <2>1 DEF NoPass
  <2>3. pass' \in Passes
    BY <2>2 DEF Passes
  <2> QED BY <2>3, <1>1 DEF IInv, Typed
<1>5. PassOK'
  <2>1. \A i \in DOMAIN jobs : jobs[i].state # "transmitting"
    BY <1>1 DEF IInv, PassOK, Idle
  <2> QED BY <2>1, <1>1, <1>2, <1>3, PassFacts DEF PassOK
<1>6. PassFresh'
  BY <1>1, <1>2 DEF PassFresh
<1>7. AllTold'
  <2> SUFFICES ASSUME NEW i \in DOMAIN jobs PROVE JobTold(i)'
    BY <1>1 DEF AllTold
  <2>1. JobTold(i) /\ ~ToBeTold(i)
    BY <1>1 DEF IInv, AllTold, ToBeTold
  <2> QED BY <2>1, <1>1 DEF JobTold, Raised, Given
<1>8. SpoolOK(jobs, order.at)' /\ Confirms'
  BY <1>1, SpoolPrime DEF IInv, Confirms
<1> QED BY <1>4, <1>5, <1>6, <1>7, <1>8 DEF IInv

LEMMA NextJobKeeps ==
  ASSUME IInv, NextJob
  PROVE  IInv'
<1> DEFINE i == CHOOSE x \in Ahead : \A y \in Ahead : x <= y
<1>1. /\ pass.step = "next" /\ Ahead # {}
      /\ UNCHANGED <<order, bands, online, narrow, ledger, today, printer, cut, left>>
  BY DEF NextJob
<1>2. i \in Ahead /\ \A y \in Ahead : i <= y
  <2>1. Ahead \in SUBSET Nat
    BY PassFacts DEF Ahead
  <2>2. \E x \in Ahead : \A y \in Ahead : x <= y
    BY <2>1, <1>1, LeastNatural
  <2> QED BY <2>2
<1>3. /\ i \in DOMAIN pass.before /\ i > pass.at /\ i \notin pass.skip /\ i \in DOMAIN jobs /\ i \in Nat
      /\ jobs[i].state \notin {"printed", "failed"}
      /\ pass.before[i] = jobs[i].state
  <2>1. i \in DOMAIN pass.before /\ i > pass.at /\ i \notin pass.skip /\ ~Terminal(jobs[i])
    BY <1>2 DEF Ahead
  <2> QED BY <2>1, PassFacts DEF Terminal, IInv, PassFresh
<1>4. \A k \in DOMAIN jobs : jobs[k].state # "transmitting"
  BY <1>1 DEF IInv, PassOK
<1>5. CASE jobs[i].state = "stalled" /\ jobs' = jobs /\ pass' = [pass EXCEPT !.step = "asking", !.at = i]
  <2>1. pass' \in Passes /\ pass'.step = "asking" /\ pass'.at = i /\ pass'.before = pass.before /\ pass'.skip = pass.skip
    BY <1>3, <1>5 DEF IInv, Typed, Passes
  <2>2. Typed'
    BY <2>1, <1>1 DEF IInv, Typed
  <2>3. PassOK'
    BY <2>1, <1>3, <1>4, <1>5, PassFacts DEF IInv, PassOK
  <2>4. PassFresh'
    <3>1. \A k \in DOMAIN pass.before : k > i => k > pass.at
      BY <1>3, PassFacts
    <3>2. pass'.before[pass'.at] \notin {"printed", "failed"}
      BY <2>1, <1>3
    <3> QED BY <3>1, <3>2, <2>1, <1>5 DEF IInv, PassFresh
  <2>5. AllTold'
    <3> SUFFICES ASSUME NEW k \in DOMAIN jobs PROVE JobTold(k)'
      BY <1>5 DEF AllTold
    <3>1. JobTold(k) /\ (ToBeTold(k) => ToBeTold(k)')
      BY <2>1, <1>1, <1>5 DEF IInv, AllTold, ToBeTold, Idle
    <3> QED BY <3>1, <1>1, <1>5 DEF JobTold, Raised, Given
  <2>6. SpoolOK(jobs, order.at)' /\ Confirms'
    BY <1>1, <1>5, SpoolPrime DEF IInv, Confirms
  <2> QED BY <2>2, <2>3, <2>4, <2>5, <2>6 DEF IInv
<1>6. CASE /\ jobs[i].state # "stalled"
           /\ pass' = [pass EXCEPT !.step = "sending", !.at = i, !.taken = FALSE]
           /\ jobs' = [jobs EXCEPT ![i].state = "transmitting"]
  <2> DEFINE row == [jobs[i] EXCEPT !.state = "transmitting"]
  <2>1. /\ row \in Jobs /\ row.id = jobs[i].id /\ row.covers = jobs[i].covers /\ row.attempts < MaxAttempts
        /\ row.state = "transmitting"
    <3>1. jobs[i].state = "queued"
      <4>1. \A j \in Jobs : j.state \in JobStates
        BY DEF Jobs
      <4> QED BY <4>1, <1>3, <1>4, <1>6, ChitIdsOfJobs DEF JobStates
    <3>2. jobs[i].attempts < MaxAttempts
      BY <3>1, <1>3 DEF IInv, SpoolOK, Budgeted
    <3>3. jobs[i] \in Jobs
      BY <1>3, ChitIdsOfJobs
    <3> QED BY <3>2, <3>3 DEF Jobs, JobStates
  <2>2. jobs' = [jobs EXCEPT ![i] = row]
    BY <1>6
  <2> HIDE DEF row, i
  <2>3. /\ SpoolOK(jobs, order.at)' /\ Confirms'
        /\ DOMAIN jobs' = DOMAIN jobs /\ Len(jobs') = Len(jobs)
        /\ jobs'[i] = row /\ \A k \in DOMAIN jobs : k # i => jobs'[k] = jobs[k]
        /\ \A k \in DOMAIN jobs : jobs'[k].id = jobs[k].id /\ jobs'[k].covers = jobs[k].covers
    BY <2>1, <2>2, <1>1, <1>3, RowWritten
  <2>4. /\ pass' \in Passes /\ pass'.step = "sending" /\ pass'.at = i /\ pass'.before = pass.before
        /\ pass'.skip = pass.skip /\ pass'.taken = FALSE
    BY <1>3, <1>6 DEF IInv, Typed, Passes
  <2>5. Typed'
    BY <2>4, <1>1 DEF IInv, Typed
  <2>6. PassOK'
    BY <2>1, <2>3, <2>4, <1>3, <1>4, PassFacts DEF IInv, PassOK
  <2>7. PassFresh'
    <3>1. \A k \in DOMAIN pass.before : k > i => k # i /\ k > pass.at /\ k \in DOMAIN jobs
      BY <1>3, PassFacts
    <3> QED BY <3>1, <2>3, <2>4, <1>3 DEF IInv, PassFresh
  <2>8. AllTold'
    <3> SUFFICES ASSUME NEW k \in DOMAIN jobs PROVE JobTold(k)'
      BY <2>3 DEF AllTold
    <3>1. CASE k = i
      BY <3>1, <2>1, <2>3 DEF JobTold
    <3>2. CASE k # i
      <4>1. JobTold(k) /\ (ToBeTold(k) => ToBeTold(k)') /\ jobs'[k] = jobs[k]
        BY <3>2, <2>3, <2>4, <1>1 DEF IInv, AllTold, ToBeTold, Idle
      <4> QED BY <4>1, <1>1 DEF JobTold, Raised, Given
    <3> QED BY <3>1, <3>2
  <2> QED BY <2>3, <2>5, <2>6, <2>7, <2>8 DEF IInv
<1> QED BY <1>5, <1>6 DEF NextJob

LEMMA TakeDocumentKeeps ==
  ASSUME IInv, TakeDocument
  PROVE  /\ IInv'
         /\ \A id \in ChitIds : id # jobs[pass.at].id => Given(id)' = Given(id)
<1>1. PICK own \in ChitIds : own = jobs[pass.at].id
  <2>1. pass.at \in DOMAIN jobs
    BY PassFacts DEF TakeDocument
  <2> QED BY <2>1, ChitIdsOfJobs
<1>2. /\ pass.step = "sending" /\ pass' = [pass EXCEPT !.taken = TRUE]
      /\ printer' = IF printer.roll THEN [printer EXCEPT !.copies[own] = @ + 1]
                    ELSE [printer EXCEPT !.hold[own] = @ + 1]
      /\ UNCHANGED <<order, jobs, bands, online, narrow, ledger, today, cut, left>>
  BY <1>1 DEF TakeDocument
<1>3. /\ printer' \in [roll : BOOLEAN, hold : [ChitIds -> Nat], copies : [ChitIds -> Nat]]
      /\ \A id \in ChitIds : Given(id) \in Nat /\ Given(id)' = IF id = own THEN Given(id) + 1 ELSE Given(id)
  BY <1>2 DEF IInv, Typed, Given
<1>4. /\ pass' \in Passes /\ pass'.step = "sending" /\ pass'.at = pass.at /\ pass'.before = pass.before
      /\ pass'.skip = pass.skip
  BY <1>2 DEF IInv, Typed, Passes
<1>5. Typed'
  BY <1>2, <1>3, <1>4 DEF IInv, Typed
<1>6. PassOK'
  <2>1. Given(own)' > 0
    BY <1>3 DEF Given
  <2>2. Given(jobs[pass.at].id)' > 0
    BY <2>1, <1>1, <1>2, <1>4 DEF Given
  <2> QED BY <2>2, <1>2, <1>4 DEF IInv, PassOK
<1>7. PassFresh'
  BY <1>2, <1>4 DEF IInv, PassFresh
<1>8. AllTold'
  <2> SUFFICES ASSUME NEW k \in DOMAIN jobs PROVE JobTold(k)'
    BY <1>2 DEF AllTold
  <2>1. JobTold(k) /\ (ToBeTold(k) => ToBeTold(k)')
    BY <1>2, <1>4 DEF IInv, AllTold, ToBeTold, Idle
  <2>2. Given(jobs[k].id) > 0 => Given(jobs[k].id)' > 0
    <3>1. PICK id \in ChitIds : id = jobs[k].id
      BY ChitIdsOfJobs
    <3>2. Given(id) > 0 => Given(id)' > 0
      BY <1>3 DEF Given
    <3> QED BY <3>1, <3>2, <1>2 DEF Given
  <2>3. jobs' = jobs /\ ledger' = ledger /\ today' = today /\ cut' = cut /\ bands' = bands
    BY <1>2
  <2> QED BY <2>1, <2>2, <2>3 DEF JobTold, Raised
<1>9. SpoolOK(jobs, order.at)' /\ Confirms'
  BY <1>2, SpoolPrime DEF IInv, Confirms
<1> QED BY <1>1, <1>3, <1>5, <1>6, <1>7, <1>8, <1>9 DEF IInv

(* The interaction ends: what it came to is written on its row.            *)
LEMMA AnsweredKeeps ==
  ASSUME IInv, pass.step \in {"sending", "asking"},
         NEW state \in {"stalled", "printed", "queued", "failed"}, NEW n \in 0..MaxAttempts,
         Answered(state, n),
         state = "queued" => n < MaxAttempts,
         state \in {"stalled", "printed"} /\ jobs[pass.at].covers # None => Given(jobs[pass.at].id) > 0
  PROVE  IInv'
<1>1. PICK i \in DOMAIN jobs : i = pass.at
  BY PassFacts
<1>2. /\ jobs' = [jobs EXCEPT ![i].state = state, ![i].attempts = n]
      /\ pass' = [pass EXCEPT !.step = "next"]
      /\ UNCHANGED <<order, bands, online, narrow, ledger, today, printer, cut, left>>
  BY <1>1 DEF Answered
<1> DEFINE row == [jobs[i] EXCEPT !.state = state, !.attempts = n]
<1>3. row \in Jobs /\ row.id = jobs[i].id /\ row.covers = jobs[i].covers /\ row.state = state /\ row.attempts = n
  <2>1. jobs[i] \in Jobs
    BY ChitIdsOfJobs
  <2> QED BY <2>1 DEF Jobs, JobStates
<1>4. jobs' = [jobs EXCEPT ![i] = row]
  BY <1>2
<1> HIDE DEF row
<1>5. /\ SpoolOK(jobs, order.at)' /\ Confirms'
      /\ DOMAIN jobs' = DOMAIN jobs /\ Len(jobs') = Len(jobs)
      /\ jobs'[i] = row /\ \A k \in DOMAIN jobs : k # i => jobs'[k] = jobs[k]
      /\ \A k \in DOMAIN jobs : jobs'[k].id = jobs[k].id /\ jobs'[k].covers = jobs[k].covers
  BY <1>2, <1>3, <1>4, RowWritten
<1>6. /\ pass' \in Passes /\ pass'.step = "next" /\ pass'.at = i /\ pass'.before = pass.before
      /\ pass'.skip = pass.skip
  BY <1>1, <1>2 DEF IInv, Typed, Passes
<1>7. Typed'
  BY <1>2, <1>6 DEF IInv, Typed
<1>8. PassOK'
  <2>1. \A k \in DOMAIN jobs : jobs'[k].state # "transmitting"
    BY <1>1, <1>3, <1>5 DEF IInv, PassOK
  <2> QED BY <2>1, <1>1, <1>5, <1>6, PassFacts DEF IInv, PassOK
<1>9. PassFresh'
  <2>1. \A k \in DOMAIN pass.before : k > i => k # i /\ k \in DOMAIN jobs
    BY <1>1, PassFacts
  <2> QED BY <2>1, <1>1, <1>5, <1>6 DEF IInv, PassFresh
<1>10. AllTold'
  <2> SUFFICES ASSUME NEW k \in DOMAIN jobs PROVE JobTold(k)'
    BY <1>5 DEF AllTold
  <2>1. CASE k = i
    <3>1. state \in {"printed", "failed"} => ToBeTold(k)'
      <4>1. pass.before[i] \notin {"printed", "failed"}
        BY <1>1 DEF IInv, PassFresh
      <4> QED BY <4>1, <2>1, <1>3, <1>5, <1>6 DEF ToBeTold, Idle
    <3>2. state \in {"stalled", "printed"} /\ jobs[k].covers # None => Given(jobs[k].id)' > 0
      BY <2>1, <1>1, <1>2, <1>5 DEF Given
    <3> QED BY <3>1, <3>2, <2>1, <1>3, <1>5 DEF JobTold, Given
  <2>2. CASE k # i
    <3>1. JobTold(k) /\ (ToBeTold(k) => ToBeTold(k)') /\ jobs'[k] = jobs[k]
      BY <2>2, <1>5, <1>6 DEF IInv, AllTold, ToBeTold, Idle
    <3> QED BY <3>1, <1>2 DEF JobTold, Raised, Given
  <2> QED BY <2>1, <2>2
<1> QED BY <1>5, <1>7, <1>8, <1>9, <1>10 DEF IInv

LEMMA AnswerKeeps ==
  ASSUME IInv, Answer
  PROVE  IInv'
<1>1. pass.step \in {"sending", "asking"}
  BY DEF Answer, SendHeld, SendTaken, SendFails, PaperSeen, NoPaperSeen
<1>2. PICK j \in Jobs : j = jobs[pass.at]
  BY <1>1, PassFacts, ChitIdsOfJobs
<1>3. /\ Attempts \in 0..MaxAttempts /\ MaxAttempts \in Nat \ {0}
      /\ pass.step = "sending" => Attempts + 1 \in 0..MaxAttempts
  <2>1. j.attempts \in 0..MaxAttempts
    BY DEF Jobs
  <2>2. pass.step = "sending" => j.attempts < MaxAttempts
    BY <1>2, PassFacts DEF IInv, PassOK, SpoolOK, Budgeted
  <2> QED BY <2>1, <2>2, <1>2, PrintingAssumption DEF Attempts
<1>4. CASE SendHeld
  BY <1>1, <1>3, <1>4, AnsweredKeeps DEF SendHeld, IInv, PassOK
<1>5. CASE SendTaken
  BY <1>1, <1>3, <1>5, AnsweredKeeps DEF SendTaken, IInv, PassOK
<1>6. CASE SendFails
  <2>1. /\ AfterFailure \in {"stalled", "printed", "queued", "failed"}
        /\ AfterFailure = "queued" => Attempts + 1 < MaxAttempts
        /\ AfterFailure \notin {"stalled", "printed"}
    BY <1>3 DEF AfterFailure
  <2> QED BY <2>1, <1>1, <1>3, <1>6, AnsweredKeeps DEF SendFails
<1>7. pass.step = "asking" /\ jobs[pass.at].covers # None => Given(jobs[pass.at].id) > 0
  <2>1. pass.step = "asking" => pass.at \in DOMAIN jobs /\ jobs[pass.at].state = "stalled"
    BY PassFacts DEF IInv, PassOK
  <2> QED BY <2>1 DEF IInv, AllTold, JobTold
<1>8. CASE PaperSeen
  BY <1>1, <1>3, <1>7, <1>8, AnsweredKeeps DEF PaperSeen
<1>9. CASE NoPaperSeen
  BY <1>1, <1>3, <1>7, <1>9, AnsweredKeeps DEF NoPaperSeen
<1> QED BY <1>4, <1>5, <1>6, <1>8, <1>9 DEF Answer

(* The end of a pass: all it was to tell is told.                          *)
LEMMA ReconcileKeeps ==
  ASSUME IInv, Reconcile
  PROVE  IInv'
<1> DEFINE failed == ChangedTo("failed")
           told == {f \in failed : ~Raised(f)}
<1>1. /\ pass.step = "next" /\ pass' = NoPass
      /\ UNCHANGED <<order, jobs, narrow, today, printer, cut, left>>
      /\ bands' = bands \cup {Band(id, TRUE) : id \in told}
      /\ online' = online \/ online' \in BOOLEAN
      /\ ledger'.printed = ledger.printed \cup ChangedTo("printed")
      /\ ledger'.acked = ledger.acked
      /\ ledger' \in [printed : SUBSET (ledger.printed \cup ChangedTo("printed")), failed : SUBSET (ledger.failed \cup failed),
                      acked : {ledger.acked}, status : {"online", "offline"}]
  <2>1. /\ ledger \in [printed : SUBSET ChitIds, failed : SUBSET ChitIds, acked : SUBSET ChitIds,
                       status : {"online", "offline"}]
        /\ online \in BOOLEAN
    BY DEF IInv, Typed
  <2>2. /\ pass.step = "next" /\ pass' = NoPass
        /\ UNCHANGED <<order, jobs, narrow, today, printer, cut, left>>
        /\ bands' = bands \cup {Band(id, TRUE) : id \in told}
        /\ \E state \in {"online", "offline"} :
             ledger' = [ledger EXCEPT !.printed = @ \cup ChangedTo("printed"), !.failed = @ \cup failed,
                                      !.status = state]
    BY <2>1 DEF Reconcile
  <2>3. online' \in BOOLEAN
    BY <2>1 DEF Reconcile
  <2> HIDE DEF failed, told
  <2> QED BY <2>1, <2>2, <2>3
<1>2. failed \subseteq ChitIds /\ ChangedTo("printed") \subseteq ChitIds
  BY ChitIdsOfJobs DEF ChangedTo, Changed
<1>3. Typed'
  <2>1. ledger' \in [printed : SUBSET ChitIds, failed : SUBSET ChitIds, acked : SUBSET ChitIds,
                     status : {"online", "offline"}]
    BY <1>1, <1>2 DEF IInv, Typed
  <2>2. bands' \subseteq [id : ChitIds, again : BOOLEAN]
    <3>1. \A id \in told : Band(id, TRUE) \in [id : ChitIds, again : BOOLEAN]
      BY <1>2 DEF Band
    <3>2. bands \subseteq [id : ChitIds, again : BOOLEAN]
      BY DEF IInv, Typed
    <3> HIDE DEF told
    <3> QED BY <3>1, <3>2, <1>1
  <2>3. NoPass \in Passes
    BY DEF NoPass, Passes
  <2> QED BY <2>1, <2>2, <2>3, <1>1 DEF IInv, Typed
<1>4. PassOK' /\ PassFresh'
  <2>1. pass'.step = "idle" /\ pass'.at = 0 /\ pass'.before = <<>>
    BY <1>1 DEF NoPass
  <2>2. \A i \in DOMAIN jobs : jobs[i].state # "transmitting"
    BY <1>1 DEF IInv, PassOK
  <2> QED BY <2>1, <2>2, <1>1, PassFacts DEF PassOK, PassFresh
<1>5. AllTold'
  <2> SUFFICES ASSUME NEW i \in DOMAIN jobs PROVE JobTold(i)'
    BY <1>1 DEF AllTold
  <2>1. JobTold(i)
    BY DEF IInv, AllTold
  <2>2. ToBeTold(i) => i \in Changed
    BY DEF ToBeTold, Changed
  <2>3. ToBeTold(i) /\ jobs[i].state = "failed" => Raised(jobs[i].id)'
    <3> SUFFICES ASSUME ToBeTold(i), jobs[i].state = "failed" PROVE Raised(jobs[i].id)'
      OBVIOUS
    <3>1. jobs[i].id \in failed
      BY <2>2 DEF ChangedTo
    <3>2. CASE Raised(jobs[i].id)
      BY <3>2, <1>1 DEF Raised
    <3>3. CASE ~Raised(jobs[i].id)
      <4>1. Band(jobs[i].id, TRUE) \in bands'
        BY <3>1, <3>3, <1>1
      <4>2. Band(jobs[i].id, TRUE).id = jobs[i].id
        BY DEF Band
      <4> QED BY <4>1, <4>2, <1>1 DEF Raised
    <3> QED BY <3>2, <3>3
  <2>4. ToBeTold(i) /\ jobs[i].state = "printed" => jobs[i].id \in ChangedTo("printed")
    BY <2>2 DEF ChangedTo
  <2>5. Raised(jobs[i].id) => Raised(jobs[i].id)'
    BY <1>1 DEF Raised
  <2> QED BY <2>1, <2>3, <2>4, <2>5, <1>1 DEF JobTold, Given
<1>6. SpoolOK(jobs, order.at)' /\ Confirms'
  BY <1>1, SpoolPrime DEF IInv, Confirms
<1> QED BY <1>3, <1>4, <1>5, <1>6 DEF IInv

(* Resent: only the row of the band is written over.                       *)
LEMMA ResendKeeps ==
  ASSUME IInv, NEW b \in bands, Resend(b)
  PROVE  IInv'
<1>1. PICK i \in Row(b.id) :
        \/ /\ jobs[i].state = "failed" /\ jobs[i].covers # None /\ ~narrow
           /\ jobs' = [jobs EXCEPT ![i] = Job(b.id, jobs[i].covers)]
           /\ bands' = bands \ {b}
           /\ pass' = [pass EXCEPT !.skip = IF Idle THEN @ ELSE @ \cup {i}]
        \/ /\ jobs[i].state # "failed" \/ jobs[i].covers = None \/ narrow
           /\ bands' = (bands \ {b}) \cup {Band(b.id, FALSE)}
           /\ UNCHANGED <<jobs, pass>>
  BY DEF Resend
<1>2. /\ UNCHANGED <<order, online, narrow, ledger, today, printer, cut>>
      /\ Spend("resends") /\ pass.step # "next"
  BY DEF Resend, Free
<1>3. i \in DOMAIN jobs /\ jobs[i].id = b.id /\ b.id \in ChitIds /\ jobs[i] \in Jobs /\ i \in Nat
  BY ChitIdsOfJobs DEF Row
<1>4. left' \in [crashes : Nat, voids : Nat, rolls : Nat, resends : Nat, acks : Nat, days : Nat]
  BY <1>2, SpendTypes DEF IInv
<1>5. CASE /\ jobs' = jobs /\ pass' = pass /\ bands' = (bands \ {b}) \cup {Band(b.id, FALSE)}
  <2>1. bands' \subseteq [id : ChitIds, again : BOOLEAN]
    <3>1. Band(b.id, FALSE) \in [id : ChitIds, again : BOOLEAN]
      BY <1>3 DEF Band
    <3>2. bands \subseteq [id : ChitIds, again : BOOLEAN]
      BY DEF IInv, Typed
    <3> QED BY <3>1, <3>2, <1>5
  <2>2. Typed'
    BY <2>1, <1>2, <1>4, <1>5 DEF IInv, Typed
  <2>3. \A id \in ChitIds : Raised(id) => Raised(id)'
    <3>1. Band(b.id, FALSE) \in bands' /\ Band(b.id, FALSE).id = b.id
      BY <1>5 DEF Band
    <3>2. \A c \in bands : c # b => c \in bands'
      BY <1>5
    <3> QED BY <3>1, <3>2 DEF Raised
  <2> QED BY <2>2, <2>3, <1>2, <1>5, QuietKeeps DEF Noticed, Given
<1>6. CASE /\ jobs[i].state = "failed" /\ jobs[i].covers # None
           /\ jobs' = [jobs EXCEPT ![i] = Job(b.id, jobs[i].covers)]
           /\ bands' = bands \ {b}
           /\ pass' = [pass EXCEPT !.skip = IF Idle THEN @ ELSE @ \cup {i}]
  <2> DEFINE row == Job(b.id, jobs[i].covers)
  <2>1. /\ row \in Jobs /\ row.id = jobs[i].id /\ row.covers = jobs[i].covers
        /\ row.state = "queued" /\ row.attempts < MaxAttempts
    BY <1>3, PrintingAssumption DEF Job, Jobs, JobStates
  <2> HIDE DEF row
  <2>2. /\ SpoolOK(jobs, order.at)' /\ Confirms'
        /\ DOMAIN jobs' = DOMAIN jobs /\ Len(jobs') = Len(jobs)
        /\ jobs'[i] = row /\ \A k \in DOMAIN jobs : k # i => jobs'[k] = jobs[k]
        /\ \A k \in DOMAIN jobs : jobs'[k].id = jobs[k].id /\ jobs'[k].covers = jobs[k].covers
    BY <2>1, <1>2, <1>3, <1>6, RowWritten DEF row
  <2>3. /\ pass' \in Passes /\ pass'.step = pass.step /\ pass'.at = pass.at /\ pass'.before = pass.before
        /\ pass'.taken = pass.taken
        /\ pass.skip \subseteq pass'.skip /\ (~Idle => i \in pass'.skip)
    BY <1>3, <1>6 DEF IInv, Typed, Passes
  <2>4. Typed'
    BY <2>3, <1>2, <1>4, <1>6 DEF IInv, Typed
  <2>5. pass.step # "idle" => pass.at \in DOMAIN pass.before /\ pass.at \in DOMAIN jobs /\ pass.at # i
    <3>1. pass.step # "idle" => pass.step \in {"sending", "asking"}
      BY <1>2 DEF IInv, Typed, Passes
    <3> QED BY <3>1, <1>6, PassFacts DEF IInv, PassOK
  <2>6. PassOK'
    <3>2. \A k \in DOMAIN jobs : jobs'[k].state = "transmitting" => jobs[k].state = "transmitting"
      BY <2>1, <2>2
    <3>3. pass.step \in {"sending", "asking"} => jobs'[pass.at] = jobs[pass.at]
      BY <2>2, <2>5
    <3>4. pass.step = "sending" /\ pass.taken /\ jobs[pass.at].covers # None => Given(jobs[pass.at].id)' > 0
      BY <3>3, <2>3, <1>2 DEF IInv, PassOK, Given
    <3> QED BY <3>2, <3>3, <3>4, <2>2, <2>3 DEF IInv, PassOK
  <2>7. PassFresh'
    <3>1. \A k \in DOMAIN pass.before : k \notin pass'.skip => k # i /\ k \notin pass.skip /\ k \in DOMAIN jobs
      BY <2>3, PassFacts DEF Idle, IInv, PassOK
    <3> QED BY <3>1, <2>2, <2>3 DEF IInv, PassFresh
  <2>8. AllTold'
    <3> SUFFICES ASSUME NEW k \in DOMAIN jobs PROVE JobTold(k)'
      BY <2>2 DEF AllTold
    <3>1. CASE k = i
      BY <3>1, <2>1, <2>2 DEF JobTold
    <3>2. CASE k # i
      <4>1. JobTold(k) /\ (ToBeTold(k) <=> ToBeTold(k)') /\ jobs'[k] = jobs[k]
        BY <3>2, <2>2, <2>3 DEF IInv, AllTold, ToBeTold, Idle
      <4>2. jobs[k].id # b.id
        BY <3>2, <1>3, IdsDiffer DEF IInv, SpoolOK
      <4>3. Raised(jobs[k].id) => Raised(jobs[k].id)'
        BY <4>1, <4>2, <1>6 DEF Raised
      <4> QED BY <4>1, <4>3, <1>2 DEF JobTold, Given, Raised
    <3> QED BY <3>1, <3>2
  <2> QED BY <2>2, <2>4, <2>6, <2>7, <2>8 DEF IInv
<1> QED BY <1>1, <1>5, <1>6

LEMMA RestoredAreFailed ==
  ASSUME NEW spool
  PROVE  \A c \in Restored(spool) : \E i \in DOMAIN spool : c = Band(spool[i].id, TRUE)
BY DEF Restored

(* What a relaunch finds: the spool as it was, perhaps with some chits of  *)
(* the confirm it cut short.  Its bands are the failed chits of the day.   *)
LEMMA RelaunchKeeps ==
  ASSUME IInv, NEW spool, Relaunch(spool), SpoolOK(spool, order.at),
         DOMAIN jobs \subseteq DOMAIN spool,
         \A i \in DOMAIN jobs : spool[i] = jobs[i],
         \A i \in DOMAIN spool \ DOMAIN jobs : spool[i].state = "queued",
         order' \in [confirmed : BOOLEAN, lines : [Lines -> {"none", "on", "off"}], at : [Lines -> Stations]],
         order'.at = order.at,
         \A i \in DOMAIN spool : spool[i].covers # None => order'.confirmed
  PROVE  IInv'
<1>1. /\ jobs' = Reread(spool) /\ pass' = NoPass /\ bands' = Restored(jobs') /\ online' = TRUE
      /\ narrow' \in {narrow, FALSE} /\ Spend("crashes") /\ UNCHANGED <<ledger, today, printer>>
      /\ cut' = cut \cup {jobs[i].id : i \in {x \in DOMAIN jobs :
              jobs[x].state = "printed" /\ jobs[x].id \notin ledger.printed}}
  BY DEF Relaunch
<1>2. spool \in Seq(Jobs) /\ DOMAIN spool = 1..Len(spool) /\ Len(spool) \in Nat
  BY DEF SpoolOK
<1>3. ASSUME NEW i \in DOMAIN spool
      PROVE  /\ jobs'[i] \in Jobs /\ jobs'[i].id = spool[i].id /\ jobs'[i].covers = spool[i].covers
             /\ jobs'[i].attempts = spool[i].attempts
             /\ jobs'[i].state = IF spool[i].state = "transmitting" THEN "queued" ELSE spool[i].state
  <2>1. jobs'[i] = [spool[i] EXCEPT !.state = IF @ = "transmitting" THEN "queued" ELSE @]
    BY <1>1 DEF Reread
  <2>2. spool[i] \in Jobs
    BY <1>2
  <2> QED BY <2>1, <2>2 DEF Jobs, JobStates
<1>4. jobs' \in Seq(Jobs) /\ Len(jobs') = Len(spool) /\ DOMAIN jobs' = DOMAIN spool
  <2>1. jobs' = [i \in 1..Len(spool) |-> jobs'[i]]
    BY <1>1, <1>2 DEF Reread
  <2> QED BY <2>1, <1>2, <1>3
<1>5. SpoolOK(jobs', order'.at)
  <2>1. Budgeted(jobs')
    BY <1>3, <1>4 DEF Budgeted, SpoolOK
  <2> QED BY <2>1, <1>3, <1>4, SameChits
<1>6. Confirms'
  BY <1>3, <1>4 DEF Confirms
<1>7. bands' \subseteq [id : ChitIds, again : BOOLEAN]
  <2>1. \A i \in DOMAIN jobs' : jobs'[i].id \in ChitIds
    <3>1. \A j \in Jobs : j.id \in ChitIds
      BY DEF Jobs
    <3> QED BY <3>1, <1>3, <1>4
  <2> SUFFICES ASSUME NEW c, c \in bands'
               PROVE  c \in [id : ChitIds, again : BOOLEAN]
    OBVIOUS
  <2>2. c \in Restored(jobs')
    BY <1>1
  <2>3. \E i \in DOMAIN jobs' : c = Band(jobs'[i].id, TRUE)
    BY <2>2, RestoredAreFailed
  <2> QED BY <2>1, <2>3 DEF Band
<1>8. Typed'
  <2>1. NoPass \in Passes
    BY DEF NoPass, Passes
  <2>2. left' \in [crashes : Nat, voids : Nat, rolls : Nat, resends : Nat, acks : Nat, days : Nat]
    BY <1>1, SpendTypes DEF IInv
  <2> QED BY <2>1, <2>2, <1>1, <1>7 DEF IInv, Typed
<1>9. PassOK' /\ PassFresh'
  <2>1. pass'.step = "idle" /\ pass'.at = 0 /\ pass'.before = <<>>
    BY <1>1 DEF NoPass
  <2> QED BY <2>1, <1>2, <1>3, <1>4 DEF PassOK, PassFresh
<1>10. AllTold'
  <2> SUFFICES ASSUME NEW i \in DOMAIN jobs', jobs'[i].covers # None
               PROVE  /\ jobs'[i].state = "failed" => Raised(jobs[i].id)' \/ ~today'
                      /\ jobs'[i].state = "printed" => jobs'[i].id \in ledger'.printed \cup cut'
                      /\ jobs'[i].state \in {"printed", "stalled"} => Given(jobs[i].id)' > 0
    BY DEF AllTold, JobTold, Raised, Given
  <2>1. jobs'[i].state # "queued" =>
          /\ i \in DOMAIN jobs /\ jobs'[i].id = jobs[i].id /\ jobs[i].state = jobs'[i].state
          /\ jobs[i].covers # None
    BY <1>3, <1>4
  <2>2. jobs'[i].state = "failed" => Raised(jobs[i].id)' \/ ~today'
    <3> SUFFICES ASSUME jobs'[i].state = "failed", today
                 PROVE  Raised(jobs[i].id)'
      BY <1>1
    <3>1. order.confirmed
      BY <2>1 DEF IInv, Confirms
    <3> DEFINE s == jobs'[i].id[1]
               onPaper == UNION {jobs'[x].covers : x \in {y \in DOMAIN jobs' :
                            (jobs'[y].id[1] = s /\ jobs'[y].state = "printed") /\ jobs'[y].covers # None}}
    <3>2. jobs'[i].covers # {} /\ jobs'[i].covers \cap onPaper = {}
      <4>1. jobs'[i].covers # {}
        BY <1>5 DEF SpoolOK, RightStation
      <4>2. \A x \in DOMAIN jobs' : jobs'[x].state = "printed" /\ jobs'[x].covers # None =>
              jobs'[i].covers \cap jobs'[x].covers = {}
        BY <1>5 DEF SpoolOK, Apart
      <4> QED BY <4>1, <4>2
    <3>3. ~(jobs'[i].covers \subseteq onPaper)
      BY <3>2
    <3>4. onPaper = UNION {jobs'[x].covers : x \in {y \in {z \in DOMAIN jobs' :
                            jobs'[z].id[1] = s /\ jobs'[z].state = "printed"} : jobs'[y].covers # None}}
      OBVIOUS
    <3> HIDE DEF onPaper
    <3>5. Band(jobs'[i].id, TRUE) \in bands'
      BY <3>1, <3>3, <3>4, <1>1 DEF Restored
    <3> QED BY <3>5 DEF Raised, Band
  <2>3. jobs'[i].state = "printed" => jobs'[i].id \in ledger'.printed \cup cut'
    BY <2>1, <1>1
  <2>4. jobs'[i].state \in {"printed", "stalled"} => Given(jobs[i].id)' > 0
    <3> SUFFICES ASSUME jobs'[i].state \in {"printed", "stalled"}
                 PROVE  Given(jobs[i].id)' > 0
      OBVIOUS
    <3>1. PICK id \in ChitIds : id = jobs[i].id
      BY <2>1, ChitIdsOfJobs
    <3>2. Given(id) > 0
      BY <2>1, <3>1 DEF IInv, AllTold, JobTold
    <3>3. Given(id)' > 0
      BY <3>2, <1>1 DEF Given
    <3> QED BY <2>1, <3>1, <3>3 DEF Given
  <2> QED BY <2>2, <2>3, <2>4
<1> QED BY <1>5, <1>6, <1>8, <1>9, <1>10, SpoolPrime DEF IInv

LEMMA CrashKeeps ==
  ASSUME IInv, Crash \/ CrashInConfirm
  PROVE  IInv'
<1>1. SpoolOK(jobs, order.at) /\ jobs \in Seq(Jobs) /\ Len(jobs) \in Nat
  BY DEF IInv, SpoolOK
<1>2. CASE Crash
  <2>1. Relaunch(jobs) /\ order' = order
    BY <1>2 DEF Crash
  <2>2. /\ order' \in [confirmed : BOOLEAN, lines : [Lines -> {"none", "on", "off"}], at : [Lines -> Stations]]
        /\ \A i \in DOMAIN jobs : jobs[i].covers # None => order'.confirmed
    BY <2>1 DEF IInv, Typed, Confirms
  <2> QED BY <2>1, <2>2, <1>1, RelaunchKeeps
<1>3. CASE CrashInConfirm
  <2>1. PICK n \in 0..(Len(NewChits) - 1) : Relaunch(jobs \o SubSeq(NewChits, 1, n))
    BY <1>3 DEF CrashInConfirm
  <2>2. /\ order' \in [confirmed : BOOLEAN, lines : [Lines -> {"none", "on", "off"}], at : [Lines -> Stations]]
        /\ order'.at = order.at /\ order'.confirmed
    BY <1>3 DEF CrashInConfirm, IInv, Typed
  <2>3. Addition(jobs, SubSeq(NewChits, 1, n), order.at)
    BY NewChitsAdd
  <2> DEFINE add == SubSeq(NewChits, 1, n)
  <2>4. add \in Seq(Jobs) /\ \A k \in DOMAIN add : add[k].state = "queued"
    BY <2>3 DEF Addition
  <2>5. SpoolOK(jobs \o add, order.at)
    BY <2>3, <1>1, AdditionKeeps
  <2> HIDE DEF add
  <2>6. /\ DOMAIN jobs \subseteq DOMAIN (jobs \o add)
        /\ \A i \in DOMAIN jobs : (jobs \o add)[i] = jobs[i]
    BY <2>4, <1>1
  <2>7. ASSUME NEW i \in DOMAIN (jobs \o add) \ DOMAIN jobs
        PROVE  (jobs \o add)[i].state = "queued"
    <3>1. i - Len(jobs) \in DOMAIN add /\ (jobs \o add)[i] = add[i - Len(jobs)]
      BY <2>4, <1>1
    <3> QED BY <3>1, <2>4
  <2>8. Relaunch(jobs \o add)
    BY <2>1 DEF add
  <2> QED BY <2>2, <2>5, <2>6, <2>7, <2>8, RelaunchKeeps
<1> QED BY <1>2, <1>3

-----------------------------------------------------------------------------
(* The invariant holds, and what follows from it.                          *)

LEMMA StepKeeps ==
  ASSUME IInv, [Next]_vars
  PROVE  IInv'
<1>1. CASE \E l \in Lines : AddLine(l) \/ VoidLine(l)
  BY <1>1, LinesKeep
<1>2. CASE Confirmed
  BY <1>2, ConfirmedKeeps
<1>3. CASE Pump
  BY <1>3, StartPassKeeps, NextJobKeeps, AnswerKeeps, ReconcileKeeps DEF Pump
<1>4. CASE TakeDocument
  BY <1>4, TakeDocumentKeeps
<1>5. CASE \E b \in bands : Resend(b) \/ Acknowledge(b)
  BY <1>5, ResendKeeps, AcknowledgeKeeps
<1>6. CASE RollOut \/ NewRoll \/ NextDay
  BY <1>6, PrinterKeeps, NextDayKeeps
<1>7. CASE Crash \/ CrashInConfirm
  BY <1>7, CrashKeeps
<1>8. CASE UNCHANGED vars
  BY <1>8, QuietKeeps DEF vars, IInv, Typed, Noticed, Raised, Given
<1> QED BY <1>1, <1>2, <1>3, <1>4, <1>5, <1>6, <1>7, <1>8 DEF Next

(* Type correctness, and what the spool, the pass over it and the ledger   *)
(* agree on: no two chits share a line, an unfinished one has attempts     *)
(* left, a finished one is told or will be (print-spool.ts, printing.ts).  *)
THEOREM Inductive == Spec => []IInv
<1>1. Init => IInv
  BY InitKeeps
<1>2. IInv /\ [Next]_vars => IInv'
  BY StepKeeps
<1> QED BY <1>1, <1>2, PTL DEF Spec

(* The menu says which station a line is for, and nothing changes that.    *)
OnMenu == order.at \in Menus

LEMMA MenuStays ==
  ASSUME IInv, OnMenu, [Next]_vars
  PROVE  OnMenu'
<1>1. order \in [confirmed : BOOLEAN, lines : [Lines -> {"none", "on", "off"}], at : [Lines -> Stations]]
  BY DEF IInv, Typed
<1>2. \/ order' = order
      \/ order' = [order EXCEPT !.confirmed = TRUE]
      \/ \E l \in Lines, st \in {"on", "off"} : order' = [order EXCEPT !.lines[l] = st]
  BY DEF Next, vars, AddLine, VoidLine, Confirmed, Pump, StartPass, NextJob, Answer, SendHeld, SendTaken,
         SendFails, PaperSeen, NoPaperSeen, Answered, Reconcile, TakeDocument, Resend, Acknowledge,
         RollOut, NewRoll, NextDay, Crash, CrashInConfirm
<1>3. order'.at = order.at
  BY <1>1, <1>2
<1> QED BY <1>3 DEF OnMenu

(* The spool, the running pass, the bands and the printer keep their       *)
(* types, and the pass stays within the spool (print-spool.ts).            *)
THEOREM TypeCorrect == Spec => []TypeOK
<1>1. Init => OnMenu
  BY DEF Init, OnMenu
<1>2. ASSUME IInv, OnMenu PROVE TypeOK
  <2>1. order \in [confirmed : BOOLEAN, lines : [Lines -> {"none", "on", "off"}], at : Menus]
    BY <1>2 DEF IInv, Typed, OnMenu
  <2>2. jobs \in Seq([id : ChitIds, state : JobStates,
                      attempts : 0..MaxAttempts, covers : (SUBSET Lines) \cup {None}])
    BY <1>2 DEF IInv, SpoolOK, Jobs
  <2>3. /\ pass.step \in {"idle", "next", "sending", "asking"} /\ pass.before \in Seq(JobStates)
        /\ pass.at \in 0..Len(jobs) /\ Len(pass.before) <= Len(jobs)
    BY <1>2 DEF IInv, Typed, Passes, PassOK
  <2> QED BY <1>2, <2>1, <2>2, <2>3 DEF IInv, Typed, TypeOK
<1>3. IInv /\ OnMenu /\ [Next]_vars => OnMenu'
  BY MenuStays
<1> QED BY <1>1, <1>2, <1>3, Inductive, PTL DEF Spec

(* No dish is cooked twice for a second press: over presses, additions,    *)
(* failed chits and relaunches in the midst of a confirm, no two chits     *)
(* cover one line (03-F55; owedChits, confirmed, resend).                  *)
THEOREM OneChit == Spec => []OneChitPerLine
<1>1. IInv => OneChitPerLine
  BY DEF IInv, SpoolOK, Apart, OneChitPerLine
<1> QED BY <1>1, Inductive, PTL

(* Nothing fails in silence: what the glass calls sent is on a chit that   *)
(* was taken, is tried, or whose failure was told (03-F5).                 *)
THEOREM NeverSilent == Spec => []NothingSilent
<1>1. ASSUME IInv
      PROVE  NothingSilent
  <2> SUFFICES ASSUME Idle, KitchenFor = "sent", NEW s \in Routed, ~Unrecorded(s), NEW l \in Standing(s)
               PROVE  \E i \in Chits(s) : l \in jobs[i].covers /\ Accounted(jobs[i])
    BY DEF NothingSilent
  <2>1. s \in Stations /\ OwedChits = {}
    BY PrintingAssumption DEF KitchenFor
  <2>2. OwedAt(s) = {}
    BY <2>1 DEF OwedChits
  <2>3. l \in Committed(s)
    BY <2>2 DEF OwedAt
  <2>4. PICK i \in Chits(s) : l \in jobs[i].covers
    BY <2>3 DEF Committed
  <2>5. i \in DOMAIN jobs /\ jobs[i].covers # None /\ jobs[i].state \in JobStates
    <3>1. \A j \in Jobs : j.state \in JobStates
      BY DEF Jobs
    <3> QED BY <3>1, <1>1, ChitIdsOfJobs DEF Chits, Unrecorded
  <2>6. JobTold(i) /\ ~ToBeTold(i) /\ jobs[i].state # "transmitting"
    BY <1>1, <2>5 DEF IInv, AllTold, ToBeTold, PassOK, Idle
  <2>7. Accounted(jobs[i])
    BY <2>5, <2>6 DEF JobTold, Accounted, JobStates
  <2> QED BY <2>4, <2>7
<1> QED BY <1>1, Inductive, PTL

(* A job the printer is known to have keeps its row, and stays one.        *)
Had(j) == j.state \in {"stalled", "printed"}

LEMMA RowsStay ==
  ASSUME IInv, [Next]_vars
  PROVE  \A i \in DOMAIN jobs : Had(jobs[i]) => jobs'[i].id = jobs[i].id /\ Had(jobs'[i])
<1> SUFFICES ASSUME NEW i \in DOMAIN jobs, Had(jobs[i])
             PROVE  jobs'[i].id = jobs[i].id /\ Had(jobs'[i])
  OBVIOUS
<1>1. jobs \in Seq(Jobs) /\ i \in DOMAIN jobs /\ jobs[i] \in Jobs
  BY PassFacts, ChitIdsOfJobs
<1>2. CASE jobs' = jobs
  BY <1>2
<1>3. CASE Confirmed
  <2>1. jobs' = jobs \/ jobs' = jobs \o NewChits
    BY <1>3 DEF Confirmed
  <2>2. NewChits \in Seq(Jobs)
    BY NewChitsAdd
  <2> QED BY <2>1, <2>2, <1>1
<1>4. CASE NextJob
  <2>1. CASE jobs' = jobs
    BY <2>1
  <2>2. CASE \E k \in DOMAIN jobs : ~Terminal(jobs[k]) /\ jobs[k].state # "stalled"
                                    /\ jobs' = [jobs EXCEPT ![k].state = "transmitting"]
    BY <1>1, <2>2 DEF Had, Terminal
  <2>3. PICK k : /\ k \in Ahead
                 /\ \/ UNCHANGED jobs
                    \/ jobs[k].state # "stalled" /\ jobs' = [jobs EXCEPT ![k].state = "transmitting"]
    <3> DEFINE k == CHOOSE x \in Ahead : \A y \in Ahead : x <= y
    <3>1. Ahead \in SUBSET Nat /\ Ahead # {}
      BY <1>4, PassFacts, SMTT(30) DEF Ahead, NextJob
    <3>2. k \in Ahead
      BY <3>1, LeastNatural
    <3> QED BY <3>2, <1>4 DEF NextJob
  <2>4. k \in DOMAIN jobs /\ ~Terminal(jobs[k])
    BY <2>3, PassFacts DEF Ahead
  <2> QED BY <2>1, <2>2, <2>3, <2>4
<1>5. CASE Answer
  <2>1. \A state, n : Answered(state, n) /\ (i = pass.at => state \in {"stalled", "printed"}) =>
          jobs'[i].id = jobs[i].id /\ Had(jobs'[i])
    BY <1>1 DEF Answered, Had, Jobs
  <2>2. pass.step = "sending" => i # pass.at
    BY PassFacts DEF IInv, PassOK, Had
  <2> QED BY <1>5, <2>1, <2>2 DEF Answer, SendHeld, SendTaken, SendFails, PaperSeen, NoPaperSeen
<1>6. CASE \E b \in bands : Resend(b)
  BY <1>1, <1>6 DEF Resend, Row, Had
<1>7. ASSUME NEW spool, Relaunch(spool), i \in DOMAIN spool, spool[i] = jobs[i]
      PROVE  jobs'[i].id = jobs[i].id /\ Had(jobs'[i])
  <2>1. jobs'[i] = [jobs[i] EXCEPT !.state = IF @ = "transmitting" THEN "queued" ELSE @]
    BY <1>7 DEF Relaunch, Reread
  <2> QED BY <2>1, <1>1 DEF Had, Jobs
<1>8. CASE Crash
  BY <1>7, <1>8 DEF Crash
<1>9. CASE CrashInConfirm
  <2>1. PICK n \in 0..(Len(NewChits) - 1) : Relaunch(jobs \o SubSeq(NewChits, 1, n))
    BY <1>9 DEF CrashInConfirm
  <2> DEFINE add == SubSeq(NewChits, 1, n)
  <2>2. add \in Seq(Jobs)
    BY NewChitsAdd DEF Addition
  <2> HIDE DEF add
  <2>3. i \in DOMAIN (jobs \o add) /\ (jobs \o add)[i] = jobs[i]
    BY <2>2, <1>1
  <2> QED BY <2>1, <2>3, <1>7 DEF add
<1> QED BY <1>2, <1>3, <1>4, <1>5, <1>6, <1>8, <1>9
        DEF Next, Pump, StartPass, Reconcile, TakeDocument, AddLine, VoidLine, Acknowledge, RollOut, NewRoll,
            NextDay, vars, host

(* Only the document of the job in transmission goes to the printer.       *)
LEMMA OnlyTheOneSent ==
  ASSUME IInv, [Next]_vars, NEW i \in DOMAIN jobs, Had(jobs[i]), NEW id \in ChitIds, id = jobs[i].id
  PROVE  Given(id)' = Given(id)
<1>1. CASE printer' = printer
  BY <1>1 DEF Given
<1>2. CASE TakeDocument
  <2>1. pass.at \in DOMAIN jobs /\ jobs[pass.at].state = "transmitting"
    BY <1>2, PassFacts DEF TakeDocument, IInv, PassOK
  <2>2. jobs[pass.at].id # id
    BY <2>1, IdsDiffer DEF IInv, SpoolOK, Had
  <2> QED BY <2>2, <1>2, TakeDocumentKeeps
<1>3. CASE RollOut \/ NewRoll
  <2>1. printer.copies[id] \in Nat /\ printer.hold[id] \in Nat
    BY DEF IInv, Typed
  <2> QED BY <1>3, <2>1 DEF RollOut, NewRoll, Given, IInv, Typed
<1> QED BY <1>1, <1>2, <1>3
        DEF Next, Pump, StartPass, NextJob, Answer, SendHeld, SendTaken, SendFails, PaperSeen, NoPaperSeen,
            Answered, Reconcile, Confirmed, AddLine, VoidLine, Resend, Acknowledge, NextDay, Crash,
            CrashInConfirm, Relaunch, vars, host

(* What the printer is known to have is not sent to it again, over         *)
(* relaunches, resends and retries (03-F41; advance, resend, reconcile).   *)
THEOREM TakenOnce == Spec => NeverSentAgain
<1> DEFINE Kept == \A i \in DOMAIN jobs : jobs[i].state \in {"stalled", "printed"} =>
                     jobs'[i].state \in {"stalled", "printed"} /\ Given(jobs[i].id)' = Given(jobs[i].id)
<1>1. ASSUME IInv, [Next]_vars
      PROVE  Kept
  <2> SUFFICES ASSUME NEW i \in DOMAIN jobs, Had(jobs[i])
               PROVE  jobs'[i].state \in {"stalled", "printed"} /\ Given(jobs[i].id)' = Given(jobs[i].id)
    BY DEF Had
  <2>1. jobs'[i].id = jobs[i].id /\ Had(jobs'[i])
    BY <1>1, RowsStay
  <2>2. PICK id \in ChitIds : id = jobs[i].id
    BY <1>1, ChitIdsOfJobs
  <2>3. Given(id)' = Given(id)
    BY <1>1, <2>2, OnlyTheOneSent
  <2>4. Given(jobs[i].id)' = Given(id)' /\ Given(jobs[i].id) = Given(id)
    BY <2>1, <2>2 DEF Given
  <2> QED BY <2>1, <2>3, <2>4 DEF Had
<1> QED BY <1>1, Inductive, PTL DEF Spec, NeverSentAgain

=============================================================================
