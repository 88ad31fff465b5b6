------------------------- MODULE DeviceStoreProofs -------------------------
(***************************************************************************)
(* The log of a device is sound and permanent, a page answers only what it *)
(* commits, retention's drops hold, and the projections follow the log,    *)
(* for every input, delivery, failure and restart.                         *)
(***************************************************************************)
EXTENDS DeviceStore, SequenceTheorems, FiniteSetTheorems, WellFoundedInduction, TLAPS

-----------------------------------------------------------------------------
(* Least and greatest elements, and minimal sets.                          *)

(* Every nonempty set of naturals has a least element.                     *)
LEMMA LeastNatural ==
  ASSUME NEW S \in SUBSET Nat, S # {}
  PROVE  \E m \in S : \A n \in S : m <= n
<1> DEFINE Below == OpToRel(<, Nat)
<1>1. IsWellFoundedOn(Below, Nat)
  BY NatLessThanWellFounded, Zenon
<1>2. \A m, n \in Nat : n < m => <<n, m>> \in Below
  BY Zenon DEF OpToRel
<1> HIDE DEF Below
<1>3. PICK m \in S : \A n \in S : ~ (<<n, m>> \in Below)
  BY <1>1, WFMin, Zenon
<1>4. ASSUME NEW n \in S PROVE ~(n < m)
  BY <1>2, <1>3, Zenon
<1>5. \A n \in S : m <= n
  BY <1>4, SMT
<1> QED BY <1>5, Zenon

(* And a greatest one, if there is a bound.                                *)
LEMMA GreatestNatural ==
  ASSUME NEW S \in SUBSET Nat, S # {}, NEW b \in Nat, \A n \in S : n <= b
  PROVE  Max(S) \in S /\ \A n \in S : n <= Max(S)
<1> DEFINE D == {b - n : n \in S}
<1>1. D \in SUBSET Nat /\ D # {} /\ \A n \in S : b - n \in D
  <2>1. \A n \in S : b - n \in Nat
    OBVIOUS
  <2> QED BY <2>1
<1>2. \A d \in D : \E n \in S : d = b - n
  OBVIOUS
<1> HIDE DEF D
<1>3. PICK d \in D : \A c \in D : d <= c
  BY <1>1, LeastNatural
<1>4. PICK m \in S : d = b - m
  BY <1>2
<1>5. \A n \in S : m >= n
  BY <1>1, <1>3, <1>4
<1>6. Max(S) \in S /\ \A n \in S : Max(S) >= n
  BY <1>5, Zenon DEF Max
<1> QED BY <1>6

Some(s) == CHOOSE x \in s : TRUE

(* Of the subsets of a finite set some set has, one is minimal.            *)
LEMMA MinimalSet ==
  ASSUME NEW S, IsFiniteSet(S), NEW D \in SUBSET SUBSET S, D # {}
  PROVE  \E T \in D : \A U \in D : U \subseteq T => U = T
<1> DEFINE R == StrictSubsetOrdering(S)
<1>1. IsWellFoundedOn(R, SUBSET S)
  BY FS_StrictSubsetOrderingWellFounded, FS_FiniteSubsetsOfFinite
<1> HIDE DEF R
<1>2. \E x \in D : \A y \in D : ~ (<<y, x>> \in R)
  BY <1>1, WFMin
<1> QED BY <1>2 DEF R, StrictSubsetOrdering

LEMMA SomeIsIn == ASSUME NEW s, s # {} PROVE Some(s) \in s
BY DEF Some

-----------------------------------------------------------------------------
Fields == {"own", "peers", "gseq", "acked", "head", "basis", "rows", "parked"}
Bases == {"branch", "branch_provisional"}

(* The events this device can have authored, and the items of a call.      *)
Made == {EnvelopeOf(i, lam, prev, basis) :
           i \in Inputs, lam \in Nat, prev \in Ids \cup {None}, basis \in Bases}
Items == [env : Made \cup Copies, seq : Numbers \cup {None}]
Answers == [item : Items, ok : BOOLEAN]

-----------------------------------------------------------------------------
(* The inductive invariant: both views of the tables are a sound log, the  *)
(* open transaction only adds to the committed one, what an append is      *)
(* about to store is stamped for the log as it stands, and what a page has *)
(* answered so far holds in its transaction.                               *)
Shaped(d) ==
  /\ DOMAIN d = Fields
  /\ d.own \in Seq(Made)
  /\ d.peers \subseteq {c \in Copies : c.dev # Me}
  /\ d.gseq = [i \in DOMAIN d.gseq |-> d.gseq[i]]
  /\ d.acked \in Int
  /\ d.head \in Ids \cup {None}
  /\ d.basis \in Bases

OwnOK(d) ==
  /\ \A n \in DOMAIN d.own : d.own[n].lam = n - 1
  /\ \A m, n \in DOMAIN d.own : d.own[m].id = d.own[n].id => m = n

PeersOK(d) ==
  \A e, f \in d.peers :
    e.id = f.id \/ <<e.dev, e.lam>> = <<f.dev, f.lam>> => e = f

NumbersOK(d) ==
  /\ \A i, j \in DOMAIN d.gseq : d.gseq[i] = d.gseq[j] => i = j
  /\ DOMAIN d.gseq \subseteq {e.id : e \in Ledger(d)}

ChainOK(d) ==
  /\ \A n \in DOMAIN d.own :
       d.own[n].kind = "audit" => d.own[n].prev = PrevAudit(d, n)
  /\ d.head = PrevAudit(d, Len(d.own) + 1)

LogOK(d) == Shaped(d) /\ OwnOK(d) /\ PeersOK(d) /\ NumbersOK(d) /\ ChainOK(d)

Adds(c, d) ==
  /\ Len(c.own) <= Len(d.own)
  /\ \A n \in 1..Len(c.own) : d.own[n] = c.own[n]
  /\ c.peers \subseteq d.peers
  /\ \A i \in DOMAIN c.gseq : i \in DOMAIN d.gseq /\ d.gseq[i] = c.gseq[i]
  /\ c.acked <= d.acked

(* An append of a new event, and of one that is stored.                    *)
NewAppend(d, x) ==
  /\ x.lam = Len(d.own)
  /\ \A n \in DOMAIN d.own : d.own[n].id # x.id
  /\ x.kind = "audit" => x.prev = d.head

Again(x, e) ==
  x.id = e.id /\ x.lam = e.lam /\ x.prev = e.prev /\ x.basis = e.basis

CallOK ==
  /\ DOMAIN call = {"step", "todo", "touched", "lead"}
  /\ call.step \in {"down", "idle", "append", "ingest", "page", "refold"}
  /\ call.todo \in Seq(Items)
  /\ call.step = "append" /\ call.todo # <<>> =>
       /\ Tail(call.todo) = <<>>
       /\ Item.env \in Made /\ Item.seq = None
       /\ \/ NewAppend(db, Item.env)
          \/ \E e \in ToSet(db.own) : Again(Item.env, e)

Answered(r, d) ==
  r.ok => /\ r.item.env \in Ledger(d)
          /\ r.item.seq # None => AlreadyHolds(d, r.item.env.id, r.item.seq)

AnswersOK(s, d) == s \in Seq(Answers) /\ \A n \in 1..Len(s) : Answered(s[n], d)

ResultsOK == AnswersOK(results, db) /\ (call.step # "page" => results = <<>>)

IInv == LogOK(disk) /\ LogOK(db) /\ Adds(disk, db) /\ CallOK /\ ResultsOK

-----------------------------------------------------------------------------
LEMMA MadeFromInput ==
  ASSUME NEW e \in Made
  PROVE  /\ e.dev = Me /\ e.id \in Ids /\ e.lam \in Nat
         /\ \E i \in Inputs :
              /\ e = EnvelopeOf(i, e.lam, e.prev, e.basis)
              /\ e.id = i.id /\ e.kind = i.kind /\ e.line = i.line
<1>1. PICK i \in Inputs, lam \in Nat, prev \in Ids \cup {None}, basis \in Bases :
        e = EnvelopeOf(i, lam, prev, basis)
  BY DEF Made
<1>2. /\ e.dev = Me /\ e.lam = lam /\ e.prev = prev /\ e.basis = basis
      /\ e.id = i.id /\ e.kind = i.kind /\ e.line = i.line
  BY <1>1 DEF EnvelopeOf
<1> QED BY <1>1, <1>2 DEF Ids

(* Sequences                                                               *)
LEMMA InToSet ==
  ASSUME NEW S, NEW s \in Seq(S), NEW x
  PROVE  x \in ToSet(s) <=> \E n \in 1..Len(s) : s[n] = x
  BY DEF ToSet

LEMMA AddsIsPrefix ==
  ASSUME NEW S, NEW s \in Seq(S), NEW t \in Seq(S), Len(s) <= Len(t),
         \A n \in 1..Len(s) : t[n] = s[n]
  PROVE  IsPrefix(s, t)
<1>1. SubSeq(s, 1, Len(s)) = SubSeq(t, 1, Len(s))
  OBVIOUS
<1> QED BY <1>1 DEF IsPrefix

(* Adding is transitive.                                                   *)
LEMMA AddsTwice ==
  ASSUME NEW b, NEW c, NEW d, LogOK(b), LogOK(c), LogOK(d), Adds(b, c), Adds(c, d)
  PROVE  Adds(b, d)
  BY DEF Adds, LogOK, Shaped

LEMMA AddsNothing == ASSUME NEW d, LogOK(d) PROVE Adds(d, d)
  BY DEF Adds, LogOK, Shaped

(* The chain is read off the own log and its head.                         *)
LEMMA PrevOfPrefix ==
  ASSUME NEW c, NEW d, NEW k \in Nat, \A m \in 1..(k - 1) : d.own[m] = c.own[m]
  PROVE  PrevAudit(d, k) = PrevAudit(c, k)
<1> DEFINE A == {m \in 1..(k - 1) : c.own[m].kind = "audit"}
<1>1. A = {m \in 1..(k - 1) : d.own[m].kind = "audit"}
  OBVIOUS
<1>2. A # {} => Max(A) \in 1..(k - 1)
  <2>1. ASSUME A # {} PROVE \E x \in A : \A y \in A : x >= y
    <3>1. A \in SUBSET Nat /\ \A y \in A : y <= k
      OBVIOUS
    <3> HIDE DEF A
    <3>2. Max(A) \in A /\ \A y \in A : y <= Max(A)
      BY <2>1, <3>1, GreatestNatural
    <3> QED BY <3>1, <3>2
  <2>2. A # {} => Max(A) \in A
    BY <2>1 DEF Max
  <2> QED BY <2>2
<1> HIDE DEF A
<1>3. A # {} => d.own[Max(A)].id = c.own[Max(A)].id
  BY <1>2
<1>4. PrevAudit(c, k) = IF A = {} THEN None ELSE c.own[Max(A)].id
  BY DEF PrevAudit, A
<1>5. PrevAudit(d, k) = IF A = {} THEN None ELSE d.own[Max(A)].id
  BY <1>1 DEF PrevAudit
<1> QED BY <1>3, <1>4, <1>5

LEMMA ChainSame ==
  ASSUME NEW c, NEW d, ChainOK(c), d.own = c.own, d.head = c.head
  PROVE  ChainOK(d)
<1>1. \A n : PrevAudit(d, n) = PrevAudit(c, n)
  BY DEF PrevAudit
<1> QED BY <1>1 DEF ChainOK

LEMMA ChainGrows ==
  ASSUME NEW c, NEW d, ChainOK(c), NEW e, c.own \in Seq(Made), d.own = Append(c.own, e),
         d.head = IF e.kind = "audit" THEN e.id ELSE c.head,
         e.kind = "audit" => e.prev = c.head
  PROVE  ChainOK(d)
<1> DEFINE k == Len(c.own) + 1
           A == {m \in 1..k : d.own[m].kind = "audit"}
<1>1. /\ k \in Nat /\ Len(d.own) = k /\ DOMAIN d.own = 1..k /\ d.own[k] = e
      /\ DOMAIN c.own = 1..(k - 1)
      /\ \A m \in 1..(k - 1) : d.own[m] = c.own[m]
  OBVIOUS
<1> HIDE DEF k
<1>2. ASSUME NEW n \in 1..k PROVE PrevAudit(d, n) = PrevAudit(c, n)
  <2>1. n \in Nat /\ \A m \in 1..(n - 1) : d.own[m] = c.own[m]
    BY <1>1
  <2> QED BY <2>1, PrevOfPrefix
<1>3. c.head = PrevAudit(d, k)
  BY <1>1, <1>2 DEF ChainOK, k
<1>4. \A n \in 1..k : d.own[n].kind = "audit" => d.own[n].prev = PrevAudit(d, n)
  BY <1>1, <1>2, <1>3 DEF ChainOK
<1>5. PrevAudit(d, k + 1) = IF A = {} THEN None ELSE d.own[Max(A)].id
  <2>1. (k + 1) - 1 = k
    BY <1>1
  <2> QED BY <2>1 DEF PrevAudit
<1>6. CASE e.kind = "audit"
  <2>1. k \in A /\ \A m \in A : k >= m
    BY <1>1, <1>6
  <2>2. A \in SUBSET Nat /\ \A m \in A : m <= k
    BY <1>1
  <2> HIDE DEF A
  <2>3. Max(A) \in A /\ \A m \in A : m <= Max(A)
    BY <1>1, <2>1, <2>2, GreatestNatural
  <2> DEFINE max == Max(A)
  <2> HIDE DEF max
  <2>5. max \in Nat /\ max <= k /\ k <= max
    BY <1>1, <2>1, <2>2, <2>3 DEF max
  <2>4. Max(A) = k
    BY <1>1, <2>5 DEF max
  <2> QED BY <1>1, <1>4, <1>5, <1>6, <2>1, <2>4 DEF ChainOK
<1>7. CASE e.kind # "audit"
  <2>1. A = {m \in 1..(k - 1) : d.own[m].kind = "audit"}
    BY <1>1, <1>7
  <2>2. PrevAudit(d, k) = IF A = {} THEN None ELSE d.own[Max(A)].id
    BY <2>1 DEF PrevAudit
  <2> QED BY <1>1, <1>3, <1>4, <1>5, <1>7, <2>2 DEF ChainOK
<1> QED BY <1>6, <1>7

(* Writes to the projections, the branch time and the checkpoint leave the *)
(* log sound.                                                              *)
LEMMA LogUntouched ==
  ASSUME NEW c, NEW d, LogOK(c), DOMAIN d = Fields,
         d.own = c.own, d.peers = c.peers, d.gseq = c.gseq, d.head = c.head,
         d.acked \in Int, c.acked <= d.acked, d.basis \in Bases
  PROVE  LogOK(d) /\ Adds(c, d) /\ Ledger(d) = Ledger(c)
<1>1. ChainOK(d)
  BY ChainSame DEF LogOK
<1> QED BY <1>1 DEF LogOK, Shaped, OwnOK, PeersOK, NumbersOK, Adds, Ledger

-----------------------------------------------------------------------------
(* What each operator of an item does to the log.                          *)
LEMMA AppendKeepsLog ==
  ASSUME NEW d, LogOK(d), NEW e \in Made, NEW x, x.env = e,
         e.lam = Len(d.own), \A n \in DOMAIN d.own : d.own[n].id # e.id,
         e.kind = "audit" => e.prev = d.head
  PROVE  /\ LogOK(Inserted(d, x)) /\ Adds(d, Inserted(d, x))
         /\ Ledger(Inserted(d, x)) = Ledger(d) \cup {e}
<1> DEFINE t == Inserted(d, x)
<1>1. e.dev = Me /\ e.id \in Ids
  BY MadeFromInput
<1>2. d.own \in Seq(Made) /\ DOMAIN d = Fields
  BY DEF LogOK, Shaped
<1>3. /\ DOMAIN t = Fields
      /\ t.own = Append(d.own, e)
      /\ t.head = IF e.kind = "audit" THEN e.id ELSE d.head
      /\ t.peers = d.peers /\ t.gseq = d.gseq /\ t.acked = d.acked /\ t.basis = d.basis
  BY <1>1, <1>2 DEF Inserted, Fields
<1> HIDE DEF t
<1>4. /\ t.own \in Seq(Made)
      /\ Len(t.own) = Len(d.own) + 1
      /\ \A n \in 1..Len(d.own) : t.own[n] = d.own[n]
      /\ t.own[Len(d.own) + 1] = e
  BY <1>2, <1>3
<1>5. ToSet(t.own) = ToSet(d.own) \cup {e}
  <2>1. \A y : y \in ToSet(t.own) <=> \E n \in 1..Len(t.own) : t.own[n] = y
    BY <1>4, InToSet
  <2>2. \A y : y \in ToSet(d.own) <=> \E n \in 1..Len(d.own) : d.own[n] = y
    BY <1>2, InToSet
  <2>3. 1..Len(t.own) = 1..Len(d.own) \cup {Len(d.own) + 1}
    BY <1>2, <1>4
  <2>5. ASSUME NEW y \in ToSet(t.own)
        PROVE  y \in ToSet(d.own) \cup {e}
    <3>1. PICK n \in 1..Len(t.own) : t.own[n] = y
      BY <2>1, <2>5
    <3>2. CASE n \in 1..Len(d.own)
      BY <3>1, <3>2, <1>4, <2>2
    <3>3. CASE n = Len(d.own) + 1
      BY <3>1, <3>3, <1>4
    <3> QED BY <2>3, <3>1, <3>2, <3>3
  <2>6. ToSet(d.own) \subseteq ToSet(t.own)
    BY <1>4, <2>1, <2>2, <2>3
  <2>7. e \in ToSet(t.own)
    BY <1>4, <2>1, <2>3
  <2> QED BY <2>5, <2>6, <2>7
<1>6. Ledger(t) = Ledger(d) \cup {e}
  BY <1>3, <1>5 DEF Ledger
<1>7. Shaped(t)
  BY <1>1, <1>3, <1>4 DEF LogOK, Shaped
<1>8. OwnOK(t)
  <2>1. DOMAIN d.own = 1..Len(d.own) /\ Len(d.own) \in Nat
    BY <1>2
  <2>2. DOMAIN t.own = 1..Len(t.own)
    BY <1>4
  <2>3. \A n \in DOMAIN t.own : n \in DOMAIN d.own \/ n = Len(d.own) + 1
    BY <2>1, <2>2, <1>4
  <2>4. \A n \in DOMAIN t.own : t.own[n].lam = n - 1
    BY <1>4, <2>1, <2>3 DEF LogOK, OwnOK
  <2>5. \A m, n \in DOMAIN t.own : t.own[m].id = t.own[n].id => m = n
    BY <1>4, <2>1, <2>3 DEF LogOK, OwnOK
  <2> QED BY <2>4, <2>5 DEF OwnOK
<1>9. PeersOK(t)
  BY <1>3 DEF LogOK, PeersOK
<1>10. NumbersOK(t)
  <2>1. \A i, j \in DOMAIN t.gseq : t.gseq[i] = t.gseq[j] => i = j
    BY <1>3 DEF LogOK, NumbersOK
  <2>2. {f.id : f \in Ledger(d)} \subseteq {f.id : f \in Ledger(t)}
    BY <1>6
  <2>3. DOMAIN t.gseq \subseteq {f.id : f \in Ledger(d)}
    BY <1>3 DEF LogOK, NumbersOK
  <2> QED BY <2>1, <2>2, <2>3 DEF NumbersOK
<1>11. Adds(d, t)
  BY <1>2, <1>3, <1>4 DEF Adds, LogOK, Shaped
<1>12. ChainOK(t)
  BY <1>2, <1>3, ChainGrows DEF LogOK
<1> QED BY <1>6, <1>7, <1>8, <1>9, <1>10, <1>11, <1>12 DEF LogOK, t

LEMMA NumberKeepsLog ==
  ASSUME NEW d, LogOK(d), NEW id \in {e.id : e \in Ledger(d)}, NEW n,
         n = None \/ Adoptable(d, id, n)
  PROVE  /\ LogOK(WithNumber(d, id, n)) /\ Adds(d, WithNumber(d, id, n))
         /\ Ledger(WithNumber(d, id, n)) = Ledger(d)
         /\ n # None => AlreadyHolds(WithNumber(d, id, n), id, n)
<1> DEFINE t == WithNumber(d, id, n)
<1>1. CASE n = None
  BY <1>1, AddsNothing DEF WithNumber
<1>2. CASE n # None
  <2>1. DOMAIN d = Fields
    BY DEF LogOK, Shaped
  <2>2. /\ DOMAIN t = Fields
        /\ t.gseq = [i \in DOMAIN d.gseq \cup {id} |-> IF i = id THEN n ELSE d.gseq[i]]
        /\ t.own = d.own /\ t.peers = d.peers /\ t.acked = d.acked
        /\ t.basis = d.basis /\ t.head = d.head
    BY <1>2, <2>1 DEF WithNumber, Fields
  <2> HIDE DEF t
  <2>3. id \notin DOMAIN d.gseq /\ \A i \in DOMAIN d.gseq : d.gseq[i] # n
    BY <1>2 DEF Adoptable, Range
  <2>4. /\ DOMAIN t.gseq = DOMAIN d.gseq \cup {id}
        /\ \A i \in DOMAIN d.gseq : t.gseq[i] = d.gseq[i]
        /\ t.gseq[id] = n
        /\ t.gseq = [i \in DOMAIN t.gseq |-> t.gseq[i]]
    BY <2>2, <2>3
  <2>6. Ledger(t) = Ledger(d)
    BY <2>2 DEF Ledger
  <2>7. Shaped(t) /\ OwnOK(t) /\ PeersOK(t)
    BY <2>2, <2>4 DEF LogOK, Shaped, OwnOK, PeersOK
  <2>8. NumbersOK(t)
    <3>1. \A i, j \in DOMAIN t.gseq : t.gseq[i] = t.gseq[j] => i = j
      BY <2>3, <2>4 DEF LogOK, NumbersOK
    <3>2. DOMAIN t.gseq \subseteq {e.id : e \in Ledger(d)}
      BY <2>4 DEF LogOK, NumbersOK
    <3> QED BY <2>6, <3>1, <3>2 DEF NumbersOK
  <2>9. Adds(d, t)
    <3>1. \A i \in DOMAIN d.gseq : i \in DOMAIN t.gseq /\ t.gseq[i] = d.gseq[i]
      BY <2>4
    <3>2. d.acked \in Int /\ Len(d.own) \in Nat
      BY DEF LogOK, Shaped
    <3>3. t.own = d.own /\ t.peers = d.peers /\ t.acked = d.acked
      BY <2>2
    <3> QED BY <3>1, <3>2, <3>3 DEF Adds
  <2>10. AlreadyHolds(t, id, n)
    BY <2>4 DEF AlreadyHolds
  <2>11. ChainOK(t)
    BY <2>2, ChainSame DEF LogOK
  <2> QED BY <2>6, <2>7, <2>8, <2>9, <2>10, <2>11 DEF LogOK, t
<1> QED BY <1>1, <1>2

LEMMA PeerKeepsLog ==
  ASSUME NEW d, LogOK(d), NEW x \in Items, x.env \in Copies, x.env.dev # Me,
         Stored(d, x.env.id) = {},
         \A e \in d.peers : <<e.dev, e.lam>> # <<x.env.dev, x.env.lam>>,
         x.seq = None \/ Adoptable(d, x.env.id, x.seq)
  PROVE  /\ LogOK(Inserted(d, x)) /\ Adds(d, Inserted(d, x))
         /\ Ledger(Inserted(d, x)) = Ledger(d) \cup {x.env}
         /\ x.seq # None => AlreadyHolds(Inserted(d, x), x.env.id, x.seq)
<1> DEFINE t == [d EXCEPT !.peers = @ \cup {x.env}]
<1>1. DOMAIN d = Fields
  BY DEF LogOK, Shaped
<1>2. Inserted(d, x) = WithNumber(t, x.env.id, x.seq)
  BY DEF Inserted
<1>3. /\ DOMAIN t = Fields /\ t.peers = d.peers \cup {x.env}
      /\ t.own = d.own /\ t.gseq = d.gseq /\ t.acked = d.acked
      /\ t.basis = d.basis /\ t.head = d.head
  BY <1>1 DEF Fields
<1> HIDE DEF t
<1>4. Ledger(t) = Ledger(d) \cup {x.env}
  BY <1>3 DEF Ledger
<1>5. \A e \in Ledger(d) : e.id # x.env.id
  BY DEF Stored
<1>6. Shaped(t) /\ OwnOK(t)
  BY <1>3 DEF LogOK, Shaped, OwnOK
<1>7. PeersOK(t)
  BY <1>3, <1>5 DEF LogOK, PeersOK, Ledger
<1>8. NumbersOK(t)
  BY <1>3, <1>4 DEF LogOK, NumbersOK
<1>9. LogOK(t) /\ Adds(d, t)
  <2>1. ChainOK(t)
    BY <1>3, ChainSame DEF LogOK
  <2> QED BY <1>3, <1>6, <1>7, <1>8, <2>1 DEF LogOK, Adds, Shaped
<1>10. x.env.id \in {e.id : e \in Ledger(t)}
  BY <1>4
<1>11. x.seq = None \/ Adoptable(t, x.env.id, x.seq)
  BY <1>3 DEF Adoptable
<1>12. /\ LogOK(Inserted(d, x)) /\ Adds(t, Inserted(d, x))
       /\ Ledger(Inserted(d, x)) = Ledger(t)
       /\ x.seq # None => AlreadyHolds(Inserted(d, x), x.env.id, x.seq)
  BY <1>2, <1>9, <1>10, <1>11, NumberKeepsLog
<1>13. Adds(d, Inserted(d, x))
  BY <1>9, <1>12, AddsTwice
<1> QED BY <1>4, <1>12, <1>13

-----------------------------------------------------------------------------
(* The answers of a page, and the call they belong to.                     *)
LEMMA AnswersKept ==
  ASSUME NEW c, NEW d, Adds(c, d), LogOK(c), LogOK(d), NEW s, AnswersOK(s, c)
  PROVE  AnswersOK(s, d)
<1>1. c.own \in Seq(Made) /\ d.own \in Seq(Made)
  BY DEF LogOK, Shaped
<1>2. \A y : y \in ToSet(c.own) <=> \E n \in 1..Len(c.own) : c.own[n] = y
  BY <1>1, InToSet
<1>3. \A y : y \in ToSet(d.own) <=> \E n \in 1..Len(d.own) : d.own[n] = y
  BY <1>1, InToSet
<1>4. \A n \in 1..Len(c.own) : n \in 1..Len(d.own) /\ d.own[n] = c.own[n]
  BY <1>1 DEF Adds
<1>5. ToSet(c.own) \subseteq ToSet(d.own)
  BY <1>2, <1>3, <1>4
<1>6. Ledger(c) \subseteq Ledger(d)
  BY <1>5 DEF Adds, Ledger
<1> QED BY <1>6 DEF AnswersOK, Answered, AlreadyHolds, Adds

LEMMA AnswersGrow ==
  ASSUME NEW s, NEW d, AnswersOK(s, d), NEW r \in Answers, Answered(r, d)
  PROVE  AnswersOK(Append(s, r), d)
<1>1. /\ Append(s, r) \in Seq(Answers)
      /\ \A n \in 1..Len(Append(s, r)) :
           (n \in 1..Len(s) /\ Append(s, r)[n] = s[n]) \/ Append(s, r)[n] = r
  BY DEF AnswersOK
<1> QED BY <1>1 DEF AnswersOK

LEMMA NoAnswers == ASSUME NEW d PROVE AnswersOK(<<>>, d)
  BY DEF AnswersOK

(* An item is taken, and its answer noted.                                 *)
LEMMA ItemTaken ==
  ASSUME IInv, Storing, disk' = disk, LogOK(db'), Adds(db, db'),
         NEW ok \in BOOLEAN, Answer(ok),
         Answered([item |-> Item, ok |-> ok], db'),
         DOMAIN call' = DOMAIN call, call'.step = call.step, call'.todo = Tail(call.todo)
  PROVE  IInv' /\ Adds(disk, disk')
<1>1. LogOK(disk) /\ LogOK(db) /\ Adds(disk, db)
  BY DEF IInv
<1>2. LogOK(disk') /\ Adds(disk', db') /\ Adds(disk, disk')
  BY <1>1, AddsTwice, AddsNothing
<1>3. Item \in Items /\ Tail(call.todo) \in Seq(Items)
  BY DEF IInv, CallOK, Storing, Item
<1>4. CallOK'
  BY <1>3 DEF IInv, CallOK, Storing
<1>5. AnswersOK(results, db')
  BY <1>1, AnswersKept DEF IInv, ResultsOK
<1>6. AnswersOK(results', db')
  <2>1. [item |-> Item, ok |-> ok] \in Answers
    BY <1>3 DEF Answers
  <2> QED BY <1>5, <2>1, AnswersGrow DEF Answer
<1>7. call'.step # "page" => results' = <<>>
  BY DEF IInv, ResultsOK, Answer
<1> QED BY <1>2, <1>4, <1>6, <1>7 DEF IInv, ResultsOK

(* No transaction is open after the step.                                  *)
LEMMA Settled ==
  ASSUME LogOK(disk'), db' = disk', results' = <<>>,
         DOMAIN call' = {"step", "todo", "touched", "lead"},
         call'.step \in {"down", "idle", "refold"}, call'.todo \in Seq(Items)
  PROVE  IInv'
<1>1. LogOK(db') /\ Adds(disk', db')
  BY AddsNothing
<1>2. AnswersOK(results', db')
  BY NoAnswers
<1>3. CallOK'
  BY DEF CallOK
<1> QED BY <1>1, <1>2, <1>3 DEF IInv, ResultsOK

LEMMA CallShape ==
  ASSUME NEW step
  PROVE  /\ DOMAIN Call(step, <<>>) = {"step", "todo", "touched", "lead"}
         /\ Call(step, <<>>).step = step
         /\ Call(step, <<>>).todo \in Seq(Items)
  BY DEF Call

(* A call that throws, and an item that fails.                             *)
LEMMA ThrowKeeps ==
  ASSUME IInv, NEW touched, Throw(touched), disk' = disk, results' = <<>>
  PROVE  IInv' /\ Adds(disk, disk')
<1>1. LogOK(disk) /\ LogOK(disk') /\ Adds(disk, disk')
  BY AddsNothing DEF IInv
<1>2. PICK step \in {"refold", "idle"} : call' = Call(step, <<>>)
  BY DEF Throw
<1> QED BY <1>1, <1>2, CallShape, Settled DEF Throw

LEMMA FailKeeps ==
  ASSUME IInv, Storing, NEW folded, Fail(folded), disk' = disk
  PROVE  IInv' /\ Adds(disk, disk')
<1>1. CASE call.step = "page"
  <2>1. /\ db' = db /\ Answer(FALSE)
        /\ DOMAIN call' = DOMAIN call /\ call'.step = call.step
        /\ call'.todo = Tail(call.todo)
    BY <1>1 DEF Fail, IInv, CallOK
  <2>2. LogOK(db') /\ Adds(db, db')
    BY <2>1, AddsNothing DEF IInv
  <2>3. Answered([item |-> Item, ok |-> FALSE], db')
    BY DEF Answered
  <2> QED BY <2>1, <2>2, <2>3, ItemTaken
<1>2. CASE call.step # "page"
  <2>1. Throw(folded) /\ results' = <<>>
    BY <1>2 DEF Fail, Answer, IInv, ResultsOK
  <2> QED BY <2>1, ThrowKeeps
<1> QED BY <1>1, <1>2

-----------------------------------------------------------------------------
(* The invariant holds initially and every step keeps it.                  *)
LEMMA InitIInv == Init => IInv
<1> SUFFICES ASSUME Init PROVE IInv
  OBVIOUS
<1>1. Shaped(NoTables)
  BY DEF Shaped, NoTables, Fields, Bases
<1>2. OwnOK(NoTables) /\ PeersOK(NoTables) /\ NumbersOK(NoTables)
  BY DEF NoTables, OwnOK, PeersOK, NumbersOK
<1>3. LogOK(NoTables) /\ Adds(NoTables, NoTables)
  <2>1. ChainOK(NoTables)
    BY DEF NoTables, ChainOK, PrevAudit
  <2> QED BY <1>1, <1>2, <2>1, AddsNothing DEF LogOK
<1>4. CallOK
  BY CallShape DEF Init, CallOK
<1>5. AnswersOK(results, db)
  BY NoAnswers DEF Init
<1> QED BY <1>3, <1>4, <1>5 DEF Init, IInv, ResultsOK

LEMMA BeginKeeps ==
  ASSUME IInv, NEW step \in {"append", "ingest", "page", "refold"},
         NEW todo \in Seq(Items), Begin(step, todo), CallOK'
  PROVE  IInv' /\ Adds(disk, disk')
<1>1. disk' = disk /\ db' = db /\ results' = results /\ results = <<>>
  BY DEF Begin, IInv, ResultsOK, Idle
<1>2. Adds(disk, disk')
  BY <1>1, AddsNothing DEF IInv
<1> QED BY <1>1, <1>2 DEF IInv, ResultsOK

LEMMA StampedIsNew ==
  ASSUME IInv, NEW i \in Inputs, \A e \in ToSet(db.own) : e.id # i.id
  PROVE  Stamped(i) \in Made /\ NewAppend(db, Stamped(i))
<1> DEFINE prev == IF i.kind = "audit" THEN db.head ELSE None
<1>1. db.own \in Seq(Made) /\ db.head \in Ids \cup {None} /\ db.basis \in Bases
  BY DEF IInv, LogOK, Shaped
<1>2. Len(db.own) \in Nat /\ prev \in Ids \cup {None} /\ db.basis \in Bases
  BY <1>1
<1>3. Stamped(i) = EnvelopeOf(i, Len(db.own), prev, db.basis)
  BY DEF Stamped
<1> HIDE DEF prev
<1>4. Stamped(i) \in Made
  <2>1. \E j \in Inputs, lam \in Nat, p \in Ids \cup {None}, basis \in Bases :
          Stamped(i) = EnvelopeOf(j, lam, p, basis)
    <3> USE <1>2
    <3> WITNESS i \in Inputs, Len(db.own) \in Nat, prev \in Ids \cup {None}, db.basis \in Bases
    <3> QED BY <1>3
  <2> QED BY <2>1 DEF Made
<1>5. \A n \in DOMAIN db.own : db.own[n].id # i.id
  BY <1>1, InToSet
<1>6. /\ Stamped(i).lam = Len(db.own) /\ Stamped(i).id = i.id
      /\ Stamped(i).kind = "audit" => Stamped(i).prev = db.head
  BY <1>3 DEF EnvelopeOf, prev
<1> QED BY <1>4, <1>5, <1>6 DEF NewAppend

LEMMA RetryIsAgain ==
  ASSUME NEW i \in Inputs, NEW e \in Made, e.id = i.id
  PROVE  Retry(i, e) \in Made /\ Again(Retry(i, e), e)
<1>1. PICK j \in Inputs, lam \in Nat, prev \in Ids \cup {None}, basis \in Bases :
        e = EnvelopeOf(j, lam, prev, basis)
  BY DEF Made
<1>2. e.lam = lam /\ e.prev = prev /\ e.basis = basis
  BY <1>1 DEF EnvelopeOf
<1>3. Retry(i, e) = EnvelopeOf(i, lam, prev, basis)
  BY <1>2 DEF Retry
<1>4. Retry(i, e) \in Made
  BY <1>3 DEF Made
<1> QED BY <1>2, <1>3, <1>4 DEF Again, EnvelopeOf

LEMMA BeginAppendKeeps ==
  ASSUME IInv, NEW i \in Inputs, BeginAppend(i)
  PROVE  IInv' /\ Adds(disk, disk')
<1>1. PICK x : /\ Begin("append", <<[env |-> x, seq |-> None]>>)
               /\ x \in Made
               /\ NewAppend(db, x) \/ \E e \in ToSet(db.own) : Again(x, e)
  <2>1. CASE \A e \in ToSet(db.own) : e.id # i.id
    <3>1. Begin("append", <<[env |-> Stamped(i), seq |-> None]>>)
      BY <2>1 DEF BeginAppend
    <3> QED BY <2>1, <3>1, StampedIsNew
  <2>2. CASE ~ \A e \in ToSet(db.own) : e.id # i.id
    <3>1. PICK e \in ToSet(db.own) :
            e.id = i.id /\ Begin("append", <<[env |-> Retry(i, e), seq |-> None]>>)
      BY <2>2 DEF BeginAppend
    <3>2. e \in Made
      <4>1. db.own \in Seq(Made)
        BY DEF IInv, LogOK, Shaped
      <4> QED BY <4>1, InToSet
    <3> QED BY <3>1, <3>2, RetryIsAgain
  <2> QED BY <2>1, <2>2
<1> DEFINE item == [env |-> x, seq |-> None]
<1>2. <<item>> \in Seq(Items)
  BY <1>1 DEF Items
<1>3. Head(<<item>>) = item /\ Tail(<<item>>) = <<>>
  OBVIOUS
<1>4. call' = Call("append", <<item>>) /\ db' = db
  BY <1>1 DEF Begin
<1>5. CallOK'
  <2>1. /\ DOMAIN call' = {"step", "todo", "touched", "lead"}
        /\ call'.step = "append" /\ call'.todo = <<item>>
    BY <1>4 DEF Call
  <2>2. Item' = item
    BY <1>3, <2>1 DEF Item
  <2> QED BY <1>1, <1>2, <1>3, <1>4, <2>1, <2>2 DEF CallOK
<1> QED BY <1>1, <1>2, <1>5, BeginKeeps

LEMMA DeliveryKeeps ==
  ASSUME IInv, BeginIngest \/ BeginPage \/ AskRefold
  PROVE  IInv' /\ Adds(disk, disk')
<1>1. PICK step \in {"ingest", "page", "refold"}, todo \in Seq(Items) : Begin(step, todo)
  <2>1. CASE BeginIngest
    <3>1. PICK e \in Copies \cup ToSet(db.own), n \in Numbers \cup {None} :
            Begin("ingest", <<[env |-> e, seq |-> n]>>)
      BY <2>1 DEF BeginIngest
    <3>2. db.own \in Seq(Made)
      BY DEF IInv, LogOK, Shaped
    <3>3. ToSet(db.own) \subseteq Made
      BY <3>2, InToSet
    <3>4. <<[env |-> e, seq |-> n]>> \in Seq(Items)
      BY <3>3 DEF Items
    <3> QED BY <3>1, <3>4
  <2>2. CASE BeginPage
    <3>1. PICK page \in Pages : Begin("page", page)
      BY <2>2 DEF BeginPage
    <3>2. [env : Copies, seq : Numbers \cup {None}] \subseteq Items
      BY DEF Items
    <3>3. page \in Seq([env : Copies, seq : Numbers \cup {None}])
      BY PageAssumption
    <3>4. page \in Seq(Items)
      BY <3>2, <3>3, SeqMonotonic
    <3> QED BY <3>1, <3>4
  <2>3. CASE AskRefold
    <3>1. Begin("refold", <<>>) /\ <<>> \in Seq(Items)
      BY <2>3 DEF AskRefold
    <3> QED BY <3>1
  <2> QED BY <2>1, <2>2, <2>3
<1>2. CallOK'
  BY <1>1 DEF Begin, Call, CallOK
<1> QED BY <1>1, <1>2, BeginKeeps

(* What Insert adds to the log, and that it leaves the projections to the  *)
(* targeted writes.                                                        *)
LEMMA InsertsItem ==
  ASSUME IInv, Storing, Insertable(db, Item)
  PROVE  /\ Item \in Items
         /\ LogOK(Inserted(db, Item)) /\ Adds(db, Inserted(db, Item))
         /\ Ledger(Inserted(db, Item)) = Ledger(db) \cup {Item.env}
         /\ Item.seq # None => AlreadyHolds(Inserted(db, Item), Item.env.id, Item.seq)
         /\ Inserted(db, Item).rows = db.rows /\ Inserted(db, Item).parked = db.parked
<1> DEFINE e == Item.env
           t == Inserted(db, Item)
<1>1. LogOK(db) /\ call.todo # <<>>
  BY DEF IInv, Storing
<1>2. Item \in Items
  BY <1>1 DEF IInv, CallOK, Item
<1>3. /\ LogOK(t) /\ Adds(db, t) /\ Ledger(t) = Ledger(db) \cup {e}
      /\ Item.seq # None => AlreadyHolds(t, e.id, Item.seq)
  <2>1. CASE call.step = "append"
    <3>1. e \in Made /\ Item.seq = None
      BY <1>1, <2>1 DEF IInv, CallOK
    <3>2. \A f \in ToSet(db.own) : ~Again(e, f)
      BY DEF Insertable, Stored, Ledger, Again
    <3>3. NewAppend(db, e)
      BY <1>1, <2>1, <3>2 DEF IInv, CallOK
    <3> QED BY <1>1, <3>1, <3>3, AppendKeepsLog DEF NewAppend
  <2>2. CASE call.step # "append"
    <3>1. /\ Stored(db, e.id) = {} /\ e.dev # Me
          /\ \A f \in db.peers : <<f.dev, f.lam>> # <<e.dev, e.lam>>
          /\ Item.seq = None \/ Adoptable(db, e.id, Item.seq)
      BY <1>1, <2>2 DEF Insertable
    <3>2. e \in Copies
      BY <1>2, <3>1, MadeFromInput DEF Items
    <3> QED BY <1>1, <1>2, <3>1, <3>2, PeerKeepsLog
  <2> QED BY <2>1, <2>2
<1>4. t.rows = db.rows /\ t.parked = db.parked
  BY <1>1 DEF Inserted, WithNumber, LogOK, Shaped, Fields
<1> QED BY <1>2, <1>3, <1>4

LEMMA InsertKeeps ==
  ASSUME IInv, Insert
  PROVE  IInv' /\ Adds(disk, disk') /\ Ledger(db') = Ledger(db) \cup {Item.env}
<1> DEFINE x == Item
           e == Item.env
           t == Inserted(db, Item)
<1>1. Storing /\ Insertable(db, Item) /\ LogOK(db)
  BY DEF Insert, IInv
<1>3. /\ LogOK(t) /\ Adds(db, t) /\ Ledger(t) = Ledger(db) \cup {e}
      /\ Item.seq # None => AlreadyHolds(t, e.id, Item.seq)
  BY <1>1, InsertsItem
<1> HIDE DEF t
<1>4. PICK n : db' = Written(t, mem, n, e)
  BY DEF Insert, t
<1>5. /\ DOMAIN db' = Fields /\ db'.own = t.own /\ db'.peers = t.peers
      /\ db'.gseq = t.gseq /\ db'.head = t.head /\ db'.acked = t.acked
      /\ db'.basis = t.basis
  BY <1>3, <1>4 DEF Written, LogOK, Shaped, Fields
<1>6. t.acked \in Int /\ t.basis \in Bases
  BY <1>3 DEF LogOK, Shaped
<1>7. LogOK(db') /\ Adds(t, db') /\ Ledger(db') = Ledger(t)
  BY <1>3, <1>5, <1>6, LogUntouched
<1>8. Adds(db, db')
  BY <1>1, <1>3, <1>7, AddsTwice
<1>9. Answered([item |-> Item, ok |-> TRUE], db')
  BY <1>3, <1>5, <1>7 DEF Answered, AlreadyHolds
<1>10. /\ disk' = disk /\ Answer(TRUE) /\ DOMAIN call' = DOMAIN call
       /\ call'.step = call.step /\ call'.todo = Tail(call.todo)
  BY DEF Insert, IInv, CallOK
<1>11. IInv' /\ Adds(disk, disk')
  BY <1>1, <1>7, <1>8, <1>9, <1>10, ItemTaken
<1> QED BY <1>3, <1>7, <1>11

LEMMA DuplicateKeeps ==
  ASSUME IInv, Duplicate
  PROVE  IInv' /\ Adds(disk, disk') /\ Ledger(db') = Ledger(db)
<1>1. Storing /\ LogOK(db) /\ Held(db, Item)
  BY DEF Duplicate, IInv, Kept, Adopted
<1>2. Item.env \in Ledger(db)
  BY <1>1 DEF Held, Stored
<1>3. /\ LogOK(db') /\ Adds(db, db') /\ Ledger(db') = Ledger(db)
      /\ Item.seq # None => AlreadyHolds(db', Item.env.id, Item.seq)
  <2>1. CASE Kept(db, Item)
    BY <1>1, <2>1, AddsNothing DEF Duplicate, Kept
  <2>2. CASE ~Kept(db, Item)
    <3>1. Adopted(db, Item) /\ db' = WithNumber(db, Item.env.id, Item.seq)
      BY <2>2 DEF Duplicate
    <3>2. Item.env.id \in {e.id : e \in Ledger(db)} /\ Adoptable(db, Item.env.id, Item.seq)
      BY <1>2, <3>1 DEF Adopted
    <3> QED BY <1>1, <3>1, <3>2, NumberKeepsLog
  <2> QED BY <2>1, <2>2
<1>4. Answered([item |-> Item, ok |-> TRUE], db')
  BY <1>2, <1>3 DEF Answered
<1>5. /\ disk' = disk /\ Answer(TRUE) /\ DOMAIN call' = DOMAIN call
      /\ call'.step = call.step /\ call'.todo = Tail(call.todo)
  BY DEF Duplicate, IInv, CallOK
<1>6. IInv' /\ Adds(disk, disk')
  BY <1>1, <1>3, <1>4, <1>5, ItemTaken
<1> QED BY <1>3, <1>6

LEMMA RefoldKeeps ==
  ASSUME IInv, Refold
  PROVE  IInv' /\ Adds(disk, disk')
<1>1. LogOK(disk) /\ disk' = WriteFullTables(disk, mem') /\ db' = disk'
  BY DEF Refold, IInv
<1>2. LogOK(disk') /\ Adds(disk, disk')
  <2>1. /\ DOMAIN disk' = Fields /\ disk'.own = disk.own /\ disk'.peers = disk.peers
        /\ disk'.gseq = disk.gseq /\ disk'.head = disk.head
        /\ disk'.acked = disk.acked /\ disk'.basis = disk.basis
    BY <1>1 DEF WriteFullTables, LogOK, Shaped, Fields
  <2>2. disk.acked \in Int /\ disk.basis \in Bases
    BY <1>1 DEF LogOK, Shaped
  <2> QED BY <1>1, <2>1, <2>2, LogUntouched
<1>3. results' = <<>> /\ call' = Call("idle", <<>>)
  BY DEF Refold, IInv, ResultsOK
<1> QED BY <1>1, <1>2, <1>3, CallShape, Settled

LEMMA CommitKeeps ==
  ASSUME IInv, Commit
  PROVE  IInv' /\ Adds(disk, disk')
<1>1. LogOK(db) /\ Adds(disk, db) /\ disk' = db /\ db' = db /\ results' = <<>>
  BY DEF IInv, Commit
<1>2. PICK step \in {"idle", "refold"} : call' = Call(step, <<>>)
  BY DEF Commit
<1> QED BY <1>1, <1>2, CallShape, Settled

(* The calls that run in one statement or transaction of their own.        *)
LEMMA QuietKeeps ==
  ASSUME IInv, Idle, disk' = db', UNCHANGED <<call, results>>,
         LogOK(db'), Adds(db, db')
  PROVE  IInv' /\ Adds(disk, disk')
<1>1. LogOK(disk') /\ results' = <<>>
  BY DEF IInv, ResultsOK, Idle
<1>2. /\ DOMAIN call' = {"step", "todo", "touched", "lead"}
      /\ call'.step = "idle" /\ call'.todo \in Seq(Items)
  BY DEF IInv, CallOK, Idle
<1>3. Adds(disk, disk')
  <2>1. LogOK(disk) /\ LogOK(db) /\ Adds(disk, db)
    BY DEF IInv
  <2> QED BY <2>1, AddsTwice
<1> QED BY <1>1, <1>2, <1>3, Settled

LEMMA RetentionKeeps ==
  ASSUME IInv, NEW keys, RetentionDrop(keys)
  PROVE  IInv' /\ Adds(disk, disk')
<1>1. LogOK(db) /\ db.acked \in Int /\ db.basis \in Bases /\ DOMAIN db = Fields
  BY DEF IInv, LogOK, Shaped
<1>2. PICK rows, parked : db' = [db EXCEPT !.rows = rows, !.parked = parked]
  BY DEF RetentionDrop
<1>3. LogOK(db') /\ Adds(db, db')
  <2>1. /\ DOMAIN db' = Fields /\ db'.own = db.own /\ db'.peers = db.peers
        /\ db'.gseq = db.gseq /\ db'.head = db.head
        /\ db'.acked = db.acked /\ db'.basis = db.basis
    BY <1>1, <1>2 DEF Fields
  <2> QED BY <1>1, <2>1, LogUntouched
<1> QED BY <1>3, QuietKeeps DEF RetentionDrop

LEMMA AdvanceKeeps ==
  ASSUME IInv, AdvanceTo
  PROVE  IInv' /\ Adds(disk, disk')
<1>1. /\ LogOK(db) /\ db.acked \in Int /\ db.basis \in Bases /\ DOMAIN db = Fields
      /\ Len(db.own) \in Nat
  BY DEF IInv, LogOK, Shaped
<1>2. PICK w \in 0..(Len(db.own) - 1) : w > db.acked /\ db' = [db EXCEPT !.acked = w]
  BY DEF AdvanceTo
<1>3. LogOK(db') /\ Adds(db, db')
  <2>1. /\ DOMAIN db' = Fields /\ db'.own = db.own /\ db'.peers = db.peers
        /\ db'.gseq = db.gseq /\ db'.head = db.head
        /\ db'.acked = w /\ db'.basis = db.basis
    BY <1>1, <1>2 DEF Fields
  <2>2. w \in Int /\ db.acked <= w
    BY <1>1, <1>2
  <2> QED BY <1>1, <2>1, <2>2, LogUntouched
<1> QED BY <1>3, QuietKeeps DEF AdvanceTo

LEMMA OffsetKeeps ==
  ASSUME IInv, SetBranchTimeOffset
  PROVE  IInv' /\ Adds(disk, disk')
<1>1. LogOK(db) /\ db.acked \in Int /\ DOMAIN db = Fields
  BY DEF IInv, LogOK, Shaped
<1>2. LogOK(db') /\ Adds(db, db')
  <2>1. /\ DOMAIN db' = Fields /\ db'.own = db.own /\ db'.peers = db.peers
        /\ db'.gseq = db.gseq /\ db'.head = db.head
        /\ db'.acked = db.acked /\ db'.basis = "branch"
    BY <1>1 DEF SetBranchTimeOffset, Fields
  <2>2. db'.basis \in Bases
    BY <2>1 DEF Bases
  <2> QED BY <1>1, <2>1, <2>2, LogUntouched
<1> QED BY <1>2, QuietKeeps DEF SetBranchTimeOffset

LEMMA CrashKeeps ==
  ASSUME IInv, Crash
  PROVE  IInv' /\ Adds(disk, disk')
<1>1. LogOK(disk) /\ disk' = disk /\ db' = disk'
  BY DEF IInv, Crash
<1> QED BY <1>1, AddsNothing, CallShape, Settled DEF Crash

LEMMA RefoldFailsKeeps ==
  ASSUME IInv, RefoldFails
  PROVE  IInv' /\ Adds(disk, disk')
<1>1. disk' = disk /\ db' = db /\ results' = results /\ results = <<>>
  BY DEF IInv, RefoldFails, ResultsOK
<1>2. CallOK'
  BY CallShape DEF RefoldFails, CallOK
<1> QED BY <1>1, <1>2, AddsNothing DEF IInv, ResultsOK

LEMMA NextIInv == IInv /\ [Next]_vars => IInv' /\ Adds(disk, disk')
<1> SUFFICES ASSUME IInv, [Next]_vars PROVE IInv' /\ Adds(disk, disk')
  OBVIOUS
<1>1. ASSUME NEW i \in Inputs, BeginAppend(i) PROVE IInv' /\ Adds(disk, disk')
  BY <1>1, BeginAppendKeeps
<1>2. CASE BeginIngest \/ BeginPage \/ AskRefold
  BY <1>2, DeliveryKeeps
<1>3. CASE Insert
  BY <1>3, InsertKeeps
<1>4. CASE Duplicate
  BY <1>4, DuplicateKeeps
<1>5. CASE Refuse
  BY <1>5, FailKeeps DEF Refuse
<1>6. CASE FaultBeforeFold
  BY <1>6, FailKeeps DEF FaultBeforeFold
<1>7. CASE FaultAfterFold
  BY <1>7, FailKeeps DEF FaultAfterFold
<1>8. CASE Commit
  BY <1>8, CommitKeeps
<1>9. CASE CommitFails
  BY <1>9, ThrowKeeps DEF CommitFails
<1>10. CASE Refold
  BY <1>10, RefoldKeeps
<1>11. CASE RefoldFails
  BY <1>11, RefoldFailsKeeps
<1>12. ASSUME NEW keys \in Drops, RetentionDrop(keys) PROVE IInv' /\ Adds(disk, disk')
  BY <1>12, RetentionKeeps
<1>13. CASE AdvanceTo
  BY <1>13, AdvanceKeeps
<1>14. CASE SetBranchTimeOffset
  BY <1>14, OffsetKeeps
<1>15. CASE Crash
  BY <1>15, CrashKeeps
<1>16. CASE UNCHANGED vars
  <2>1. UNCHANGED <<disk, db, call, results>>
    BY <1>16 DEF vars
  <2> QED BY <2>1, AddsNothing DEF IInv, CallOK, ResultsOK, Item
<1> QED
  BY <1>1, <1>2, <1>3, <1>4, <1>5, <1>6, <1>7, <1>8, <1>9, <1>10, <1>11, <1>12,
     <1>13, <1>14, <1>15, <1>16 DEF Next

-----------------------------------------------------------------------------
(* The theorems.                                                           *)
(* The invariant above, of every reachable state of the store.             *)
THEOREM StoreInvariant == Spec => []IInv
<1> QED BY InitIInv, NextIInv, PTL DEF Spec

LEMMA IInvIsSound == IInv => LogIsSound
<1> SUFFICES ASSUME IInv PROVE LogIsSound
  OBVIOUS
<1>1. Shaped(db) /\ OwnOK(db) /\ PeersOK(db) /\ NumbersOK(db)
  BY DEF IInv, LogOK
<1>2. ASSUME NEW e \in Ledger(db), NEW f \in Ledger(db), e.id = f.id
      PROVE  e = f
  <2>1. db.own \in Seq(Made) /\ db.peers \subseteq Copies
    BY <1>1 DEF Shaped
  <2>2. \A y \in ToSet(db.own) : y \in Made /\ \E n \in DOMAIN db.own : db.own[n] = y
    BY <2>1, InToSet
  <2>3. \A y \in ToSet(db.own), c \in db.peers : y.id # c.id
    BY <2>1, <2>2, CopyAssumption, MadeFromInput
  <2>4. CASE e \in ToSet(db.own) /\ f \in ToSet(db.own)
    BY <1>1, <1>2, <2>2, <2>4 DEF OwnOK
  <2>5. CASE e \in db.peers /\ f \in db.peers
    BY <1>1, <1>2, <2>5 DEF PeersOK
  <2> QED BY <1>2, <2>3, <2>4, <2>5 DEF Ledger
<1>3. \A e, f \in db.peers : <<e.dev, e.lam>> = <<f.dev, f.lam>> => e = f
  BY <1>1 DEF PeersOK
<1>4. /\ \A n \in DOMAIN db.own : db.own[n].lam = n - 1
      /\ \A i, j \in DOMAIN db.gseq : db.gseq[i] = db.gseq[j] => i = j
      /\ DOMAIN db.gseq \subseteq {e.id : e \in Ledger(db)}
  BY <1>1 DEF OwnOK, NumbersOK
<1> QED BY <1>2, <1>3, <1>4 DEF LogIsSound

(* The log a merge relies on: own lamports without a gap, one event per id *)
(* and per device and lamport, one number per event and one event per      *)
(* number, through every failure, rollback and restart of ingestTx and     *)
(* appendTx (01-F3, 01-F8).                                                *)
THEOREM LogStaysSound == Spec => []LogIsSound
<1> QED BY StoreInvariant, IInvIsSound, PTL

(* This device's audit events are one chain, each stamped with the one     *)
(* before it, and the stored head is the last of them, through retries,    *)
(* failed statements, rolled back transactions and restarts (01-F5).       *)
THEOREM AuditStaysChained == Spec => []AuditChainUnbroken
<1>1. IInv => AuditChainUnbroken
  BY DEF IInv, LogOK, ChainOK, AuditChainUnbroken
<1> QED BY <1>1, StoreInvariant, PTL

(* No committed event is changed, removed or moved, no committed number is *)
(* reassigned, and the cloud's checkpoint does not move back, whatever the *)
(* store is asked to do (01-F1).                                           *)
THEOREM CommittedNeverMoves == Spec => CommittedStays
<1> DEFINE Stays ==
      /\ IsPrefix(disk.own, disk'.own)
      /\ disk.peers \subseteq disk'.peers
      /\ \A i \in DOMAIN disk.gseq : i \in DOMAIN disk'.gseq /\ disk'.gseq[i] = disk.gseq[i]
      /\ disk.acked <= disk'.acked
<1>1. IInv /\ [Next]_vars => [Stays]_disk
  <2> SUFFICES ASSUME IInv, [Next]_vars PROVE Stays
    OBVIOUS
  <2>1. LogOK(disk) /\ LogOK(disk') /\ Adds(disk, disk')
    BY NextIInv DEF IInv
  <2>2. disk.own \in Seq(Made) /\ disk'.own \in Seq(Made)
    BY <2>1 DEF LogOK, Shaped
  <2>3. /\ Len(disk.own) <= Len(disk'.own)
        /\ \A n \in 1..Len(disk.own) : disk'.own[n] = disk.own[n]
    BY <2>1 DEF Adds
  <2>4. IsPrefix(disk.own, disk'.own)
    BY <2>2, <2>3, AddsIsPrefix
  <2> QED BY <2>1, <2>4 DEF Adds
<1> HIDE DEF Stays
<1>2. Spec => [][Stays]_disk
  BY <1>1, StoreInvariant, PTL DEF Spec
<1> QED BY <1>2, PTL DEF CommittedStays, Stays

(* What a page answers as landed is in the log it commits, with the number *)
(* it carried: ingestPage's answers hold for every fate of the items       *)
(* around them, and the cloud session's cursor moves over exactly these.   *)
THEOREM AnswersAreCommitted == Spec => LandedIsCommitted
<1> DEFINE Landing == Commit => \A r \in ToSet(results) : r.ok =>
             /\ r.item.env \in Ledger(disk')
             /\ r.item.seq # None => AlreadyHolds(disk', r.item.env.id, r.item.seq)
<1>1. IInv => Landing
  <2> SUFFICES ASSUME IInv, Commit PROVE \A r \in ToSet(results) : r.ok =>
               /\ r.item.env \in Ledger(disk')
               /\ r.item.seq # None => AlreadyHolds(disk', r.item.env.id, r.item.seq)
    OBVIOUS
  <2>1. disk' = db /\ AnswersOK(results, db)
    BY DEF IInv, ResultsOK, Commit
  <2>2. \A r \in ToSet(results) : \E n \in 1..Len(results) : results[n] = r
    BY <2>1, InToSet DEF AnswersOK
  <2> QED BY <2>1, <2>2 DEF AnswersOK, Answered
<1> HIDE DEF Landing
<1>2. Spec => [][Landing]_vars
  BY <1>1, StoreInvariant, PTL
<1> QED BY <1>2, PTL DEF LandedIsCommitted, Landing

-----------------------------------------------------------------------------
(* The projections.  A rebuild folds the events of the log one by one, in  *)
(* an order nobody fixes; folding one more event into what a replay of a   *)
(* set gives is a replay of the larger set.                                *)
FoldOne(m, e) == Booked(Folded(m, e), e)

LiveIn(E, m) == {e \in E : e.kind \notin {"audit", "cash"} /\ e.key \notin m.orders}
UnbornIn(E, m) == {e \in LiveIn(E, m) : e.kind \in Parking /\ ~HasCreate(E, e.key)}
FactsIn(E, m) == {e \in LiveIn(E, m) \ UnbornIn(E, m) : e.kind # "ticket" /\ ~Retired(m, e)}

MemoryFields == {"facts", "waiting", "books", "orders", "lines"}

Replays(m, E) ==
  /\ m.facts = FactsIn(E, m)
  /\ m.waiting = UnbornIn(E, m)
  /\ m.books = {e \in E : e.kind # "audit"}

LEMMA FoldShape ==
  ASSUME NEW m, DOMAIN m = MemoryFields, NEW e
  PROVE  /\ DOMAIN Folded(m, e) = MemoryFields /\ DOMAIN FoldOne(m, e) = MemoryFields
         /\ Folded(m, e).orders = m.orders /\ FoldOne(m, e).orders = m.orders
         /\ Folded(m, e).lines = m.lines /\ FoldOne(m, e).lines = m.lines
         /\ Folded(m, e).books = m.books
         /\ FoldOne(m, e).facts = Folded(m, e).facts
         /\ FoldOne(m, e).waiting = Folded(m, e).waiting
         /\ FoldOne(m, e).books = IF e.kind = "audit" THEN m.books ELSE m.books \cup {e}
         /\ Untouched(m, e) => Folded(m, e) = m
         /\ ~Untouched(m, e) /\ Waits(m, e) =>
              /\ Folded(m, e).facts = m.facts
              /\ Folded(m, e).waiting = m.waiting \cup {e}
         /\ ~Untouched(m, e) /\ ~Waits(m, e) =>
              /\ Folded(m, e).facts = m.facts \cup Effective(m, e)
              /\ Folded(m, e).waiting = m.waiting \ Drained(m, e)
BY DEF Folded, Booked, FoldOne, MemoryFields

LEMMA FoldReplays ==
  ASSUME NEW m, DOMAIN m = MemoryFields, NEW E, Replays(m, E), NEW e
  PROVE  Replays(FoldOne(m, e), E \cup {e})
<1> DEFINE n == FoldOne(m, e)
           F == E \cup {e}
<1>1. ASSUME NEW k, k \notin m.orders
      PROVE  HasCreate(m.facts, k) <=> HasCreate(E, k)
  <2>1. \A f : f \in m.facts /\ f.kind = "create" /\ f.key = k
               <=> f \in E /\ f.kind = "create" /\ f.key = k
    <3>1. \A f : f \in m.facts <=> f \in FactsIn(E, m)
      BY DEF Replays
    <3> QED BY <1>1, <3>1 DEF FactsIn, UnbornIn, LiveIn, Parking, Retired
  <2> QED BY <2>1 DEF HasCreate
<1>2. n.orders = m.orders /\ n.lines = m.lines
  BY FoldShape
<1>3. n.books = {x \in F : x.kind # "audit"}
  <2>1. n.books = IF e.kind = "audit" THEN m.books ELSE m.books \cup {e}
    BY FoldShape, ZenonT(60)
  <2>2. m.books = {x \in E : x.kind # "audit"}
    BY DEF Replays
  <2> HIDE DEF n
  <2> QED BY <2>1, <2>2
<1>4. /\ n.facts = Folded(m, e).facts /\ n.waiting = Folded(m, e).waiting
  BY FoldShape, ZenonT(60)
<1> HIDE DEF n, F
<1>5. LiveIn(F, n) = LiveIn(F, m) /\ UnbornIn(F, n) = UnbornIn(F, m) /\ FactsIn(F, n) = FactsIn(F, m)
  BY <1>2 DEF LiveIn, UnbornIn, FactsIn, Retired
<1> SUFFICES n.facts = FactsIn(F, m) /\ n.waiting = UnbornIn(F, m)
  BY <1>3, <1>5 DEF Replays, n, F
<1>6. CASE Untouched(m, e)
  <2>1. LiveIn(F, m) = LiveIn(E, m)
    BY <1>6 DEF LiveIn, Untouched, F
  <2>2. \A x \in LiveIn(E, m) : HasCreate(F, x.key) <=> HasCreate(E, x.key)
    BY <1>6 DEF HasCreate, LiveIn, Untouched, F
  <2>3. UnbornIn(F, m) = UnbornIn(E, m)
    BY <2>1, <2>2 DEF UnbornIn
  <2>4. FactsIn(F, m) = FactsIn(E, m)
    BY <2>1, <2>3 DEF FactsIn
  <2>5. Folded(m, e) = m
    BY <1>6, FoldShape
  <2> QED BY <1>4, <2>3, <2>4, <2>5 DEF Replays
<1>7. CASE ~Untouched(m, e) /\ Waits(m, e)
  <2>1. LiveIn(F, m) = LiveIn(E, m) \cup {e}
    BY <1>7 DEF LiveIn, Untouched, F
  <2>2. \A k : HasCreate(F, k) <=> HasCreate(E, k)
    BY <1>7 DEF HasCreate, Waits, Parking, F
  <2>3. ~HasCreate(E, e.key) /\ e.kind \in Parking
    BY <1>1, <1>7 DEF Waits, Untouched
  <2>4. UnbornIn(F, m) = UnbornIn(E, m) \cup {e}
    BY <2>1, <2>2, <2>3 DEF UnbornIn
  <2>5. FactsIn(F, m) = FactsIn(E, m)
    BY <2>1, <2>2, <2>3 DEF FactsIn, UnbornIn
  <2>6. Folded(m, e).facts = m.facts /\ Folded(m, e).waiting = m.waiting \cup {e}
    BY <1>7, FoldShape
  <2> QED BY <1>4, <2>4, <2>5, <2>6 DEF Replays
<1>8. CASE ~Untouched(m, e) /\ ~Waits(m, e)
  <2>1. LiveIn(F, m) = LiveIn(E, m) \cup {e}
    BY <1>8 DEF LiveIn, Untouched, F
  <2>2. \A k : HasCreate(F, k) <=> HasCreate(E, k) \/ (e.kind = "create" /\ k = e.key)
    BY DEF HasCreate, F
  <2>3. e \notin UnbornIn(F, m)
    BY <1>1, <1>8, <2>2 DEF Waits, Untouched, UnbornIn
  <2>4. UnbornIn(F, m) = UnbornIn(E, m) \ Drained(m, e)
    <3>1. Drained(m, e) = {w \in UnbornIn(E, m) : e.kind = "create" /\ w.key = e.key}
      BY DEF Drained, Replays
    <3> QED BY <2>1, <2>2, <2>3, <3>1 DEF UnbornIn
  <2>5. FactsIn(F, m) = FactsIn(E, m) \cup Effective(m, e)
    <3>1. Drained(m, e) = {w \in UnbornIn(E, m) : e.kind = "create" /\ w.key = e.key}
      BY DEF Drained, Replays
    <3>2. ASSUME NEW x \in FactsIn(F, m) PROVE x \in FactsIn(E, m) \cup Effective(m, e)
      BY <2>1, <2>4, <3>1 DEF FactsIn, Effective, Inert, LiveIn
    <3>3. ASSUME NEW x \in Effective(m, e) PROVE x \in FactsIn(F, m)
      <4>1. x \in {e} \cup Drained(m, e) /\ x.kind \notin Inert /\ ~Retired(m, x)
        BY <3>3 DEF Effective
      <4>2. x \in LiveIn(F, m) /\ x \notin UnbornIn(F, m)
        BY <2>1, <2>3, <2>4, <3>1, <4>1 DEF UnbornIn
      <4> QED BY <4>1, <4>2 DEF FactsIn, Inert
    <3>4. FactsIn(E, m) \subseteq FactsIn(F, m)
      BY <2>1, <2>4, <2>3 DEF FactsIn
    <3> QED BY <3>2, <3>3, <3>4
  <2>6. /\ Folded(m, e).facts = m.facts \cup Effective(m, e)
        /\ Folded(m, e).waiting = m.waiting \ Drained(m, e)
    BY <1>8, FoldShape
  <2> QED BY <1>4, <2>4, <2>5, <2>6 DEF Replays
<1> QED BY <1>6, <1>7, <1>8

(* f gives, for every subset of S, what folding it into base leaves.       *)
IsFoldOf(f, base, S) ==
  f = [s \in SUBSET S |-> IF s = {} THEN base ELSE FoldOne(f[s \ {Some(s)}], Some(s))]

FoldOf(base, S) == (CHOOSE f : IsFoldOf(f, base, S))[S]

LEMMA FoldsAgree ==
  ASSUME NEW base, NEW S, NEW T, NEW A, A \subseteq S, A \subseteq T, IsFiniteSet(A),
         NEW f, IsFoldOf(f, base, S), NEW g, IsFoldOf(g, base, T)
  PROVE  f[A] = g[A]
<1> DEFINE D == {U \in SUBSET A : f[U] # g[U]}
<1>1. SUFFICES ASSUME D # {} PROVE FALSE
  OBVIOUS
<1>2. PICK U \in D : \A V \in D : V \subseteq U => V = U
  <2>1. D \in SUBSET SUBSET A
    OBVIOUS
  <2> HIDE DEF D
  <2> QED BY <1>1, <2>1, MinimalSet
<1>3. U \subseteq A /\ f[U] # g[U]
  OBVIOUS
<1>4. CASE U = {}
  BY <1>3, <1>4 DEF IsFoldOf
<1>5. CASE U # {}
  <2> DEFINE V == U \ {Some(U)}
  <2>1. V \subseteq U /\ V # U
    BY <1>5, SomeIsIn
  <2>2. f[V] = g[V]
    BY <1>2, <1>3, <2>1
  <2>3. f[U] = FoldOne(f[V], Some(U)) /\ g[U] = FoldOne(g[V], Some(U))
    BY <1>3, <1>5 DEF IsFoldOf
  <2> QED BY <1>3, <2>2, <2>3
<1> QED BY <1>4, <1>5

LEMMA FoldsExist ==
  ASSUME NEW base, NEW S, IsFiniteSet(S)
  PROVE  \E f : IsFoldOf(f, base, S)
<1> DEFINE D == {U \in SUBSET S : ~ \E f : IsFoldOf(f, base, U)}
           G(V) == CHOOSE f : IsFoldOf(f, base, V)
<1>1. SUFFICES ASSUME D # {} PROVE FALSE
  OBVIOUS
<1>2. PICK U \in D : \A V \in D : V \subseteq U => V = U
  <2>1. D \in SUBSET SUBSET S
    OBVIOUS
  <2> HIDE DEF D
  <2> QED BY <1>1, <2>1, MinimalSet
<1>3. \A V \in SUBSET U : V # U => IsFoldOf(G(V), base, V) /\ IsFiniteSet(V)
  BY <1>2, FS_Subset
<1> HIDE DEF G
<1> DEFINE h == [s \in SUBSET U |-> IF s = {} THEN base
                                    ELSE FoldOne(G(s \ {Some(s)})[s \ {Some(s)}], Some(s))]
<1>4. ASSUME NEW V \in SUBSET U, V # U
      PROVE  h[V] = G(V)[V]
  <2>1. CASE V = {}
    BY <1>3, <1>4, <2>1 DEF IsFoldOf
  <2>2. CASE V # {}
    <3> DEFINE W == V \ {Some(V)}
    <3>1. W \subseteq V /\ W \subseteq U /\ W # U
      BY <1>4, <2>2, SomeIsIn
    <3>2. G(V)[V] = FoldOne(G(V)[W], Some(V))
      BY <1>3, <1>4, <2>2 DEF IsFoldOf
    <3>3. IsFoldOf(G(V), base, V) /\ IsFoldOf(G(W), base, W) /\ IsFiniteSet(W)
      BY <1>3, <1>4, <3>1
    <3>4. G(V)[W] = G(W)[W]
      BY <3>1, <3>3, FoldsAgree
    <3>5. h[V] = FoldOne(G(W)[W], Some(V))
      BY <2>2
    <3> QED BY <3>2, <3>4, <3>5
  <2> QED BY <2>1, <2>2
<1>5. ASSUME NEW s \in SUBSET U, s # {}
      PROVE  h[s] = FoldOne(h[s \ {Some(s)}], Some(s))
  <2>1. s \ {Some(s)} \in SUBSET U /\ s \ {Some(s)} # U
    BY <1>5, SomeIsIn
  <2>2. h[s \ {Some(s)}] = G(s \ {Some(s)})[s \ {Some(s)}]
    BY <2>1, <1>4
  <2>3. h[s] = FoldOne(G(s \ {Some(s)})[s \ {Some(s)}], Some(s))
    BY <1>5
  <2> QED BY <2>2, <2>3
<1>6. h[{}] = base /\ h = [s \in SUBSET U |-> h[s]]
  OBVIOUS
<1> HIDE DEF h
<1>7. IsFoldOf(h, base, U)
  BY <1>5, <1>6 DEF IsFoldOf
<1> QED BY <1>2, <1>7

(* Folding a finite set of events, one by one, is replaying it.            *)
LEMMA FoldIsReplay ==
  ASSUME NEW base, DOMAIN base = MemoryFields, Replays(base, {}),
         NEW S, IsFiniteSet(S)
  PROVE  /\ DOMAIN FoldOf(base, S) = MemoryFields
         /\ FoldOf(base, S).orders = base.orders /\ FoldOf(base, S).lines = base.lines
         /\ Replays(FoldOf(base, S), S)
<1> DEFINE f == CHOOSE g : IsFoldOf(g, base, S)
           Right(m, U) == /\ DOMAIN m = MemoryFields
                          /\ m.orders = base.orders /\ m.lines = base.lines
                          /\ Replays(m, U)
           D == {U \in SUBSET S : ~Right(f[U], U)}
<1>1. IsFoldOf(f, base, S)
  BY FoldsExist
<1> HIDE DEF f
<1>2. ASSUME D # {} PROVE FALSE
  <2>1. PICK U \in D : \A V \in D : V \subseteq U => V = U
    <3>1. D \in SUBSET SUBSET S
      OBVIOUS
    <3> HIDE DEF D
    <3> QED BY <1>2, <3>1, MinimalSet
  <2>2. U \in SUBSET S /\ ~Right(f[U], U)
    OBVIOUS
  <2>3. U # {}
    BY <1>1, <2>2 DEF IsFoldOf
  <2> DEFINE V == U \ {Some(U)}
  <2>4. V \in SUBSET S /\ V \notin D /\ U = V \cup {Some(U)}
    BY <2>1, <2>2, <2>3, SomeIsIn
  <2>5. f[U] = FoldOne(f[V], Some(U))
    BY <1>1, <2>2, <2>3 DEF IsFoldOf
  <2>6. Right(f[V], V)
    BY <2>4
  <2> HIDE DEF V
  <2>7. Right(FoldOne(f[V], Some(U)), V \cup {Some(U)})
    <3> DEFINE m == f[V]
               e == Some(U)
    <3>1. Right(m, V)
      BY <2>6
    <3> HIDE DEF m, e
    <3>2. /\ DOMAIN FoldOne(m, e) = MemoryFields
          /\ FoldOne(m, e).orders = m.orders /\ FoldOne(m, e).lines = m.lines
      BY <3>1, FoldShape
    <3>3. Replays(FoldOne(m, e), V \cup {e})
      BY <3>1, FoldReplays
    <3>4. Right(FoldOne(m, e), V \cup {e})
      BY <3>1, <3>2, <3>3
    <3> QED BY <3>4 DEF m, e
  <2> QED BY <2>2, <2>4, <2>5, <2>7
<1>3. Right(f[S], S)
  BY <1>2
<1> QED BY <1>3 DEF FoldOf, f

(* So a rebuild is a replay of the log, and what was dropped stays so.     *)
LEMMA RebuiltReplays ==
  ASSUME NEW d, IsFiniteSet(Ledger(d)), NEW m
  PROVE  /\ DOMAIN Rebuilt(d, m) = MemoryFields
         /\ Rebuilt(d, m).orders = m.orders /\ Rebuilt(d, m).lines = m.lines
         /\ Replays(Rebuilt(d, m), Ledger(d))
<1> DEFINE base == [NoMemory EXCEPT !.orders = m.orders, !.lines = m.lines]
<1>1. Rebuilt(d, m) = FoldOf(base, Ledger(d))
  BY DEF Rebuilt, FoldSet, MapThenFoldSet, FoldOf, IsFoldOf, FoldOne, Some
<1>2. /\ DOMAIN base = MemoryFields /\ base.orders = m.orders /\ base.lines = m.lines
      /\ base.facts = {} /\ base.waiting = {} /\ base.books = {}
  BY DEF NoMemory, MemoryFields
<1> HIDE DEF base
<1>3. Replays(base, {})
  BY <1>2 DEF Replays, FactsIn, UnbornIn, LiveIn
<1> QED BY <1>1, <1>2, <1>3, FoldIsReplay

-----------------------------------------------------------------------------
(* What was dropped stays gone: no fact or waiting event in memory and no  *)
(* row or parked event of either view of the tables is of a dropped order  *)
(* or line.  Only a line's event carries a line, so retiring lines drops   *)
(* nothing else.                                                           *)
LineOK(e) == e.kind = "line" <=> e.line # None

CleanIn(m) ==
  /\ DOMAIN m = MemoryFields
  /\ m.orders \subseteq Keys
  /\ \A l \in m.lines : l = <<l[1], l[2]>> /\ l[1] \in Keys /\ l[2] # None
  /\ \A f \in m.facts : f.key \notin m.orders /\ <<f.key, f.line>> \notin m.lines /\ LineOK(f)
  /\ \A w \in m.waiting : w.key \notin m.orders /\ w.kind \in Parking /\ LineOK(w)

HiddenIn(d, m) ==
  /\ DOMAIN d.rows = Keys /\ d.rows = [k \in Keys |-> d.rows[k]]
  /\ \A o \in m.orders : d.rows[o] = {} /\ \A w \in d.parked : w.key # o
  /\ \A l \in m.lines : \A f \in d.rows[l[1]] : f.line # l[2]

DropInv == CleanIn(mem) /\ HiddenIn(disk, mem) /\ HiddenIn(db, mem)

LEMMA ItemLine == ASSUME NEW x \in Items PROVE LineOK(x.env)
<1>1. CASE x.env \in Made
  BY <1>1, MadeFromInput, CopyAssumption DEF LineOK
<1>2. CASE x.env \in Copies
  BY <1>2, CopyAssumption DEF LineOK
<1> QED BY <1>1, <1>2 DEF Items

LEMMA CleanSame ==
  ASSUME NEW m, CleanIn(m), NEW n, DOMAIN n = MemoryFields,
         n.orders = m.orders, n.lines = m.lines,
         \A f \in n.facts : f \in m.facts
            \/ (f.key \notin m.orders /\ <<f.key, f.line>> \notin m.lines /\ LineOK(f)),
         \A w \in n.waiting : w \in m.waiting
            \/ (w.key \notin m.orders /\ w.kind \in Parking /\ LineOK(w))
  PROVE  CleanIn(n)
<1>1. ASSUME NEW f \in n.facts
      PROVE  f.key \notin m.orders /\ <<f.key, f.line>> \notin m.lines /\ LineOK(f)
  BY DEF CleanIn
<1>2. ASSUME NEW w \in n.waiting
      PROVE  w.key \notin m.orders /\ w.kind \in Parking /\ LineOK(w)
  BY DEF CleanIn
<1>3. /\ m.orders \subseteq Keys
      /\ \A l \in m.lines : l = <<l[1], l[2]>> /\ l[1] \in Keys /\ l[2] # None
  BY DEF CleanIn
<1> QED BY <1>1, <1>2, <1>3 DEF CleanIn

LEMMA FoldClean ==
  ASSUME NEW m, CleanIn(m), NEW e, LineOK(e)
  PROVE  CleanIn(Folded(m, e)) /\ CleanIn(FoldOne(m, e))
<1> DEFINE n == Folded(m, e)
<1>0. DOMAIN m = MemoryFields
  BY DEF CleanIn
<1>1. /\ DOMAIN n = MemoryFields /\ n.orders = m.orders /\ n.lines = m.lines
      /\ DOMAIN FoldOne(m, e) = MemoryFields /\ FoldOne(m, e).orders = m.orders
      /\ FoldOne(m, e).lines = m.lines
      /\ FoldOne(m, e).facts = n.facts /\ FoldOne(m, e).waiting = n.waiting
  BY <1>0, FoldShape, ZenonT(60)
<1>2. /\ \A f \in n.facts : f \in m.facts
            \/ (f.key \notin m.orders /\ <<f.key, f.line>> \notin m.lines /\ LineOK(f))
      /\ \A w \in n.waiting : w \in m.waiting
            \/ (w.key \notin m.orders /\ w.kind \in Parking /\ LineOK(w))
  <2>1. CASE Untouched(m, e)
    <3>1. n = m
      BY <1>0, <2>1, FoldShape
    <3> QED BY <3>1
  <2>2. CASE ~Untouched(m, e) /\ Waits(m, e)
    <3>1. n.facts = m.facts /\ n.waiting = m.waiting \cup {e}
      BY <1>0, <2>2, FoldShape
    <3>2. e.key \notin m.orders /\ e.kind \in Parking
      BY <2>2 DEF Untouched, Waits
    <3> HIDE DEF n
    <3> QED BY <3>1, <3>2
  <2>3. CASE ~Untouched(m, e) /\ ~Waits(m, e)
    <3>1. n.facts = m.facts \cup Effective(m, e) /\ n.waiting = m.waiting \ Drained(m, e)
      BY <1>0, <2>3, FoldShape
    <3>2. ASSUME NEW f \in Effective(m, e)
          PROVE  f.key \notin m.orders /\ <<f.key, f.line>> \notin m.lines /\ LineOK(f)
      <4>1. LineOK(f) /\ f.key = e.key /\ ~Retired(m, f)
        BY <3>2 DEF Effective, Drained, CleanIn
      <4>2. ASSUME <<f.key, f.line>> \in m.lines PROVE FALSE
        <5>1. f.line # None
          BY <4>2 DEF CleanIn
        <5> QED BY <4>1, <4>2, <5>1 DEF LineOK, Retired
      <4> QED BY <2>3, <4>1, <4>2 DEF Untouched
    <3> HIDE DEF n
    <3> QED BY <3>1, <3>2
  <2> QED BY <2>1, <2>2, <2>3
<1> HIDE DEF n
<1>3. CleanIn(n)
  BY <1>1, <1>2, CleanSame
<1>4. CleanIn(FoldOne(m, e))
  BY <1>1, <1>2, CleanSame
<1> QED BY <1>3, <1>4 DEF n

LEMMA WrittenShape ==
  ASSUME NEW d, DOMAIN d = Fields, DOMAIN d.rows = Keys, NEW m, NEW n, NEW e
  PROVE  /\ Written(d, m, n, e).parked
              = (d.parked \cup (n.waiting \ m.waiting)) \ (m.waiting \ n.waiting)
         /\ DOMAIN Written(d, m, n, e).rows = Keys
         /\ Ledger(Written(d, m, n, e)) = Ledger(d)
         /\ d.rows = [k \in Keys |-> d.rows[k]] =>
              Written(d, m, n, e).rows = [k \in Keys |-> Written(d, m, n, e).rows[k]]
<1> DEFINE t == Written(d, m, n, e)
<1>1. /\ t.parked = (d.parked \cup (n.waiting \ m.waiting)) \ (m.waiting \ n.waiting)
      /\ t.own = d.own /\ t.peers = d.peers
      /\ t.rows = IF Writes(m, e) /\ ~Waits(m, e)
                  THEN [d.rows EXCEPT ![e.key] = Projection(n.facts, e.key)] ELSE d.rows
  BY DEF Written, Fields
<1> HIDE DEF t
<1>2. CASE Writes(m, e) /\ ~Waits(m, e)
  <2>1. t.rows = [k \in Keys |-> IF k = e.key THEN Projection(n.facts, e.key) ELSE d.rows[k]]
    BY <1>1, <1>2
  <2> QED BY <1>1, <1>2, <2>1 DEF Ledger, t
<1>3. CASE ~(Writes(m, e) /\ ~Waits(m, e))
  <2>1. t.rows = d.rows
    BY <1>1, <1>3
  <2> QED BY <1>1, <1>3, <2>1 DEF Ledger, t
<1> QED BY <1>2, <1>3

LEMMA WrittenRow ==
  ASSUME NEW d, DOMAIN d = Fields, DOMAIN d.rows = Keys, NEW m, NEW n, NEW e, NEW k \in Keys
  PROVE  Written(d, m, n, e).rows[k] =
           IF Writes(m, e) /\ ~Waits(m, e) /\ k = e.key
           THEN Projection(n.facts, e.key) ELSE d.rows[k]
<1> DEFINE t == Written(d, m, n, e)
<1>1. t.rows = IF Writes(m, e) /\ ~Waits(m, e)
               THEN [d.rows EXCEPT ![e.key] = Projection(n.facts, e.key)] ELSE d.rows
  BY DEF Written, Fields
<1> HIDE DEF t
<1>2. CASE Writes(m, e) /\ ~Waits(m, e)
  <2>1. t.rows = [j \in Keys |-> IF j = e.key THEN Projection(n.facts, e.key) ELSE d.rows[j]]
    BY <1>1, <1>2
  <2> QED BY <1>2, <2>1 DEF t
<1>3. CASE ~(Writes(m, e) /\ ~Waits(m, e))
  BY <1>1, <1>3 DEF t
<1> QED BY <1>2, <1>3

LEMMA ProjectionOf ==
  ASSUME NEW facts, NEW k, NEW f \in Projection(facts, k)
  PROVE  f \in facts /\ f.key = k
BY DEF Projection

LEMMA ProjectsClean ==
  ASSUME NEW m, CleanIn(m), NEW k
  PROVE  /\ k \in m.orders => Projection(m.facts, k) = {}
         /\ \A l \in m.lines : k = l[1] => \A f \in Projection(m.facts, k) : f.line # l[2]
<1>1. ASSUME k \in m.orders, NEW f \in Projection(m.facts, k) PROVE FALSE
  <2>1. f \in m.facts /\ f.key = k
    BY ProjectionOf
  <2> QED BY <1>1, <2>1 DEF CleanIn
<1>2. ASSUME NEW l \in m.lines, k = l[1], NEW f \in Projection(m.facts, k), f.line = l[2]
      PROVE  FALSE
  <2>1. f \in m.facts /\ f.key = k
    BY ProjectionOf
  <2>2. <<f.key, f.line>> = l
    BY <1>2, <2>1 DEF CleanIn
  <2> QED BY <2>1, <2>2 DEF CleanIn
<1> QED BY <1>1, <1>2

LEMMA WrittenHidden ==
  ASSUME NEW m, CleanIn(m), NEW d, DOMAIN d = Fields, HiddenIn(d, m), NEW e, LineOK(e)
  PROVE  HiddenIn(Written(d, m, Folded(m, e), e), m)
<1> DEFINE n == Folded(m, e)
           t == Written(d, m, n, e)
<1>1. CleanIn(n) /\ n.orders = m.orders /\ n.lines = m.lines
  BY FoldClean, FoldShape DEF CleanIn
<1> HIDE DEF n
<1>2. /\ t.parked = (d.parked \cup (n.waiting \ m.waiting)) \ (m.waiting \ n.waiting)
      /\ DOMAIN t.rows = Keys /\ t.rows = [k \in Keys |-> t.rows[k]]
  BY WrittenShape DEF HiddenIn
<1>3. \A k \in Keys : t.rows[k] = d.rows[k] \/ t.rows[k] = Projection(n.facts, k)
  <2>1. ASSUME NEW k \in Keys PROVE t.rows[k] = d.rows[k] \/ t.rows[k] = Projection(n.facts, k)
    <3>1. t.rows[k] = IF Writes(m, e) /\ ~Waits(m, e) /\ k = e.key
                      THEN Projection(n.facts, e.key) ELSE d.rows[k]
      BY WrittenRow DEF HiddenIn
    <3> HIDE DEF t
    <3> QED BY <3>1
  <2> QED BY <2>1
<1> HIDE DEF t
<1>4. ASSUME NEW o \in m.orders PROVE t.rows[o] = {} /\ \A w \in t.parked : w.key # o
  <2>1. o \in Keys /\ Projection(n.facts, o) = {} /\ d.rows[o] = {}
    BY <1>1, ProjectsClean DEF CleanIn, HiddenIn
  <2>2. \A w \in t.parked : w \in d.parked \/ w \in n.waiting
    BY <1>2
  <2> QED BY <1>1, <1>3, <2>1, <2>2 DEF CleanIn, HiddenIn
<1>5. ASSUME NEW l \in m.lines, NEW f \in t.rows[l[1]] PROVE f.line # l[2]
  <2>1. l[1] \in Keys /\ l \in n.lines
    BY <1>1 DEF CleanIn
  <2>2. CASE t.rows[l[1]] = d.rows[l[1]]
    BY <1>5, <2>2 DEF HiddenIn
  <2>3. CASE t.rows[l[1]] = Projection(n.facts, l[1])
    BY <1>1, <1>5, <2>1, <2>3, ProjectsClean
  <2> QED BY <1>3, <2>1, <2>2, <2>3
<1>6. HiddenIn(t, m)
  BY <1>2, <1>4, <1>5 DEF HiddenIn
<1> QED BY <1>6 DEF t, n

LEMMA HiddenSame ==
  ASSUME NEW c, NEW d, NEW m, NEW n, HiddenIn(c, m), d.rows = c.rows, d.parked = c.parked,
         n.orders = m.orders, n.lines = m.lines
  PROVE  HiddenIn(d, n)
BY DEF HiddenIn

(* Nothing is dropped, and the tables show what one of the views showed.   *)
LEMMA ViewsKept ==
  ASSUME DropInv, CleanIn(mem'), mem'.orders = mem.orders, mem'.lines = mem.lines,
         (disk'.rows = disk.rows /\ disk'.parked = disk.parked)
           \/ (disk'.rows = db.rows /\ disk'.parked = db.parked),
         (db'.rows = disk.rows /\ db'.parked = disk.parked)
           \/ (db'.rows = db.rows /\ db'.parked = db.parked)
  PROVE  DropInv'
<1>1. HiddenIn(disk', mem')
  BY HiddenSame DEF DropInv
<1>2. HiddenIn(db', mem')
  BY HiddenSame DEF DropInv
<1> QED BY <1>1, <1>2 DEF DropInv

LEMMA DropsInsert ==
  ASSUME IInv, DropInv, Insert
  PROVE  DropInv'
<1> DEFINE e == Item.env
           t == Inserted(db, Item)
           n == Folded(mem, e)
<1>1. Storing /\ Insertable(db, Item) /\ CleanIn(mem) /\ HiddenIn(db, mem) /\ HiddenIn(disk, mem)
  BY DEF Insert, DropInv
<1>2. LogOK(t) /\ t.rows = db.rows /\ t.parked = db.parked /\ Item \in Items
  BY <1>1, InsertsItem
<1>3. LineOK(e)
  BY <1>2, ItemLine
<1>4. db' = Written(t, mem, n, e) /\ mem' = FoldOne(mem, e) /\ disk' = disk
  BY DEF Insert, FoldOne
<1> HIDE DEF t
<1>5. CleanIn(mem') /\ mem'.orders = mem.orders /\ mem'.lines = mem.lines
  <2>1. DOMAIN mem = MemoryFields
    BY <1>1 DEF CleanIn
  <2> QED BY <1>1, <1>3, <1>4, <2>1, FoldClean, FoldShape
<1>6. HiddenIn(t, mem)
  BY <1>1, <1>2, HiddenSame
<1>7. HiddenIn(db', mem)
  <2>1. DOMAIN t = Fields
    BY <1>2 DEF LogOK, Shaped
  <2> QED BY <1>1, <1>3, <1>4, <1>6, <2>1, WrittenHidden
<1>8. HiddenIn(db', mem') /\ HiddenIn(disk', mem')
  BY <1>1, <1>4, <1>5, <1>7, HiddenSame
<1> QED BY <1>5, <1>8 DEF DropInv

(* A call that throws, and an item that fails: both views are the         *)
(* committed tables, or stay.                                              *)
LEMMA FailViews ==
  ASSUME NEW folded, Fail(folded) \/ Throw(folded)
  PROVE  db' = disk \/ db' = db
BY DEF Fail, Throw

LEMMA DropsFault ==
  ASSUME IInv, DropInv, FaultAfterFold
  PROVE  DropInv'
<1> DEFINE e == Item.env
<1>1. Storing /\ CleanIn(mem) /\ disk' = disk
  BY DEF FaultAfterFold, DropInv
<1>2. Item \in Items
  BY <1>1 DEF IInv, CallOK, Item, Storing
<1>3. LineOK(e)
  BY <1>2, ItemLine
<1>4. mem' = Folded(mem, e) \/ mem' = FoldOne(mem, e)
  BY DEF FaultAfterFold, FoldOne
<1>5. CleanIn(mem') /\ mem'.orders = mem.orders /\ mem'.lines = mem.lines
  <2>1. DOMAIN mem = MemoryFields
    BY <1>1 DEF CleanIn
  <2>2. CleanIn(Folded(mem, e)) /\ CleanIn(FoldOne(mem, e))
    BY <1>1, <1>3, FoldClean
  <2>3. /\ Folded(mem, e).orders = mem.orders /\ FoldOne(mem, e).orders = mem.orders
        /\ Folded(mem, e).lines = mem.lines /\ FoldOne(mem, e).lines = mem.lines
    BY <2>1, FoldShape
  <2> QED BY <1>4, <2>2, <2>3
<1>6. db' = disk \/ db' = db
  BY FailViews DEF FaultAfterFold
<1> QED BY <1>1, <1>5, <1>6, ViewsKept

LEMMA ReplayClean ==
  ASSUME NEW m, CleanIn(m), NEW n, DOMAIN n = MemoryFields, n.orders = m.orders,
         n.lines = m.lines, NEW E, Replays(n, E), \A e \in E : LineOK(e)
  PROVE  CleanIn(n)
<1>1. ASSUME NEW f \in n.facts
      PROVE  f.key \notin m.orders /\ <<f.key, f.line>> \notin m.lines /\ LineOK(f)
  <2>1. f \in E /\ f.key \notin n.orders /\ ~Retired(n, f)
    BY DEF Replays, FactsIn, LiveIn
  <2>2. ASSUME <<f.key, f.line>> \in m.lines PROVE FALSE
    <3>1. f.line # None
      BY <2>2 DEF CleanIn
    <3> QED BY <2>1, <2>2, <3>1 DEF LineOK, Retired
  <2> QED BY <2>1, <2>2
<1>2. ASSUME NEW w \in n.waiting
      PROVE  w.key \notin m.orders /\ w.kind \in Parking /\ LineOK(w)
  BY DEF Replays, UnbornIn, LiveIn
<1> QED BY <1>1, <1>2, CleanSame

LEMMA LedgerLines == ASSUME NEW d, LogOK(d), NEW e \in Ledger(d) PROVE LineOK(e)
<1>1. d.own \in Seq(Made) /\ d.peers \subseteq Copies
  BY DEF LogOK, Shaped
<1>2. CASE e \in ToSet(d.own)
  <2>1. e \in Made
    BY <1>1, <1>2, InToSet
  <2> QED BY <2>1, MadeFromInput, CopyAssumption DEF LineOK
<1>3. CASE e \in d.peers
  BY <1>1, <1>3, CopyAssumption DEF LineOK
<1> QED BY <1>2, <1>3 DEF Ledger

LEMMA RebuiltClean ==
  ASSUME NEW d, LogOK(d), IsFiniteSet(Ledger(d)), NEW m, CleanIn(m)
  PROVE  /\ CleanIn(Rebuilt(d, m))
         /\ Rebuilt(d, m).orders = m.orders /\ Rebuilt(d, m).lines = m.lines
         /\ Replays(Rebuilt(d, m), Ledger(d))
<1> DEFINE n == Rebuilt(d, m)
<1>1. /\ DOMAIN n = MemoryFields /\ n.orders = m.orders /\ n.lines = m.lines
      /\ Replays(n, Ledger(d))
  BY RebuiltReplays
<1> HIDE DEF n
<1>2. \A e \in Ledger(d) : LineOK(e)
  BY LedgerLines
<1>3. CleanIn(n)
  BY <1>1, <1>2, ReplayClean
<1> QED BY <1>1, <1>3 DEF n

LEMMA FullShape ==
  ASSUME NEW d, DOMAIN d = Fields, NEW m
  PROVE  /\ WriteFullTables(d, m).rows = [k \in Keys |-> Projection(m.facts, k)]
         /\ WriteFullTables(d, m).parked = m.waiting
         /\ Ledger(WriteFullTables(d, m)) = Ledger(d)
BY DEF WriteFullTables, Fields, Ledger

LEMMA FullHidden ==
  ASSUME NEW m, CleanIn(m), NEW d, d.rows = [k \in Keys |-> Projection(m.facts, k)],
         d.parked = m.waiting
  PROVE  HiddenIn(d, m)
<1>1. \A o \in m.orders : o \in Keys /\ d.rows[o] = {} /\ \A w \in d.parked : w.key # o
  BY ProjectsClean DEF CleanIn
<1>2. ASSUME NEW l \in m.lines, NEW f \in d.rows[l[1]] PROVE f.line # l[2]
  <2>1. d.rows[l[1]] = Projection(m.facts, l[1])
    BY DEF CleanIn
  <2> QED BY <1>2, <2>1, ProjectsClean
<1> QED BY <1>1, <1>2 DEF HiddenIn

LEMMA DropsRefold ==
  ASSUME IInv, DropInv, Refold, IsFiniteSet(Ledger(disk))
  PROVE  DropInv'
<1>1. LogOK(disk) /\ CleanIn(mem) /\ DOMAIN disk = Fields
  BY DEF IInv, DropInv, LogOK, Shaped
<1>2. mem' = Rebuilt(disk, mem) /\ disk' = WriteFullTables(disk, mem') /\ db' = disk'
  BY DEF Refold
<1>3. CleanIn(mem')
  BY <1>1, <1>2, RebuiltClean
<1>4. disk'.rows = [k \in Keys |-> Projection(mem'.facts, k)] /\ disk'.parked = mem'.waiting
  BY <1>1, <1>2, FullShape
<1>5. HiddenIn(disk', mem')
  BY <1>3, <1>4, FullHidden
<1> QED BY <1>2, <1>3, <1>5 DEF DropInv

LEMMA DropsRefoldFails ==
  ASSUME IInv, DropInv, RefoldFails, IsFiniteSet(Ledger(disk))
  PROVE  DropInv'
<1>1. LogOK(disk) /\ CleanIn(mem)
  BY DEF IInv, DropInv
<1>2. mem' = mem \/ mem' = Rebuilt(disk, mem)
  BY DEF RefoldFails
<1>3. CleanIn(mem') /\ mem'.orders = mem.orders /\ mem'.lines = mem.lines
  BY <1>1, <1>2, RebuiltClean
<1> QED BY <1>3, ViewsKept DEF RefoldFails

(* What retention leaves when it drops these orders and lines.             *)
DropsTo(orders, lines) ==
  LET facts == {f \in mem.facts : f.key \notin orders /\ <<f.key, f.line>> \notin lines}
  IN  /\ \A l \in lines : l = <<l[1], l[2]>> /\ l[1] \in Keys /\ l[2] # None
      /\ DOMAIN mem' = MemoryFields
      /\ mem'.facts = facts
      /\ mem'.waiting = {w \in mem.waiting : w.key \notin orders}
      /\ mem'.books = mem.books
      /\ mem'.orders = mem.orders \cup orders
      /\ mem'.lines = mem.lines \cup lines
      /\ db'.rows = [k \in Keys |-> IF k \in orders THEN {}
                       ELSE IF \E l \in lines : l[1] = k THEN Projection(facts, k)
                       ELSE db.rows[k]]
      /\ db'.parked = {w \in db.parked : w.key \notin orders}
      /\ Ledger(db') = Ledger(db)
      /\ disk' = db'

LEMMA DropEffect ==
  ASSUME IInv, DropInv, NEW keys \in Drops, RetentionDrop(keys)
  PROVE  \E orders \in SUBSET Keys : \E lines : DropsTo(orders, lines)
<1> DEFINE orders == {k[1] : k \in {d \in keys : d[2] = None}}
           lines == {k \in keys : k[2] # None /\ k[1] \notin orders}
           facts == {f \in mem.facts : f.key \notin orders /\ <<f.key, f.line>> \notin lines}
           rows == [k \in Keys |-> IF k \in orders THEN {}
                                  ELSE IF \E l \in lines : l[1] = k THEN Projection(facts, k)
                                  ELSE db.rows[k]]
<1>1. /\ db' = [db EXCEPT !.rows = rows, !.parked = {w \in @ : w.key \notin orders}]
      /\ disk' = db'
      /\ mem' = [mem EXCEPT !.facts = facts,
                            !.waiting = {w \in @ : w.key \notin orders},
                            !.orders = @ \cup orders,
                            !.lines = @ \cup lines]
  BY DEF RetentionDrop
<1>2. \A k \in keys : k = <<k[1], k[2]>> /\ k[1] \in Keys
  BY DropAssumption
<1>3. orders \in SUBSET Keys
  BY <1>2
<1>4. \A l \in lines : l = <<l[1], l[2]>> /\ l[1] \in Keys /\ l[2] # None
  BY <1>2
<1>5. DOMAIN db = Fields /\ DOMAIN mem = MemoryFields
  BY DEF IInv, LogOK, Shaped, DropInv, CleanIn
<1> HIDE DEF orders, lines, facts, rows
<1>6. /\ db'.rows = rows /\ db'.parked = {w \in db.parked : w.key \notin orders}
      /\ db'.own = db.own /\ db'.peers = db.peers
  BY <1>1, <1>5 DEF Fields
<1>7. Ledger(db') = Ledger(db)
  BY <1>6 DEF Ledger
<1>8. /\ DOMAIN mem' = MemoryFields /\ mem'.facts = facts
      /\ mem'.waiting = {w \in mem.waiting : w.key \notin orders}
      /\ mem'.books = mem.books
      /\ mem'.orders = mem.orders \cup orders
      /\ mem'.lines = mem.lines \cup lines
  BY <1>1, <1>5 DEF MemoryFields
<1>9. DropsTo(orders, lines)
  BY <1>1, <1>4, <1>6, <1>7, <1>8 DEF DropsTo, facts, rows
<1> QED BY <1>3, <1>9

LEMMA DropsRetention ==
  ASSUME IInv, DropInv, NEW keys \in Drops, RetentionDrop(keys)
  PROVE  DropInv'
<1>1. PICK orders \in SUBSET Keys : \E lines : DropsTo(orders, lines)
  BY DropEffect
<1>2. PICK lines : DropsTo(orders, lines)
  BY <1>1
<1>3. CleanIn(mem) /\ HiddenIn(db, mem)
  BY DEF DropInv
<1>4. CleanIn(mem')
  <2>1. ASSUME NEW f \in mem'.facts
        PROVE  f.key \notin mem'.orders /\ <<f.key, f.line>> \notin mem'.lines /\ LineOK(f)
    <3>1. f \in mem.facts /\ f.key \notin orders /\ <<f.key, f.line>> \notin lines
      BY <1>2, <2>1 DEF DropsTo
    <3> QED BY <1>2, <1>3, <3>1 DEF CleanIn, DropsTo
  <2>2. ASSUME NEW w \in mem'.waiting
        PROVE  w.key \notin mem'.orders /\ w.kind \in Parking /\ LineOK(w)
    <3>1. w \in mem.waiting /\ w.key \notin orders
      BY <1>2, <2>2 DEF DropsTo
    <3> QED BY <1>2, <1>3, <3>1 DEF CleanIn, DropsTo
  <2>3. mem'.orders \subseteq Keys
    BY <1>2, <1>3 DEF CleanIn, DropsTo
  <2>4. ASSUME NEW l \in mem'.lines PROVE l = <<l[1], l[2]>> /\ l[1] \in Keys /\ l[2] # None
    <3>1. l \in mem.lines \/ l \in lines
      BY <1>2, <2>4 DEF DropsTo
    <3>2. CASE l \in mem.lines
      BY <1>3, <3>2 DEF CleanIn
    <3>3. CASE l \in lines
      BY <1>2, <3>3 DEF DropsTo
    <3> QED BY <3>1, <3>2, <3>3
  <2>5. DOMAIN mem' = MemoryFields
    BY <1>2 DEF DropsTo
  <2> QED BY <2>1, <2>2, <2>3, <2>4, <2>5 DEF CleanIn
<1>5. /\ DOMAIN db'.rows = Keys /\ db'.rows = [k \in Keys |-> db'.rows[k]]
      /\ \A k \in Keys : db'.rows[k] = {} \/ db'.rows[k] = Projection(mem'.facts, k)
                        \/ (/\ db'.rows[k] = db.rows[k]
                            /\ k \notin orders /\ ~\E l \in lines : l[1] = k)
  BY <1>2 DEF DropsTo
<1>6. ASSUME NEW o \in mem'.orders
      PROVE  db'.rows[o] = {} /\ \A w \in db'.parked : w.key # o
  <2>1. o \in Keys /\ Projection(mem'.facts, o) = {}
    BY <1>4, ProjectsClean DEF CleanIn
  <2>2. o \in mem.orders \/ o \in orders
    BY <1>2 DEF DropsTo
  <2>3. CASE o \in mem.orders
    <3>1. db.rows[o] = {} /\ \A w \in db.parked : w.key # o
      BY <1>3, <2>3 DEF HiddenIn
    <3>2. db'.parked \subseteq db.parked
      BY <1>2 DEF DropsTo
    <3>3. db'.rows[o] = {}
      BY <1>5, <2>1, <3>1
    <3> QED BY <3>1, <3>2, <3>3
  <2>4. CASE o \in orders
    <3>1. db'.parked = {w \in db.parked : w.key \notin orders}
      BY <1>2 DEF DropsTo
    <3>2. db'.rows[o] = {}
      BY <1>5, <2>1, <2>4
    <3> QED BY <2>4, <3>1, <3>2
  <2> QED BY <2>2, <2>3, <2>4
<1>7. ASSUME NEW l \in mem'.lines, NEW f \in db'.rows[l[1]]
      PROVE  f.line # l[2]
  <2>1. l[1] \in Keys
    BY <1>4 DEF CleanIn
  <2>2. CASE db'.rows[l[1]] = Projection(mem'.facts, l[1])
    BY <1>4, <1>7, <2>2, ProjectsClean
  <2>3. CASE db'.rows[l[1]] = db.rows[l[1]] /\ ~\E j \in lines : j[1] = l[1]
    <3>1. l \in mem.lines
      BY <1>2, <2>3 DEF DropsTo
    <3> QED BY <1>3, <1>7, <2>3, <3>1 DEF HiddenIn
  <2> QED BY <1>5, <1>7, <2>1, <2>2, <2>3
<1>8. HiddenIn(db', mem')
  BY <1>5, <1>6, <1>7 DEF HiddenIn
<1>9. disk' = db'
  BY <1>2 DEF DropsTo
<1> QED BY <1>4, <1>8, <1>9 DEF DropInv

-----------------------------------------------------------------------------
(* The tables d show the lattice m, and follow the log.                    *)
Shows(d, m) ==
  /\ DOMAIN d.rows = Keys /\ \A k \in Keys : d.rows[k] = Projection(m.facts, k)
  /\ d.parked = m.waiting

Follows(d, m) == Replays(m, Ledger(d)) /\ Shows(d, m)

(* While a transaction is open, the lattice follows the log that would be  *)
(* committed unless it leads it, and the committed one until it is         *)
(* touched; a call of one event has touched nothing until it has inserted  *)
(* that event; with none open, there is one view.  So a commit that fails  *)
(* and a throw may skip the rebuild exactly when they do (F6).             *)
Open == call.step \in {"append", "ingest", "page"}

CallFresh ==
  /\ Open /\ call.lead => call.touched
  /\ call.step \in {"append", "ingest"} /\ call.todo # <<>> =>
       ~call.touched /\ ~call.lead /\ Tail(call.todo) = <<>>
  /\ ~Open \/ (call.step = "append" /\ call.todo # <<>>) => db = disk

TrackInv ==
  /\ IsFiniteSet(Ledger(disk)) /\ IsFiniteSet(Ledger(db))
  /\ CallFresh
  /\ call.step = "idle" /\ ~stale => Follows(disk, mem)
  /\ Open /\ ~call.lead /\ ~stale => Follows(db, mem)
  /\ Open /\ ~call.touched /\ ~stale => Follows(disk, mem)

LEMMA FollowsSame ==
  ASSUME NEW c, NEW d, NEW m, Follows(c, m), Ledger(d) = Ledger(c),
         d.rows = c.rows, d.parked = c.parked
  PROVE  Follows(d, m)
BY DEF Follows, Shows

(* The targeted writes of one event keep the tables with the lattice.      *)
LEMMA WrittenShows ==
  ASSUME NEW m, DOMAIN m = MemoryFields, NEW d, DOMAIN d = Fields, Shows(d, m), NEW e
  PROVE  Shows(Written(d, m, Folded(m, e), e), FoldOne(m, e))
<1> DEFINE n == Folded(m, e)
           t == Written(d, m, n, e)
<1>1. FoldOne(m, e).facts = n.facts /\ FoldOne(m, e).waiting = n.waiting
  BY FoldShape, ZenonT(60)
<1>2. t.parked = n.waiting
  <2>1. t.parked = (d.parked \cup (n.waiting \ m.waiting)) \ (m.waiting \ n.waiting)
    BY DEF Written, Fields
  <2> HIDE DEF t, n
  <2> QED BY <2>1 DEF Shows
<1>3. ASSUME NEW k \in Keys
      PROVE  t.rows[k] = Projection(n.facts, k)
  <2>1. t.rows[k] = IF Writes(m, e) /\ ~Waits(m, e) /\ k = e.key
                    THEN Projection(n.facts, e.key) ELSE d.rows[k]
    BY WrittenRow DEF Shows
  <2>2. CASE Writes(m, e) /\ ~Waits(m, e) /\ k = e.key
    <3> HIDE DEF t, n
    <3> QED BY <2>1, <2>2
  <2>3. CASE ~(Writes(m, e) /\ ~Waits(m, e) /\ k = e.key)
    <3>1. {f \in n.facts : f.key = k} = {f \in m.facts : f.key = k}
      <4>1. CASE Untouched(m, e)
        BY <4>1, FoldShape
      <4>2. CASE ~Untouched(m, e) /\ Waits(m, e)
        BY <4>2, FoldShape
      <4>3. CASE ~Untouched(m, e) /\ ~Waits(m, e)
        <5>1. n.facts = m.facts \cup Effective(m, e)
          BY <4>3, FoldShape, ZenonT(60)
        <5>2. \A f \in Effective(m, e) : f.key = e.key
          BY DEF Effective, Drained
        <5>3. Effective(m, e) = {} \/ k # e.key
          BY <2>3, <4>3 DEF Writes
        <5> HIDE DEF n
        <5> QED BY <5>1, <5>2, <5>3
      <4> QED BY <4>1, <4>2, <4>3
    <3>2. Projection(n.facts, k) = Projection(m.facts, k)
      BY <3>1 DEF Projection
    <3> HIDE DEF t, n
    <3> QED BY <2>1, <2>3, <3>2 DEF Shows
  <2> QED BY <2>2, <2>3
<1>4. DOMAIN t.rows = Keys
  BY WrittenShape DEF Shows
<1> HIDE DEF t, n
<1>5. Shows(t, FoldOne(m, e))
  BY <1>1, <1>2, <1>3, <1>4 DEF Shows
<1> QED BY <1>5 DEF t, n

(* An audit event leaves the lattice alone.                                *)
LEMMA AuditFolds ==
  ASSUME NEW m, NEW e, e.kind = "audit"
  PROVE  FoldOne(m, e) = m
BY DEF FoldOne, Booked, Folded, Untouched

LEMMA TracksInsert ==
  ASSUME IInv, DropInv, TrackInv, Insert
  PROVE  TrackInv'
<1> DEFINE e == Item.env
           t == Inserted(db, Item)
           n == Folded(mem, e)
<1>1. /\ Storing /\ Insertable(db, Item) /\ disk' = disk /\ stale' = stale
      /\ DOMAIN mem = MemoryFields
  BY DEF Insert, DropInv, CleanIn
<1>2. LogOK(t) /\ t.rows = db.rows /\ t.parked = db.parked
  BY <1>1, InsertsItem
<1>3. Ledger(db') = Ledger(db) \cup {e}
  BY InsertKeeps
<1>4. db' = Written(t, mem, n, e) /\ mem' = FoldOne(mem, e)
  BY DEF Insert, FoldOne
<1>5. /\ call'.step = call.step /\ call'.lead = call.lead /\ call'.todo = Tail(call.todo)
      /\ call'.touched = (call.touched \/ e.kind # "audit")
  BY DEF Insert, IInv, CallOK
<1>6. /\ call.step \in {"append", "ingest"} => Tail(call.todo) = <<>>
      /\ Open /\ (call.lead => call.touched)
  BY <1>1 DEF Storing, TrackInv, CallFresh, Open
<1> HIDE DEF t, n
<1>7. CallFresh'
  BY <1>5, <1>6 DEF CallFresh, Open
<1>8. IsFiniteSet(Ledger(disk')) /\ IsFiniteSet(Ledger(db'))
  BY <1>1, <1>3, FS_AddElement DEF TrackInv
<1>9. ASSUME ~call.lead, ~stale PROVE Follows(db', mem')
  <2>1. Follows(db, mem)
    BY <1>6, <1>9 DEF TrackInv
  <2>2. Replays(mem', Ledger(db'))
    BY <1>1, <1>3, <1>4, <2>1, FoldReplays DEF Follows
  <2>3. Shows(t, mem) /\ DOMAIN t = Fields
    BY <1>2, <2>1 DEF Follows, Shows, LogOK, Shaped
  <2>4. Shows(db', mem')
    BY <1>1, <1>4, <2>3, WrittenShows DEF n
  <2> QED BY <2>2, <2>4 DEF Follows
<1>10. ASSUME ~call'.touched, ~stale PROVE Follows(disk', mem')
  <2>1. Follows(disk, mem)
    BY <1>5, <1>6, <1>10 DEF TrackInv
  <2>2. mem' = mem
    BY <1>4, <1>5, <1>10, AuditFolds
  <2> QED BY <1>1, <2>1, <2>2
<1>11. call'.step # "idle"
  BY <1>5, <1>6 DEF Open
<1> QED BY <1>1, <1>5, <1>7, <1>8, <1>9, <1>10, <1>11 DEF TrackInv

(* The log, the tables and the memory stay, and so does the call but for   *)
(* the item it has done with.                                              *)
LEMMA TracksStay ==
  ASSUME TrackInv, disk' = disk, mem' = mem, stale' = stale,
         Ledger(db') = Ledger(db), db'.rows = db.rows, db'.parked = db.parked,
         (call' = call /\ db' = disk) \/ (/\ Storing /\ call'.step = call.step
                         /\ call'.todo = Tail(call.todo)
                         /\ call'.touched = call.touched /\ call'.lead = call.lead)
  PROVE  TrackInv'
<1>1. /\ call'.step = call.step
      /\ call'.touched = call.touched /\ call'.lead = call.lead
      /\ \/ call'.todo = call.todo /\ db' = disk
         \/ Storing /\ call'.todo = Tail(call.todo)
  OBVIOUS
<1>2. Open' <=> Open
  BY <1>1 DEF Open
<1>3. CallFresh'
  BY <1>1, <1>2 DEF CallFresh, TrackInv, Storing, Open
<1>4. \A m : Follows(db, m) => Follows(db', m)
  BY FollowsSame
<1> QED BY <1>1, <1>2, <1>3, <1>4 DEF TrackInv

(* A call that throws.                                                     *)
LEMMA TracksThrow ==
  ASSUME TrackInv, disk' = disk, NEW touched \in BOOLEAN, Throw(touched),
         stale' = stale, ~touched => mem' = mem /\ Open /\ ~call.touched
  PROVE  TrackInv'
<1>1. db' = disk /\ call'.step = (IF touched THEN "refold" ELSE "idle")
  BY DEF Throw, Call
<1>2. ~Open' /\ CallFresh'
  BY <1>1 DEF CallFresh, Open
<1>3. ~touched /\ ~stale => Follows(disk', mem')
  BY DEF TrackInv
<1> QED BY <1>1, <1>2, <1>3 DEF TrackInv

LEMMA TracksFail ==
  ASSUME IInv, TrackInv, Storing, disk' = disk, stale' = stale,
         NEW folded \in BOOLEAN, Fail(folded), ~folded => mem' = mem
  PROVE  TrackInv'
<1>1. Open /\ (call.step # "page" => ~call.touched)
  BY DEF Storing, Open, TrackInv, CallFresh
<1>2. CASE call.step = "page"
  <2>1. /\ db' = db /\ call'.step = "page"
        /\ call'.touched = (call.touched \/ folded) /\ call'.lead = (call.lead \/ folded)
    BY <1>2 DEF Fail, IInv, CallOK
  <2>2. CallFresh' /\ Open'
    BY <2>1, <1>1 DEF CallFresh, Open, TrackInv
  <2> QED BY <1>1, <1>2, <2>1, <2>2 DEF TrackInv
<1>3. CASE call.step # "page"
  BY <1>1, <1>3, TracksThrow DEF Fail
<1> QED BY <1>2, <1>3

LEMMA TracksRefold ==
  ASSUME IInv, DropInv, TrackInv, Refold
  PROVE  TrackInv'
<1>1. DOMAIN disk = Fields /\ IsFiniteSet(Ledger(disk))
  BY DEF IInv, TrackInv, LogOK, Shaped
<1>2. mem' = Rebuilt(disk, mem) /\ disk' = WriteFullTables(disk, mem') /\ db' = disk'
  BY DEF Refold
<1>3. Replays(mem', Ledger(disk))
  BY <1>1, <1>2, RebuiltReplays
<1>4. /\ disk'.rows = [k \in Keys |-> Projection(mem'.facts, k)]
      /\ disk'.parked = mem'.waiting /\ Ledger(disk') = Ledger(disk)
  BY <1>1, <1>2, FullShape
<1>5. Follows(disk', mem')
  BY <1>3, <1>4 DEF Follows, Shows
<1>6. call'.step = "idle"
  BY DEF Refold, Call
<1>7. ~Open' /\ CallFresh'
  BY <1>2, <1>6 DEF Open, CallFresh
<1> QED BY <1>1, <1>2, <1>4, <1>5, <1>7 DEF TrackInv

LEMMA TracksRetention ==
  ASSUME IInv, DropInv, TrackInv, NEW keys \in Drops, RetentionDrop(keys)
  PROVE  TrackInv'
<1>1. PICK orders \in SUBSET Keys : \E lines : DropsTo(orders, lines)
  BY DropEffect
<1>2. PICK lines : DropsTo(orders, lines)
  BY <1>1
<1>3. /\ call.step = "idle" /\ call' = call /\ stale' = stale /\ db = disk /\ db' = disk'
      /\ CleanIn(mem)
  BY <1>2 DEF RetentionDrop, Idle, TrackInv, CallFresh, Open, DropsTo, DropInv
<1>4. ~Open' /\ CallFresh'
  BY <1>3 DEF Open, CallFresh
<1>5. Ledger(disk') = Ledger(disk)
  BY <1>2, <1>3 DEF DropsTo
<1>6. ASSUME ~stale PROVE Follows(disk', mem')
  <2> DEFINE E == Ledger(disk)
  <2>1. Replays(mem, E) /\ Shows(disk, mem)
    BY <1>3, <1>6 DEF TrackInv, Follows
  <2>2. /\ mem'.facts = {f \in mem.facts : f.key \notin orders /\ <<f.key, f.line>> \notin lines}
        /\ mem'.waiting = {w \in mem.waiting : w.key \notin orders}
        /\ mem'.books = mem.books
        /\ mem'.orders = mem.orders \cup orders
        /\ mem'.lines = mem.lines \cup lines
    BY <1>2 DEF DropsTo
  <2> HIDE DEF E
  <2>3. LiveIn(E, mem') = {x \in LiveIn(E, mem) : x.key \notin orders}
    BY <2>2 DEF LiveIn
  <2>4. UnbornIn(E, mem') = {x \in UnbornIn(E, mem) : x.key \notin orders}
    BY <2>3 DEF UnbornIn
  <2>5. ASSUME NEW x \in mem.facts
        PROVE  Retired(mem', x) <=> <<x.key, x.line>> \in lines
    <3>1. LineOK(x) /\ <<x.key, x.line>> \notin mem.lines
      BY <1>3 DEF CleanIn
    <3>2. ASSUME <<x.key, x.line>> \in lines PROVE x.line # None
      BY <1>2, <3>2 DEF DropsTo
    <3> QED BY <2>2, <3>1, <3>2 DEF Retired, LineOK
  <2>6. FactsIn(E, mem') = mem'.facts
    <3>1. ASSUME NEW x \in FactsIn(E, mem') PROVE x \in mem'.facts
      <4>1. x \in FactsIn(E, mem) /\ x.key \notin orders /\ ~Retired(mem', x)
        BY <2>2, <2>3, <2>4 DEF FactsIn, Retired
      <4>2. x \in mem.facts
        BY <2>1, <4>1 DEF Replays
      <4> QED BY <2>2, <2>5, <4>1, <4>2
    <3>2. ASSUME NEW x \in mem'.facts PROVE x \in FactsIn(E, mem')
      <4>1. x \in mem.facts /\ x.key \notin orders /\ <<x.key, x.line>> \notin lines
        BY <2>2
      <4>2. x \in FactsIn(E, mem) /\ ~Retired(mem', x)
        BY <2>1, <2>5, <4>1 DEF Replays
      <4> QED BY <2>3, <2>4, <4>1, <4>2 DEF FactsIn
    <3> QED BY <3>1, <3>2
  <2>7. Replays(mem', E)
    BY <2>1, <2>2, <2>4, <2>6 DEF Replays
  <2>8. disk'.parked = mem'.waiting /\ DOMAIN disk'.rows = Keys
    BY <1>2, <1>3, <2>1, <2>2 DEF Shows, DropsTo
  <2>9. ASSUME NEW k \in Keys PROVE disk'.rows[k] = Projection(mem'.facts, k)
    <3>1. disk'.rows[k] = IF k \in orders THEN {}
                          ELSE IF \E l \in lines : l[1] = k THEN Projection(mem'.facts, k)
                          ELSE disk.rows[k]
      <4>1. db'.rows = [j \in Keys |-> IF j \in orders THEN {}
                          ELSE IF \E l \in lines : l[1] = j THEN Projection(mem'.facts, j)
                          ELSE db.rows[j]]
        BY <1>2 DEF DropsTo
      <4> QED BY <1>3, <4>1
    <3>2. CASE k \in orders
      <4>1. {f \in mem'.facts : f.key = k} = {}
        BY <2>2, <3>2
      <4> QED BY <3>1, <3>2, <4>1 DEF Projection
    <3>3. CASE k \notin orders /\ ~\E l \in lines : l[1] = k
      <4>1. \A f : f.key = k => <<f.key, f.line>> \notin lines
        BY <3>3
      <4>2. {f \in mem'.facts : f.key = k} = {f \in mem.facts : f.key = k}
        BY <2>2, <3>3, <4>1
      <4> QED BY <2>1, <3>1, <3>3, <4>2 DEF Projection, Shows
    <3> QED BY <3>1, <3>2, <3>3
  <2> QED BY <1>5, <2>7, <2>8, <2>9 DEF Follows, Shows, E
<1> QED BY <1>3, <1>4, <1>5, <1>6 DEF TrackInv

(* Both invariants hold initially, and every step keeps them.              *)
FoldInv == IInv /\ DropInv /\ TrackInv

LEMMA InitFoldInv == Init => FoldInv
<1> SUFFICES ASSUME Init PROVE FoldInv
  OBVIOUS
<1>1. disk = NoTables /\ db = NoTables /\ mem = NoMemory /\ call.step = "down"
  BY DEF Init, Call
<1>2. CleanIn(NoMemory) /\ HiddenIn(NoTables, NoMemory)
  BY DEF CleanIn, HiddenIn, NoTables, NoMemory, MemoryFields
<1>3. Ledger(NoTables) = {}
  BY DEF Ledger, NoTables, ToSet
<1>4. CallFresh
  BY <1>1 DEF CallFresh, Open
<1>5. TrackInv
  BY <1>1, <1>3, <1>4, FS_EmptySet DEF TrackInv, Open
<1> QED BY <1>1, <1>2, <1>5, InitIInv DEF FoldInv, DropInv

LEMMA NextFoldInv == FoldInv /\ [Next]_vars => FoldInv'
<1> SUFFICES ASSUME FoldInv, [Next]_vars PROVE FoldInv'
  OBVIOUS
<1>1. IInv /\ DropInv /\ TrackInv /\ IInv' /\ CleanIn(mem)
  BY NextIInv DEF FoldInv, DropInv
<1> SUFFICES DropInv' /\ TrackInv'
  BY <1>1 DEF FoldInv
<1>2. ASSUME NEW step \in {"append", "ingest", "page", "refold"}, NEW todo,
             step \in {"append", "ingest"} => Tail(todo) = <<>>, Begin(step, todo)
      PROVE  DropInv' /\ TrackInv'
  <2>1. /\ Idle /\ call'.step = step /\ call'.todo = todo
        /\ call'.touched = FALSE /\ call'.lead = FALSE
        /\ UNCHANGED <<disk, db, mem, stale>>
    BY <1>2 DEF Begin, Call
  <2>2. DropInv'
    BY <1>1, <2>1 DEF DropInv
  <2>3. db = disk
    BY <1>1, <2>1 DEF TrackInv, CallFresh, Open, Idle
  <2>4. CallFresh'
    BY <1>2, <2>1, <2>3 DEF CallFresh, Open
  <2> QED BY <1>1, <1>2, <2>1, <2>2, <2>3, <2>4 DEF TrackInv, Idle
<1>3. ASSUME NEW i \in Inputs, BeginAppend(i) PROVE DropInv' /\ TrackInv'
  <2>1. PICK x : Begin("append", <<x>>)
    BY <1>3 DEF BeginAppend
  <2>2. Tail(<<x>>) = <<>>
    OBVIOUS
  <2> QED BY <1>2, <2>1, <2>2
<1>4. CASE BeginIngest
  <2>1. PICK x : Begin("ingest", <<x>>)
    BY <1>4 DEF BeginIngest
  <2>2. Tail(<<x>>) = <<>>
    OBVIOUS
  <2> QED BY <1>2, <2>1, <2>2
<1>5. CASE BeginPage
  BY <1>2, <1>5 DEF BeginPage
<1>6. CASE AskRefold
  BY <1>2, <1>6 DEF AskRefold
<1>7. CASE Insert
  BY <1>1, <1>7, DropsInsert, TracksInsert
<1>8. CASE Duplicate
  <2>1. /\ Storing /\ disk' = disk /\ mem' = mem /\ stale' = stale
        /\ call' = [call EXCEPT !.todo = Tail(@)]
        /\ db' = db \/ db' = WithNumber(db, Item.env.id, Item.seq)
    BY <1>8 DEF Duplicate
  <2>2. db'.rows = db.rows /\ db'.parked = db.parked
    BY <1>1, <2>1 DEF WithNumber, IInv, LogOK, Shaped, Fields
  <2>3. Ledger(db') = Ledger(db)
    BY <1>1, <1>8, DuplicateKeeps
  <2>4. DropInv'
    BY <1>1, <2>1, <2>2, ViewsKept
  <2>5. /\ call'.step = call.step /\ call'.todo = Tail(call.todo)
        /\ call'.touched = call.touched /\ call'.lead = call.lead
    BY <1>1, <2>1 DEF IInv, CallOK
  <2>6. Open
    BY <2>1 DEF Storing, Open
  <2> QED BY <1>1, <2>1, <2>2, <2>3, <2>4, <2>5, <2>6, TracksStay
<1>9. ASSUME Storing, Fail(FALSE), disk' = disk, mem' = mem, stale' = stale
      PROVE  DropInv' /\ TrackInv'
  <2>1. db' = disk \/ db' = db
    BY <1>9, FailViews
  <2> QED BY <1>1, <1>9, <2>1, ViewsKept, TracksFail
<1>10. CASE Refuse
  BY <1>9, <1>10 DEF Refuse
<1>11. CASE FaultBeforeFold
  BY <1>9, <1>11 DEF FaultBeforeFold
<1>12. CASE FaultAfterFold
  <2>1. TrackInv'
    BY <1>1, <1>12, TracksFail DEF FaultAfterFold
  <2> QED BY <1>1, <1>12, <2>1, DropsFault
<1>13. CASE Commit
  <2>1. /\ Open /\ disk' = db /\ db' = db /\ mem' = mem /\ stale' = stale
        /\ call'.step = (IF call.lead THEN "refold" ELSE "idle")
    BY <1>13 DEF Commit, Open, Call
  <2>2. ~Open' /\ CallFresh'
    BY <2>1 DEF Open, CallFresh
  <2>3. DropInv'
    BY <1>1, <2>1, ViewsKept
  <2> QED BY <1>1, <2>1, <2>2, <2>3 DEF TrackInv
<1>14. CASE CommitFails
  <2>1. /\ Open /\ Throw(call.touched) /\ disk' = disk /\ mem' = mem /\ stale' = stale
    BY <1>14 DEF CommitFails, Open
  <2>2. db' = disk
    BY <2>1 DEF Throw
  <2>3. DropInv'
    BY <1>1, <2>1, <2>2, ViewsKept
  <2>4. /\ call'.step = (IF call.touched THEN "refold" ELSE "idle")
    BY <2>1 DEF Throw, Call
  <2>5. ~Open' /\ CallFresh'
    BY <2>1, <2>2, <2>4 DEF CallFresh, Open
  <2> QED BY <1>1, <2>1, <2>2, <2>3, <2>4, <2>5 DEF TrackInv
<1>15. CASE Refold
  <2>1. DropInv'
    BY <1>1, <1>15, DropsRefold DEF TrackInv
  <2> QED BY <1>1, <1>15, <2>1, TracksRefold
<1>16. CASE RefoldFails
  <2>1. DropInv'
    BY <1>1, <1>16, DropsRefoldFails DEF TrackInv
  <2>2. /\ disk' = disk /\ db' = db /\ call.step = "refold" /\ call'.step = "idle" /\ stale'
    BY <1>16 DEF RefoldFails, Call
  <2>3. ~Open' /\ CallFresh'
    BY <1>1, <2>2 DEF Open, CallFresh, TrackInv
  <2> QED BY <1>1, <2>1, <2>2, <2>3 DEF TrackInv
<1>17. ASSUME NEW keys \in Drops, RetentionDrop(keys) PROVE DropInv' /\ TrackInv'
  BY <1>1, <1>17, DropsRetention, TracksRetention
<1>18. CASE AdvanceTo \/ SetBranchTimeOffset
  <2>1. /\ Idle /\ disk' = db' /\ mem' = mem /\ call' = call /\ stale' = stale
    BY <1>18 DEF AdvanceTo, SetBranchTimeOffset
  <2>2. /\ db'.rows = db.rows /\ db'.parked = db.parked
        /\ db'.own = db.own /\ db'.peers = db.peers
    <3>1. DOMAIN db = Fields
      BY <1>1 DEF IInv, LogOK, Shaped
    <3> QED BY <1>18, <3>1 DEF AdvanceTo, SetBranchTimeOffset, Fields
  <2>3. db = disk /\ ~Open
    BY <1>1, <2>1 DEF TrackInv, CallFresh, Open, Idle
  <2>4. Ledger(disk') = Ledger(disk)
    BY <2>1, <2>2, <2>3 DEF Ledger
  <2>5. Follows(disk, mem) => Follows(disk', mem)
    BY <2>1, <2>2, <2>3, <2>4, FollowsSame
  <2>6. ~Open' /\ CallFresh'
    BY <2>1, <2>3 DEF Open, CallFresh
  <2>7. DropInv'
    BY <1>1, <2>1, <2>2, <2>3, ViewsKept
  <2> QED BY <1>1, <2>1, <2>3, <2>4, <2>5, <2>6, <2>7 DEF TrackInv
<1>19. CASE Crash
  <2>1. disk' = disk /\ db' = disk /\ mem' = NoMemory /\ call'.step = "down"
    BY <1>19 DEF Crash, Call
  <2>2. CleanIn(NoMemory)
    BY DEF CleanIn, NoMemory, MemoryFields
  <2>3. HiddenIn(disk, NoMemory)
    BY <1>1 DEF DropInv, HiddenIn, NoMemory
  <2>4. ~Open' /\ CallFresh'
    BY <2>1 DEF Open, CallFresh
  <2> QED BY <1>1, <2>1, <2>2, <2>3, <2>4 DEF DropInv, TrackInv
<1>20. CASE UNCHANGED vars
  BY <1>1, <1>20 DEF vars, DropInv, TrackInv, CallFresh, Open
<1> QED
  BY <1>3, <1>4, <1>5, <1>6, <1>7, <1>8, <1>10, <1>11, <1>12, <1>13, <1>14, <1>15,
     <1>16, <1>17, <1>18, <1>19, <1>20 DEF Next

(* The lattice in memory is a replay of the log: of the committed one      *)
(* between calls, of the one the open transaction sees unless it has run   *)
(* ahead of that; and the tables are what it shows, as long as no rebuild  *)
(* has failed (folds/merge.ts; refold and tryRefold of device-store.ts).   *)
THEOREM FoldInvariant == Spec => []FoldInv
<1> QED BY InitFoldInv, NextFoldInv, PTL DEF Spec

(* An order or a line that retention dropped is shown by no table, of the  *)
(* committed ones or of the running transaction, until the store is opened *)
(* again: no straggler, rebuild or failure brings it back (F2).            *)
THEOREM DroppedStaysGone == Spec => []DroppedStayGone
<1>1. FoldInv => DroppedStayGone
  BY DEF FoldInv, DropInv, HiddenIn, DroppedStayGone
<1> QED BY <1>1, FoldInvariant, PTL

(* Between calls the tables, and the lattice they are written from, are    *)
(* what a replay of the committed log in any order gives, through every    *)
(* order of arrival, failed statement, rolled back transaction, drop and   *)
(* restart, unless the last rebuild failed (01-F6, 01-F34, F6).            *)
THEOREM ReplaySuffices == Spec => []FoldsFollowLog
<1>1. ASSUME FoldInv, Idle, ~stale PROVE TablesFollowLog /\ MemoryFollowsLog
  <2>1. Follows(disk, mem)
    BY <1>1 DEF FoldInv, TrackInv, Idle
  <2>2. mem.facts = Facts(disk) /\ mem.waiting = Unborn(disk)
    BY <2>1 DEF Follows, Replays, FactsIn, UnbornIn, LiveIn, Facts, Unborn, Live
  <2> QED BY <2>1, <2>2 DEF Follows, Replays, Shows, TablesFollowLog, MemoryFollowsLog
<1>2. FoldInv => FoldsFollowLog
  BY <1>1 DEF FoldsFollowLog, TablesFollowLog, MemoryFollowsLog
<1> QED BY <1>2, FoldInvariant, PTL

(* A stored event with the id of an append is this device's own, and the   *)
(* two differ in nothing but what the callers asked for.                   *)
LEMMA StoredIsOwn ==
  ASSUME LogOK(db), NEW x \in Made, NEW e \in Stored(db, x.id),
         NewAppend(db, x) \/ \E f \in ToSet(db.own) : Again(x, f),
         Stored(db, x.id) = {e}
  PROVE  e \in Made /\ Again(x, e)
<1>1. db.own \in Seq(Made) /\ db.peers \subseteq Copies
  BY DEF LogOK, Shaped
<1>2. e \in ToSet(db.own)
  <2>1. PICK i \in Inputs : x.id = i.id
    BY MadeFromInput
  <2>2. e \notin db.peers
    BY <1>1, <2>1, CopyAssumption DEF Stored
  <2> QED BY <2>2 DEF Stored, Ledger
<1>3. e \in Made /\ \E n \in DOMAIN db.own : db.own[n] = e
  BY <1>1, <1>2, InToSet
<1>4. ~NewAppend(db, x)
  BY <1>3 DEF NewAppend, Stored
<1>5. PICK f \in ToSet(db.own) : Again(x, f)
  BY <1>4
<1>6. f = e
  BY <1>5 DEF Again, Stored, Ledger
<1> QED BY <1>3, <1>5, <1>6

LEMMA SameContent ==
  ASSUME NEW x \in Made, NEW e \in Made, Again(x, e)
  PROVE  x = e <=> Content(x) = Content(e)
<1>1. PICK i \in Inputs, il \in Nat, ip \in Ids \cup {None}, ib \in Bases :
        x = EnvelopeOf(i, il, ip, ib)
  BY DEF Made
<1>2. PICK j \in Inputs, jl \in Nat, jp \in Ids \cup {None}, jb \in Bases :
        e = EnvelopeOf(j, jl, jp, jb)
  BY DEF Made
<1>3. il = jl /\ ip = jp /\ ib = jb /\ i.id = j.id
  BY <1>1, <1>2 DEF EnvelopeOf, Again
<1>4. Content(x) = Content(e) =>
        i.kind = j.kind /\ i.key = j.key /\ i.line = j.line /\ i.body = j.body
  BY <1>1, <1>2 DEF EnvelopeOf, Content
<1>5. Content(x) = Content(e) => x = e
  BY <1>1, <1>2, <1>3, <1>4 DEF EnvelopeOf
<1> QED BY <1>5

(* appendTx answers an append of a stored id exactly when its caller asks  *)
(* for what is stored, however far the chain's head and the branch clock   *)
(* have moved since, throws on any other, and changes nothing (01-F8).     *)
THEOREM RetriesAnswered == Spec => RetriesAreRecognised
<1> DEFINE Recognised(e) ==
      /\ UNCHANGED <<disk, db, mem>>
      /\ call'.step = IF Content(Item.env) = Content(e) THEN "append" ELSE "idle"
<1>1. ASSUME FoldInv, [Next]_vars, ~UNCHANGED vars,
             call.step = "append", call.todo # <<>>, call'.step # "down",
             NEW e \in Stored(db, Item.env.id)
      PROVE  Recognised(e)
  <2>1. IInv /\ TrackInv /\ db = disk /\ LogOK(db)
    BY <1>1 DEF FoldInv, TrackInv, CallFresh, IInv
  <2>2. /\ Item.env \in Made /\ Item.seq = None
        /\ NewAppend(db, Item.env) \/ \E f \in ToSet(db.own) : Again(Item.env, f)
    BY <1>1, <2>1 DEF IInv, CallOK
  <2>3. Stored(db, Item.env.id) = {e}
    BY <2>1, IInvIsSound DEF Stored, LogIsSound
  <2>4. e \in Made /\ Again(Item.env, e)
    BY <2>1, <2>2, <2>3, StoredIsOwn
  <2>5. Held(db, Item) <=> Content(Item.env) = Content(e)
    BY <2>2, <2>3, <2>4, SameContent DEF Held
  <2>6. ~Insertable(db, Item) /\ ~Adopted(db, Item) /\ (Kept(db, Item) <=> Held(db, Item))
    BY <2>2, <2>3 DEF Insertable, Adopted, Kept
  <2>7. Duplicate \/ Refuse
    <3>1. ~Idle /\ call.step \notin {"refold", "down"}
      BY <1>1 DEF Idle
    <3>2. ~Crash
      BY <1>1 DEF Crash, Call
    <3>3. /\ \A i \in Inputs : ~BeginAppend(i)
          /\ ~BeginIngest /\ ~BeginPage /\ ~AskRefold
      BY <3>1 DEF BeginAppend, BeginIngest, BeginPage, AskRefold, Begin
    <3>4. ~Insert /\ ~FaultBeforeFold /\ ~FaultAfterFold /\ ~Commit /\ ~CommitFails
      BY <1>1, <2>6 DEF Insert, FaultBeforeFold, FaultAfterFold, Commit, CommitFails
    <3>5. ~Refold /\ ~RefoldFails
      BY <3>1 DEF Refold, RefoldFails
    <3>6. (\A keys \in Drops : ~RetentionDrop(keys)) /\ ~AdvanceTo /\ ~SetBranchTimeOffset
      BY <3>1 DEF RetentionDrop, AdvanceTo, SetBranchTimeOffset
    <3> QED BY <1>1, <3>2, <3>3, <3>4, <3>5, <3>6 DEF Next
  <2>8. CASE Duplicate
    <3>1. Held(db, Item) /\ db' = db /\ disk' = disk /\ mem' = mem
      BY <2>6, <2>8 DEF Duplicate
    <3>2. call'.step = call.step
      BY <2>1, <2>8 DEF Duplicate, IInv, CallOK
    <3> QED BY <1>1, <2>5, <3>1, <3>2
  <2>9. CASE Refuse
    <3>1. ~Held(db, Item)
      BY <2>6, <2>9 DEF Refuse, Landed
    <3>2. Throw(FALSE) /\ disk' = disk /\ mem' = mem
      BY <1>1, <2>9 DEF Refuse, Fail
    <3> QED BY <2>1, <2>5, <3>1, <3>2 DEF Throw, Call
  <2> QED BY <2>7, <2>8, <2>9
<1>2. ASSUME FoldInv, [Next]_vars
      PROVE  [call.step = "append" /\ call.todo # <<>> /\ call'.step # "down" =>
                \A e \in Stored(db, Item.env.id) : Recognised(e)]_vars
  BY <1>1, <1>2
<1> HIDE DEF Recognised
<1>3. Spec => [][call.step = "append" /\ call.todo # <<>> /\ call'.step # "down" =>
                   \A e \in Stored(db, Item.env.id) : Recognised(e)]_vars
  BY <1>2, FoldInvariant, PTL DEF Spec
<1> QED BY <1>3 DEF RetriesAreRecognised, Recognised

-----------------------------------------------------------------------------
(* The types.  What an item, a targeted write or a full one can put into   *)
(* the tables, and how far an acknowledgement reaches.                     *)
TypedIn(d) ==
  /\ \A i \in DOMAIN d.gseq : d.gseq[i] \in Numbers
  /\ d.acked \in -1..(Len(d.own) - 1)
  /\ \A k \in Keys : \A f \in d.rows[k] : f.key = k

CountsOK ==
  stale \in BOOLEAN /\ faults \in 0..MaxFaults /\ crashes \in 0..MaxCrashes

TypeInv == TypedIn(disk) /\ TypedIn(db) /\ CountsOK

LEMMA TypedSame ==
  ASSUME NEW c, NEW d, TypedIn(c), d.gseq = c.gseq, d.own = c.own, d.acked = c.acked,
         d.rows = c.rows
  PROVE  TypedIn(d)
BY DEF TypedIn

LEMMA NumberTyped ==
  ASSUME NEW d, DOMAIN d = Fields, TypedIn(d), NEW id, NEW n \in Numbers \cup {None}
  PROVE  TypedIn(WithNumber(d, id, n))
<1> DEFINE g == [i \in DOMAIN d.gseq \cup {id} |-> IF i = id THEN n ELSE d.gseq[i]]
<1>1. CASE n = None
  BY <1>1 DEF WithNumber
<1>2. CASE n # None
  <2>1. \A i \in DOMAIN g : g[i] \in Numbers
    BY <1>2 DEF TypedIn
  <2>2. WithNumber(d, id, n) = [d EXCEPT !.gseq = g]
    BY <1>2 DEF WithNumber
  <2> HIDE DEF g
  <2> QED BY <2>1, <2>2 DEF TypedIn, Fields
<1> QED BY <1>1, <1>2

LEMMA InsertedTyped ==
  ASSUME IInv, TypedIn(db), Storing
  PROVE  TypedIn(Inserted(db, Item))
<1> DEFINE e == Item.env
<1>1. Shaped(db) /\ Item \in Items
  BY DEF IInv, LogOK, CallOK, Item, Storing
<1>2. CASE e.dev = Me
  <2> DEFINE t == [db EXCEPT !.own = Append(@, e),
                             !.head = IF e.kind = "audit" THEN e.id ELSE @]
  <2>1. t.own = Append(db.own, e) /\ t.gseq = db.gseq /\ t.acked = db.acked /\ t.rows = db.rows
    BY <1>1 DEF Shaped, Fields
  <2>2. Inserted(db, Item) = t
    BY <1>2 DEF Inserted
  <2>3. Len(Append(db.own, e)) = Len(db.own) + 1 /\ Len(db.own) \in Nat
    BY <1>1 DEF Shaped
  <2> HIDE DEF t
  <2> QED BY <2>1, <2>2, <2>3 DEF TypedIn
<1>3. CASE e.dev # Me
  <2> DEFINE t == [db EXCEPT !.peers = @ \cup {e}]
  <2>1. /\ DOMAIN t = Fields /\ t.own = db.own /\ t.gseq = db.gseq
        /\ t.acked = db.acked /\ t.rows = db.rows
    BY <1>1 DEF Shaped, Fields
  <2>2. Inserted(db, Item) = WithNumber(t, e.id, Item.seq)
    BY <1>3 DEF Inserted
  <2> HIDE DEF t
  <2>3. TypedIn(t)
    BY <2>1, TypedSame
  <2> QED BY <1>1, <2>1, <2>2, <2>3, NumberTyped DEF Items
<1> QED BY <1>2, <1>3

LEMMA WrittenTyped ==
  ASSUME NEW d, DOMAIN d = Fields, DOMAIN d.rows = Keys, TypedIn(d), NEW m, NEW n, NEW e
  PROVE  TypedIn(Written(d, m, n, e))
<1> DEFINE t == Written(d, m, n, e)
<1>1. t.own = d.own /\ t.gseq = d.gseq /\ t.acked = d.acked
  BY DEF Written, Fields
<1>2. ASSUME NEW k \in Keys, NEW f \in t.rows[k] PROVE f.key = k
  <2>1. t.rows[k] = d.rows[k] \/ (k = e.key /\ t.rows[k] = Projection(n.facts, e.key))
    BY WrittenRow
  <2> HIDE DEF t
  <2> QED BY <1>2, <2>1, ProjectionOf DEF TypedIn
<1> HIDE DEF t
<1> QED BY <1>1, <1>2 DEF TypedIn, t

LEMMA InitTypeInv == Init => TypeInv
<1> SUFFICES ASSUME Init PROVE TypeInv
  OBVIOUS
<1>1. TypedIn(NoTables)
  BY DEF TypedIn, NoTables
<1>2. disk = NoTables /\ db = NoTables
  BY DEF Init
<1>3. faults \in 0..MaxFaults /\ crashes \in 0..MaxCrashes
  BY StoreAssumption DEF Init
<1>4. stale \in BOOLEAN
  BY DEF Init
<1> QED BY <1>1, <1>2, <1>3, <1>4 DEF TypeInv, CountsOK

(* A step that fails something has a fault or a crash left to spend.       *)
LEMMA CountsKept == CountsOK /\ [Next]_vars => CountsOK'
<1> SUFFICES ASSUME CountsOK, [Next]_vars PROVE CountsOK'
  OBVIOUS
<1>0. stale \in BOOLEAN /\ faults \in 0..MaxFaults /\ crashes \in 0..MaxCrashes
  BY DEF CountsOK
<1>1. CASE UNCHANGED <<stale, faults, crashes>>
  BY <1>0, <1>1 DEF CountsOK
<1> DEFINE Spent(n, m) == m \in {n, n - 1} /\ (m # n => n > 0)
<1>2. ASSUME stale' \in {stale, TRUE, FALSE}, Spent(faults, faults'), Spent(crashes, crashes')
      PROVE  CountsOK'
  <2>1. stale' \in BOOLEAN
    BY <1>0, <1>2
  <2>2. faults' \in 0..MaxFaults /\ crashes' \in 0..MaxCrashes
    BY <1>0, <1>2, StoreAssumption
  <2> QED BY <2>1, <2>2 DEF CountsOK
<1>3. CASE FaultBeforeFold \/ FaultAfterFold \/ CommitFails
  BY <1>2, <1>3 DEF FaultBeforeFold, FaultAfterFold, CommitFails
<1>4. CASE Refold \/ RefoldFails \/ Crash
  BY <1>2, <1>4 DEF Refold, RefoldFails, Crash
<1>5. ASSUME NEW i \in Inputs, BeginAppend(i) PROVE CountsOK'
  BY <1>1, <1>5 DEF BeginAppend, Begin
<1>6. CASE BeginIngest \/ BeginPage \/ AskRefold
  BY <1>1, <1>6 DEF BeginIngest, BeginPage, AskRefold, Begin
<1>7. CASE Insert \/ Duplicate \/ Refuse \/ Commit
  BY <1>1, <1>7 DEF Insert, Duplicate, Refuse, Commit
<1>8. ASSUME NEW keys \in Drops, RetentionDrop(keys) PROVE CountsOK'
  BY <1>1, <1>8 DEF RetentionDrop
<1>9. CASE AdvanceTo \/ SetBranchTimeOffset
  BY <1>1, <1>9 DEF AdvanceTo, SetBranchTimeOffset
<1>10. CASE UNCHANGED vars
  BY <1>1, <1>10 DEF vars
<1> QED BY <1>3, <1>4, <1>5, <1>6, <1>7, <1>8, <1>9, <1>10 DEF Next

LEMMA NextTypeInv == FoldInv /\ TypeInv /\ [Next]_vars => TypeInv'
<1> SUFFICES ASSUME FoldInv, TypeInv, [Next]_vars PROVE TypedIn(disk') /\ TypedIn(db')
  BY CountsKept DEF TypeInv
<1>1. /\ IInv /\ Shaped(disk) /\ Shaped(db) /\ DOMAIN disk.rows = Keys /\ DOMAIN db.rows = Keys
      /\ TypedIn(disk) /\ TypedIn(db)
  BY DEF FoldInv, IInv, LogOK, DropInv, HiddenIn, TypeInv
<1>2. CASE disk' \in {disk, db} /\ db' \in {disk, db}
  BY <1>1, <1>2
<1>3. ASSUME NEW i \in Inputs, BeginAppend(i) PROVE TypedIn(disk') /\ TypedIn(db')
  BY <1>2, <1>3 DEF BeginAppend, Begin
<1>4. CASE BeginIngest \/ BeginPage \/ AskRefold
  BY <1>2, <1>4 DEF BeginIngest, BeginPage, AskRefold, Begin
<1>5. CASE Insert
  <2> DEFINE t == Inserted(db, Item)
  <2>1. Storing /\ Insertable(db, Item) /\ disk' = disk
    BY <1>5 DEF Insert
  <2>2. LogOK(t) /\ t.rows = db.rows /\ TypedIn(t)
    BY <1>1, <2>1, InsertsItem, InsertedTyped
  <2>3. PICK n : db' = Written(t, mem, n, Item.env)
    BY <1>5 DEF Insert
  <2> HIDE DEF t
  <2>4. DOMAIN t = Fields /\ DOMAIN t.rows = Keys
    BY <1>1, <2>2 DEF LogOK, Shaped
  <2> QED BY <1>1, <2>1, <2>2, <2>3, <2>4, WrittenTyped
<1>6. CASE Duplicate
  <2>1. Storing /\ disk' = disk /\ db' \in {db, WithNumber(db, Item.env.id, Item.seq)}
    BY <1>6 DEF Duplicate
  <2>2. Item \in Items
    BY <1>1, <2>1 DEF IInv, CallOK, Item, Storing
  <2> QED BY <1>1, <2>1, <2>2, NumberTyped DEF Items, Shaped
<1>7. CASE Refuse \/ FaultBeforeFold \/ FaultAfterFold
  BY <1>2, <1>7, FailViews DEF Refuse, FaultBeforeFold, FaultAfterFold
<1>8. CASE Commit
  BY <1>2, <1>8 DEF Commit
<1>9. CASE CommitFails
  BY <1>2, <1>9, FailViews DEF CommitFails
<1>10. CASE Refold
  <2>1. disk' = WriteFullTables(disk, mem') /\ db' = disk' /\ DOMAIN disk = Fields
    BY <1>1, <1>10 DEF Refold, Shaped
  <2>2. disk'.rows = [k \in Keys |-> Projection(mem'.facts, k)]
    BY <2>1, FullShape
  <2>3. disk'.own = disk.own /\ disk'.gseq = disk.gseq /\ disk'.acked = disk.acked
    BY <2>1 DEF WriteFullTables, Fields
  <2>4. \A k \in Keys : \A f \in disk'.rows[k] : f.key = k
    BY <2>2, ProjectionOf
  <2> QED BY <1>1, <2>1, <2>3, <2>4 DEF TypedIn
<1>11. CASE RefoldFails
  BY <1>2, <1>11 DEF RefoldFails
<1>12. ASSUME NEW keys \in Drops, RetentionDrop(keys) PROVE TypedIn(disk') /\ TypedIn(db')
  <2>1. PICK orders \in SUBSET Keys : \E lines : DropsTo(orders, lines)
    BY <1>12, DropEffect DEF FoldInv
  <2>2. PICK lines : DropsTo(orders, lines)
    BY <2>1
  <2>3. \A k \in Keys : \/ db'.rows[k] = {} \/ db'.rows[k] = db.rows[k]
                        \/ \E facts : db'.rows[k] = Projection(facts, k)
    BY <2>2 DEF DropsTo
  <2>4. \A k \in Keys : \A f \in db'.rows[k] : f.key = k
    BY <1>1, <2>3, ProjectionOf DEF TypedIn
  <2>5. disk' = db' /\ db'.own = db.own /\ db'.gseq = db.gseq /\ db'.acked = db.acked
    BY <1>1, <1>12 DEF RetentionDrop, Shaped, Fields
  <2> QED BY <1>1, <2>4, <2>5 DEF TypedIn
<1>13. CASE AdvanceTo
  <2>1. PICK w \in 0..(Len(db.own) - 1) : db' = [db EXCEPT !.acked = w]
    BY <1>13 DEF AdvanceTo
  <2>2. /\ disk' = db' /\ db'.own = db.own /\ db'.gseq = db.gseq /\ db'.acked = w
        /\ db'.rows = db.rows
    BY <1>1, <1>13, <2>1 DEF AdvanceTo, Shaped, Fields
  <2>3. w \in -1..(Len(db.own) - 1)
    BY <1>1, <2>1 DEF Shaped
  <2> QED BY <1>1, <2>2, <2>3 DEF TypedIn
<1>14. CASE SetBranchTimeOffset
  <2>1. /\ disk' = db' /\ db'.own = db.own /\ db'.gseq = db.gseq /\ db'.acked = db.acked
        /\ db'.rows = db.rows
    BY <1>1, <1>14 DEF SetBranchTimeOffset, Shaped, Fields
  <2> QED BY <1>1, <2>1, TypedSame
<1>15. CASE Crash
  BY <1>2, <1>15 DEF Crash
<1>16. CASE UNCHANGED vars
  BY <1>2, <1>16 DEF vars
<1> QED
  BY <1>3, <1>4, <1>5, <1>6, <1>7, <1>8, <1>9, <1>10, <1>11, <1>12, <1>13, <1>14,
     <1>15, <1>16 DEF Next

(* The tables of a store hold what they are declared to: own events the    *)
(* application asked for, delivered peers, known numbers, an               *)
(* acknowledgement of nothing that was not appended, and in the row of a   *)
(* key only facts about that key; and the bounds are respected.            *)
THEOREM StoreTypeCorrect == Spec => []TypeOK
<1>1. ASSUME FoldInv, TypeInv PROVE TypeOK
  <2>1. IInv /\ Shaped(disk) /\ Shaped(db) /\ NumbersOK(disk) /\ NumbersOK(db) /\ CleanIn(mem)
    BY <1>1 DEF FoldInv, IInv, LogOK, DropInv
  <2>2. ASSUME NEW d \in {disk, db}, Shaped(d), NumbersOK(d), TypedIn(d)
        PROVE  /\ \A n \in DOMAIN d.own : \E i \in Inputs :
                    d.own[n] = EnvelopeOf(i, d.own[n].lam, d.own[n].prev, d.own[n].basis)
               /\ d.peers \subseteq Copies
               /\ DOMAIN d.gseq \subseteq Ids /\ Range(d.gseq) \subseteq Numbers
               /\ d.acked \in -1..(Len(d.own) - 1)
               /\ d.head \in Ids \cup {None}
               /\ d.basis \in {"branch", "branch_provisional"}
               /\ \A k \in Keys : \A f \in d.rows[k] : f.key = k
    <3>1. d.own \in Seq(Made) /\ d.peers \subseteq Copies
      BY <2>2 DEF Shaped
    <3>2. \A n \in DOMAIN d.own : d.own[n] \in Made
      BY <3>1
    <3>3. \A e \in Ledger(d) : e.id \in Ids
      <4>1. \A e \in ToSet(d.own) : e \in Made
        BY <3>1, InToSet
      <4>2. \A e \in d.peers : e.id \in Ids
        BY <3>1 DEF Ids
      <4> QED BY <4>1, <4>2, MadeFromInput DEF Ledger
    <3>4. DOMAIN d.gseq \subseteq Ids
      BY <2>2, <3>3 DEF NumbersOK
    <3>5. Range(d.gseq) \subseteq Numbers
      BY <2>2 DEF TypedIn, Range
    <3>6. \A n \in DOMAIN d.own : \E i \in Inputs :
            d.own[n] = EnvelopeOf(i, d.own[n].lam, d.own[n].prev, d.own[n].basis)
      BY <3>2, MadeFromInput
    <3> QED BY <2>2, <3>1, <3>4, <3>5, <3>6 DEF TypedIn, Shaped, Bases
  <2>3. mem.orders \cup {l[1] : l \in mem.lines} \subseteq Keys
    BY <2>1 DEF CleanIn
  <2>4. call.step \in {"down", "idle", "append", "ingest", "page", "refold"}
    BY <2>1 DEF IInv, CallOK
  <2> HIDE DEF TypedIn
  <2> QED BY <1>1, <2>1, <2>2, <2>3, <2>4 DEF TypeOK, TypeInv, CountsOK
<1>2. Init => FoldInv /\ TypeInv
  BY InitFoldInv, InitTypeInv
<1>3. (FoldInv /\ TypeInv) /\ [Next]_vars => (FoldInv /\ TypeInv)'
  BY NextFoldInv, NextTypeInv
<1>4. FoldInv /\ TypeInv => TypeOK
  BY <1>1
<1> QED BY <1>2, <1>3, <1>4, PTL DEF Spec

=============================================================================
