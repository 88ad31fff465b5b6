--------------------------- MODULE GatewayProofs ---------------------------
(***************************************************************************)
(* Type correctness of the merge pipeline, the integrity of the merged log *)
(* and the durability of what it acknowledges, for every set of devices,   *)
(* relays and envelopes; and, at the end, that no notice of what it        *)
(* refused is marked delivered before it was sent.                         *)
(***************************************************************************)
EXTENDS Gateway, NoticeOutbox, Sequences, FiniteSetTheorems, WellFoundedInduction, TLAPS

-----------------------------------------------------------------------------
(* Least elements, minimal sets, and sums over finite sets.                *)

(* Every nonempty set of naturals has a least element.                     *)
LEMMA LeastNatural ==
  ASSUME NEW S \in SUBSET Nat, S # {}
  PROVE  \E m \in S : \A n \in S : m <= n
<1> DEFINE Below == OpToRel(<, Nat)
<1>1. IsWellFoundedOn(Below, Nat)
  BY NatLessThanWellFounded, Zenon
<1>2. \A m, n \in Nat : n < m => <<n, m>> \in Below
  BY Zenon DEF OpToRel
<1> HIDE DEF Below
<1>3. PICK m \in S : \A n \in S : ~ (<<n, m>> \in Below)
  BY <1>1, WFMin, Zenon
<1>4. ASSUME NEW n \in S PROVE ~(n < m)
  BY <1>2, <1>3, Zenon
<1>5. \A n \in S : m <= n
  BY <1>4, SMT
<1> QED BY <1>5, Zenon

Some(s) == CHOOSE x \in s : TRUE

(* f gives the sum of P over every subset of S.                            *)
IsSumOf(f, P, S) ==
  f = [s \in SUBSET S |-> IF s = {} THEN 0 ELSE P[Some(s)] + f[s \ {Some(s)}]]

SumOf(P, S) == (CHOOSE f : IsSumOf(f, P, S))[S]

(* Of the subsets of a finite set some set has, one is minimal.            *)
LEMMA MinimalSet ==
  ASSUME NEW S, IsFiniteSet(S), NEW D \in SUBSET SUBSET S, D # {}
  PROVE  \E T \in D : \A U \in D : U \subseteq T => U = T
<1> DEFINE R == StrictSubsetOrdering(S)
<1>1. IsWellFoundedOn(R, SUBSET S)
  BY FS_StrictSubsetOrderingWellFounded, FS_FiniteSubsetsOfFinite
<1> HIDE DEF R
<1>2. \E x \in D : \A y \in D : ~ (<<y, x>> \in R)
  BY <1>1, WFMin
<1> QED BY <1>2 DEF R, StrictSubsetOrdering

LEMMA SomeIsIn == ASSUME NEW s, s # {} PROVE Some(s) \in s
BY DEF Some

LEMMA SumsAgree ==
  ASSUME NEW P, NEW S, NEW T, NEW A, A \subseteq S, A \subseteq T, IsFiniteSet(A),
         NEW f, IsSumOf(f, P, S), NEW g, IsSumOf(g, P, T)
  PROVE  f[A] = g[A]
<1> DEFINE D == {U \in SUBSET A : f[U] # g[U]}
<1>1. SUFFICES ASSUME D # {} PROVE FALSE
  OBVIOUS
<1>2. PICK U \in D : \A V \in D : V \subseteq U => V = U
  <2>1. D \in SUBSET SUBSET A
    OBVIOUS
  <2> HIDE DEF D
  <2> QED BY <1>1, <2>1, MinimalSet
<1>3. U \subseteq A /\ f[U] # g[U]
  OBVIOUS
<1>4. CASE U = {}
  BY <1>3, <1>4 DEF IsSumOf
<1>5. CASE U # {}
  <2> DEFINE V == U \ {Some(U)}
  <2>1. V \subseteq U /\ V # U
    BY <1>5, SomeIsIn
  <2>2. f[V] = g[V]
    BY <1>2, <1>3, <2>1
  <2>3. f[U] = P[Some(U)] + f[V] /\ g[U] = P[Some(U)] + g[V]
    BY <1>3, <1>5 DEF IsSumOf
  <2> QED BY <1>3, <2>2, <2>3
<1> QED BY <1>4, <1>5

LEMMA SumsExist ==
  ASSUME NEW P, NEW S, IsFiniteSet(S)
  PROVE  \E f : IsSumOf(f, P, S)
<1> DEFINE D == {U \in SUBSET S : ~ \E f : IsSumOf(f, P, U)}
           G(V) == CHOOSE f : IsSumOf(f, P, V)
<1>1. SUFFICES ASSUME D # {} PROVE FALSE
  OBVIOUS
<1>2. PICK U \in D : \A V \in D : V \subseteq U => V = U
  <2>1. D \in SUBSET SUBSET S
    OBVIOUS
  <2> HIDE DEF D
  <2> QED BY <1>1, <2>1, MinimalSet
<1>3. \A V \in SUBSET U : V # U => IsSumOf(G(V), P, V) /\ IsFiniteSet(V)
  BY <1>2, FS_Subset
<1> HIDE DEF G
<1> DEFINE h == [s \in SUBSET U |-> IF s = {} THEN 0
                                    ELSE P[Some(s)] + G(s \ {Some(s)})[s \ {Some(s)}]]
<1>4. ASSUME NEW V \in SUBSET U, V # U
      PROVE  h[V] = G(V)[V]
  <2>1. CASE V = {}
    BY <1>3, <1>4, <2>1 DEF IsSumOf
  <2>2. CASE V # {}
    <3> DEFINE W == V \ {Some(V)}
    <3>1. W \subseteq V /\ W \subseteq U /\ W # U
      BY <1>4, <2>2, SomeIsIn
    <3>2. G(V)[V] = P[Some(V)] + G(V)[W]
      BY <1>3, <1>4, <2>2 DEF IsSumOf
    <3>3. IsSumOf(G(V), P, V) /\ IsSumOf(G(W), P, W) /\ IsFiniteSet(W)
      BY <1>3, <1>4, <3>1
    <3>4. G(V)[W] = G(W)[W]
      BY <3>1, <3>3, SumsAgree
    <3>5. h[V] = P[Some(V)] + G(W)[W]
      BY <2>2
    <3> QED BY <3>2, <3>4, <3>5
  <2> QED BY <2>1, <2>2
<1>5. ASSUME NEW s \in SUBSET U, s # {}
      PROVE  h[s] = P[Some(s)] + h[s \ {Some(s)}]
  <2>1. s \ {Some(s)} \in SUBSET U /\ s \ {Some(s)} # U
    BY <1>5, SomeIsIn
  <2>2. h[s \ {Some(s)}] = G(s \ {Some(s)})[s \ {Some(s)}]
    BY <2>1, <1>4
  <2>3. h[s] = P[Some(s)] + G(s \ {Some(s)})[s \ {Some(s)}]
    BY <1>5
  <2> QED BY <2>2, <2>3
<1>6. h[{}] = 0 /\ h = [s \in SUBSET U |-> h[s]]
  OBVIOUS
<1> HIDE DEF h
<1>7. IsSumOf(h, P, U)
  BY <1>5, <1>6 DEF IsSumOf
<1> QED BY <1>2, <1>7

LEMMA SumChosen ==
  ASSUME NEW P, NEW S, IsFiniteSet(S), NEW T, S \subseteq T, NEW f, IsSumOf(f, P, T)
  PROVE  SumOf(P, S) = f[S]
<1>1. IsSumOf(CHOOSE g : IsSumOf(g, P, S), P, S)
  BY SumsExist
<1> QED BY <1>1, SumsAgree DEF SumOf

LEMMA SumStep ==
  ASSUME NEW P, NEW S, IsFiniteSet(S)
  PROVE  /\ SumOf(P, {}) = 0
         /\ S # {} => SumOf(P, S) = P[Some(S)] + SumOf(P, S \ {Some(S)})
<1>1. PICK f : IsSumOf(f, P, S)
  BY SumsExist
<1>2. \A U \in SUBSET S : SumOf(P, U) = f[U]
  BY <1>1, SumChosen, FS_Subset
<1>3. f[{}] = 0 /\ (S # {} => f[S] = P[Some(S)] + f[S \ {Some(S)}])
  BY <1>1 DEF IsSumOf
<1> QED BY <1>2, <1>3

LEMMA SumIsNat ==
  ASSUME NEW P, NEW S, IsFiniteSet(S), \A x \in S : P[x] \in Nat
  PROVE  SumOf(P, S) \in Nat
<1> DEFINE D == {U \in SUBSET S : SumOf(P, U) \notin Nat}
<1>1. SUFFICES ASSUME D # {} PROVE FALSE
  OBVIOUS
<1>2. PICK U \in D : \A V \in D : V \subseteq U => V = U
  <2>1. D \in SUBSET SUBSET S
    OBVIOUS
  <2> HIDE DEF D
  <2> QED BY <1>1, <2>1, MinimalSet
<1>3. U \subseteq S /\ IsFiniteSet(U) /\ SumOf(P, U) \notin Nat
  BY FS_Subset
<1>4. U # {} /\ SumOf(P, U) = P[Some(U)] + SumOf(P, U \ {Some(U)})
  BY <1>3, SumStep
<1>5. Some(U) \in U /\ U \ {Some(U)} \notin D
  BY <1>2, <1>4, SomeIsIn
<1> QED BY <1>3, <1>4, <1>5

(* An element adds what it is worth.                                       *)
LEMMA SumAdds ==
  ASSUME NEW P, NEW S, IsFiniteSet(S), \A x \in S : P[x] \in Nat, NEW a \in S
  PROVE  SumOf(P, S) = P[a] + SumOf(P, S \ {a})
<1> DEFINE D == {U \in SUBSET S : \E x \in U : SumOf(P, U) # P[x] + SumOf(P, U \ {x})}
<1>1. SUFFICES ASSUME D # {} PROVE FALSE
  OBVIOUS
<1>2. PICK U \in D : \A V \in D : V \subseteq U => V = U
  <2>1. D \in SUBSET SUBSET S
    OBVIOUS
  <2> HIDE DEF D
  <2> QED BY <1>1, <2>1, MinimalSet
<1>3. PICK x \in U : SumOf(P, U) # P[x] + SumOf(P, U \ {x})
  BY <1>2
<1> DEFINE c == Some(U)
<1>4. c \in U /\ U \subseteq S /\ IsFiniteSet(U)
  BY SomeIsIn, FS_Subset
<1>5. SumOf(P, U) = P[c] + SumOf(P, U \ {c})
  BY <1>4, SumStep
<1> HIDE DEF c
<1>6. c # x
  BY <1>3, <1>5
<1>7. U \ {c} \notin D /\ U \ {x} \notin D
  BY <1>2, <1>4
<1>8. SumOf(P, U \ {c}) = P[x] + SumOf(P, (U \ {c}) \ {x})
  BY <1>4, <1>6, <1>7
<1>9. SumOf(P, U \ {x}) = P[c] + SumOf(P, (U \ {x}) \ {c})
  BY <1>4, <1>6, <1>7
<1>10. PICK R \in SUBSET S : R = (U \ {c}) \ {x} /\ R = (U \ {x}) \ {c}
  BY <1>4
<1>11. SumOf(P, R) \in Nat /\ P[c] \in Nat /\ P[x] \in Nat
  BY <1>4, FS_Subset, SumIsNat
<1>12. SumOf(P, U \ {c}) = P[x] + SumOf(P, R) /\ SumOf(P, U \ {x}) = P[c] + SumOf(P, R)
  BY <1>8, <1>9, <1>10
<1> QED BY <1>3, <1>5, <1>11, <1>12

-----------------------------------------------------------------------------
(* fill() advances to the first slot that is not filled.                   *)
LEMMA ThroughIsFirstGap ==
  ASSUME NEW mark \in Marks, NEW filled \in SUBSET Slots
  PROVE  /\ Through(mark, filled) \in mark..MaxSlot
         /\ (mark + 1)..Through(mark, filled) \subseteq filled
         /\ Through(mark, filled) + 1 \notin filled
<1> USE EnvelopesAssumption, RelaysAssumption
<1> DEFINE Gaps == {n \in Nat : n > mark /\ n \notin filled}
<1>1. MaxSlot + 1 \in Gaps
  BY DEF Marks, Slots
<1>2. PICK g \in Gaps : \A n \in Gaps : g <= n
  BY <1>1, LeastNatural
<1>3. g - 1 \in mark..MaxSlot
  BY <1>1, <1>2 DEF Marks
<1>4. (mark + 1)..(g - 1) \subseteq filled
  BY <1>2, <1>3 DEF Marks
<1>5. (g - 1) + 1 \notin filled
  BY <1>2, <1>3 DEF Marks
<1>6. \E t \in mark..MaxSlot : (mark + 1)..t \subseteq filled /\ t + 1 \notin filled
  BY <1>3, <1>4, <1>5
<1> QED BY <1>6 DEF Through

-----------------------------------------------------------------------------
(* The inductive invariant.  Of both views of the tables: ids, global_seqs *)
(* and slots are unique, no event lies above its origin's watermark, and   *)
(* every slot up to a watermark is held.  Of the open transaction: the     *)
(* slots filled out of order are held too.  Of the acknowledgements, sent  *)
(* or about to be sent: they stay below the committed watermark.           *)

LogOK(T) ==
  /\ T.next > 0
  /\ \A r, q \in T.events :
       \/ r.env.id = q.env.id
       \/ r.gseq = q.gseq
       \/ r.env.author = q.env.author /\ r.env.slot = q.env.slot
       => r = q
  /\ \A r \in T.events : r.gseq \in 1..(T.next - 1)
  /\ \A r \in T.events : r.env.slot <= T.watermark[r.env.author]
  /\ \A n \in 1..(T.next - 1) : \E r \in T.events : r.gseq = n

HeldOwn(T, x, s) == Held(T, x, s) /\ (x \in Relays => OwnHeld(T, x, s))

SlotsOK(T) == \A x \in Devices : \A s \in 0..T.watermark[x] : HeldOwn(T, x, s)

ExtraOK == \A x \in Devices : \A s \in extra[x] : HeldOwn(work, x, s)

MarksOK == \A x \in Devices : db.watermark[x] <= work.watermark[x]

AcksOK ==
  /\ \A x \in Devices : acked[x] <= db.watermark[x]
  /\ \A d \in Devices : outcome[d].origin \in Devices =>
       outcome[d].acked <= db.watermark[outcome[d].origin]

IInv ==
  /\ TypeOK
  /\ LogOK(db) /\ SlotsOK(db)
  /\ LogOK(work) /\ SlotsOK(work)
  /\ ExtraOK
  /\ MarksOK
  /\ AcksOK

-----------------------------------------------------------------------------
LEMMA FillTypes ==
  ASSUME TypeOK, NEW x \in Devices, NEW slot \in Slots
  PROVE  /\ FilledBy(x, slot) \in SUBSET Slots
         /\ MarkAfter(x, slot) \in Marks
         /\ work.watermark[x] \in Marks
         /\ work.watermark[x] <= MarkAfter(x, slot)
         /\ (work.watermark[x] + 1)..MarkAfter(x, slot) \subseteq FilledBy(x, slot)
         /\ slot = work.watermark[x] + 1 => slot <= MarkAfter(x, slot)
<1> USE EnvelopesAssumption, RelaysAssumption
<1>1. work.watermark[x] \in Marks /\ extra[x] \in SUBSET Slots
  BY DEF TypeOK, Tables
<1>2. FilledBy(x, slot) \in SUBSET Slots
  BY <1>1 DEF FilledBy
<1>3. /\ MarkAfter(x, slot) \in work.watermark[x]..MaxSlot
      /\ (work.watermark[x] + 1)..MarkAfter(x, slot) \subseteq FilledBy(x, slot)
      /\ MarkAfter(x, slot) + 1 \notin FilledBy(x, slot)
  BY <1>1, <1>2, ThroughIsFirstGap DEF MarkAfter
<1> QED BY <1>1, <1>2, <1>3 DEF FilledBy, Marks, Slots

(* What is held stays held when events and quarantine rows only grow.      *)
Grows(T, U) ==
  /\ T.events \subseteq U.events
  /\ \A q \in T.quarantine : \E p \in U.quarantine : p.holder = q.holder /\ p.env = q.env

LEMMA HeldGrows ==
  ASSUME NEW T, NEW U, Grows(T, U), NEW x, NEW s, HeldOwn(T, x, s)
  PROVE  HeldOwn(U, x, s)
<1>1. Held(U, x, s)
  <2>1. CASE \E r \in T.events : r.env.author = x /\ r.env.slot = s
    BY <2>1 DEF Grows, Held
  <2>2. CASE \E q \in T.quarantine : q.holder = x /\ q.env.slot = s
    BY <2>2 DEF Grows, Held
  <2> QED BY <2>1, <2>2 DEF HeldOwn, Held
<1>2. ASSUME OwnHeld(T, x, s) PROVE OwnHeld(U, x, s)
  <2>1. CASE \E r \in T.events : r.env.author = x /\ r.env.slot = s
    BY <2>1 DEF Grows, OwnHeld
  <2>2. CASE \E q \in T.quarantine : \E e \in Envelopes :
               /\ q.holder = x /\ q.env.slot = s
               /\ e.author = x /\ e.slot = s /\ e.id = q.env.id
    <3>1. PICK q \in T.quarantine, e \in Envelopes :
               /\ q.holder = x /\ q.env.slot = s
               /\ e.author = x /\ e.slot = s /\ e.id = q.env.id
      BY <2>2
    <3>2. PICK p \in U.quarantine : p.holder = q.holder /\ p.env = q.env
      BY DEF Grows
    <3> QED BY <3>1, <3>2 DEF OwnHeld
  <2> QED BY <1>2, <2>1, <2>2 DEF OwnHeld
<1> QED BY <1>1, <1>2 DEF HeldOwn

(* Filling a slot that is held keeps every settled and every filled slot   *)
(* held.                                                                   *)
LEMMA FillKeepsHeld ==
  ASSUME TypeOK, SlotsOK(work), ExtraOK, Grows(work, work'),
         NEW x \in Devices, NEW slot \in Slots, HeldOwn(work', x, slot),
         Fill(x, slot),
         work'.watermark = [work.watermark EXCEPT ![x] = MarkAfter(x, slot)]
  PROVE  SlotsOK(work') /\ ExtraOK'
<1> USE FillTypes
<1>1. ASSUME NEW y \in Devices, NEW s \in 0..work.watermark[y]
      PROVE  HeldOwn(work', y, s)
  BY <1>1, HeldGrows DEF SlotsOK
<1>2. ASSUME NEW y \in Devices, NEW s \in extra[y]
      PROVE  HeldOwn(work', y, s)
  BY <1>2, HeldGrows DEF ExtraOK
<1>3. \A s \in FilledBy(x, slot) : HeldOwn(work', x, s)
  BY <1>2 DEF FilledBy
<1>4. work.watermark \in [Devices -> Marks] /\ extra \in [Devices -> SUBSET Slots]
  BY DEF TypeOK, Tables
<1>5. ASSUME NEW y \in Devices, NEW s \in 0..work'.watermark[y]
      PROVE  HeldOwn(work', y, s)
  <2>1. CASE y # x
    BY <1>1, <1>4, <2>1
  <2>2. CASE y = x /\ s <= work.watermark[x]
    BY <1>1, <1>4, <2>2 DEF Marks
  <2>3. CASE y = x /\ s > work.watermark[x]
    <3>1. s \in (work.watermark[x] + 1)..MarkAfter(x, slot)
      BY <1>4, <1>5, <2>3 DEF Marks
    <3> QED BY <1>3, <2>3, <3>1
  <2> QED BY <1>4, <2>1, <2>2, <2>3 DEF Marks
<1>6. ASSUME NEW y \in Devices, NEW s \in extra'[y]
      PROVE  HeldOwn(work', y, s)
  <2>1. CASE y # x
    BY <1>2, <1>4, <1>6, <2>1 DEF Fill
  <2>2. CASE y = x
    BY <1>3, <1>4, <1>6, <2>2 DEF Fill
  <2> QED BY <2>1, <2>2
<1> QED BY <1>5, <1>6 DEF SlotsOK, ExtraOK, HeldOwn, Held, OwnHeld

-----------------------------------------------------------------------------
(* What one iteration of the merge loop does to the tables.                *)
LoopKeeps ==
  /\ work' \in Tables
  /\ extra' \in [Devices -> SUBSET Slots]
  /\ LogOK(work')
  /\ SlotsOK(work')
  /\ ExtraOK'
  /\ \A x \in Devices : work.watermark[x] <= work'.watermark[x]

LEMMA FillKeepsTypes ==
  ASSUME TypeOK, NEW x \in Devices, NEW slot \in Slots, Fill(x, slot)
  PROVE  /\ extra' \in [Devices -> SUBSET Slots]
         /\ [work.watermark EXCEPT ![x] = MarkAfter(x, slot)] \in [Devices -> Marks]
         /\ \A y \in Devices :
              work.watermark[y] <= [work.watermark EXCEPT ![x] = MarkAfter(x, slot)][y]
<1>1. work.watermark \in [Devices -> Marks] /\ extra \in [Devices -> SUBSET Slots]
  BY DEF TypeOK, Tables
<1> QED BY <1>1, FillTypes DEF Fill, Marks

(* A quarantine row whose slot its own holder's stream is credited with.   *)
LEMMA QuarantineKeeps ==
  ASSUME IInv,
         NEW e \in Envelopes, NEW holder \in Devices, NEW reason \in Reasons,
         NEW stream \in {None, holder},
         stream \in Relays => e.author = holder,
         Quarantine(stream, e, reason, holder)
  PROVE  LoopKeeps
<1> DEFINE row == [env |-> e, holder |-> holder, reason |-> reason, live |-> TRUE]
           rows == IF RowsOf(e.id, holder) = {} THEN work.quarantine \cup {row}
                                                ELSE work.quarantine
<1>0. /\ work \in Tables /\ extra \in [Devices -> SUBSET Slots]
      /\ e.slot \in Slots
      /\ None \notin Devices
      /\ Relays \subseteq Devices
  BY EnvelopesAssumption, RelaysAssumption DEF IInv, TypeOK
<1> DEFINE RowType == [env : Envelopes, holder : Devices, reason : Reasons, live : BOOLEAN]
<1>1. rows \in SUBSET RowType
  <2>1. row \in RowType
    OBVIOUS
  <2>2. work.quarantine \in SUBSET RowType
    BY <1>0 DEF Tables
  <2> HIDE DEF row, RowType
  <2> QED BY <2>1, <2>2
<1>2. work.quarantine \subseteq rows
  OBVIOUS
<1>3. CASE /\ stream # None /\ Credits(e, holder)
           /\ work' = [work EXCEPT !.quarantine = rows,
                                   !.watermark[stream] = MarkAfter(stream, e.slot)]
           /\ Fill(stream, e.slot)
  <2>1. stream = holder
    BY <1>3
  <2>2. /\ work'.events = work.events /\ work'.next = work.next
        /\ work'.quarantine = rows
        /\ work'.watermark = [work.watermark EXCEPT ![holder] = MarkAfter(holder, e.slot)]
    BY <1>0, <1>3, <2>1 DEF Tables
  <2>3. work' \in Tables /\ extra' \in [Devices -> SUBSET Slots]
    BY <1>0, <1>1, <1>3, <2>1, <2>2, FillKeepsTypes DEF Tables, IInv
  <2>4. Grows(work, work')
    BY <1>2, <2>2 DEF Grows
  <2>5. \E q \in rows : q.holder = holder /\ q.env.slot = e.slot /\ q.env.id = e.id
    <3>1. CASE RowsOf(e.id, holder) = {}
      <4>1. row \in rows
        BY <3>1
      <4>2. row.holder = holder /\ row.env.slot = e.slot /\ row.env.id = e.id
        OBVIOUS
      <4> HIDE DEF row, rows
      <4> QED BY <4>1, <4>2
    <3>2. CASE RowsOf(e.id, holder) # {}
      BY <1>3, <3>2 DEF Credits, RowsOf
    <3> QED BY <3>1, <3>2
  <2>6. HeldOwn(work', holder, e.slot)
    BY <1>0, <2>1, <2>2, <2>5 DEF HeldOwn, Held, OwnHeld
  <2>7. SlotsOK(work') /\ ExtraOK'
    BY <1>0, <1>3, <2>1, <2>2, <2>4, <2>6, FillKeepsHeld DEF IInv
  <2>8. \A x \in Devices : work.watermark[x] <= work'.watermark[x]
    BY <1>0, <1>3, <2>1, <2>2, FillKeepsTypes DEF IInv
  <2>9. LogOK(work')
    <3>1. \A r \in work.events : r.env.author \in Devices /\ r.env.slot \in Slots
      BY <1>0, EnvelopesAssumption, RelaysAssumption DEF Tables
    <3>2. \A r \in work.events : r.env.slot <= work'.watermark[r.env.author]
      BY <1>0, <2>3, <2>8, <3>1 DEF IInv, LogOK, Tables, Marks, Slots
    <3> QED BY <2>2, <3>2 DEF IInv, LogOK
  <2> QED BY <2>3, <2>7, <2>8, <2>9 DEF LoopKeeps
<1>4. CASE /\ ~(stream # None /\ Credits(e, holder))
           /\ work' = [work EXCEPT !.quarantine = rows]
           /\ UNCHANGED extra
  <2>2. /\ work'.events = work.events /\ work'.next = work.next
        /\ work'.quarantine = rows
        /\ work'.watermark = work.watermark
    BY <1>0, <1>4 DEF Tables
  <2>3. work' \in Tables /\ extra' \in [Devices -> SUBSET Slots]
    BY <1>0, <1>1, <1>4 DEF Tables
  <2>4. Grows(work, work')
    BY <1>2, <2>2 DEF Grows
  <2>5. SlotsOK(work')
    BY <2>2, <2>4, HeldGrows DEF IInv, SlotsOK
  <2>6. \A x \in Devices : \A s \in extra[x] : HeldOwn(work', x, s)
    BY <2>4, HeldGrows DEF IInv, ExtraOK
  <2>7. ExtraOK'
    BY <1>4, <2>6 DEF ExtraOK, HeldOwn, Held, OwnHeld
  <2>8. \A x \in Devices : work.watermark[x] <= work'.watermark[x]
    BY <1>0, <2>2 DEF Tables, Marks
  <2>9. LogOK(work')
    BY <2>2 DEF IInv, LogOK
  <2> QED BY <2>3, <2>5, <2>7, <2>8, <2>9 DEF LoopKeeps
<1> QED BY <1>3, <1>4 DEF Quarantine

(* A merged event, or a duplicate of one, fills its origin's slot.         *)
LEMMA DuplicateKeeps ==
  ASSUME IInv, NEW e \in Envelopes, IsMerged(e),
         Fill(e.author, e.slot),
         work' = [work EXCEPT !.watermark[e.author] = MarkAfter(e.author, e.slot)]
  PROVE  LoopKeeps
<1>0. /\ work \in Tables /\ e.slot \in Slots /\ e.author \in Devices
      /\ TypeOK /\ LogOK(work) /\ SlotsOK(work) /\ ExtraOK
  BY EnvelopesAssumption, RelaysAssumption DEF IInv, TypeOK
<1>1. /\ work'.events = work.events /\ work'.next = work.next
      /\ work'.quarantine = work.quarantine
      /\ work'.watermark = [work.watermark EXCEPT ![e.author] = MarkAfter(e.author, e.slot)]
  BY <1>0 DEF Tables
<1>2. work' \in Tables /\ extra' \in [Devices -> SUBSET Slots]
  BY <1>0, <1>1, FillKeepsTypes DEF Tables
<1>3. Grows(work, work')
  BY <1>1 DEF Grows
<1>4. HeldOwn(work', e.author, e.slot)
  BY <1>1 DEF IsMerged, HeldOwn, Held, OwnHeld
<1>5. SlotsOK(work') /\ ExtraOK'
  BY <1>0, <1>1, <1>3, <1>4, FillKeepsHeld
<1>6. \A x \in Devices : work.watermark[x] <= work'.watermark[x]
  BY <1>0, <1>1, FillKeepsTypes
<1>7. LogOK(work')
  <2>1. \A r \in work.events : r.env.author \in Devices /\ r.env.slot \in Slots
    BY <1>0, EnvelopesAssumption, RelaysAssumption DEF Tables
  <2>2. \A r \in work.events : r.env.slot <= work'.watermark[r.env.author]
    BY <1>0, <1>2, <1>6, <2>1 DEF LogOK, Tables, Marks, Slots
  <2> QED BY <1>0, <1>1, <2>2 DEF LogOK
<1> QED BY <1>2, <1>5, <1>6, <1>7 DEF LoopKeeps

LEMMA MergeKeeps ==
  ASSUME IInv, NEW e \in Envelopes, NextInLine(e),
         Fill(e.author, e.slot),
         work' = [work EXCEPT
           !.events = @ \cup {[env |-> e, gseq |-> work.next]},
           !.next = @ + 1,
           !.quarantine = {q \in @ : q.env # e} \cup
                          {[q EXCEPT !.live = FALSE] : q \in {q \in @ : q.env = e}},
           !.watermark[e.author] = MarkAfter(e.author, e.slot)]
  PROVE  LoopKeeps
<1> DEFINE new == [env |-> e, gseq |-> work.next]
           kept == {q \in work.quarantine : q.env # e}
           dead == {[q EXCEPT !.live = FALSE] : q \in {q \in work.quarantine : q.env = e}}
<1>0. /\ work \in Tables /\ e.slot \in Slots /\ e.author \in Devices
      /\ TypeOK /\ LogOK(work) /\ SlotsOK(work) /\ ExtraOK
  BY EnvelopesAssumption, RelaysAssumption DEF IInv, TypeOK
<1>1. /\ work'.events = work.events \cup {new}
      /\ work'.next = work.next + 1
      /\ work'.quarantine = kept \cup dead
      /\ work'.watermark = [work.watermark EXCEPT ![e.author] = MarkAfter(e.author, e.slot)]
  BY <1>0 DEF Tables
<1>a. \A q \in work.quarantine :
        q \in [env : Envelopes, holder : Devices, reason : Reasons, live : BOOLEAN]
  BY <1>0 DEF Tables
<1>b. \A q \in work.quarantine :
        /\ [q EXCEPT !.live = FALSE] \in
              [env : Envelopes, holder : Devices, reason : Reasons, live : BOOLEAN]
        /\ [q EXCEPT !.live = FALSE].holder = q.holder
        /\ [q EXCEPT !.live = FALSE].env = q.env
  BY <1>a
<1>2. work' \in Tables /\ extra' \in [Devices -> SUBSET Slots]
  <2>1. work'.events \in SUBSET [env : Envelopes, gseq : Nat]
    BY <1>0, <1>1 DEF Tables
  <2>2. work'.next \in Nat
    BY <1>0, <1>1 DEF Tables
  <2>3. work'.quarantine \in
          SUBSET [env : Envelopes, holder : Devices, reason : Reasons, live : BOOLEAN]
    BY <1>1, <1>a, <1>b
  <2>4. work'.watermark \in [Devices -> Marks] /\ extra' \in [Devices -> SUBSET Slots]
    BY <1>0, <1>1, FillKeepsTypes
  <2> QED BY <1>0, <2>1, <2>2, <2>3, <2>4 DEF Tables
<1>3. Grows(work, work')
  <2>1. ASSUME NEW q \in work.quarantine
        PROVE  \E p \in work'.quarantine : p.holder = q.holder /\ p.env = q.env
    <3>1. CASE q.env # e
      BY <1>1, <3>1
    <3>2. CASE q.env = e
      <4>1. [q EXCEPT !.live = FALSE] \in work'.quarantine
        BY <1>1, <3>2
      <4> QED BY <1>b, <4>1
    <3> QED BY <3>1, <3>2
  <2> QED BY <1>1, <2>1 DEF Grows
<1>c. new \in work'.events /\ new.env = e /\ new.gseq = work.next
  BY <1>1
<1>4. HeldOwn(work', e.author, e.slot)
  <2>1. \E r \in work'.events : r.env.author = e.author /\ r.env.slot = e.slot
    BY <1>c, Zenon
  <2> QED BY <2>1 DEF HeldOwn, Held, OwnHeld
<1>5. SlotsOK(work') /\ ExtraOK'
  BY <1>0, <1>1, <1>3, <1>4, FillKeepsHeld
<1>6. \A x \in Devices : work.watermark[x] <= work'.watermark[x]
  BY <1>0, <1>1, FillKeepsTypes
<1>7. LogOK(work')
  <2>1. \A r \in work.events :
          /\ r.env.author \in Devices /\ r.env.slot \in Slots /\ r.gseq \in Nat
          /\ r.env.slot <= work.watermark[r.env.author]
    BY <1>0, EnvelopesAssumption, RelaysAssumption DEF Tables, LogOK
  <2>2. e.slot <= work'.watermark[e.author]
    BY <1>0, <1>1, FillTypes DEF NextInLine, Tables
  <2>3. \A r \in work'.events : r.env.slot <= work'.watermark[r.env.author]
    <3>0. work.watermark \in [Devices -> Marks] /\ work'.watermark \in [Devices -> Marks]
      BY <1>0, <1>2 DEF Tables
    <3>1. ASSUME NEW r \in work.events PROVE r.env.slot <= work'.watermark[r.env.author]
      <4>1. /\ r.env.author \in Devices /\ r.env.slot \in Slots
            /\ r.env.slot <= work.watermark[r.env.author]
        BY <2>1
      <4>2. work.watermark[r.env.author] <= work'.watermark[r.env.author]
        BY <1>6, <4>1
      <4> QED BY <3>0, <4>1, <4>2, EnvelopesAssumption, RelaysAssumption DEF Marks, Slots
    <3>2. new.env.slot <= work'.watermark[new.env.author]
      BY <1>c, <2>2
    <3>3. \A r \in work'.events : r \in work.events \/ r = new
      BY <1>1
    <3> HIDE DEF new
    <3> QED BY <3>1, <3>2, <3>3, Zenon
  <2>4. \A r \in work'.events : r.gseq \in 1..(work'.next - 1)
    BY <1>0, <1>1 DEF LogOK, Tables
  <2>5. \A n \in 1..(work'.next - 1) : \E r \in work'.events : r.gseq = n
    <3>1. ASSUME NEW n \in 1..(work'.next - 1), n # work.next
          PROVE  \E r \in work'.events : r.gseq = n
      BY <1>0, <1>1, <3>1 DEF LogOK, Tables
    <3> QED BY <1>c, <3>1
  <2>6. \A r \in work.events :
          /\ r.env.id # new.env.id
          /\ r.gseq # new.gseq
          /\ ~(r.env.author = new.env.author /\ r.env.slot = new.env.slot)
    <3>1. \A r \in work.events : r.env.id # e.id
      BY DEF NextInLine, IdTaken
    <3>2. \A r \in work.events : r.gseq # work.next
      BY <1>0 DEF LogOK, Tables
    <3>3. \A r \in work.events : ~(r.env.author = e.author /\ r.env.slot = e.slot)
      BY <1>0, <2>1 DEF NextInLine, Tables, Marks, Slots
    <3> QED BY <3>1, <3>2, <3>3
  <2>7. \A r, q \in work'.events :
          \/ r.env.id = q.env.id
          \/ r.gseq = q.gseq
          \/ r.env.author = q.env.author /\ r.env.slot = q.env.slot
          => r = q
    <3> HIDE DEF new
    <3> QED BY <1>0, <1>1, <2>6 DEF LogOK
  <2>8. work'.next > 0
    BY <1>0, <1>1 DEF LogOK, Tables
  <2> QED BY <2>3, <2>4, <2>5, <2>7, <2>8 DEF LogOK
<1> QED BY <1>2, <1>5, <1>6, <1>7 DEF LoopKeeps

-----------------------------------------------------------------------------
(* One iteration of the loop, whichever way the envelope goes.             *)
LEMMA TookTypes ==
  ASSUME TypeOK, NEW origin \in Devices \cup {None},
         NEW cached \in [Devices -> {"unread", "absent", "active", "revoked"}],
         Took(origin, cached)
  PROVE  txn' \in [origin : Devices \cup {None}, taken : Nat, stopped : BOOLEAN,
                   cached : [Devices -> {"unread", "absent", "active", "revoked"}]]
<1>1. txn \in [origin : Devices \cup {None}, taken : Nat, stopped : BOOLEAN,
                cached : [Devices -> {"unread", "absent", "active", "revoked"}]]
  BY DEF TypeOK
<1>2. txn.taken + 1 \in Nat
  BY <1>1
<1> QED BY <1>1, <1>2 DEF Took

LEMMA CacheTypes ==
  ASSUME TypeOK, NEW d \in Devices, NEW e \in Envelopes
  PROVE  /\ OriginRead(d, e) \in [Devices -> {"unread", "absent", "active", "revoked"}]
         /\ txn.cached \in [Devices -> {"unread", "absent", "active", "revoked"}]
         /\ FirstOrigin(e) \in Devices \cup {None}
         /\ txn.origin \in Devices \cup {None}
BY EnvelopesAssumption, RelaysAssumption DEF TypeOK, OriginRead, OriginStatus, FirstOrigin

LoopTypes ==
  txn' \in [origin : Devices \cup {None}, taken : Nat, stopped : BOOLEAN,
            cached : [Devices -> {"unread", "absent", "active", "revoked"}]]

LEMMA ContentKeeps ==
  ASSUME IInv, NEW d \in Devices, NEW e \in Envelopes, NEW reason \in Reasons,
         RefuseContent(d, e, reason)
  PROVE  LoopKeeps /\ LoopTypes /\ LoopFrame
<1>1. e.author \in Devices
  BY EnvelopesAssumption, RelaysAssumption
<1>2. LoopKeeps
  BY <1>1, QuarantineKeeps DEF RefuseContent
<1>3. LoopTypes
  BY CacheTypes, TookTypes DEF RefuseContent, LoopTypes, IInv
<1> QED BY <1>2, <1>3 DEF RefuseContent

LEMMA ExamineKeeps ==
  ASSUME IInv, NEW d \in Devices, NEW e \in Envelopes, Examine(d, e)
  PROVE  LoopKeeps /\ LoopTypes /\ LoopFrame
<1>0. /\ TypeOK /\ e.author \in Devices /\ e.slot \in Slots
      /\ None \notin Devices /\ Relays \subseteq Devices
  BY EnvelopesAssumption, RelaysAssumption DEF IInv
<1>1. CASE RefuseIdentity(d, e)
  <2>1. IdentityReason(e) \in Reasons
    BY DEF IdentityReason, Reasons
  <2>2. CASE d \in Relays
    BY <1>0, <1>1, <2>1, <2>2, QuarantineKeeps, CacheTypes, TookTypes
       DEF RefuseIdentity, IdentityStream, LoopTypes
  <2>3. CASE d \notin Relays
    BY <1>0, <1>1, <2>1, <2>3, QuarantineKeeps, CacheTypes, TookTypes
       DEF RefuseIdentity, IdentityStream, LoopTypes
  <2> QED BY <2>2, <2>3
<1>2. CASE AckDuplicate(d, e)
  BY <1>0, <1>2, DuplicateKeeps, CacheTypes, TookTypes DEF AckDuplicate, LoopTypes
<1>3. CASE RefuseOrigin(d, e)
  <2>1. {"origin_unregistered", "origin_revoked"} \subseteq Reasons
    BY DEF Reasons
  <2>2. LoopFrame
    BY <1>3 DEF RefuseOrigin
  <2>3. LoopTypes
    BY <1>0, <1>3, CacheTypes, TookTypes DEF RefuseOrigin, LoopTypes
  <2>4. LoopKeeps
    <3>1. CASE Quarantine(None, e, "origin_unregistered", d)
      BY <1>0, <2>1, <3>1, QuarantineKeeps
    <3>2. CASE Quarantine(None, e, "origin_revoked", e.author)
      BY <1>0, <2>1, <3>2, QuarantineKeeps
    <3> QED BY <1>3, <3>1, <3>2 DEF RefuseOrigin
  <2> QED BY <2>2, <2>3, <2>4
<1>4. CASE RefuseSchema(d, e)
  BY <1>4, ContentKeeps DEF RefuseSchema, Reasons
<1>5. CASE RefuseDivergent(d, e)
  BY <1>5, ContentKeeps DEF RefuseDivergent, Reasons
<1>6. CASE RefuseConflict(d, e)
  BY <1>6, ContentKeeps DEF RefuseConflict, Reasons
<1>7. CASE StopAtGap(d, e)
  <2>1. LoopTypes
    <3>1. txn \in [origin : Devices \cup {None}, taken : Nat, stopped : BOOLEAN,
                  cached : [Devices -> {"unread", "absent", "active", "revoked"}]]
      BY <1>0 DEF TypeOK
    <3>2. txn.taken + 1 \in Nat
      BY <3>1
    <3> QED BY <1>0, <1>7, <3>1, <3>2, CacheTypes DEF StopAtGap, LoopTypes
  <2>2. work' = work /\ extra' = extra
    BY <1>7 DEF StopAtGap
  <2>3. LoopKeeps
    <3>1. /\ work \in Tables /\ extra \in [Devices -> SUBSET Slots]
          /\ LogOK(work) /\ SlotsOK(work)
      BY DEF IInv, TypeOK
    <3>2. LogOK(work') /\ SlotsOK(work')
      BY <2>2, <3>1
    <3>3. ExtraOK'
      BY <2>2 DEF IInv, ExtraOK, HeldOwn, Held, OwnHeld
    <3>4. \A x \in Devices : work.watermark[x] <= work'.watermark[x]
      BY <2>2, <3>1 DEF Tables, Marks
    <3> QED BY <2>2, <3>1, <3>2, <3>3, <3>4 DEF LoopKeeps
  <2> QED BY <1>7, <2>1, <2>3 DEF StopAtGap
<1>8. CASE RefuseInvariant(d, e)
  BY <1>8, ContentKeeps DEF RefuseInvariant, Reasons
<1>9. CASE RefuseStorage(d, e)
  BY <1>9, ContentKeeps DEF RefuseStorage, Reasons
<1>10. CASE Merge(d, e)
  BY <1>0, <1>10, MergeKeeps, CacheTypes, TookTypes DEF Merge, LoopTypes
<1> QED BY <1>1, <1>2, <1>3, <1>4, <1>5, <1>6, <1>7, <1>8, <1>9, <1>10 DEF Examine

-----------------------------------------------------------------------------
LEMMA InitIInv == Init => IInv
<1> SUFFICES ASSUME Init PROVE IInv
  OBVIOUS
<1> USE EnvelopesAssumption, RelaysAssumption
<1>1. /\ db.events = {} /\ db.quarantine = {} /\ db.next = 1
      /\ db.watermark = [x \in Devices |-> -1] /\ work = db
  BY DEF Init
<1>2. db \in Tables
  BY DEF Init, Tables, Marks
<1>3. TypeOK
  BY <1>1, <1>2 DEF Init, TypeOK, FreshTxn, NoOutcome, Marks
<1>4. LogOK(db)
  BY <1>1 DEF LogOK
<1>5. SlotsOK(db)
  BY <1>1 DEF SlotsOK
<1>6. ExtraOK /\ MarksOK /\ AcksOK
  BY <1>1 DEF Init, ExtraOK, MarksOK, AcksOK, NoOutcome
<1> QED BY <1>1, <1>3, <1>4, <1>5, <1>6 DEF IInv

(* Steps that leave both views of the tables alone.                        *)
LEMMA TablesUntouched ==
  ASSUME IInv, UNCHANGED <<db, work, extra>>
  PROVE  /\ db' \in Tables /\ work' \in Tables /\ extra' \in [Devices -> SUBSET Slots]
         /\ LogOK(db)' /\ SlotsOK(db)' /\ LogOK(work)' /\ SlotsOK(work)'
         /\ ExtraOK' /\ MarksOK'
<1>1. /\ db \in Tables /\ work \in Tables /\ extra \in [Devices -> SUBSET Slots]
      /\ LogOK(db) /\ SlotsOK(db) /\ LogOK(work) /\ SlotsOK(work)
      /\ ExtraOK /\ MarksOK
  BY DEF IInv, TypeOK
<1> QED BY <1>1 DEF LogOK, SlotsOK, ExtraOK, MarksOK, HeldOwn, Held, OwnHeld

LEMMA NextIInv == IInv /\ [Next]_vars => IInv'
<1> SUFFICES ASSUME IInv, [Next]_vars PROVE IInv'
  OBVIOUS
<1> USE EnvelopesAssumption, RelaysAssumption
<1>0. TypeOK
  BY DEF IInv
<1>1. CASE UNCHANGED vars
  <2>1. TypeOK'
    BY <1>0, <1>1 DEF TypeOK, vars
  <2>2. AcksOK'
    BY <1>1 DEF IInv, AcksOK, vars
  <2> QED BY <1>1, <2>1, <2>2, TablesUntouched DEF IInv, vars
<1>2. ASSUME NEW d \in Devices,
             \/ RegisterDevice(d) \/ RevokeDevice(d) \/ RequireUnrevoked(d)
             \/ SendAck(d) \/ Crash(d)
      PROVE  IInv'
  <2>1. UNCHANGED <<db, work, extra, open, txn>>
    BY <1>2 DEF RegisterDevice, RevokeDevice, RequireUnrevoked, SendAck, Crash
  <2>2. registry' \in [Devices -> {"absent", "active", "revoked"}]
    BY <1>0, <1>2
       DEF TypeOK, RegisterDevice, RevokeDevice, RequireUnrevoked, SendAck, Crash
  <2>3. phase' \in [Devices -> {"idle", "admitted", "merging", "ack"}]
    BY <1>0, <1>2
       DEF TypeOK, RegisterDevice, RevokeDevice, RequireUnrevoked, SendAck, Crash
  <2>4. /\ outcome' = outcome \/ outcome' = [outcome EXCEPT ![d] = NoOutcome]
        /\ \/ acked' = acked
           \/ acked' = [acked EXCEPT ![outcome[d].origin] =
                           IF outcome[d].acked > @ THEN outcome[d].acked ELSE @]
    BY <1>2 DEF RegisterDevice, RevokeDevice, RequireUnrevoked, SendAck, Crash
  <2>5. NoOutcome \in [acked : Marks, origin : Devices \cup {None}]
    BY DEF NoOutcome, Marks
  <2>6. /\ outcome \in [Devices -> [acked : Marks, origin : Devices \cup {None}]]
        /\ acked \in [Devices -> Marks]
    BY <1>0 DEF TypeOK
  <2>7. outcome' \in [Devices -> [acked : Marks, origin : Devices \cup {None}]]
    BY <2>4, <2>5, <2>6
  <2>8. acked' \in [Devices -> Marks]
    BY <2>4, <2>6
  <2>9. TypeOK'
    BY <1>0, <2>1, <2>2, <2>3, <2>7, <2>8 DEF TypeOK
  <2>10. AcksOK'
    <3>1. AcksOK
      BY DEF IInv
    <3>2. \A x \in Devices : acked'[x] <= db.watermark[x]
      BY <2>4, <2>6, <3>1 DEF AcksOK
    <3>3. \A x \in Devices : outcome'[x].origin \in Devices =>
             outcome'[x].acked <= db.watermark[outcome'[x].origin]
      BY <2>4, <2>6, <3>1 DEF AcksOK, NoOutcome
    <3> QED BY <2>1, <3>2, <3>3 DEF AcksOK
  <2> QED BY <2>1, <2>9, <2>10, TablesUntouched DEF IInv
<1>3. ASSUME NEW d \in Devices, LockOrg(d)
      PROVE  IInv'
  <2>1. db' = db /\ work' = db /\ extra' = [x \in Devices |-> {}]
    BY <1>3 DEF LockOrg
  <2>2. TypeOK'
    BY <1>0, <1>3 DEF TypeOK, LockOrg, FreshTxn
  <2>3. AcksOK'
    BY <1>3 DEF IInv, AcksOK, LockOrg
  <2>4. LogOK(db)' /\ SlotsOK(db)' /\ LogOK(work)' /\ SlotsOK(work)'
    BY <2>1 DEF IInv, LogOK, SlotsOK, HeldOwn, Held, OwnHeld
  <2>5. ExtraOK' /\ MarksOK'
    BY <1>0, <2>1 DEF ExtraOK, MarksOK, TypeOK, Tables, Marks
  <2> QED BY <2>2, <2>3, <2>4, <2>5 DEF IInv
<1>4. ASSUME NEW d \in Devices, NEW e \in Envelopes, Examine(d, e)
      PROVE  IInv'
  <2>1. LoopKeeps /\ LoopTypes /\ LoopFrame
    BY <1>4, ExamineKeeps
  <2>2. TypeOK'
    BY <1>0, <2>1 DEF TypeOK, LoopKeeps, LoopTypes, LoopFrame
  <2>3. AcksOK'
    BY <2>1 DEF IInv, AcksOK, LoopFrame
  <2>4. LogOK(db)' /\ SlotsOK(db)'
    BY <2>1 DEF IInv, LogOK, SlotsOK, HeldOwn, Held, OwnHeld, LoopFrame
  <2>5. LogOK(work)' /\ SlotsOK(work)' /\ ExtraOK'
    BY <2>1 DEF LoopKeeps, LogOK, SlotsOK, HeldOwn, Held, OwnHeld
  <2>6. MarksOK'
    <3>1. /\ db.watermark \in [Devices -> Marks] /\ work.watermark \in [Devices -> Marks]
          /\ work'.watermark \in [Devices -> Marks] /\ db' = db
      BY <1>0, <2>1 DEF TypeOK, Tables, LoopKeeps, LoopFrame
    <3>2. \A x \in Devices : /\ db.watermark[x] <= work.watermark[x]
                             /\ work.watermark[x] <= work'.watermark[x]
      BY <2>1 DEF IInv, MarksOK, LoopKeeps
    <3> QED BY <3>1, <3>2 DEF MarksOK, Marks
  <2> QED BY <2>2, <2>3, <2>4, <2>5, <2>6 DEF IInv
<1>5. ASSUME NEW d \in Devices, Commit(d)
      PROVE  IInv'
  <2>1. db' = work /\ work' = work /\ extra' = [x \in Devices |-> {}] /\ acked' = acked
    BY <1>5 DEF Commit
  <2>2. /\ AckDevice(d) \in Devices
        /\ AckValue(d) \in Marks
        /\ AckValue(d) <= work.watermark[AckDevice(d)]
    BY <1>0 DEF TypeOK, Tables, AckDevice, AckValue, Marks
  <2>3. TypeOK'
    <3>1. outcome' \in [Devices -> [acked : Marks, origin : Devices \cup {None}]]
      BY <1>0, <1>5, <2>2 DEF TypeOK, Commit
    <3> QED BY <1>0, <1>5, <2>1, <3>1 DEF TypeOK, Commit, FreshTxn
  <2>4. AcksOK'
    <3>1. \A x \in Devices : acked[x] <= work.watermark[x]
      BY <1>0 DEF IInv, AcksOK, MarksOK, TypeOK, Tables, Marks
    <3>2. \A x \in Devices \ {d} : outcome'[x] = outcome[x]
      BY <1>0, <1>5 DEF TypeOK, Commit
    <3>3. outcome'[d].acked = AckValue(d) /\ outcome'[d].origin = AckDevice(d)
      BY <1>0, <1>5 DEF TypeOK, Commit
    <3>4. \A x \in Devices : outcome[x].origin \in Devices =>
             outcome[x].acked <= work.watermark[outcome[x].origin]
      BY <1>0 DEF IInv, AcksOK, MarksOK, TypeOK, Tables, Marks
    <3> QED BY <2>1, <2>2, <3>1, <3>2, <3>3, <3>4 DEF AcksOK
  <2>5. LogOK(db)' /\ SlotsOK(db)' /\ LogOK(work)' /\ SlotsOK(work)'
    BY <2>1 DEF IInv, LogOK, SlotsOK, HeldOwn, Held, OwnHeld
  <2>6. ExtraOK' /\ MarksOK'
    BY <1>0, <2>1 DEF ExtraOK, MarksOK, TypeOK, Tables, Marks
  <2> QED BY <2>3, <2>4, <2>5, <2>6 DEF IInv
<1>6. ASSUME NEW d \in Devices, Abort(d)
      PROVE  IInv'
  <2>1. db' = db /\ work' = db /\ extra' = [x \in Devices |-> {}]
    BY <1>6 DEF Abort
  <2>2. TypeOK'
    BY <1>0, <1>6 DEF TypeOK, Abort, FreshTxn
  <2>3. AcksOK'
    BY <1>6 DEF IInv, AcksOK, Abort
  <2>4. LogOK(db)' /\ SlotsOK(db)' /\ LogOK(work)' /\ SlotsOK(work)'
    BY <2>1 DEF IInv, LogOK, SlotsOK, HeldOwn, Held, OwnHeld
  <2>5. ExtraOK' /\ MarksOK'
    BY <1>0, <2>1 DEF ExtraOK, MarksOK, TypeOK, Tables, Marks
  <2> QED BY <2>2, <2>3, <2>4, <2>5 DEF IInv
<1> QED BY <1>1, <1>2, <1>3, <1>4, <1>5, <1>6 DEF Next

LEMMA SpecIInv == Spec => []IInv
BY InitIInv, NextIInv, PTL DEF Spec

(* Every state the pipeline reaches has the types the tables declare       *)
(* (schema.ts, the locals of handlePush).                                  *)
THEOREM TypeCorrect == Spec => []TypeOK
<1>1. IInv => TypeOK
  BY DEF IInv
<1> QED BY <1>1, SpecIInv, PTL

(* The merged log stays a log for every set of envelopes the devices push  *)
(* and every interleaving of pushes, rollbacks and registry writes         *)
(* (handlePush, under the FOR UPDATE lock).                                *)
THEOREM LogStaysIntact == Spec => []LogIntegrity
<1>1. IInv => LogIntegrity
  BY DEF IInv, LogOK, LogIntegrity, TypeOK, Tables
<1> QED BY <1>1, SpecIInv, PTL

(* Every slot under a stored watermark is durably held, so resume_from     *)
(* never asks a device to skip an event the cloud does not have.           *)
THEOREM SettledStaysHeld == Spec => []SettledSlotsHeld
<1>1. IInv => SettledSlotsHeld
  BY DEF IInv, LogOK, SlotsOK, HeldOwn, SettledSlotsHeld
<1> QED BY <1>1, SpecIInv, PTL

(* Every slot a push_ack has covered is durably held: what a device trims  *)
(* from its outbox, the cloud has (law 3 of handlePush).                   *)
THEOREM AckedStaysHeld == Spec => []AckedSlotsHeld
<1>1. IInv => AckedSlotsHeld
  BY DEF IInv, AcksOK, SlotsOK, HeldOwn, AckedSlotsHeld, TypeOK, Tables, Marks
<1> QED BY <1>1, SpecIInv, PTL

(* A relaying device's own numbering is settled by its own events only,    *)
(* whatever garbage it relays (fix round F1).                              *)
THEOREM HubSlotsStayItsOwn == Spec => []HubSlotsAreItsOwn
<1>1. IInv => HubSlotsAreItsOwn
  BY EnvelopesAssumption, RelaysAssumption DEF IInv, SlotsOK, HeldOwn, HubSlotsAreItsOwn
<1> QED BY <1>1, SpecIInv, PTL

-----------------------------------------------------------------------------
(* More of both views of the tables.  The log holds what is valid and of   *)
(* this branch, an origin's events in the order of their slots, and no     *)
(* refund past the cap; and no merged event stands rejected.               *)

Clean(T) ==
  /\ \A r \in T.events : r.env.home /\ r.env.valid
  /\ \A r \in T.events, q \in T.quarantine :
       q.env = r.env /\ q.live => q.reason = "device_mismatch"

Ordered(T) ==
  \A r, q \in T.events :
    r.env.author = q.env.author /\ r.gseq < q.gseq => r.env.slot < q.env.slot

UpTo(rows, n) == {o \in rows : o.gseq <= n}

Capped(T) ==
  \A r \in T.events :
    /\ r.env.kind = "refund"
    /\ \E p \in Parents(T, r.env) : p.gseq < r.gseq
    /\ r \in FirstPerAttempt(RefundsOf(T, r.env))
    => RefundTotal(UpTo(RefundsOf(T, r.env), r.gseq)) <= Parent(T, r.env).env.amount

Sound(T) == Clean(T) /\ Ordered(T) /\ IsFiniteSet(T.events) /\ Capped(T)

(* The open transaction is ahead of what is committed, in new slots only.  *)
Ahead ==
  /\ Grows(db, work) /\ db.next <= work.next
  /\ \A r \in work.events \ db.events : r.env.slot > db.watermark[r.env.author]

JInv == Sound(db) /\ Sound(work) /\ Ahead

(* An envelope that is not merged leaves at most a row.                    *)
OneRow(e) ==
  /\ work'.events = work.events /\ work'.next = work.next
  /\ work.quarantine \subseteq work'.quarantine
  /\ \A q \in work'.quarantine \ work.quarantine :
       q.env = e /\ (q.reason = "device_mismatch" \/ ~e.home \/ ~IsMerged(e))

LEMMA QuarantineAdds ==
  ASSUME work \in Tables, NEW stream, NEW e, NEW reason, NEW holder,
         Quarantine(stream, e, reason, holder),
         reason = "device_mismatch" \/ ~e.home \/ ~IsMerged(e)
  PROVE  OneRow(e)
<1> DEFINE row == [env |-> e, holder |-> holder, reason |-> reason, live |-> TRUE]
<1>1. PICK rows \in {work.quarantine, work.quarantine \cup {row}} :
        \/ work' = [work EXCEPT !.quarantine = rows]
        \/ work' = [work EXCEPT !.quarantine = rows, !.watermark[stream] = MarkAfter(stream, e.slot)]
  BY DEF Quarantine
<1>2. work'.events = work.events /\ work'.next = work.next /\ work'.quarantine = rows
  BY <1>1 DEF Tables
<1>3. row.env = e /\ row.reason = reason
  OBVIOUS
<1> HIDE DEF row
<1> QED BY <1>1, <1>2, <1>3 DEF OneRow

LEMMA RowOrMerge ==
  ASSUME TypeOK, NEW d \in Devices, NEW e \in Envelopes, Examine(d, e)
  PROVE  OneRow(e) \/ Merge(d, e)
<1>1. work \in Tables
  BY DEF TypeOK
<1>2. CASE RefuseIdentity(d, e)
  BY <1>1, <1>2, QuarantineAdds DEF RefuseIdentity, IdentityReason
<1>3. CASE AckDuplicate(d, e)
  BY <1>1, <1>3 DEF AckDuplicate, OneRow, Tables
<1>4. CASE RefuseOrigin(d, e)
  BY <1>1, <1>4, QuarantineAdds DEF RefuseOrigin
<1>5. CASE \/ RefuseSchema(d, e) \/ RefuseDivergent(d, e) \/ RefuseConflict(d, e)
           \/ RefuseInvariant(d, e) \/ RefuseStorage(d, e)
  BY <1>1, <1>5, QuarantineAdds
     DEF RefuseSchema, RefuseDivergent, RefuseConflict, RefuseInvariant, RefuseStorage, RefuseContent, Gated
<1>6. CASE StopAtGap(d, e)
  BY <1>6 DEF StopAtGap, OneRow
<1> QED BY <1>2, <1>3, <1>4, <1>5, <1>6 DEF Examine

-----------------------------------------------------------------------------
(* Refunds.                                                                *)

(* f gives what any of the rows X add up to.                               *)
AmountsOf(f, X) ==
  f = [s \in SUBSET X |-> IF s = {} THEN 0 ELSE Some(s).env.amount + f[s \ {Some(s)}]]

LEMMA RefundTotalIs ==
  ASSUME NEW rows, IsFiniteSet(rows), NEW P, \A r \in rows : P[r] = r.env.amount
  PROVE  RefundTotal(rows) = SumOf(P, FirstPerAttempt(rows)) /\ IsFiniteSet(FirstPerAttempt(rows))
<1>1. PICK X : X = FirstPerAttempt(rows)
  OBVIOUS
<1>2. X \subseteq rows /\ IsFiniteSet(X)
  BY <1>1, FS_Subset DEF FirstPerAttempt
<1>3. RefundTotal(rows) = (CHOOSE f : AmountsOf(f, X))[X]
  BY <1>1 DEF RefundTotal, MapThenSumSet, MapThenFoldSet, AmountsOf, Some
<1>4. ASSUME NEW f PROVE AmountsOf(f, X) <=> IsSumOf(f, P, X)
  <2>1. \A s \in SUBSET X : s # {} => Some(s).env.amount = P[Some(s)]
    BY <1>2, SomeIsIn
  <2>2. [s \in SUBSET X |-> IF s = {} THEN 0 ELSE Some(s).env.amount + f[s \ {Some(s)}]]
          = [s \in SUBSET X |-> IF s = {} THEN 0 ELSE P[Some(s)] + f[s \ {Some(s)}]]
    BY <2>1
  <2> QED BY <2>2 DEF AmountsOf, IsSumOf
<1>5. AmountsOf(CHOOSE f : AmountsOf(f, X), X)
  <2>1. \E f : AmountsOf(f, X)
    BY <1>2, <1>4, SumsExist
  <2> QED BY <2>1
<1>6. SumOf(P, X) = (CHOOSE f : AmountsOf(f, X))[X]
  BY <1>2, <1>4, <1>5, SumChosen
<1> QED BY <1>1, <1>2, <1>3, <1>6

(* The payment a refund is held against is the first one in the log.       *)
LEMMA FirstParent ==
  ASSUME NEW T, NEW e, Parents(T, e) # {}, \A r \in T.events : r.gseq \in Nat,
         \A r, q \in T.events : r.gseq = q.gseq => r = q
  PROVE  /\ Parent(T, e) \in Parents(T, e)
         /\ \A p \in Parents(T, e) : Parent(T, e).gseq <= p.gseq
         /\ \A m \in Parents(T, e) : (\A p \in Parents(T, e) : m.gseq <= p.gseq) => m = Parent(T, e)
<1>1. {p.gseq : p \in Parents(T, e)} \in SUBSET Nat /\ Parents(T, e) \subseteq T.events
  BY DEF Parents
<1>2. \E m \in Parents(T, e) : \A p \in Parents(T, e) : m.gseq <= p.gseq
  <2> DEFINE N == {p.gseq : p \in Parents(T, e)}
  <2>1. N \in SUBSET Nat /\ N # {} /\ \A p \in Parents(T, e) : p.gseq \in N
    BY <1>1
  <2>2. \A n \in N : \E m \in Parents(T, e) : m.gseq = n
    OBVIOUS
  <2> HIDE DEF N
  <2>3. PICK n \in N : \A k \in N : n <= k
    BY <2>1, LeastNatural
  <2>4. PICK m \in Parents(T, e) : m.gseq = n
    BY <2>2
  <2> QED BY <2>1, <2>3, <2>4
<1>3. Parent(T, e) \in Parents(T, e) /\ \A p \in Parents(T, e) : Parent(T, e).gseq <= p.gseq
  BY <1>2 DEF Parent
<1>4. ASSUME NEW m \in Parents(T, e), \A p \in Parents(T, e) : m.gseq <= p.gseq
      PROVE  m = Parent(T, e)
  <2>1. m.gseq <= Parent(T, e).gseq /\ Parent(T, e).gseq <= m.gseq
    BY <1>3, <1>4
  <2>2. m.gseq \in Nat /\ Parent(T, e).gseq \in Nat
    BY <1>1, <1>3
  <2> QED BY <1>1, <1>3, <2>1, <2>2
<1> QED BY <1>3, <1>4

(* A merge adds the last event, and a refund only within the cap.          *)
LEMMA MergeKeepsCap ==
  ASSUME NEW T, NEW U, NEW e, NEW new, NEW n \in Nat, new.env = e, new.gseq = n,
         U.events = T.events \cup {new}, IsFiniteSet(T.events), Capped(T),
         \A r \in T.events : r.gseq \in Nat /\ r.gseq < n /\ r.env.amount \in Nat,
         \A r, q \in T.events : r.gseq = q.gseq => r = q,
         e.amount \in Nat,
         ~ /\ e.kind = "refund"
           /\ Parents(T, e) # {}
           /\ \A r \in RefundsOf(T, e) : r.env.attempt # e.attempt
           /\ e.amount > Parent(T, e).env.amount - RefundTotal(RefundsOf(T, e))
  PROVE  Capped(U)
<1>1. /\ \A r \in U.events : r.gseq \in Nat /\ r.gseq <= n /\ r.env.amount \in Nat
      /\ \A r, q \in U.events : r.gseq = q.gseq => r = q
      /\ new \notin T.events
  OBVIOUS
<1>2. ASSUME NEW x, Parents(T, x) # {}
      PROVE  Parents(U, x) # {} /\ Parent(U, x) = Parent(T, x) /\ Parent(T, x).env.amount \in Nat
  <2>1. /\ Parent(T, x) \in Parents(T, x) /\ \A p \in Parents(T, x) : Parent(T, x).gseq <= p.gseq
    BY <1>2, FirstParent
  <2>2. Parents(T, x) \subseteq Parents(U, x) /\ \A p \in Parents(U, x) : p \in Parents(T, x) \/ p = new
    BY DEF Parents
  <2>3. Parents(T, x) \subseteq T.events
    BY DEF Parents
  <2>4. Parent(T, x).gseq \in Nat /\ Parent(T, x).gseq <= n
    BY <2>1, <2>3
  <2>5. \A p \in Parents(U, x) : Parent(T, x).gseq <= p.gseq
    BY <2>1, <2>2, <2>4
  <2> QED BY <2>1, <2>2, <2>3, <2>5, <1>1, FirstParent
<1> SUFFICES ASSUME NEW r \in U.events, r.env.kind = "refund",
                    NEW p \in Parents(U, r.env), p.gseq < r.gseq,
                    r \in FirstPerAttempt(RefundsOf(U, r.env))
             PROVE  RefundTotal(UpTo(RefundsOf(U, r.env), r.gseq)) <= Parent(U, r.env).env.amount
  BY DEF Capped
<1>3. p \in Parents(T, r.env)
  <2>1. p # new
    BY <1>1
  <2> QED BY <2>1 DEF Parents
<1>4. /\ RefundsOf(T, r.env) \subseteq RefundsOf(U, r.env)
      /\ \A o \in RefundsOf(U, r.env) : o \in RefundsOf(T, r.env) \/ o = new
      /\ RefundsOf(T, r.env) \subseteq T.events
  BY DEF RefundsOf
<1>5. CASE r \in T.events
  <2>1. UpTo(RefundsOf(U, r.env), r.gseq) = UpTo(RefundsOf(T, r.env), r.gseq)
    BY <1>1, <1>4, <1>5 DEF UpTo
  <2>2. r \in RefundsOf(T, r.env)
    BY <1>5 DEF RefundsOf
  <2>3. r \in FirstPerAttempt(RefundsOf(T, r.env))
    BY <1>4, <2>2 DEF FirstPerAttempt
  <2>4. RefundTotal(UpTo(RefundsOf(T, r.env), r.gseq)) <= Parent(T, r.env).env.amount
    BY <1>3, <1>5, <2>3 DEF Capped
  <2> QED BY <2>1, <2>4, <1>2, <1>3
<1>6. CASE r = new
  <2> DEFINE old == RefundsOf(T, e)
             P == [o \in U.events |-> o.env.amount]
  <2>1. old \subseteq T.events /\ IsFiniteSet(old) /\ new \notin old
    BY <1>1, <1>4, <1>6, FS_Subset
  <2>2. UpTo(RefundsOf(U, e), n) = old \cup {new}
    <3>1. new \in RefundsOf(U, e)
      BY <1>6 DEF RefundsOf
    <3>2. \A o \in old : o.gseq <= n
      BY <1>1, <2>1
    <3> HIDE DEF old
    <3>3. old \subseteq RefundsOf(U, e) /\ \A o \in RefundsOf(U, e) : o \in old \/ o = new
      BY <1>4, <1>6 DEF old
    <3>4. n <= n
      OBVIOUS
    <3> QED BY <3>1, <3>2, <3>3, <3>4 DEF UpTo
  <2>3. \A o \in old : o.env.attempt # e.attempt
    <3> SUFFICES ASSUME NEW o \in old, o.env.attempt = e.attempt PROVE FALSE
      OBVIOUS
    <3>1. o \in RefundsOf(U, e)
      BY <1>4, <1>6
    <3>2. new.gseq <= o.gseq
      BY <3>1, <1>6 DEF FirstPerAttempt
    <3> QED BY <3>2, <2>1, <1>1
  <2>4. FirstPerAttempt(old \cup {new}) = FirstPerAttempt(old) \cup {new}
    <3>1. n <= n /\ \A o \in old : o.env.attempt # new.env.attempt
      BY <2>3
    <3> HIDE DEF old
    <3> QED BY <3>1, <2>1 DEF FirstPerAttempt
  <2>5. \A o \in U.events : P[o] = o.env.amount /\ P[o] \in Nat
    BY <1>1
  <2> HIDE DEF P, old
  <2>a. old \cup {new} \subseteq U.events /\ \A o \in old \cup {new} : P[o] = o.env.amount
    BY <2>1, <2>5
  <2>6. /\ RefundTotal(old) = SumOf(P, FirstPerAttempt(old)) /\ IsFiniteSet(FirstPerAttempt(old))
        /\ FirstPerAttempt(old) \subseteq old
    BY <2>1, <2>a, RefundTotalIs DEF FirstPerAttempt
  <2>7. IsFiniteSet(old \cup {new}) /\ old \cup {new} \subseteq U.events
    BY <2>1, FS_AddElement
  <2>8. RefundTotal(old \cup {new}) = SumOf(P, FirstPerAttempt(old) \cup {new})
        /\ IsFiniteSet(FirstPerAttempt(old) \cup {new})
    <3>1. PICK all : all = old \cup {new}
      OBVIOUS
    <3>2. RefundTotal(all) = SumOf(P, FirstPerAttempt(all)) /\ IsFiniteSet(FirstPerAttempt(all))
      BY <3>1, <2>a, <2>7, RefundTotalIs
    <3> QED BY <3>1, <3>2, <2>4
  <2>9. SumOf(P, FirstPerAttempt(old) \cup {new}) = e.amount + SumOf(P, FirstPerAttempt(old))
    <3>1. (FirstPerAttempt(old) \cup {new}) \ {new} = FirstPerAttempt(old)
      BY <2>1, <2>6
    <3>2. \A o \in FirstPerAttempt(old) \cup {new} : P[o] \in Nat
      BY <2>5, <2>6, <2>7
    <3>3. P[new] = e.amount
      BY <2>5
    <3> QED BY <3>1, <3>2, <3>3, <2>8, SumAdds
  <2>10. SumOf(P, FirstPerAttempt(old)) \in Nat
    BY <2>5, <2>6, <2>7, SumIsNat
  <2>11. Parents(T, e) # {} /\ Parent(U, e) = Parent(T, e) /\ Parent(T, e).env.amount \in Nat
    BY <1>2, <1>3, <1>6
  <2>12. ~(e.amount > Parent(T, e).env.amount - RefundTotal(old))
    BY <2>3, <2>11, <1>6 DEF old
  <2>13. e.amount + SumOf(P, FirstPerAttempt(old)) <= Parent(T, e).env.amount
    BY <2>6, <2>10, <2>11, <2>12
  <2> QED BY <2>2, <2>8, <2>9, <2>11, <2>13, <1>6
<1> QED BY <1>5, <1>6

-----------------------------------------------------------------------------
LEMMA MergeEffect ==
  ASSUME IInv, NEW d \in Devices, NEW e \in Envelopes, Merge(d, e)
  PROVE  /\ work'.events = work.events \cup {[env |-> e, gseq |-> work.next]}
         /\ work'.next = work.next + 1
         /\ Grows(work, work')
         /\ \A q \in work'.quarantine : q.live => q \in work.quarantine /\ q.env # e
<1> DEFINE kept == {q \in work.quarantine : q.env # e}
           dead == {[q EXCEPT !.live = FALSE] : q \in {q \in work.quarantine : q.env = e}}
<1>1. work \in Tables
  BY DEF IInv, TypeOK
<1>2. /\ work'.events = work.events \cup {[env |-> e, gseq |-> work.next]}
      /\ work'.next = work.next + 1 /\ work'.quarantine = kept \cup dead
  BY <1>1 DEF Merge, Tables
<1>3. ASSUME NEW q \in work.quarantine
      PROVE  /\ [q EXCEPT !.live = FALSE].holder = q.holder
             /\ [q EXCEPT !.live = FALSE].env = q.env /\ [q EXCEPT !.live = FALSE].live = FALSE
  <2>1. q \in [env : Envelopes, holder : Devices, reason : Reasons, live : BOOLEAN]
    BY <1>1 DEF Tables
  <2> QED BY <2>1
<1>4. ASSUME NEW q \in work.quarantine
      PROVE  \E p \in work'.quarantine : p.holder = q.holder /\ p.env = q.env
  <2>1. CASE q.env # e
    BY <1>2, <2>1
  <2>2. CASE q.env = e
    <3>1. [q EXCEPT !.live = FALSE] \in work'.quarantine
      BY <1>2, <2>2
    <3> QED BY <3>1, <1>3
  <2> QED BY <2>1, <2>2
<1>5. Grows(work, work')
  BY <1>2, <1>4 DEF Grows
<1>6. \A q \in work'.quarantine : q.live => q \in work.quarantine /\ q.env # e
  BY <1>2, <1>3
<1> QED BY <1>2, <1>5, <1>6

LEMMA GrowsOn ==
  ASSUME NEW T, NEW U, NEW V, Grows(T, U), Grows(U, V)
  PROVE  Grows(T, V)
BY DEF Grows

LEMMA ExamineKeepsSound ==
  ASSUME IInv, JInv, NEW d \in Devices, NEW e \in Envelopes, Examine(d, e)
  PROVE  Sound(work') /\ Grows(db, work') /\ db.next <= work'.next
         /\ \A r \in work'.events \ db.events : r.env.slot > db.watermark[r.env.author]
<1>1. /\ TypeOK /\ LogOK(work) /\ MarksOK /\ work \in Tables /\ db \in Tables
      /\ Sound(work) /\ Ahead
  BY DEF IInv, JInv, TypeOK
<1>2. CASE OneRow(e)
  <2>1. work'.events = work.events /\ work'.next = work.next
    BY <1>2 DEF OneRow
  <2>2. Capped(work') /\ Ordered(work') /\ IsFiniteSet(work'.events)
    BY <1>1, <2>1 DEF Sound, Capped, Ordered, Parents, Parent, RefundsOf
  <2>3. Clean(work')
    BY <1>1, <1>2 DEF Sound, Clean, OneRow, IsMerged
  <2>4. Grows(work, work')
    BY <1>2 DEF OneRow, Grows
  <2>5. Grows(db, work')
    BY <1>1, <2>4, GrowsOn DEF Ahead
  <2> QED BY <1>1, <2>1, <2>2, <2>3, <2>5 DEF Sound, Ahead
<1>3. CASE Merge(d, e)
  <2> DEFINE new == [env |-> e, gseq |-> work.next]
  <2>1. /\ work'.events = work.events \cup {new} /\ work'.next = work.next + 1 /\ Grows(work, work')
        /\ \A q \in work'.quarantine : q.live => q \in work.quarantine /\ q.env # e
    BY <1>3, MergeEffect
  <2>2. /\ e.home /\ e.valid /\ e.slot = work.watermark[e.author] + 1 /\ ~RefundExceeds(e)
        /\ e.author \in Devices /\ e.slot \in Slots /\ e.amount \in Nat
    BY <1>3, EnvelopesAssumption, RelaysAssumption DEF Merge, Gated, NextInLine, IdentityValid
  <2>3. new.env = e /\ new.gseq = work.next
    OBVIOUS
  <2> HIDE DEF new
  <2>4. \A r \in work.events :
          /\ r.gseq \in Nat /\ r.gseq < work.next /\ r.env.author \in Devices
          /\ r.env \in Envelopes /\ r.env.slot \in Slots /\ r.env.slot <= work.watermark[r.env.author]
    BY <1>1, EnvelopesAssumption, RelaysAssumption DEF LogOK, Tables
  <2>5. Clean(work')
    BY <1>1, <2>1, <2>2, <2>3 DEF Sound, Clean
  <2>6. Ordered(work')
    <3>1. \A r \in work.events : r.env.author = e.author => r.env.slot < e.slot
      BY <1>1, <2>2, <2>4 DEF Tables, Marks, Slots
    <3>2. work.next \in Nat
      BY <1>1 DEF Tables
    <3> QED BY <1>1, <2>1, <2>3, <2>4, <3>1, <3>2 DEF Sound, Ordered
  <2>7. IsFiniteSet(work'.events)
    BY <1>1, <2>1, FS_AddElement DEF Sound
  <2>8. Capped(work')
    <3>1. \A r \in work.events : r.env.amount \in Nat
      BY <1>1, <2>4, EnvelopesAssumption, RelaysAssumption DEF Sound, Clean
    <3>2. \A r, q \in work.events : r.gseq = q.gseq => r = q
      BY <1>1 DEF LogOK
    <3>3. work.next \in Nat /\ IsFiniteSet(work.events) /\ Capped(work)
      BY <1>1 DEF Tables, Sound
    <3> QED BY <2>1, <2>2, <2>3, <2>4, <3>1, <3>2, <3>3, MergeKeepsCap DEF RefundExceeds
  <2>9. Grows(db, work') /\ db.next <= work'.next
    BY <1>1, <2>1, GrowsOn DEF Ahead, Tables
  <2>10. ASSUME NEW r \in work'.events \ db.events
         PROVE  r.env.slot > db.watermark[r.env.author]
    <3>1. CASE r = new
      <4>1. db.watermark[e.author] <= work.watermark[e.author]
        BY <1>1, <2>2 DEF MarksOK
      <4>2. db.watermark[e.author] \in Int /\ work.watermark[e.author] \in Int
        BY <1>1, <2>2 DEF Tables, Marks
      <4> QED BY <3>1, <4>1, <4>2, <2>2, <2>3
    <3>2. CASE r # new
      BY <3>2, <2>1, <1>1 DEF Ahead
    <3> QED BY <3>1, <3>2
  <2> QED BY <2>5, <2>6, <2>7, <2>8, <2>9, <2>10 DEF Sound
<1> QED BY <1>1, <1>2, <1>3, RowOrMerge

LEMMA SoundPrime ==
  /\ Sound(db)' <=> Sound(db')
  /\ Sound(work)' <=> Sound(work')
  /\ Ahead' <=> /\ Grows(db', work') /\ db'.next <= work'.next
                /\ \A r \in work'.events \ db'.events : r.env.slot > db'.watermark[r.env.author]
<1>1. Capped(db)' <=> Capped(db')
  BY DEF Capped
<1>2. Capped(work)' <=> Capped(work')
  BY DEF Capped
<1>3. Ahead' <=> /\ Grows(db', work') /\ db'.next <= work'.next
                 /\ \A r \in work'.events \ db'.events : r.env.slot > db'.watermark[r.env.author]
  BY DEF Ahead, Grows
<1>4. Clean(db)' <=> Clean(db')
  BY DEF Clean
<1>5. Clean(work)' <=> Clean(work')
  BY DEF Clean
<1> QED BY <1>1, <1>2, <1>3, <1>4, <1>5 DEF Sound, Ordered

LEMMA AheadOfItself ==
  ASSUME NEW T, T \in Tables
  PROVE  Grows(T, T) /\ T.next <= T.next /\ \A r \in T.events \ T.events : r.env.slot > T.watermark[r.env.author]
BY DEF Grows, Tables

LEMMA InitJInv == Init => JInv
<1> SUFFICES ASSUME Init PROVE JInv
  OBVIOUS
<1>1. db.events = {} /\ work = db /\ db \in Tables
  BY InitIInv DEF Init, IInv, TypeOK
<1>2. Sound(db)
  BY <1>1, FS_EmptySet DEF Sound, Clean, Ordered, Capped
<1> QED BY <1>1, <1>2, AheadOfItself DEF JInv, Ahead

LEMMA NextJInv == IInv /\ JInv /\ [Next]_vars => JInv'
<1> SUFFICES ASSUME IInv, JInv, [Next]_vars PROVE JInv'
  OBVIOUS
<1>0. db \in Tables /\ work \in Tables
  BY DEF IInv, TypeOK
<1>1. CASE UNCHANGED <<db, work>>
  BY <1>1, SoundPrime DEF JInv, Ahead
<1>2. ASSUME NEW d \in Devices, NEW e \in Envelopes, Examine(d, e)
      PROVE  JInv'
  <2>1. db' = db
    BY <1>2, ExamineKeeps DEF LoopFrame
  <2> QED BY <1>2, <2>1, ExamineKeepsSound, SoundPrime DEF JInv
<1>3. ASSUME NEW d \in Devices, LockOrg(d) \/ Abort(d)
      PROVE  JInv'
  <2>1. db' = db /\ work' = db
    BY <1>3 DEF LockOrg, Abort
  <2> QED BY <2>1, <1>0, AheadOfItself, SoundPrime DEF JInv
<1>4. ASSUME NEW d \in Devices, Commit(d)
      PROVE  JInv'
  <2>1. db' = work /\ work' = work
    BY <1>4 DEF Commit
  <2> QED BY <2>1, <1>0, AheadOfItself, SoundPrime DEF JInv
<1> QED BY <1>1, <1>2, <1>3, <1>4
        DEF Next, vars, RegisterDevice, RevokeDevice, RequireUnrevoked, SendAck, Crash

LEMMA SpecJInv == Spec => []JInv
BY InitJInv, NextJInv, SpecIInv, PTL DEF Spec

(* An event that merged does not stand rejected, whatever a relay left in  *)
(* quarantine before (the supersede step and the gates of handlePush).     *)
THEOREM MergedStaysAccepted == Spec => []MergedNotRejected
<1>1. JInv => MergedNotRejected
  BY DEF JInv, Sound, Clean, MergedNotRejected
<1> QED BY <1>1, SpecJInv, PTL

(* Refunds merge within their payment, over sessions, retries of one       *)
(* intent and batches, for every set of amounts (checkInvariants).         *)
THEOREM RefundsStayCapped == Spec => []RefundsCapped
<1>1. JInv => RefundsCapped
  BY DEF JInv, Sound, Capped, RefundsCapped, UpTo
<1> QED BY <1>1, SpecJInv, PTL

-----------------------------------------------------------------------------
(* The gateway implements the merged log it promises.                      *)

LEMMA LogShape ==
  ASSUME NEW T, T \in Tables, LogOK(T)
  PROVE  /\ LogOf(T) \in Seq(Envelopes) /\ Len(LogOf(T)) = T.next - 1 /\ T.next \in Nat
         /\ DOMAIN LogOf(T) = 1..(T.next - 1)
         /\ \A r \in T.events : r.gseq \in DOMAIN LogOf(T) /\ LogOf(T)[r.gseq] = r.env
         /\ \A i \in DOMAIN LogOf(T) : \E r \in T.events : r.gseq = i /\ r.env = LogOf(T)[i]
<1>1. T.next \in Nat /\ T.next > 0 /\ \A r \in T.events : r.env \in Envelopes /\ r.gseq \in Nat
  BY DEF Tables, LogOK
<1>2. ASSUME NEW r \in T.events
      PROVE  r.gseq \in 1..(T.next - 1) /\ LogOf(T)[r.gseq] = r.env
  <2>1. r.gseq \in 1..(T.next - 1)
    BY DEF LogOK
  <2>2. (CHOOSE q \in T.events : q.gseq = r.gseq) = r
    BY DEF LogOK
  <2> QED BY <2>1, <2>2 DEF LogOf
<1>3. DOMAIN LogOf(T) = 1..(T.next - 1)
  BY DEF LogOf
<1>4. ASSUME NEW i \in DOMAIN LogOf(T)
      PROVE  \E r \in T.events : r.gseq = i /\ r.env = LogOf(T)[i]
  <2>1. PICK r \in T.events : r.gseq = i
    BY <1>3, <1>4 DEF LogOK
  <2> QED BY <2>1, <1>2
<1>5. LogOf(T) = [i \in 1..(T.next - 1) |-> LogOf(T)[i]] /\ \A i \in 1..(T.next - 1) : LogOf(T)[i] \in Envelopes
  BY <1>1, <1>3, <1>4 DEF LogOf
<1>6. LogOf(T) \in Seq(Envelopes) /\ Len(LogOf(T)) = T.next - 1
  <2>1. T.next - 1 \in Nat
    BY <1>1
  <2> QED BY <1>3, <1>5, <2>1
<1> QED BY <1>1, <1>2, <1>3, <1>4, <1>6

(* One transaction commits: one step of the merged log.                    *)
LEMMA CommitSettles ==
  ASSUME IInv, JInv, NEW d \in Devices, Commit(d)
  PROVE  Promises!Settle
<1>1. /\ db \in Tables /\ work \in Tables /\ LogOK(db) /\ LogOK(work) /\ SlotsOK(work) /\ MarksOK
      /\ Sound(work) /\ Ahead /\ db' = work /\ acked' = acked
  BY DEF IInv, JInv, TypeOK, Commit
<1> DEFINE L == LogOf(db)
           M == LogOf(work)
           rejected == {<<q.holder, q.env.slot>> : q \in db.quarantine}
           rejected2 == {<<q.holder, q.env.slot>> : q \in work.quarantine}
<1>2. /\ L \in Seq(Envelopes) /\ Len(L) = db.next - 1 /\ db.next \in Nat /\ DOMAIN L = 1..(db.next - 1)
      /\ \A r \in db.events : r.gseq \in DOMAIN L /\ L[r.gseq] = r.env
      /\ \A i \in DOMAIN L : \E r \in db.events : r.gseq = i /\ r.env = L[i]
  BY <1>1, LogShape
<1>3. /\ M \in Seq(Envelopes) /\ Len(M) = work.next - 1 /\ work.next \in Nat /\ DOMAIN M = 1..(work.next - 1)
      /\ \A r \in work.events : r.gseq \in DOMAIN M /\ M[r.gseq] = r.env
      /\ \A i \in DOMAIN M : \E r \in work.events : r.gseq = i /\ r.env = M[i]
  BY <1>1, LogShape
<1>4. LogOf(db)' = M /\ LogOf(db) = L
  BY <1>1 DEF LogOf
<1>5. rejected \subseteq rejected2
  BY <1>1 DEF Ahead, Grows
<1> HIDE DEF L, M
<1>6. db.next <= work.next /\ db.events \subseteq work.events
  BY <1>1 DEF Ahead, Grows
<1>7. Len(L) <= Len(M) /\ SubSeq(L, 1, Len(L)) = SubSeq(M, 1, Len(L))
  <2>1. \A i \in 1..Len(L) : L[i] = M[i]
    <3> SUFFICES ASSUME NEW i \in 1..Len(L) PROVE L[i] = M[i]
      OBVIOUS
    <3>1. PICK r \in db.events : r.gseq = i /\ r.env = L[i]
      BY <1>2
    <3> QED BY <3>1, <1>3, <1>6
  <2>2. Len(L) <= Len(M)
    BY <1>2, <1>3, <1>6
  <2> QED BY <2>1, <2>2, <1>2, <1>3
<1>8. \A i, j \in DOMAIN M : M[i].id = M[j].id => i = j
  BY <1>1, <1>3 DEF LogOK
<1>9. ASSUME NEW i \in DOMAIN M \ DOMAIN L
      PROVE  \E r \in work.events \ db.events : r.gseq = i /\ r.env = M[i]
  BY <1>2, <1>3
<1>10. \A i \in DOMAIN M \ DOMAIN L : M[i].slot > db.watermark[M[i].author]
  BY <1>1, <1>9 DEF Ahead
<1>11. \A i, j \in DOMAIN M \ DOMAIN L :
         i < j /\ M[i].author = M[j].author => M[i].slot < M[j].slot
  BY <1>1, <1>9 DEF Sound, Ordered
<1>12. ASSUME NEW x \in Devices
       PROVE  /\ db.watermark[x] <= work.watermark[x]
              /\ \A s \in (db.watermark[x] + 1)..work.watermark[x] :
                   (\E i \in DOMAIN M : M[i].author = x /\ M[i].slot = s) \/ <<x, s>> \in rejected2
  <2>1. db.watermark[x] <= work.watermark[x] /\ db.watermark[x] \in Marks /\ work.watermark[x] \in Marks
    BY <1>1 DEF MarksOK, Tables
  <2>2. ASSUME NEW s \in (db.watermark[x] + 1)..work.watermark[x]
        PROVE  (\E i \in DOMAIN M : M[i].author = x /\ M[i].slot = s) \/ <<x, s>> \in rejected2
    <3>1. s \in 0..work.watermark[x]
      BY <2>1, <2>2, EnvelopesAssumption, RelaysAssumption DEF Marks
    <3>2. Held(work, x, s)
      BY <1>1, <3>1 DEF SlotsOK, HeldOwn
    <3>3. CASE \E r \in work.events : r.env.author = x /\ r.env.slot = s
      BY <3>3, <1>3
    <3>4. CASE \E q \in work.quarantine : q.holder = x /\ q.env.slot = s
      BY <3>4
    <3> QED BY <3>2, <3>3, <3>4 DEF Held
  <2> QED BY <2>1, <2>2
<1>13. \A i \in DOMAIN M : M[i].slot <= work.watermark[M[i].author]
  BY <1>1, <1>3 DEF LogOK
<1> HIDE DEF rejected, rejected2
<1>14. /\ {<<q.holder, q.env.slot>> : q \in db.quarantine}' = rejected2
       /\ {<<q.holder, q.env.slot>> : q \in db.quarantine} = rejected
  BY <1>1 DEF rejected, rejected2
<1> QED BY <1>1, <1>4, <1>5, <1>7, <1>8, <1>10, <1>11, <1>12, <1>13, <1>14
        DEF Promises!Settle, Promises!InLog, Promises!IsPrefix

(* An ack is sent: one watermark is promised, or none that is new.         *)
LEMMA AckPromises ==
  ASSUME IInv, NEW d \in Devices, SendAck(d)
  PROVE  UNCHANGED Promises!vars \/ \E x \in Devices : Promises!Promise(x)
<1> DEFINE o == outcome[d]
<1>1. /\ db' = db /\ acked \in [Devices -> Marks] /\ db.watermark \in [Devices -> Marks]
      /\ o \in [acked : Marks, origin : Devices \cup {None}]
      /\ acked' = [acked EXCEPT ![o.origin] = IF o.acked > @ THEN o.acked ELSE @]
      /\ None \notin Devices
      /\ o.origin \in Devices => o.acked <= db.watermark[o.origin]
  BY EnvelopesAssumption, RelaysAssumption DEF IInv, AcksOK, TypeOK, Tables, SendAck
<1> HIDE DEF o
<1>2. CASE o.origin \in Devices /\ o.acked > acked[o.origin]
  <2>1. acked'[o.origin] \in (acked[o.origin] + 1)..db.watermark[o.origin]
    BY <1>1, <1>2 DEF Marks
  <2>2. \E s \in (acked[o.origin] + 1)..db.watermark[o.origin] : acked' = [acked EXCEPT ![o.origin] = s]
    BY <1>1, <1>2, <2>1
  <2>3. LogOf(db)' = LogOf(db) /\ UNCHANGED {<<q.holder, q.env.slot>> : q \in db.quarantine}
        /\ UNCHANGED db.watermark
    BY <1>1 DEF LogOf
  <2>4. Promises!Promise(o.origin)
    <3> DEFINE x == o.origin
    <3>1. acked'[x] \in (acked[x] + 1)..db.watermark[x]
      BY <2>1
    <3>2. acked' = [acked EXCEPT ![x] = acked'[x]]
      BY <1>1, <1>2, <2>2
    <3> HIDE DEF x
    <3>3. Promises!Promise(x)
      BY <2>3, <3>1, <3>2, Zenon DEF Promises!Promise
    <3> QED BY <3>3 DEF x
  <2> QED BY <1>2, <2>4
<1>3. CASE ~(o.origin \in Devices /\ o.acked > acked[o.origin])
  <2>1. acked' = acked
    BY <1>1, <1>3
  <2> QED BY <1>1, <2>1 DEF Promises!vars, LogOf
<1> QED BY <1>2, <1>3

(* Every behaviour of the gateway, the merge loop, rollbacks and crashes   *)
(* hidden, is one of the merged log: it only appends, settles a slot by    *)
(* holding it and promises what is settled (handlePush).                   *)
THEOREM Implements == Spec => ImplementsMergedLog
<1>1. Init => Promises!Init
  <2> SUFFICES ASSUME Init PROVE Promises!Init
    OBVIOUS
  <2>1. db.events = {} /\ db.quarantine = {} /\ db.next = 1 /\ db.watermark = [x \in Devices |-> -1]
        /\ acked = [x \in Devices |-> -1]
    BY DEF Init
  <2>2. db \in Tables /\ LogOK(db)
    BY InitIInv DEF IInv, TypeOK
  <2>3. LogOf(db) = <<>>
    BY <2>1, <2>2, LogShape
  <2> QED BY <2>1, <2>3 DEF Promises!Init
<1>2. IInv /\ JInv /\ [Next]_vars => [Promises!Next]_(Promises!vars)
  <2> SUFFICES ASSUME IInv, JInv, [Next]_vars PROVE [Promises!Next]_(Promises!vars)
    OBVIOUS
  <2>1. CASE db' = db /\ acked' = acked
    BY <2>1 DEF Promises!vars, LogOf
  <2>2. ASSUME NEW d \in Devices, Commit(d) PROVE Promises!Next
    BY <2>2, CommitSettles DEF Promises!Next
  <2>3. ASSUME NEW d \in Devices, SendAck(d) PROVE [Promises!Next]_(Promises!vars)
    BY <2>3, AckPromises DEF Promises!Next
  <2>4. ASSUME NEW d \in Devices, NEW e \in Envelopes, Examine(d, e) PROVE db' = db /\ acked' = acked
    BY <2>4, ExamineKeeps DEF LoopFrame
  <2> QED BY <2>1, <2>2, <2>3, <2>4
          DEF Next, vars, RegisterDevice, RevokeDevice, RequireUnrevoked, LockOrg, Abort, Crash
<1> QED BY <1>1, <1>2, SpecIInv, SpecJInv, PTL DEF Spec, ImplementsMergedLog, Promises!Spec

-----------------------------------------------------------------------------
(* The notice outbox of the same gateway: its devices and relays are the   *)
(* pipeline's, its state is its own.                                       *)

(* The inductive invariant: the handler about to notify or mark works on   *)
(* committed rows, and the rows it is about to mark for its own device     *)
(* have been written to that device's session.                             *)
BatchesCommitted == \A d \in Devices : handler[d].batch \subseteq notices

BatchesSent ==
  \A d \in Devices : handler[d].step = "mark" =>
    \A r \in handler[d].batch : r.holder = d => r \in sent

OutboxInv ==
  /\ NoticeTypeOK
  /\ BatchesCommitted /\ BatchesSent /\ MarkedWereSent

LEMMA InitOutbox == NoticeInit => OutboxInv
  BY NoticeAssumption DEF NoticeInit, OutboxInv, NoticeTypeOK, BatchesCommitted, BatchesSent,
     MarkedWereSent, Idle, Rows

LEMMA NextOutbox == OutboxInv /\ [NoticeNext]_noticeVars => OutboxInv'
<1> SUFFICES ASSUME OutboxInv, [NoticeNext]_noticeVars PROVE OutboxInv'
  OBVIOUS
<1> USE NoticeAssumption DEF OutboxInv, NoticeTypeOK, BatchesCommitted, BatchesSent,
        MarkedWereSent, Rows
<1>1. ASSUME NEW d \in Devices, CommitRefused(d) PROVE OutboxInv'
  BY <1>1 DEF CommitRefused, Attributable, Running, Idle
<1>2. ASSUME NEW d \in Devices, NEW r \in Rows, CommitMerged(d, r) PROVE OutboxInv'
  BY <1>2 DEF CommitMerged
<1>3. ASSUME NEW d \in Devices, Hello(d) PROVE OutboxInv'
  <2>1. Pending(d) \subseteq notices
    BY DEF Pending
  <2> QED BY <1>3, <2>1 DEF Hello, Idle
<1>4. ASSUME NEW d \in Devices, Notify(d) PROVE OutboxInv'
  <2>1. NoticeTypeOK'
    BY <1>4 DEF Notify
  <2>2. (BatchesCommitted /\ MarkedWereSent)'
    BY <1>4 DEF Notify
  <2>3. BatchesSent'
    BY <1>4 DEF Notify
  <2> QED BY <2>1, <2>2, <2>3
<1>5. ASSUME NEW d \in Devices, Mark(d) PROVE OutboxInv'
  <2>1. Markable(d) \subseteq notices /\ Markable(d) \subseteq sent
    BY <1>5 DEF Mark, Markable
  <2> QED BY <1>5, <2>1 DEF Mark, Idle
<1>6. ASSUME NEW d \in Devices, Connect(d) PROVE OutboxInv'
  BY <1>6 DEF Connect
<1>7. ASSUME NEW d \in Devices, Close(d) PROVE OutboxInv'
  BY <1>7 DEF Close
<1>8. ASSUME GatewayRestart PROVE OutboxInv'
  BY <1>8 DEF GatewayRestart, Idle
<1>9. CASE UNCHANGED noticeVars
  BY <1>9 DEF noticeVars
<1> QED
  BY <1>1, <1>2, <1>3, <1>4, <1>5, <1>6, <1>7, <1>8, <1>9 DEF NoticeNext, Handler

LEMMA SpecOutbox == NoticeSpec => []OutboxInv
  BY InitOutbox, NextOutbox, PTL DEF NoticeSpec

(* The tables, handlers and sockets keep their types, and only committed   *)
(* rows are ever superseded or marked.                                     *)
THEOREM OutboxTypeCorrect == NoticeSpec => []NoticeTypeOK
<1>1. OutboxInv => NoticeTypeOK
  BY DEF OutboxInv
<1> QED BY <1>1, SpecOutbox, PTL

(* A row leaves the outbox only after its notice was written to a session  *)
(* of the device that holds it (mark-on-send).                             *)
THEOREM MarkedHaveBeenSent ==
  NoticeSpec => []MarkedWereSent
<1>1. OutboxInv => MarkedWereSent
  BY DEF OutboxInv
<1> QED BY <1>1, SpecOutbox, PTL

=============================================================================
