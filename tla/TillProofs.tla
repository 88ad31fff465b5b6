----------------------------- MODULE TillProofs -----------------------------
(***************************************************************************)
(* However many devices a branch has and however they act and hear, a till *)
(* that closes an order knows of no other close, and a device that has     *)
(* heard everything believes its settled order rightly.                    *)
(***************************************************************************)
EXTENDS Till, FiniteSetTheorems, WellFoundedInduction, TLAPS

-----------------------------------------------------------------------------
(* Least and greatest elements, minimal sets, and sums over finite sets.   *)

(* Every nonempty set of naturals has a least element.                     *)
LEMMA LeastNatural ==
  ASSUME NEW S \in SUBSET Nat, S # {}
  PROVE  \E m \in S : \A n \in S : m <= n
<1> DEFINE Below == OpToRel(<, Nat)
<1>1. IsWellFoundedOn(Below, Nat)
  BY NatLessThanWellFounded, Zenon
<1>2. \A m, n \in Nat : n < m => <<n, m>> \in Below
  BY Zenon DEF OpToRel
<1> HIDE DEF Below
<1>3. PICK m \in S : \A n \in S : ~ (<<n, m>> \in Below)
  BY <1>1, WFMin, Zenon
<1>4. ASSUME NEW n \in S PROVE ~(n < m)
  BY <1>2, <1>3, Zenon
<1>5. \A n \in S : m <= n
  BY <1>4, SMT
<1> QED BY <1>5, Zenon

(* And a greatest one, if there is a bound.                                *)
LEMMA GreatestNatural ==
  ASSUME NEW S \in SUBSET Nat, S # {}, NEW b \in Nat, \A n \in S : n <= b
  PROVE  Max(S) \in S /\ \A n \in S : n <= Max(S)
<1> DEFINE D == {b - n : n \in S}
<1>1. D \in SUBSET Nat /\ D # {} /\ \A n \in S : b - n \in D
  <2>1. \A n \in S : b - n \in Nat
    OBVIOUS
  <2> QED BY <2>1
<1>2. \A d \in D : \E n \in S : d = b - n
  OBVIOUS
<1> HIDE DEF D
<1>3. PICK d \in D : \A c \in D : d <= c
  BY <1>1, LeastNatural
<1>4. PICK m \in S : d = b - m
  BY <1>2
<1>5. \A n \in S : m >= n
  BY <1>1, <1>3, <1>4
<1>6. Max(S) \in S /\ \A n \in S : Max(S) >= n
  BY <1>5, Zenon DEF Max
<1> QED BY <1>6

Some(s) == CHOOSE x \in s : TRUE

(* f gives the sum of P over every subset of S.                            *)
IsSumOf(f, P, S) ==
  f = [s \in SUBSET S |-> IF s = {} THEN 0 ELSE P[Some(s)] + f[s \ {Some(s)}]]

SumOf(P, S) == (CHOOSE f : IsSumOf(f, P, S))[S]

(* Of the subsets of a finite set some set has, one is minimal.            *)
LEMMA MinimalSet ==
  ASSUME NEW S, IsFiniteSet(S), NEW D \in SUBSET SUBSET S, D # {}
  PROVE  \E T \in D : \A U \in D : U \subseteq T => U = T
<1> DEFINE R == StrictSubsetOrdering(S)
<1>1. IsWellFoundedOn(R, SUBSET S)
  BY FS_StrictSubsetOrderingWellFounded, FS_FiniteSubsetsOfFinite
<1> HIDE DEF R
<1>2. \E x \in D : \A y \in D : ~ (<<y, x>> \in R)
  BY <1>1, WFMin
<1> QED BY <1>2 DEF R, StrictSubsetOrdering

LEMMA SomeIsIn == ASSUME NEW s, s # {} PROVE Some(s) \in s
BY DEF Some

LEMMA SumsAgree ==
  ASSUME NEW P, NEW S, NEW T, NEW A, A \subseteq S, A \subseteq T, IsFiniteSet(A),
         NEW f, IsSumOf(f, P, S), NEW g, IsSumOf(g, P, T)
  PROVE  f[A] = g[A]
<1> DEFINE D == {U \in SUBSET A : f[U] # g[U]}
<1>1. SUFFICES ASSUME D # {} PROVE FALSE
  OBVIOUS
<1>2. PICK U \in D : \A V \in D : V \subseteq U => V = U
  <2>1. D \in SUBSET SUBSET A
    OBVIOUS
  <2> HIDE DEF D
  <2> QED BY <1>1, <2>1, MinimalSet
<1>3. U \subseteq A /\ f[U] # g[U]
  OBVIOUS
<1>4. CASE U = {}
  BY <1>3, <1>4 DEF IsSumOf
<1>5. CASE U # {}
  <2> DEFINE V == U \ {Some(U)}
  <2>1. V \subseteq U /\ V # U
    BY <1>5, SomeIsIn
  <2>2. f[V] = g[V]
    BY <1>2, <1>3, <2>1
  <2>3. f[U] = P[Some(U)] + f[V] /\ g[U] = P[Some(U)] + g[V]
    BY <1>3, <1>5 DEF IsSumOf
  <2> QED BY <1>3, <2>2, <2>3
<1> QED BY <1>4, <1>5

LEMMA SumsExist ==
  ASSUME NEW P, NEW S, IsFiniteSet(S)
  PROVE  \E f : IsSumOf(f, P, S)
<1> DEFINE D == {U \in SUBSET S : ~ \E f : IsSumOf(f, P, U)}
           G(V) == CHOOSE f : IsSumOf(f, P, V)
<1>1. SUFFICES ASSUME D # {} PROVE FALSE
  OBVIOUS
<1>2. PICK U \in D : \A V \in D : V \subseteq U => V = U
  <2>1. D \in SUBSET SUBSET S
    OBVIOUS
  <2> HIDE DEF D
  <2> QED BY <1>1, <2>1, MinimalSet
<1>3. \A V \in SUBSET U : V # U => IsSumOf(G(V), P, V) /\ IsFiniteSet(V)
  BY <1>2, FS_Subset
<1> HIDE DEF G
<1> DEFINE h == [s \in SUBSET U |-> IF s = {} THEN 0
                                    ELSE P[Some(s)] + G(s \ {Some(s)})[s \ {Some(s)}]]
<1>4. ASSUME NEW V \in SUBSET U, V # U
      PROVE  h[V] = G(V)[V]
  <2>1. CASE V = {}
    BY <1>3, <1>4, <2>1 DEF IsSumOf
  <2>2. CASE V # {}
    <3> DEFINE W == V \ {Some(V)}
    <3>1. W \subseteq V /\ W \subseteq U /\ W # U
      BY <1>4, <2>2, SomeIsIn
    <3>2. G(V)[V] = P[Some(V)] + G(V)[W]
      BY <1>3, <1>4, <2>2 DEF IsSumOf
    <3>3. IsSumOf(G(V), P, V) /\ IsSumOf(G(W), P, W) /\ IsFiniteSet(W)
      BY <1>3, <1>4, <3>1
    <3>4. G(V)[W] = G(W)[W]
      BY <3>1, <3>3, SumsAgree
    <3>5. h[V] = P[Some(V)] + G(W)[W]
      BY <2>2
    <3> QED BY <3>2, <3>4, <3>5
  <2> QED BY <2>1, <2>2
<1>5. ASSUME NEW s \in SUBSET U, s # {}
      PROVE  h[s] = P[Some(s)] + h[s \ {Some(s)}]
  <2>1. s \ {Some(s)} \in SUBSET U /\ s \ {Some(s)} # U
    BY <1>5, SomeIsIn
  <2>2. h[s \ {Some(s)}] = G(s \ {Some(s)})[s \ {Some(s)}]
    BY <2>1, <1>4
  <2>3. h[s] = P[Some(s)] + G(s \ {Some(s)})[s \ {Some(s)}]
    BY <1>5
  <2> QED BY <2>2, <2>3
<1>6. h[{}] = 0 /\ h = [s \in SUBSET U |-> h[s]]
  OBVIOUS
<1> HIDE DEF h
<1>7. IsSumOf(h, P, U)
  BY <1>5, <1>6 DEF IsSumOf
<1> QED BY <1>2, <1>7

LEMMA SumChosen ==
  ASSUME NEW P, NEW S, IsFiniteSet(S), NEW T, S \subseteq T, NEW f, IsSumOf(f, P, T)
  PROVE  SumOf(P, S) = f[S]
<1>1. IsSumOf(CHOOSE g : IsSumOf(g, P, S), P, S)
  BY SumsExist
<1> QED BY <1>1, SumsAgree DEF SumOf

LEMMA SumStep ==
  ASSUME NEW P, NEW S, IsFiniteSet(S)
  PROVE  /\ SumOf(P, {}) = 0
         /\ S # {} => SumOf(P, S) = P[Some(S)] + SumOf(P, S \ {Some(S)})
<1>1. PICK f : IsSumOf(f, P, S)
  BY SumsExist
<1>2. \A U \in SUBSET S : SumOf(P, U) = f[U]
  BY <1>1, SumChosen, FS_Subset
<1>3. f[{}] = 0 /\ (S # {} => f[S] = P[Some(S)] + f[S \ {Some(S)}])
  BY <1>1 DEF IsSumOf
<1> QED BY <1>2, <1>3

LEMMA SumIsNat ==
  ASSUME NEW P, NEW S, IsFiniteSet(S), \A x \in S : P[x] \in Nat
  PROVE  SumOf(P, S) \in Nat
<1> DEFINE D == {U \in SUBSET S : SumOf(P, U) \notin Nat}
<1>1. SUFFICES ASSUME D # {} PROVE FALSE
  OBVIOUS
<1>2. PICK U \in D : \A V \in D : V \subseteq U => V = U
  <2>1. D \in SUBSET SUBSET S
    OBVIOUS
  <2> HIDE DEF D
  <2> QED BY <1>1, <2>1, MinimalSet
<1>3. U \subseteq S /\ IsFiniteSet(U) /\ SumOf(P, U) \notin Nat
  BY FS_Subset
<1>4. U # {} /\ SumOf(P, U) = P[Some(U)] + SumOf(P, U \ {Some(U)})
  BY <1>3, SumStep
<1>5. Some(U) \in U /\ U \ {Some(U)} \notin D
  BY <1>2, <1>4, SomeIsIn
<1> QED BY <1>3, <1>4, <1>5

(* An element adds what it is worth.                                       *)
LEMMA SumAdds ==
  ASSUME NEW P, NEW S, IsFiniteSet(S), \A x \in S : P[x] \in Nat, NEW a \in S
  PROVE  SumOf(P, S) = P[a] + SumOf(P, S \ {a})
<1> DEFINE D == {U \in SUBSET S : \E x \in U : SumOf(P, U) # P[x] + SumOf(P, U \ {x})}
<1>1. SUFFICES ASSUME D # {} PROVE FALSE
  OBVIOUS
<1>2. PICK U \in D : \A V \in D : V \subseteq U => V = U
  <2>1. D \in SUBSET SUBSET S
    OBVIOUS
  <2> HIDE DEF D
  <2> QED BY <1>1, <2>1, MinimalSet
<1>3. PICK x \in U : SumOf(P, U) # P[x] + SumOf(P, U \ {x})
  BY <1>2
<1> DEFINE c == Some(U)
<1>4. c \in U /\ U \subseteq S /\ IsFiniteSet(U)
  BY SomeIsIn, FS_Subset
<1>5. SumOf(P, U) = P[c] + SumOf(P, U \ {c})
  BY <1>4, SumStep
<1> HIDE DEF c
<1>6. c # x
  BY <1>3, <1>5
<1>7. U \ {c} \notin D /\ U \ {x} \notin D
  BY <1>2, <1>4
<1>8. SumOf(P, U \ {c}) = P[x] + SumOf(P, (U \ {c}) \ {x})
  BY <1>4, <1>6, <1>7
<1>9. SumOf(P, U \ {x}) = P[c] + SumOf(P, (U \ {x}) \ {c})
  BY <1>4, <1>6, <1>7
<1>10. PICK R \in SUBSET S : R = (U \ {c}) \ {x} /\ R = (U \ {x}) \ {c}
  BY <1>4
<1>11. SumOf(P, R) \in Nat /\ P[c] \in Nat /\ P[x] \in Nat
  BY <1>4, FS_Subset, SumIsNat
<1>12. SumOf(P, U \ {c}) = P[x] + SumOf(P, R) /\ SumOf(P, U \ {x}) = P[c] + SumOf(P, R)
  BY <1>8, <1>9, <1>10
<1> QED BY <1>3, <1>5, <1>11, <1>12

(* A larger set is worth no less.                                          *)
LEMMA SumGrows ==
  ASSUME NEW P, NEW S, IsFiniteSet(S), \A x \in S : P[x] \in Nat, NEW A \in SUBSET S
  PROVE  SumOf(P, A) <= SumOf(P, S)
<1> DEFINE D == {U \in SUBSET S : A \subseteq U /\ ~(SumOf(P, A) <= SumOf(P, U))}
<1>1. SUFFICES ASSUME D # {} PROVE FALSE
  OBVIOUS
<1>2. PICK U \in D : \A V \in D : V \subseteq U => V = U
  <2>1. D \in SUBSET SUBSET S
    OBVIOUS
  <2> HIDE DEF D
  <2> QED BY <1>1, <2>1, MinimalSet
<1>3. U \subseteq S /\ A \subseteq U /\ IsFiniteSet(U) /\ ~(SumOf(P, A) <= SumOf(P, U))
  BY FS_Subset
<1>4. SumOf(P, A) \in Nat /\ SumOf(P, U) \in Nat
  BY <1>3, SumIsNat, FS_Subset
<1>5. PICK x \in U : x \notin A
  BY <1>3, <1>4
<1>6. SumOf(P, U) = P[x] + SumOf(P, U \ {x})
  BY <1>3, SumAdds
<1>7. U \ {x} \notin D /\ SumOf(P, U \ {x}) \in Nat /\ P[x] \in Nat
  BY <1>2, <1>3, <1>5, SumIsNat, FS_Subset
<1> QED BY <1>3, <1>4, <1>5, <1>6, <1>7

-----------------------------------------------------------------------------
(* A stream is a sequence, and nothing is known of its events but closes.  *)
Streams == DOMAIN log = Devices /\ \A d \in Devices : \E S : log[d] \in Seq(S)

(* Nobody has heard more than there is.                                    *)
HeardOK ==
  /\ heard \in [Devices -> [Devices -> Nat]]
  /\ \A d, e \in Devices : heard[d][e] <= Len(log[e])

IsClose(d, i) == i \in DOMAIN log[d] /\ log[d][i].kind = "closed"

(* What a close has seen was there.                                        *)
SeenOK ==
  \A d \in Devices : \A i :
    IsClose(d, i) => \A e \in Devices : /\ log[d][i].seen[e] \in Nat
                                        /\ log[d][i].seen[e] <= Len(log[e])

(* And no close was in it.                                                 *)
SawNoClose ==
  \A d, e \in Devices : \A i, j :
    IsClose(d, i) /\ IsClose(e, j) => i > log[e][j].seen[d]

(* What an event says is sensible: a close's ceiling is the sum of the     *)
(* lines it settles, and what was tendered covers their charge.            *)
PlainOK(v) ==
  /\ v.kind = "payment" => v.amount \in Nat
  /\ v.kind = "line_added" => v.line \in branch.lines
CloseOK(v) ==
  /\ v.lines \subseteq branch.lines
  /\ v.effective = Sum(v.lines)
  /\ v.tendered >= Charge(v.lines)
EventsOK ==
  \A d \in Devices : \A i \in DOMAIN log[d] :
    PlainOK(log[d][i]) /\ (IsClose(d, i) => CloseOK(log[d][i]))

(* What was tendered is what the payments the close has seen add up to.    *)
SeenBy(seen) == UNION {{e} \X (1 .. seen[e]) : e \in Devices}
PaymentsIn(seen) == {p \in SeenBy(seen) : Ev(p).kind = "payment"}
PaidIn(L, X) == MapThenSumSet(LAMBDA p : L[p[1]][p[2]].amount, X)
TenderOK ==
  \A d \in Devices : \A i \in DOMAIN log[d] :
    IsClose(d, i) => log[d][i].tendered = PaidIn(log, PaymentsIn(log[d][i].seen))

IInv ==
  /\ branch \in Branches
  /\ Streams
  /\ HeardOK
  /\ SeenOK
  /\ SawNoClose
  /\ EventsOK
  /\ TenderOK

-----------------------------------------------------------------------------
(* What a device holds, and what its bill and its payments come to.        *)
LEMMA SumIs ==
  ASSUME NEW A
  PROVE  Sum(A) = SumOf(Price, A)
BY DEF Sum, MapThenSumSet, MapThenFoldSet, SumOf, IsSumOf, Some

LEMMA TaxedIs ==
  ASSUME NEW b, NEW A
  PROVE  TaxedSum(b, A) = SumOf(b.taxed, A)
BY DEF TaxedSum, MapThenSumSet, MapThenFoldSet, SumOf, IsSumOf, Some

(* A bill is within its bound, and a larger one comes to no less.          *)
LEMMA BillsFit ==
  ASSUME branch \in Branches, NEW A \in SUBSET branch.lines, NEW B \in SUBSET A
  PROVE  /\ Sum(A) \in Nat /\ Sum(B) \in Nat /\ Sum(B) <= Sum(A)
         /\ Charge(A) \in Nat /\ Charge(B) \in Nat /\ Charge(B) <= Charge(A)
<1>1. /\ IsFiniteSet(branch.lines) /\ branch.lines \subseteq Lines
      /\ Price \in [Lines -> Nat] /\ branch.taxed \in [Lines -> Nat] /\ MaxBill \in Nat
      /\ branch.rounded \in [0 .. MaxBill -> Nat]
      /\ TaxedSum(branch, branch.lines) <= MaxBill
      /\ \A m, n \in 0 .. MaxBill : m <= n => branch.rounded[m] <= branch.rounded[n]
  BY TillAssumption
<1>2. IsFiniteSet(A) /\ IsFiniteSet(B) /\ A \subseteq Lines /\ B \subseteq Lines
  BY <1>1, FS_Subset
<1>3. /\ SumOf(Price, A) \in Nat /\ SumOf(Price, B) \in Nat
      /\ SumOf(Price, B) <= SumOf(Price, A)
  <2>1. \A l \in A : Price[l] \in Nat
    BY <1>1, <1>2
  <2> QED BY <1>2, <2>1, SumIsNat, SumGrows
<1>4. /\ SumOf(branch.taxed, A) \in Nat /\ SumOf(branch.taxed, B) \in Nat
      /\ SumOf(branch.taxed, B) <= SumOf(branch.taxed, A)
      /\ SumOf(branch.taxed, branch.lines) \in Nat
      /\ SumOf(branch.taxed, A) <= SumOf(branch.taxed, branch.lines)
  <2>1. \A l \in branch.lines : branch.taxed[l] \in Nat
    BY <1>1
  <2>2. \A l \in A : branch.taxed[l] \in Nat
    BY <2>1
  <2> QED BY <1>1, <1>2, <2>1, <2>2, SumIsNat, SumGrows
<1>5. /\ TaxedSum(branch, A) \in 0 .. MaxBill /\ TaxedSum(branch, B) \in 0 .. MaxBill
      /\ TaxedSum(branch, B) <= TaxedSum(branch, A)
  BY <1>1, <1>4, TaxedIs
<1>6. Charge(A) \in Nat /\ Charge(B) \in Nat /\ Charge(B) <= Charge(A)
  BY <1>1, <1>5 DEF Charge
<1> QED BY <1>3, <1>6, SumIs

(* f gives what any of the events X of the streams L add up to.            *)
AmountsOf(f, L, X) ==
  f = [s \in SUBSET X |-> IF s = {} THEN 0
                          ELSE L[Some(s)[1]][Some(s)[2]].amount + f[s \ {Some(s)}]]

LEMMA PaidIs ==
  ASSUME NEW L, NEW X, IsFiniteSet(X), NEW P, \A p \in X : P[p] = L[p[1]][p[2]].amount
  PROVE  PaidIn(L, X) = SumOf(P, X)
<1>1. PaidIn(L, X) = (CHOOSE f : AmountsOf(f, L, X))[X]
  BY DEF PaidIn, MapThenSumSet, MapThenFoldSet, AmountsOf, Some
<1>2. ASSUME NEW f PROVE AmountsOf(f, L, X) <=> IsSumOf(f, P, X)
  <2>1. \A s \in SUBSET X : s # {} => L[Some(s)[1]][Some(s)[2]].amount = P[Some(s)]
    BY SomeIsIn
  <2>2. [s \in SUBSET X |-> IF s = {} THEN 0
                            ELSE L[Some(s)[1]][Some(s)[2]].amount + f[s \ {Some(s)}]]
          = [s \in SUBSET X |-> IF s = {} THEN 0 ELSE P[Some(s)] + f[s \ {Some(s)}]]
    BY <2>1
  <2> QED BY <2>2 DEF AmountsOf, IsSumOf
<1>3. AmountsOf(CHOOSE f : AmountsOf(f, L, X), L, X)
  <2>1. \E f : AmountsOf(f, L, X)
    BY <1>2, SumsExist
  <2> QED BY <2>1
<1>4. SumOf(P, X) = (CHOOSE f : AmountsOf(f, L, X))[X]
  BY <1>2, <1>3, SumChosen
<1> QED BY <1>1, <1>4

LEMMA SeenFinite ==
  ASSUME NEW seen, \A e \in Devices : seen[e] \in Nat
  PROVE  IsFiniteSet(SeenBy(seen))
<1> DEFINE F == {{e} \X (1 .. seen[e]) : e \in Devices}
<1>1. IsFiniteSet(F)
  <2> DEFINE g == [e \in Devices |-> {e} \X (1 .. seen[e])]
  <2>1. g \in Surjection(Devices, F)
    BY DEF Surjection
  <2> HIDE DEF g, F
  <2> QED BY <2>1, TillAssumption, FS_Surjection
<1>2. ASSUME NEW T \in F PROVE IsFiniteSet(T)
  <2>1. PICK e \in Devices : T = {e} \X (1 .. seen[e])
    OBVIOUS
  <2>2. IsFiniteSet({e}) /\ IsFiniteSet(1 .. seen[e])
    <3>1. seen[e] \in Int /\ 1 \in Int
      OBVIOUS
    <3> QED BY <3>1, FS_Interval, FS_Singleton
  <2> QED BY <2>1, <2>2, FS_Product
<1> HIDE DEF F
<1>3. IsFiniteSet(UNION F)
  BY <1>1, <1>2, FS_UNION
<1> QED BY <1>3 DEF F, SeenBy

LEMMA HeldIsSeen ==
  ASSUME HeardOK, NEW d \in Devices
  PROVE  Held(d) = SeenBy([heard[d] EXCEPT ![d] = Len(log[d])])
<1>1. \A e \in Devices : Prefix(d, e) = 1 .. [heard[d] EXCEPT ![d] = Len(log[d])][e]
  BY DEF Prefix, HeardOK
<1> QED BY <1>1 DEF Held, SeenBy

LEMMA HeldThere ==
  ASSUME IInv, NEW d \in Devices, NEW p \in Held(d)
  PROVE  /\ p[1] \in Devices /\ p[2] \in 1 .. Len(log[p[1]]) /\ p = <<p[1], p[2]>>
         /\ p[2] \in DOMAIN log[p[1]] /\ PlainOK(Ev(p))
<1>1. PICK e \in Devices : p \in {e} \X Prefix(d, e)
  BY DEF Held
<1>2. /\ Len(log[e]) \in Nat /\ DOMAIN log[e] = 1 .. Len(log[e])
      /\ heard[d][e] \in Nat /\ heard[d][e] <= Len(log[e])
  BY DEF IInv, HeardOK, Streams
<1>3. p[1] = e /\ p[2] \in Prefix(d, e) /\ p = <<p[1], p[2]>>
  BY <1>1
<1>4. p[2] \in 1 .. Len(log[e])
  BY <1>2, <1>3 DEF Prefix
<1> QED BY <1>2, <1>3, <1>4 DEF IInv, EventsOK, Ev

LEMMA HeldFinite ==
  ASSUME IInv, NEW d \in Devices
  PROVE  IsFiniteSet(Held(d))
<1>1. \A e \in Devices : [heard[d] EXCEPT ![d] = Len(log[d])][e] \in Nat
  BY DEF IInv, HeardOK, Streams
<1> QED BY <1>1, HeldIsSeen, SeenFinite DEF IInv

LEMMA PayTotalIs ==
  ASSUME IInv, NEW d \in Devices
  PROVE  /\ PayTotal(d) = PaidIn(log, Of(d, "payment")) /\ PayTotal(d) \in Nat
         /\ IsFiniteSet(Of(d, "payment"))
<1> DEFINE X == Of(d, "payment")
           P == [p \in X |-> Ev(p).amount]
<1>1. X \subseteq Held(d) /\ IsFiniteSet(X) /\ \A p \in X : Ev(p).kind = "payment"
  BY HeldFinite, FS_Subset DEF Of
<1>2. \A p \in X : P[p] = log[p[1]][p[2]].amount /\ P[p] \in Nat
  BY <1>1, HeldThere DEF PlainOK, Ev
<1>3. PayTotal(d) = PaidIn(log, X)
  BY DEF PayTotal, PaidIn, Ev
<1> HIDE DEF X, P
<1>4. PaidIn(log, X) = SumOf(P, X) /\ SumOf(P, X) \in Nat
  BY <1>1, <1>2, PaidIs, SumIsNat
<1> QED BY <1>1, <1>3, <1>4 DEF X

LEMMA BillableIn ==
  ASSUME IInv, NEW d \in Devices
  PROVE  /\ Billable(d) \subseteq branch.lines
         /\ Billed(d) = Sum(Billable(d)) /\ Charged(d) = Charge(Billable(d))
         /\ Charged(d) \in Nat /\ Billed(d) \in Nat
<1>1. ASSUME NEW l \in Billable(d)
      PROVE  l \in branch.lines
  <2>1. PICK p \in Of(d, "line_added") : l = Ev(p).line
    BY DEF Billable, Cells
  <2> QED BY <2>1, HeldThere DEF Of, PlainOK
<1>2. Billable(d) \subseteq branch.lines
  BY <1>1
<1>3. Billed(d) = Sum(Billable(d)) /\ Charged(d) = Charge(Billable(d))
  BY DEF Billed, Charged
<1> QED BY <1>2, <1>3, BillsFit DEF IInv

(* A till that is not settled has heard of no close.                       *)
LEMMA UnsettledHeardNone ==
  ASSUME NEW t \in Devices, ~Settled(t), NEW e \in Devices, NEW i \in Prefix(t, e)
  PROVE  log[e][i].kind # "closed"
<1>1. <<e, i>> \in Held(t)
  BY DEF Held
<1> QED BY <1>1 DEF Settled, Of, Ev

(* How much of a stream a device holds.                                    *)
Prefixed(d, e) == IF e = d THEN Len(log[d]) ELSE heard[d][e]

(* What an act may append: at most a close, at its end, of a till that     *)
(* holds none, which has seen what the till holds and, first of the act's  *)
(* events, the only payment it did not.                                    *)
Sound(t, events) ==
  /\ \E T : events \in Seq(T)
  /\ \A i \in 1 .. Len(events) :
       /\ PlainOK(events[i])
       /\ events[i].kind = "closed" =>
            /\ i = Len(events) /\ ~Settled(t)
            /\ events[i].seen = [heard[t] EXCEPT ![t] = Len(log[t]) + i - 1]
            /\ CloseOK(events[i])
            /\ i > 1 /\ events[1].kind = "payment"
            /\ \A k \in 2 .. i - 1 : events[k].kind # "payment"
            /\ events[i].tendered = events[1].amount + PayTotal(t)

(* An act appends some of its events, and changes nothing else.            *)
Appended(t, events, n) ==
  LET old == Len(log[t]) IN
  /\ branch' = branch /\ heard' = heard
  /\ n \in Nat /\ n <= Len(events) /\ old \in Nat
  /\ DOMAIN log' = Devices
  /\ \A e \in Devices : e # t => log'[e] = log[e]
  /\ \E S : log'[t] \in Seq(S)
  /\ Len(log'[t]) = old + n
  /\ \A i \in 1 .. old : log'[t][i] = log[t][i]
  /\ \A i \in 1 .. n : log'[t][old + i] = events[i]

LEMMA ActAppends ==
  ASSUME IInv, NEW t \in Devices, NEW events, NEW T, events \in Seq(T), Act(t, events)
  PROVE  \E n : Appended(t, events, n)
<1>1. events \in Seq(T)
  OBVIOUS
<1>2. PICK n \in 0 .. Len(events) : log' = [log EXCEPT ![t] = @ \o SubSeq(events, 1, n)]
  <2>1. events = SubSeq(events, 1, Len(events)) /\ Len(events) \in Nat
    BY <1>1
  <2>2. CASE log' = [log EXCEPT ![t] = @ \o events]
    <3>1. log' = [log EXCEPT ![t] = @ \o SubSeq(events, 1, Len(events))]
      BY <2>1, <2>2, Zenon
    <3>2. Len(events) \in 0 .. Len(events)
      BY <2>1
    <3> QED BY <3>1, <3>2, Zenon
  <2>3. CASE \E n \in 1 .. Len(events) - 1 :
               log' = [log EXCEPT ![t] = @ \o SubSeq(events, 1, n)]
    <3>1. PICK n \in 1 .. Len(events) - 1 :
            log' = [log EXCEPT ![t] = @ \o SubSeq(events, 1, n)]
      BY <2>3, Zenon
    <3>2. n \in 0 .. Len(events)
      BY <2>1
    <3> QED BY <3>1, <3>2, Zenon
  <2> QED BY <2>2, <2>3 DEF Act
<1> DEFINE new == SubSeq(events, 1, n)
<1>3. /\ new \in Seq(T) /\ Len(new) = n
      /\ \A i \in 1 .. n : new[i] = events[i]
  BY <1>1, <1>2
<1> HIDE DEF new
<1>4. branch' = branch /\ heard' = heard
  BY DEF Act
<1>5. PICK S : log[t] \in Seq(S)
  BY DEF IInv, Streams
<1> DEFINE old == Len(log[t])
<1>6. old \in Nat /\ DOMAIN log[t] = 1 .. old /\ n \in Nat
  BY <1>1, <1>2, <1>5
<1>7. /\ log[t] \o new \in Seq(S \cup T)
      /\ Len(log[t] \o new) = old + n
      /\ DOMAIN (log[t] \o new) = 1 .. old + n
      /\ \A i \in 1 .. old : (log[t] \o new)[i] = log[t][i]
      /\ \A i \in 1 .. n : (log[t] \o new)[old + i] = events[i]
  <2>1. log[t] \in Seq(S \cup T) /\ new \in Seq(S \cup T)
    BY <1>3, <1>5
  <2>2. /\ log[t] \o new \in Seq(S \cup T)
        /\ Len(log[t] \o new) = Len(log[t]) + Len(new)
    BY <2>1
  <2>3. \A i \in 1 .. old : (log[t] \o new)[i] = log[t][i]
    BY <2>1
  <2>4. \A i \in 1 .. Len(new) : (log[t] \o new)[old + i] = new[i]
    BY <2>1
  <2> QED BY <2>2, <2>3, <2>4, <1>3
<1>8. /\ DOMAIN log' = Devices
      /\ log'[t] = log[t] \o new
      /\ \A e \in Devices : e # t => log'[e] = log[e]
  BY <1>2 DEF new, IInv, Streams
<1>9. Len(log'[t]) = old + n /\ \E U : log'[t] \in Seq(U)
  BY <1>7, <1>8
<1>10. n <= Len(events)
  BY <1>1, <1>2
<1> QED BY <1>4, <1>6, <1>7, <1>8, <1>9, <1>10 DEF Appended

(* Such an act keeps the invariant, cut short or not.                      *)
LEMMA ActKeeps ==
  ASSUME IInv, NEW t \in Devices, NEW events, Sound(t, events), Act(t, events)
  PROVE  IInv'
<1>1. PICK T : events \in Seq(T)
  BY DEF Sound
<1>2. PICK n : Appended(t, events, n)
  BY <1>1, ActAppends
<1> DEFINE old == Len(log[t])
<1>4. branch' = branch /\ heard' = heard
  BY <1>2 DEF Appended
<1>6. old \in Nat /\ DOMAIN log[t] = 1 .. old /\ n \in Nat /\ n <= Len(events)
  BY <1>2 DEF Appended, IInv, Streams
<1>7. /\ \E S : log'[t] \in Seq(S)
      /\ Len(log'[t]) = old + n
      /\ DOMAIN log'[t] = 1 .. old + n
      /\ \A i \in 1 .. old : log'[t][i] = log[t][i]
      /\ \A i \in 1 .. n : log'[t][old + i] = events[i]
  BY <1>2 DEF Appended
<1>8. DOMAIN log' = Devices /\ \A e \in Devices : e # t => log'[e] = log[e]
  BY <1>2 DEF Appended
<1>9. \A e \in Devices : Len(log[e]) \in Nat /\ DOMAIN log[e] = 1 .. Len(log[e])
  BY DEF IInv, Streams
<1>10. \A e \in Devices : Len(log'[e]) \in Nat /\ Len(log[e]) <= Len(log'[e])
  BY <1>6, <1>7, <1>8, <1>9
<1>11. ASSUME NEW d \in Devices, NEW i, IsClose(d, i)'
       PROVE  \/ IsClose(d, i) /\ log'[d][i] = log[d][i]
              \/ /\ d = t /\ i \in old + 1 .. old + n /\ ~Settled(t)
                 /\ log'[t][i].seen = [heard[t] EXCEPT ![t] = i - 1]
                 /\ i - old = Len(events)
  <2>1. CASE d # t
    BY <1>8, <1>11, <2>1 DEF IsClose
  <2>2. CASE d = t /\ i \in 1 .. old
    BY <1>6, <1>7, <1>8, <1>11, <2>2 DEF IsClose
  <2>3. CASE d = t /\ i \in old + 1 .. old + n
    <3>1. i - old \in 1 .. n /\ old + (i - old) = i /\ n <= Len(events) /\ Len(events) \in Nat
      BY <1>1, <1>6, <2>3
    <3>2. log'[t][i] = events[i - old]
      BY <3>1, <1>7, <1>8
    <3>3. events[i - old].kind = "closed"
      BY <3>2, <1>11, <2>3 DEF IsClose
    <3>4. i - old \in 1 .. Len(events)
      BY <3>1, <1>6
    <3>5. /\ i - old = Len(events) /\ ~Settled(t)
          /\ events[i - old].seen = [heard[t] EXCEPT ![t] = old + (i - old) - 1]
      BY <3>3, <3>4 DEF Sound
    <3> QED BY <2>3, <3>1, <3>2, <3>5
  <2>4. i \in DOMAIN log'[d]
    BY <1>11 DEF IsClose
  <2> QED BY <1>6, <1>7, <1>8, <2>1, <2>2, <2>3, <2>4
<1>12. ASSUME NEW d \in Devices, NEW i, i \in 1 .. Prefixed(t, d), ~Settled(t)
       PROVE  ~IsClose(d, i)
  BY <1>12, UnsettledHeardNone DEF Prefixed, Prefix, IsClose
<1>13. HeardOK'
  <2>1. \A d, e \in Devices : heard'[d][e] <= Len(log'[e])
    <3> SUFFICES ASSUME NEW d \in Devices, NEW e \in Devices
                 PROVE  heard[d][e] <= Len(log'[e])
      BY <1>4
    <3>1. heard[d][e] \in Nat /\ heard[d][e] <= Len(log[e])
      BY DEF IInv, HeardOK
    <3> QED BY <3>1, <1>9, <1>10
  <2> QED BY <2>1, <1>4 DEF IInv, HeardOK
<1>14. SeenOK'
  <2> SUFFICES ASSUME NEW d \in Devices, NEW i, IsClose(d, i)', NEW e \in Devices
               PROVE  log'[d][i].seen[e] \in Nat /\ log'[d][i].seen[e] <= Len(log'[e])
    BY DEF SeenOK
  <2>1. CASE IsClose(d, i) /\ log'[d][i] = log[d][i]
    BY <1>9, <1>10, <2>1 DEF IInv, SeenOK
  <2>2. CASE /\ d = t /\ i \in old + 1 .. old + n
             /\ log'[t][i].seen = [heard[t] EXCEPT ![t] = i - 1]
    <3>1. CASE e = t
      BY <2>2, <3>1, <1>6, <1>7, <1>8 DEF IInv, HeardOK
    <3>2. CASE e # t
      <4>1. /\ heard[t] \in [Devices -> Nat]
            /\ heard[t][e] \in Nat /\ heard[t][e] <= Len(log[e])
        BY DEF IInv, HeardOK
      <4>2. log'[d][i].seen[e] = heard[t][e] /\ log'[e] = log[e]
        BY <2>2, <3>2, <4>1, <1>8
      <4> QED BY <4>1, <4>2
    <3> QED BY <3>1, <3>2
  <2> QED BY <1>11, <2>1, <2>2
<1>15. SawNoClose'
  <2> SUFFICES ASSUME NEW d \in Devices, NEW e \in Devices, NEW i, NEW j,
                      IsClose(d, i)', IsClose(e, j)'
               PROVE  i > log'[e][j].seen[d]
    BY DEF SawNoClose
  <2>1. CASE IsClose(e, j) /\ log'[e][j] = log[e][j]
    <3>1. CASE IsClose(d, i)
      BY <2>1, <3>1 DEF IInv, SawNoClose
    <3>2. CASE d = t /\ i \in old + 1 .. old + n
      <4>1. log[e][j].seen[t] \in Nat /\ log[e][j].seen[t] <= old
        BY <2>1 DEF IInv, SeenOK
      <4> QED BY <4>1, <2>1, <3>2, <1>6
    <3> QED BY <1>11, <3>1, <3>2
  <2>2. CASE /\ e = t /\ j \in old + 1 .. old + n /\ ~Settled(t)
             /\ log'[t][j].seen = [heard[t] EXCEPT ![t] = j - 1]
             /\ j - old = Len(events)
    <3>1. CASE d = t /\ i \in old + 1 .. old + n /\ i - old = Len(events)
      BY <3>1, <2>2, <1>6, <1>1 DEF IInv, HeardOK
    <3>2. CASE d = t /\ IsClose(d, i)
      BY <3>2, <2>2, <1>6, <1>12 DEF IsClose, Prefixed
    <3>3. CASE d # t /\ IsClose(d, i)
      <4>1. log'[e][j].seen[d] = heard[t][d] /\ heard[t][d] \in Nat
        BY <2>2, <3>3 DEF IInv, HeardOK
      <4>2. i \notin 1 .. heard[t][d]
        BY <2>2, <3>3, <1>12 DEF Prefixed
      <4>3. i \in Nat \ {0}
        BY <3>3, <1>9 DEF IsClose
      <4> QED BY <4>1, <4>2, <4>3
    <3> QED BY <1>11, <3>1, <3>2, <3>3
  <2> QED BY <1>11, <2>1, <2>2
<1>16. Streams'
  BY <1>7, <1>8 DEF IInv, Streams
<1>17. EventsOK'
  <2> SUFFICES ASSUME NEW d \in Devices, NEW i \in DOMAIN log'[d]
               PROVE  PlainOK(log[d][i])' /\ (IsClose(d, i)' => CloseOK(log[d][i])')
    BY DEF EventsOK
  <2>1. ASSUME NEW v, v = log'[d][i]
        PROVE  PlainOK(v) /\ (v.kind = "closed" => CloseOK(v))
    <3>1. CASE i \in DOMAIN log[d] /\ v = log[d][i]
      BY <3>1 DEF IInv, EventsOK, IsClose
    <3>2. CASE d = t /\ i \in old + 1 .. old + n
      <4>1. i - old \in 1 .. n /\ i - old \in 1 .. Len(events) /\ old + (i - old) = i
        BY <1>1, <1>6, <3>2
      <4>2. v = events[i - old]
        BY <2>1, <3>2, <4>1, <1>7
      <4> QED BY <4>1, <4>2 DEF Sound
    <3> QED BY <2>1, <1>6, <1>7, <1>8, <3>1, <3>2
  <2>2. PlainOK(log[d][i])'
    BY <2>1, <1>4 DEF PlainOK
  <2>3. IsClose(d, i)' => CloseOK(log[d][i])'
    BY <2>1, <1>4 DEF CloseOK, Charge, IsClose
  <2> QED BY <2>2, <2>3
<1>18. TenderOK'
  <2> SUFFICES ASSUME NEW d \in Devices, NEW i \in DOMAIN log'[d], IsClose(d, i)'
               PROVE  (log[d][i].tendered = PaidIn(log, PaymentsIn(log[d][i].seen)))'
    BY DEF TenderOK
  <2> DEFINE L == log'
             seen == log'[d][i].seen
             X == {p \in SeenBy(seen) : L[p[1]][p[2]].kind = "payment"}
             Y == {p \in SeenBy(seen) : log[p[1]][p[2]].kind = "payment"}
  <2>1. PaymentsIn(log[d][i].seen)' = X
    BY DEF PaymentsIn, Ev, SeenBy
  <2>a. PaidIn(log, PaymentsIn(log[d][i].seen))' = PaidIn(log', PaymentsIn(log[d][i].seen)')
    OBVIOUS
  <2> SUFFICES log'[d][i].tendered = PaidIn(L, X)
    BY <2>1, <2>a
  <2>2. CASE IsClose(d, i) /\ log'[d][i] = log[d][i]
    <3>1. /\ log[d][i].tendered = PaidIn(log, Y)
          /\ \A e \in Devices : seen[e] \in Nat /\ seen[e] <= Len(log[e])
      BY <2>2 DEF IInv, SeenOK, TenderOK, IsClose, PaymentsIn, Ev
    <3>2. \A p \in SeenBy(seen) : L[p[1]][p[2]] = log[p[1]][p[2]]
      <4> SUFFICES ASSUME NEW e \in Devices, NEW k \in 1 .. seen[e]
                   PROVE  L[e][k] = log[e][k]
        BY DEF SeenBy
      <4>1. k \in 1 .. Len(log[e])
        BY <3>1, <1>9
      <4> QED BY <4>1, <1>7, <1>8
    <3>3. IsFiniteSet(SeenBy(seen))
      BY <3>1, SeenFinite
    <3> HIDE DEF L, seen
    <3>4. X = Y /\ IsFiniteSet(X)
      BY <3>2, <3>3, FS_Subset
    <3> DEFINE P == [p \in X |-> L[p[1]][p[2]].amount]
    <3>5. /\ \A p \in X : P[p] = L[p[1]][p[2]].amount
          /\ \A p \in Y : P[p] = log[p[1]][p[2]].amount
      BY <3>2, <3>4
    <3> HIDE DEF P, X, Y
    <3>6. PaidIn(L, X) = SumOf(P, X) /\ PaidIn(log, Y) = SumOf(P, Y)
      BY <3>4, <3>5, PaidIs
    <3> QED BY <2>2, <3>1, <3>4, <3>6
  <2>3. CASE /\ d = t /\ i \in old + 1 .. old + n
             /\ seen = [heard[t] EXCEPT ![t] = i - 1]
             /\ i - old = Len(events)
    <3> DEFINE m == Len(events)
               a == <<t, old + 1>>
               O == Of(t, "payment")
    <3>1. m \in Nat /\ m = n /\ i = old + m /\ m \in 1 .. m /\ i \in Nat
      BY <2>3, <1>1, <1>6
    <3>2. log'[t][i] = events[m]
      BY <3>1, <1>7
    <3>3. events[m].kind = "closed"
      BY <3>2, <2>3 DEF IsClose
    <3>4. /\ m > 1 /\ events[1].kind = "payment" /\ PlainOK(events[1])
          /\ \A k \in 2 .. m - 1 : events[k].kind # "payment"
          /\ events[m].tendered = events[1].amount + PayTotal(t)
      <4>1. 1 \in 1 .. m
        BY <3>1
      <4> QED BY <3>1, <3>3, <4>1 DEF Sound
    <3>5. L[t][old + 1] = events[1] /\ old + 1 \in 1 .. i - 1
      BY <3>1, <3>4, <1>6, <1>7
    <3>6. /\ seen[t] = i - 1
          /\ \A e \in Devices : e # t => seen[e] = heard[t][e]
      BY <2>3 DEF IInv, HeardOK
    <3>7. \A e \in Devices : seen[e] \in Nat
      <4>1. i - 1 \in Nat /\ \A e \in Devices : heard[t][e] \in Nat
        BY <3>1, <3>4, <1>6 DEF IInv, HeardOK
      <4> QED BY <4>1, <3>6
    <3> HIDE DEF L, seen, m
    <3>8. ASSUME NEW e \in Devices, NEW k \in Prefix(t, e)
          PROVE  k \in 1 .. seen[e] /\ L[e][k] = log[e][k]
      <4>1. CASE e = t
        BY <4>1, <3>1, <3>6, <1>6, <1>7 DEF Prefix, L
      <4>2. CASE e # t
        BY <4>2, <3>6, <1>8 DEF Prefix, L
      <4> QED BY <4>1, <4>2
    <3>80. ASSUME NEW e \in Devices, e # t
           PROVE  Prefix(t, e) = 1 .. seen[e]
      BY <3>80, <3>6 DEF Prefix
    <3> HIDE DEF old
    <3>9. ASSUME NEW p \in O
          PROVE  p \in X /\ p # a /\ L[p[1]][p[2]].amount = log[p[1]][p[2]].amount
                 /\ log[p[1]][p[2]].amount \in Nat
      <4>0. PICK e \in Devices : \E k \in Prefix(t, e) : p = <<e, k>>
        BY DEF Of, Held
      <4>1. PICK k \in Prefix(t, e) : p = <<e, k>>
        BY <4>0
      <4>2. log[e][k].kind = "payment" /\ PlainOK(log[e][k]) /\ k \in 1 .. Len(log[e])
        BY <4>1, HeldThere DEF Of, Ev
      <4>3. p # a
        BY <4>1, <4>2, <1>6 DEF old
      <4>4. k \in 1 .. seen[e] /\ L[e][k] = log[e][k]
        BY <4>1, <3>8
      <4>5. p \in SeenBy(seen)
        BY <4>1, <4>4 DEF SeenBy
      <4>6. p[1] = e /\ p[2] = k
        BY <4>1
      <4> QED BY <4>2, <4>3, <4>4, <4>5, <4>6 DEF PlainOK
    <3>10. a \in X
      BY <3>4, <3>5, <3>6 DEF SeenBy
    <3>11. ASSUME NEW p \in X, p # a
           PROVE  p \in O
      <4>0. PICK e \in Devices : \E k \in 1 .. seen[e] : p = <<e, k>>
        BY DEF SeenBy
      <4>1. PICK k \in 1 .. seen[e] : p = <<e, k>>
        BY <4>0
      <4>2. L[e][k].kind = "payment"
        BY <4>1
      <4>3. k \in Prefix(t, e)
        <5>1. CASE e # t
          <6>1. Prefix(t, e) = 1 .. seen[e]
            BY <5>1, <3>80
          <6> QED BY <6>1
        <5>2. CASE e = t /\ k \in 1 .. old
          BY <5>2 DEF Prefix, old
        <5>3. CASE e = t /\ k \in old + 1 .. i - 1
          <6>1. k # old + 1
            BY <5>3, <4>1, <3>11
          <6>2. k - old \in 2 .. m - 1 /\ k - old \in 1 .. n /\ old + (k - old) = k
            BY <6>1, <5>3, <3>1, <1>6 DEF old
          <6>3. L[e][k] = events[k - old]
            BY <6>2, <5>3, <1>7 DEF L, old
          <6> QED BY <6>2, <6>3, <4>2, <3>4
        <5> QED BY <5>1, <5>2, <5>3, <4>1, <3>1, <3>6, <1>6 DEF old
      <4>4. p \in Held(t) /\ Ev(p) = L[e][k]
        <5>1. p \in {e} \X Prefix(t, e) /\ p[1] = e /\ p[2] = k
          BY <4>1, <4>3
        <5>2. L[e][k] = log[e][k]
          BY <4>3, <3>8
        <5> QED BY <5>1, <5>2 DEF Held, Ev
      <4> QED BY <4>2, <4>4 DEF Of
    <3> HIDE DEF a
    <3>12. X \ {a} = O /\ a \in X
      BY <3>9, <3>10, <3>11
    <3>13. IsFiniteSet(X) /\ IsFiniteSet(O)
      BY <3>7, SeenFinite, FS_Subset, PayTotalIs
    <3> DEFINE P == [p \in X |-> L[p[1]][p[2]].amount]
    <3>14. /\ \A p \in X : P[p] = L[p[1]][p[2]].amount
           /\ \A p \in O : P[p] = log[p[1]][p[2]].amount
      BY <3>9
    <3>15. P[a] = events[1].amount /\ events[1].amount \in Nat
      BY <3>4, <3>5, <3>10 DEF PlainOK, a
    <3> HIDE DEF P, X, O
    <3>16. \A p \in X : P[p] \in Nat
      BY <3>9, <3>12, <3>14, <3>15
    <3>17. PaidIn(L, X) = SumOf(P, X) /\ PaidIn(log, O) = SumOf(P, O)
      BY <3>13, <3>14, PaidIs
    <3>18. SumOf(P, X) = P[a] + SumOf(P, O)
      BY <3>12, <3>13, <3>16, SumAdds
    <3>19. PayTotal(t) = PaidIn(log, O)
      BY PayTotalIs DEF O
    <3> QED BY <2>3, <3>2, <3>4, <3>15, <3>17, <3>18, <3>19
  <2> QED BY <1>11, <2>2, <2>3
<1> QED BY <1>4, <1>13, <1>14, <1>15, <1>16, <1>17, <1>18 DEF IInv

(* What the events say does not change without them.                       *)
LEMMA SameEvents ==
  ASSUME EventsOK, TenderOK, log' = log, branch' = branch
  PROVE  EventsOK' /\ TenderOK'
<1>1. EventsOK'
  BY DEF EventsOK, PlainOK, CloseOK, Charge, IsClose
<1>2. TenderOK'
  <2>1. \A seen : PaymentsIn(seen)' = PaymentsIn(seen)
    BY DEF PaymentsIn, Ev
  <2> QED BY <2>1 DEF TenderOK, IsClose
<1> QED BY <1>1, <1>2

(* A hearing changes no stream.                                            *)
LEMMA HearKeeps ==
  ASSUME IInv, NEW d \in Devices, NEW e \in Devices, Hear(d, e)
  PROVE  IInv'
<1>1. log' = log /\ branch' = branch /\ heard' = [heard EXCEPT ![d][e] = @ + 1]
  BY DEF Hear
<1>2. HeardOK'
  <2>1. \A f \in Devices : Len(log[f]) \in Nat
    BY DEF IInv, Streams
  <2>2. /\ heard \in [Devices -> [Devices -> Nat]] /\ heard[d][e] < Len(log[e])
        /\ \A a, b \in Devices : heard[a][b] <= Len(log[b])
    BY DEF IInv, HeardOK, Hear
  <2>3. heard' \in [Devices -> [Devices -> Nat]]
    BY <1>1, <2>2
  <2>4. ASSUME NEW a \in Devices, NEW b \in Devices PROVE heard'[a][b] <= Len(log[b])
    <3>1. CASE a = d /\ b = e
      <4>1. heard'[d][e] = heard[d][e] + 1 /\ heard[d][e] \in Nat
        BY <1>1, <2>2
      <4> QED BY <2>1, <2>2, <3>1, <4>1
    <3>2. CASE ~(a = d /\ b = e)
      <4>1. heard'[a][b] = heard[a][b]
        BY <1>1, <2>2, <3>2
      <4> QED BY <2>2, <4>1
    <3> QED BY <3>1, <3>2
  <2> QED BY <1>1, <2>3, <2>4 DEF HeardOK
<1>3. Streams' /\ SeenOK' /\ SawNoClose'
  BY <1>1 DEF IInv, Streams, SeenOK, SawNoClose, IsClose
<1>4. EventsOK' /\ TenderOK'
  BY <1>1, SameEvents DEF IInv
<1> QED BY <1>1, <1>2, <1>3, <1>4 DEF IInv

-----------------------------------------------------------------------------
(* What the acts append is sound.                                          *)
LEMMA EdgeIsSound ==
  ASSUME NEW to, NEW lines
  PROVE  /\ \E T : Edge(to, lines) \in Seq(T)
         /\ \A i \in 1 .. Len(Edge(to, lines)) :
              Edge(to, lines)[i].kind # "closed" /\ PlainOK(Edge(to, lines)[i])
<1> DEFINE e == [kind |-> "line_state", to |-> to, lines |-> lines]
<1>1. e.kind # "closed" /\ PlainOK(e)
  BY DEF PlainOK
<1> HIDE DEF e
<1>2. <<e>> \in Seq({e}) /\ \A i \in 1 .. Len(<<e>>) : <<e>>[i].kind # "closed" /\ PlainOK(<<e>>[i])
  BY <1>1
<1>3. <<>> \in Seq({e}) /\ Len(<<>>) = 0
  OBVIOUS
<1>4. Edge(to, lines) = IF lines = {} THEN <<>> ELSE <<e>>
  BY DEF Edge, e
<1>5. CASE lines = {}
  BY <1>3, <1>4, <1>5
<1>6. CASE lines # {}
  <2>1. Edge(to, lines) = <<e>>
    BY <1>4, <1>6
  <2> HIDE DEF Edge
  <2> QED BY <1>2, <2>1, Zenon
<1> QED BY <1>5, <1>6

(* Events of which none is a close, one after the other.                   *)
NoCloses(events) ==
  /\ \E T : events \in Seq(T)
  /\ \A i \in 1 .. Len(events) : events[i].kind # "closed" /\ PlainOK(events[i])

LEMMA NoClosesIsSound ==
  ASSUME NEW t, NEW events, NoCloses(events)
  PROVE  Sound(t, events)
  BY DEF NoCloses, Sound

LEMMA JoinedNoCloses ==
  ASSUME NEW a, NEW b, NoCloses(a), NoCloses(b)
  PROVE  NoCloses(a \o b)
<1>1. PICK S : a \in Seq(S)
  BY DEF NoCloses
<1>2. PICK T : b \in Seq(T)
  BY DEF NoCloses
<1>3. a \in Seq(S \cup T) /\ b \in Seq(S \cup T)
  BY <1>1, <1>2
<1>4. a \o b \in Seq(S \cup T) /\ Len(a \o b) = Len(a) + Len(b)
  BY <1>3
<1>5. \A i \in 1 .. Len(a \o b) : (a \o b)[i].kind # "closed" /\ PlainOK((a \o b)[i])
  <2> TAKE i \in 1 .. Len(a \o b)
  <2>1. CASE i \in 1 .. Len(a)
    BY <1>3, <2>1 DEF NoCloses
  <2>2. CASE i \in Len(a) + 1 .. Len(a) + Len(b)
    <3>1. (a \o b)[i] = b[i - Len(a)] /\ i - Len(a) \in 1 .. Len(b)
      BY <1>3, <2>2
    <3> QED BY <3>1 DEF NoCloses
  <2> QED BY <1>3, <1>4, <2>1, <2>2
<1> QED BY <1>4, <1>5 DEF NoCloses

LEMMA OneNoClose ==
  ASSUME NEW e, e.kind # "closed", PlainOK(e)
  PROVE  NoCloses(<<e>>)
<1>1. <<e>> \in Seq({e}) /\ Len(<<e>>) = 1 /\ <<e>>[1] = e
  OBVIOUS
<1>2. \A i \in 1 .. Len(<<e>>) : <<e>>[i].kind # "closed" /\ PlainOK(<<e>>[i])
  BY <1>1
<1> QED BY <1>1, <1>2, Zenon DEF NoCloses

LEMMA EdgeNoClose ==
  ASSUME NEW to, NEW lines
  PROVE  NoCloses(Edge(to, lines))
  BY EdgeIsSound DEF NoCloses

-----------------------------------------------------------------------------
(* Every act of a till or a screen.                                        *)
LEMMA PaymentKeeps ==
  ASSUME IInv, NEW t \in Devices, NEW a \in branch.parts \cup {Charged(t) - PayTotal(t)},
         TakePayment(t, a)
  PROVE  IInv'
<1> DEFINE paid == PayTotal(t) + a
           pay == [kind |-> "payment", amount |-> a]
           served == IF /\ branch.serveOwner = "settlement" /\ branch.handedOver
                        /\ paid >= Charged(t)
                       THEN Edge("served", Movable(t, "served")) ELSE <<>>
           tender == <<pay>> \o served
           close == Close(t, paid, Len(tender))
<1>1. Act(t, tender \o close)
  BY DEF TakePayment
<1>a. a \in Nat /\ PayTotal(t) \in Nat
  <2>1. Charged(t) \in Nat /\ PayTotal(t) \in Nat /\ branch.parts \subseteq Nat
    BY BillableIn, PayTotalIs, TillAssumption DEF IInv
  <2>2. a > 0
    BY DEF TakePayment
  <2> QED BY <2>1, <2>2
<1>2. NoCloses(tender)
  <2>1. pay.kind # "closed" /\ PlainOK(pay)
    BY <1>a DEF PlainOK
  <2>2. NoCloses(<<>>)
    BY DEF NoCloses
  <2>3. NoCloses(served)
    BY <2>2, EdgeNoClose
  <2> QED BY <2>1, <2>3, OneNoClose, JoinedNoCloses
<1>b. /\ Len(tender) \in Nat /\ Len(tender) >= 1 /\ tender[1] = pay
      /\ \A k \in 2 .. Len(tender) : tender[k].kind # "payment"
  <2> DEFINE edge == [kind |-> "line_state", to |-> "served", lines |-> Movable(t, "served")]
  <2>1. edge.kind # "payment"
    OBVIOUS
  <2> HIDE DEF edge
  <2>2. served = <<>> \/ served = <<edge>>
    BY DEF Edge, edge
  <2> HIDE DEF served, pay
  <2>3. CASE served = <<>>
    BY <2>3
  <2>4. CASE served = <<edge>>
    <3>1. tender = <<pay>> \o <<edge>>
      BY <2>4
    <3>2. <<pay>> \in Seq({pay, edge}) /\ <<edge>> \in Seq({pay, edge})
      OBVIOUS
    <3> HIDE DEF tender
    <3>3. Len(tender) = 2 /\ tender[1] = pay /\ tender[2] = edge
      BY <3>1, <3>2
    <3> QED BY <3>3, <2>1
  <2> QED BY <2>2, <2>3, <2>4
<1>c. pay.kind = "payment" /\ pay.amount = a /\ paid = a + PayTotal(t)
  BY <1>a
<1> HIDE DEF tender, served, pay, paid
<1>3. Sound(t, tender \o close)
  <2>1. PICK T : tender \in Seq(T)
    BY <1>2 DEF NoCloses
  <2>2. CASE ~MayClose(t, paid)
    <3>1. tender \o close = tender
      BY <2>1, <2>2 DEF Close
    <3> QED BY <3>1, <1>2, NoClosesIsSound
  <2>3. CASE MayClose(t, paid)
    <3> DEFINE c == [kind |-> "closed", charged |-> Attested(t).charged,
                     effective |-> Attested(t).effective, tendered |-> paid,
                     lines |-> Billable(t),
                     seen |-> [heard[t] EXCEPT ![t] = Len(log[t]) + Len(tender)]]
    <3>1. close = <<c>>
      BY <2>3 DEF Close
    <3>2. /\ c.seen = [heard[t] EXCEPT ![t] = Len(log[t]) + Len(tender)]
          /\ c.kind = "closed" /\ c.lines = Billable(t) /\ c.tendered = paid
          /\ c.effective = Billed(t)
      BY DEF Attested
    <3>7. CloseOK(c) /\ PlainOK(c)
      <4>1. paid >= Charge(Billable(t))
        BY <2>3, BillableIn DEF MayClose
      <4> HIDE DEF c
      <4> QED BY <3>2, <4>1, BillableIn DEF CloseOK, PlainOK
    <3> HIDE DEF c, close
    <3>3. tender \in Seq(T \cup {c}) /\ <<c>> \in Seq(T \cup {c})
      BY <2>1
    <3>4. /\ tender \o <<c>> \in Seq(T \cup {c})
          /\ Len(tender \o <<c>>) = Len(tender) + 1 /\ Len(tender) \in Nat
          /\ \A i \in 1 .. Len(tender) : (tender \o <<c>>)[i] = tender[i]
          /\ (tender \o <<c>>)[Len(tender) + 1] = c
      BY <3>3
    <3>5. ~Settled(t)
      BY <2>3 DEF MayClose
    <3>6. ASSUME NEW i \in 1 .. Len(tender \o close), (tender \o close)[i].kind = "closed"
          PROVE  /\ i = Len(tender \o close)
                 /\ (tender \o close)[i].seen = [heard[t] EXCEPT ![t] = Len(log[t]) + i - 1]
                 /\ CloseOK((tender \o close)[i])
                 /\ i > 1 /\ (tender \o close)[1].kind = "payment"
                 /\ \A k \in 2 .. i - 1 : (tender \o close)[k].kind # "payment"
                 /\ (tender \o close)[i].tendered = (tender \o close)[1].amount + PayTotal(t)
      <4>1. i \notin 1 .. Len(tender)
        BY <3>1, <3>4, <3>6, <1>2 DEF NoCloses
      <4>2. i = Len(tender) + 1
        BY <4>1, <3>1, <3>4, <3>6
      <4>3. Len(log[t]) \in Nat
        BY DEF IInv, Streams
      <4>4. Len(log[t]) + i - 1 = Len(log[t]) + Len(tender)
        BY <4>2, <4>3, <3>4
      <4>5. (tender \o close)[i] = c /\ i = Len(tender \o close)
        BY <4>2, <3>1, <3>4
      <4>6. (tender \o close)[i].seen = [heard[t] EXCEPT ![t] = Len(log[t]) + i - 1]
        BY <4>4, <4>5, <3>2, Zenon
      <4>7. i > 1 /\ (tender \o close)[1] = pay
        BY <4>2, <3>1, <3>4, <1>b
      <4>8. \A k \in 2 .. i - 1 : (tender \o close)[k].kind # "payment"
        BY <4>2, <3>1, <3>4, <1>b
      <4> QED BY <4>5, <4>6, <4>7, <4>8, <3>2, <3>7, <1>c
    <3>8. ASSUME NEW i \in 1 .. Len(tender \o close) PROVE PlainOK((tender \o close)[i])
      <4>1. CASE i \in 1 .. Len(tender)
        BY <4>1, <3>1, <3>4, <1>2 DEF NoCloses
      <4>2. CASE i = Len(tender) + 1
        BY <4>2, <3>1, <3>4, <3>7
      <4> QED BY <4>1, <4>2, <3>1, <3>4
    <3> QED BY <3>1, <3>4, <3>5, <3>6, <3>8 DEF Sound
  <2> QED BY <2>2, <2>3
<1> QED BY <1>1, <1>3, ActKeeps

LEMMA QuietActKeeps ==
  ASSUME IInv, NEW t \in Devices, NEW events, NoCloses(events), Act(t, events)
  PROVE  IInv'
  BY NoClosesIsSound, ActKeeps

LEMMA TillKeeps ==
  ASSUME IInv, NEW t \in Devices, NEW l,
         \/ CreateOrder(t) \/ Confirm(t) \/ KotPrinted(t)
         \/ l \in branch.lines /\ AddLine(t, l)
         \/ RemoveLine(t, l) \/ Void(t, l)
  PROVE  IInv'
<1>1. CASE CreateOrder(t)
  <2>1. NoCloses(<<[kind |-> "created"]>>)
    BY OneNoClose DEF PlainOK
  <2> QED BY <1>1, <2>1, QuietActKeeps DEF CreateOrder
<1>2. CASE Confirm(t)
  <2>1. NoCloses(<<[kind |-> "confirmed"]>>)
    BY OneNoClose DEF PlainOK
  <2>2. NoCloses(<<>>)
    BY DEF NoCloses
  <2>3. NoCloses(<<[kind |-> "payment", amount |-> Charged(t)]>>)
    BY OneNoClose, BillableIn DEF PlainOK
  <2>4. NoCloses(Receivable(t))
    BY <2>2, <2>3 DEF Receivable
  <2>5. NoCloses(<<[kind |-> "confirmed"]>>
                   \o Edge("confirmed", Movable(t, "confirmed")) \o Receivable(t))
    BY <2>1, <2>4, EdgeNoClose, JoinedNoCloses
  <2> QED BY <1>2, <2>5, QuietActKeeps DEF Confirm
<1>3. CASE KotPrinted(t)
  BY <1>3, EdgeNoClose, QuietActKeeps DEF KotPrinted
<1>4. CASE l \in branch.lines /\ AddLine(t, l)
  <2>1. NoCloses(<<[kind |-> "line_added", line |-> l]>>)
    BY <1>4, OneNoClose DEF PlainOK
  <2> QED BY <1>4, <2>1, QuietActKeeps DEF AddLine
<1>5. CASE RemoveLine(t, l)
  <2>1. NoCloses(<<[kind |-> "line_removed", line |-> l]>>)
    BY OneNoClose DEF PlainOK
  <2> QED BY <1>5, <2>1, QuietActKeeps DEF RemoveLine
<1>6. CASE Void(t, l)
  <2>1. NoCloses(<<[kind |-> "void", line |-> l, amount |-> Price[l]]>>)
    BY OneNoClose DEF PlainOK
  <2>2. NoCloses(<<[kind |-> "void", line |-> l, amount |-> Price[l]]>> \o Edge("voided", {l}))
    BY <2>1, EdgeNoClose, JoinedNoCloses
  <2> QED BY <1>6, <2>2, QuietActKeeps DEF Void
<1> QED BY <1>1, <1>2, <1>3, <1>4, <1>5, <1>6

LEMMA ScreenKeeps ==
  ASSUME IInv, NEW p \in Devices, NEW chosen, ReadyMark(p, chosen) \/ HandOver(p)
  PROVE  IInv'
<1>1. CASE ReadyMark(p, chosen)
  <2>1. \A a, b, c, x, y, z :
          NoCloses(Edge(a, x) \o Edge(b, y) \o Edge(c, z))
    BY EdgeNoClose, JoinedNoCloses
  <2> QED BY <1>1, <2>1, QuietActKeeps DEF ReadyMark
<1>2. CASE HandOver(p)
  BY <1>2, EdgeNoClose, QuietActKeeps DEF HandOver
<1> QED BY <1>1, <1>2

-----------------------------------------------------------------------------
LEMMA NextKeeps ==
  ASSUME IInv, [Next]_vars
  PROVE  IInv'
<1>1. branch.tills \subseteq Devices /\ branch.screens \subseteq Devices
  BY TillAssumption DEF IInv
<1>2. ASSUME NEW t \in branch.tills, CreateOrder(t) \/ Confirm(t) \/ KotPrinted(t)
      PROVE  IInv'
  BY <1>1, <1>2, TillKeeps
<1>3. ASSUME NEW t \in branch.tills, NEW l \in branch.lines, AddLine(t, l) \/ RemoveLine(t, l) \/ Void(t, l)
      PROVE  IInv'
  BY <1>1, <1>3, TillKeeps
<1>4. ASSUME NEW t \in branch.tills, NEW a \in branch.parts \cup {Charged(t) - PayTotal(t)},
             TakePayment(t, a)
      PROVE  IInv'
  BY <1>1, <1>4, PaymentKeeps
<1>5. ASSUME NEW p \in branch.screens, NEW S, ReadyMark(p, S) \/ HandOver(p)
      PROVE  IInv'
  BY <1>1, <1>5, ScreenKeeps
<1>6. ASSUME NEW d \in branch.tills \cup branch.screens, NEW e \in Devices, Hear(d, e)
      PROVE  IInv'
  BY <1>1, <1>6, HearKeeps
<1>7. CASE UNCHANGED vars
  <2>1. branch' = branch /\ log' = log /\ heard' = heard
    BY <1>7 DEF vars
  <2>2. Streams' /\ HeardOK' /\ SeenOK' /\ SawNoClose'
    BY <2>1 DEF IInv, Streams, HeardOK, SeenOK, SawNoClose, IsClose
  <2> QED BY <2>1, <2>2, SameEvents DEF IInv
<1> QED BY <1>2, <1>3, <1>4, <1>5, <1>6, <1>7 DEF Next

LEMMA InitIInv ==
  ASSUME Init
  PROVE  IInv
<1>1. \A d \in Devices : log[d] = <<>>
  BY DEF Init
<1>2. Streams
  BY DEF Init, Streams
<1>3. HeardOK
  BY <1>1 DEF Init, HeardOK
<1>4. SeenOK /\ SawNoClose
  BY <1>1 DEF SeenOK, SawNoClose, IsClose
<1>5. EventsOK /\ TenderOK
  BY <1>1 DEF EventsOK, TenderOK
<1> QED BY <1>2, <1>3, <1>4, <1>5 DEF IInv, Init

(* The invariant of the order's streams holds.                             *)
THEOREM Inductive == Spec => []IInv
<1>1. Init => IInv
  BY InitIInv
<1>2. IInv /\ [Next]_vars => IInv'
  BY NextKeeps
<1> QED BY <1>1, <1>2, PTL DEF Spec

(* Two closes of one order are of two tills that had not heard of each     *)
(* other's: nobody closes what it knows to be closed (settlement-closer.ts *)
(* row.settled === 1), however acts and messages interleave.               *)
THEOREM ClosesStayConcurrent == Spec => []ClosesAreConcurrent
<1>1. IInv => ClosesAreConcurrent
  <2> SUFFICES ASSUME IInv, NEW p \in Closes, NEW q \in Closes
               PROVE  p[2] > Ev(q).seen[p[1]]
    BY DEF ClosesAreConcurrent
  <2>1. PICK d \in Devices : p \in {d} \X DOMAIN log[d]
    BY DEF Closes
  <2>2. PICK e \in Devices : q \in {e} \X DOMAIN log[e]
    BY DEF Closes
  <2>3. IsClose(p[1], p[2]) /\ IsClose(q[1], q[2]) /\ p[1] \in Devices /\ q[1] \in Devices
    BY <2>1, <2>2 DEF Closes, IsClose, Ev
  <2> QED BY <2>3 DEF IInv, SawNoClose, Ev
<1> QED BY <1>1, Inductive, PTL

-----------------------------------------------------------------------------
(* A device that has heard everything holds the payments of every close it *)
(* holds.                                                                  *)
LEMMA CloseIsPaid ==
  ASSUME IInv, NEW d \in Devices, \A e \in Devices \ {d} : heard[d][e] = Len(log[e]),
         NEW p \in Of(d, "closed")
  PROVE  CloseOK(Ev(p)) /\ PayTotal(d) >= Charge(Ev(p).lines)
<1> DEFINE seen == Ev(p).seen
           X == PaymentsIn(seen)
           O == Of(d, "payment")
<1>1. /\ p \in Held(d) /\ p[1] \in Devices /\ p[2] \in DOMAIN log[p[1]]
      /\ Ev(p) = log[p[1]][p[2]] /\ IsClose(p[1], p[2])
  BY HeldThere DEF Of, Ev, IsClose
<1>2. /\ CloseOK(Ev(p)) /\ Ev(p).tendered = PaidIn(log, X)
      /\ \A e \in Devices : seen[e] \in Nat /\ seen[e] <= Len(log[e])
  BY <1>1 DEF IInv, EventsOK, TenderOK, SeenOK
<1> HIDE DEF seen
<1>3. ASSUME NEW q \in X
      PROVE  q \in O
  <2>1. PICK e \in Devices : \E k \in 1 .. seen[e] : q = <<e, k>>
    BY DEF PaymentsIn, SeenBy
  <2>2. PICK k \in 1 .. seen[e] : q = <<e, k>>
    BY <2>1
  <2>3. Prefix(d, e) = 1 .. Len(log[e]) /\ Len(log[e]) \in Nat
    BY DEF Prefix, IInv, Streams
  <2>4. k \in Prefix(d, e)
    BY <1>2, <2>3
  <2>5. q \in Held(d)
    BY <2>2, <2>4 DEF Held
  <2> QED BY <2>5 DEF PaymentsIn, Of
<1> DEFINE P == [q \in O |-> log[q[1]][q[2]].amount]
<1>4. /\ IsFiniteSet(O) /\ PayTotal(d) = PaidIn(log, O)
  BY PayTotalIs
<1>5. \A q \in O : P[q] = log[q[1]][q[2]].amount /\ P[q] \in Nat
  BY HeldThere DEF Of, Ev, PlainOK
<1> HIDE DEF P, X, O
<1>6. X \in SUBSET O /\ IsFiniteSet(X)
  BY <1>3, <1>4, FS_Subset
<1>7. PaidIn(log, O) = SumOf(P, O) /\ PaidIn(log, X) = SumOf(P, X)
  BY <1>4, <1>5, <1>6, PaidIs
<1>8. SumOf(P, X) <= SumOf(P, O) /\ SumOf(P, X) \in Nat /\ SumOf(P, O) \in Nat
  BY <1>4, <1>5, <1>6, SumGrows, SumIsNat
<1>9. Ev(p).tendered >= Charge(Ev(p).lines) /\ Charge(Ev(p).lines) \in Nat
  BY <1>2, BillsFit DEF CloseOK, IInv
<1> QED BY <1>2, <1>4, <1>7, <1>8, <1>9

(* For any number of tills and any tax, rounding and lines, a device that  *)
(* has heard everything and finds the order settled without an exception   *)
(* has a bill that comes, before tax, to no more than one that was closed  *)
(* on and paid; if some close had every line of the bill there is no       *)
(* exception, and what is charged with tax is paid (merge.ts:1535).        *)
THEOREM SettledStaysCovered == Spec => []SettledIsCovered
<1>1. IInv => SettledIsCovered
  <2> SUFFICES ASSUME IInv, NEW d \in branch.tills \cup branch.screens,
                      \A e \in Devices \ {d} : heard[d][e] = Len(log[e]), Settled(d)
               PROVE  /\ UncoveredAddition(d) \/ \E p \in Of(d, "closed") :
                           Billed(d) <= Sum(Ev(p).lines) /\ PayTotal(d) >= Charge(Ev(p).lines)
                      /\ \A p \in Of(d, "closed") : Billable(d) \subseteq Ev(p).lines =>
                           ~UncoveredAddition(d) /\ PayTotal(d) >= Charged(d)
    BY DEF SettledIsCovered
  <2>1. d \in Devices /\ branch \in Branches
    BY TillAssumption DEF IInv
  <2> DEFINE E == {Ev(p).effective : p \in Of(d, "closed")}
  <2>2. ASSUME NEW p \in Of(d, "closed")
        PROVE  /\ Ev(p).lines \in SUBSET branch.lines /\ Ev(p).effective = Sum(Ev(p).lines)
               /\ PayTotal(d) >= Charge(Ev(p).lines)
               /\ Ev(p).effective \in Nat /\ Ev(p).effective <= Sum(branch.lines)
               /\ Sum(branch.lines) \in Nat /\ Charge(Ev(p).lines) \in Nat
    <3>1. CloseOK(Ev(p)) /\ PayTotal(d) >= Charge(Ev(p).lines)
      BY <2>1, CloseIsPaid
    <3>2. Ev(p).lines \in SUBSET branch.lines /\ Ev(p).effective = Sum(Ev(p).lines)
      BY <3>1 DEF CloseOK
    <3> QED BY <2>1, <3>1, <3>2, BillsFit
  <2>3. Of(d, "closed") # {}
    BY DEF Settled
  <2>4. E \in SUBSET Nat /\ E # {} /\ Sum(branch.lines) \in Nat /\ \A n \in E : n <= Sum(branch.lines)
    BY <2>2, <2>3
  <2>5. \A n \in E : \E p \in Of(d, "closed") : n = Ev(p).effective
    OBVIOUS
  <2>6. \A p \in Of(d, "closed") : Ev(p).effective \in E
    OBVIOUS
  <2>7. UncoveredAddition(d) <=> Billed(d) > Max(E)
    BY DEF UncoveredAddition
  <2> HIDE DEF E
  <2>8. Max(E) \in E /\ Max(E) \in Nat /\ \A n \in E : n <= Max(E)
    BY <2>4, GreatestNatural
  <2>9. /\ Billable(d) \subseteq branch.lines
        /\ Billed(d) = Sum(Billable(d)) /\ Charged(d) = Charge(Billable(d))
        /\ Charged(d) \in Nat /\ Billed(d) \in Nat /\ PayTotal(d) \in Nat
    BY <2>1, BillableIn, PayTotalIs
  <2>10. UncoveredAddition(d) \/ \E p \in Of(d, "closed") :
           Billed(d) <= Sum(Ev(p).lines) /\ PayTotal(d) >= Charge(Ev(p).lines)
    <3>1. PICK p \in Of(d, "closed") : Max(E) = Ev(p).effective
      BY <2>5, <2>8
    <3>2. ~UncoveredAddition(d) => Billed(d) <= Ev(p).effective
      BY <3>1, <2>7, <2>8, <2>9
    <3> QED BY <3>2, <2>2
  <2>11. ASSUME NEW p \in Of(d, "closed"), Billable(d) \subseteq Ev(p).lines
         PROVE  ~UncoveredAddition(d) /\ PayTotal(d) >= Charged(d)
    <3>1. Billed(d) <= Ev(p).effective /\ Charged(d) <= Charge(Ev(p).lines)
      BY <2>1, <2>2, <2>9, <2>11, BillsFit
    <3>2. Ev(p).effective <= Max(E)
      BY <2>6, <2>8
    <3> QED BY <3>1, <3>2, <2>2, <2>7, <2>8, <2>9
  <2> QED BY <2>10, <2>11
<1> QED BY <1>1, Inductive, PTL

=============================================================================
