----------------------------- MODULE MeshProofs -----------------------------
(***************************************************************************)
(* However devices see each other, elect, relay and restart: what a        *)
(* checkpoint covers is in the cloud, what a follower will not push again  *)
(* its hub holds, and only a hub relays.                                   *)
(***************************************************************************)
EXTENDS Mesh, FiniteSetTheorems, WellFoundedInduction, TLAPS

-----------------------------------------------------------------------------
(* Least and greatest elements.                                            *)

(* Every nonempty set of naturals has a least element.                     *)
LEMMA LeastNatural ==
  ASSUME NEW S \in SUBSET Nat, S # {}
  PROVE  \E m \in S : \A n \in S : m <= n
<1> DEFINE Below == OpToRel(<, Nat)
<1>1. IsWellFoundedOn(Below, Nat)
  BY NatLessThanWellFounded, Zenon
<1>2. \A m, n \in Nat : n < m => <<n, m>> \in Below
  BY Zenon DEF OpToRel
<1> HIDE DEF Below
<1>3. PICK m \in S : \A n \in S : ~ (<<n, m>> \in Below)
  BY <1>1, WFMin, Zenon
<1>4. ASSUME NEW n \in S PROVE ~(n < m)
  BY <1>2, <1>3, Zenon
<1>5. \A n \in S : m <= n
  BY <1>4, SMT
<1> QED BY <1>5, Zenon

(* And a greatest one, if there is a bound.                                *)
LEMMA GreatestNatural ==
  ASSUME NEW S \in SUBSET Nat, S # {}, NEW b \in Nat, \A n \in S : n <= b
  PROVE  Max(S) \in S /\ \A n \in S : n <= Max(S)
<1> DEFINE D == {b - n : n \in S}
<1>1. D \in SUBSET Nat /\ D # {} /\ \A n \in S : b - n \in D
  <2>1. \A n \in S : b - n \in Nat
    OBVIOUS
  <2> QED BY <2>1
<1>2. \A d \in D : \E n \in S : d = b - n
  OBVIOUS
<1> HIDE DEF D
<1>3. PICK d \in D : \A c \in D : d <= c
  BY <1>1, LeastNatural
<1>4. PICK m \in S : d = b - m
  BY <1>2
<1>5. \A n \in S : m >= n
  BY <1>1, <1>3, <1>4
<1>6. Max(S) \in S /\ \A n \in S : Max(S) >= n
  BY <1>5, Zenon DEF Max
<1> QED BY <1>6

-----------------------------------------------------------------------------
(* What has been made: an event is in the ledger of its origin, which      *)
(* numbers its own without a hole.                                         *)
Made(h) == {e \in Event : e \in h[e.origin]}

Numbered(h) == \A o \in Devices : \E n \in Nat : Slots(h[o], o) = 0..(n - 1)

Ledger(h) ==
  /\ h \in [Devices -> SUBSET Event]
  /\ \A d \in Devices : h[d] \subseteq Made(h)
  /\ Numbered(h)

(* The frames that may be on their way from a to b while the ledgers are h *)
(* and the cloud's marks s: an ack from the hub's ledger speaks of slots   *)
(* it holds, one from the cloud of slots the cloud has.                    *)
Frame == [kind : {"hello", "ping", "pong"}] \cup [kind : {"hello_ack"}, resume : Nat]
         \cup [kind : {"lan_ack", "cloud_ack"}, mark : Nat]
         \cup [kind : {"push", "batch"}, events : SUBSET Event]

Proper(a, b, h, s) ==
  {f \in Frame :
     /\ f.kind = "hello_ack" => 0..(f.resume - 1) \subseteq Slots(h[a], b)
     /\ f.kind = "lan_ack" => 0..f.mark \subseteq Slots(h[a], b)
     /\ f.kind = "cloud_ack" => f.mark <= s[b]
     /\ f.kind \in {"push", "batch"} => f.events \subseteq Made(h)}

WiresOK(w, h, s) ==
  /\ w \in [Devices -> [Devices -> Seq(Frame)]]
  /\ \A a, b \in Devices : w[a][b] \in Seq(Proper(a, b, h, s))

Pushes(h) == {r \in [origin : Devices, slots : SUBSET Nat] :
                r.slots \subseteq Slots(h[r.origin], r.origin)}
Acks(s) == {r \in [origin : Devices, mark : Mark] : r.mark <= s[r.origin]}

(* A node's memory, between the calls of a handler too.                    *)
Memory ==
  [state : {"solo", "hub", "follower", "candidate"}, visible : SUBSET Devices,
   suspects : SUBSET Devices, hub : Devices \cup {None}, conn : BOOLEAN, resume : Nat,
   lanAck : Mark, fan : Nat, followers : SUBSET Devices, wan : BOOLEAN, latch : BOOLEAN,
   relayed : [Devices -> Mark]]

NodeOK(d, m, h, s) ==
  /\ m \in Memory
  /\ m.hub # None => m.state = "follower"
  /\ m.latch => Serving(m)
  /\ m.conn => /\ m.hub \in Devices
               /\ 0..(m.resume - 1) \subseteq Slots(h[m.hub], d)
               /\ 0..m.lanAck \subseteq Slots(h[m.hub], d)
  /\ \A o \in Devices : m.relayed[o] <= s[o]

Decided(m) == m.state # "candidate"

(* The inductive invariant.                                                *)
Nodes ==
  /\ node \in [Devices -> Memory]
  /\ \A d \in Devices : NodeOK(d, node[d], held, settled) /\ Decided(node[d])

Cloudy ==
  /\ up \in [Devices -> Seq(Pushes(held))]
  /\ down \in [Devices -> Seq(Acks(settled))]
  /\ settled \in [Devices -> Mark]
  /\ ckpt \in [Devices -> Mark]
  /\ CheckpointInCloud

Connected ==
  /\ links \subseteq SUBSET Devices
  /\ \A a, b \in Devices : wire[a][b] # <<>> => Linked(a, b)
  /\ \A d \in Devices : up[d] # <<>> \/ down[d] # <<>> => node[d].wan

SceneOK == scene \in [on : SUBSET Devices, first : [Devices -> Nat],
                      last : [Devices -> Nat], failures : Nat]

IInv ==
  Ledger(held) /\ WiresOK(wire, held, settled) /\ Nodes /\ Cloudy /\ Connected /\ SceneOK

-----------------------------------------------------------------------------
(* The operators of the ledger.                                            *)

LEMMA SlotHeld ==
  ASSUME NEW evs \in SUBSET Event, NEW o \in Devices, NEW s \in Nat
  PROVE  s \in Slots(evs, o) <=> [origin |-> o, slot |-> s] \in evs
<1>1. ASSUME s \in Slots(evs, o) PROVE [origin |-> o, slot |-> s] \in evs
  <2>1. PICK e \in evs : e.origin = o /\ e.slot = s
    BY <1>1 DEF Slots
  <2>2. e = [origin |-> o, slot |-> s]
    BY <2>1 DEF Event
  <2> QED BY <2>2
<1>2. ASSUME [origin |-> o, slot |-> s] \in evs PROVE s \in Slots(evs, o)
  <2> DEFINE e == [origin |-> o, slot |-> s]
  <2>1. e \in {x \in evs : x.origin = o} /\ e.slot = s
    BY <1>2
  <2> QED BY <2>1 DEF Slots
<1> QED BY <1>1, <1>2

LEMMA SlotsAreNat ==
  ASSUME NEW evs \in SUBSET Event, NEW o PROVE Slots(evs, o) \in SUBSET Nat
BY DEF Slots, Event

LEMMA SlotsGrow ==
  ASSUME NEW evs, NEW more, evs \subseteq more, NEW o
  PROVE  Slots(evs, o) \subseteq Slots(more, o)
BY Zenon DEF Slots

(* The greatest of a bounded set of marks.                                 *)
LEMMA GreatestMark ==
  ASSUME NEW S \in SUBSET Mark, S # {}, NEW b \in Nat, \A n \in S : n <= b
  PROVE  Max(S) \in S /\ \A n \in S : n <= Max(S)
<1> DEFINE T == {n + 1 : n \in S}
<1>1. T \in SUBSET Nat /\ T # {} /\ \A n \in T : n <= b + 1
  <2>1. ASSUME NEW n \in S PROVE n + 1 \in Nat /\ n + 1 <= b + 1
    <3>1. n \in Mark
      OBVIOUS
    <3> QED BY <3>1 DEF Mark
  <2> QED BY <2>1
<1>2. \A n \in S : n + 1 \in T
  OBVIOUS
<1>3. \A t \in T : \E n \in S : t = n + 1
  OBVIOUS
<1> HIDE DEF T
<1>4. Max(T) \in T /\ \A n \in T : n <= Max(T)
  <2>1. b + 1 \in Nat
    OBVIOUS
  <2> QED BY <1>1, <2>1, GreatestNatural
<1>5. PICK m \in S : Max(T) = m + 1
  BY <1>3, <1>4
<1>6. \A n \in S : m >= n
  BY <1>1, <1>2, <1>4, <1>5 DEF Mark
<1>7. Max(S) \in S /\ \A n \in S : Max(S) >= n
  BY <1>6, Zenon DEF Max
<1> QED BY <1>7 DEF Mark

LEMMA GreaterOfTwo ==
  ASSUME NEW a \in Int, NEW b \in Int
  PROVE  /\ Max({a, b}) \in {a, b} /\ a <= Max({a, b}) /\ b <= Max({a, b})
<1>1. \E m \in {a, b} : \A n \in {a, b} : m >= n
  <2>1. CASE a <= b
    BY <2>1
  <2>2. CASE b <= a
    BY <2>2
  <2> QED BY <2>1, <2>2
<1>2. Max({a, b}) \in {a, b} /\ \A n \in {a, b} : Max({a, b}) >= n
  BY <1>1, Zenon DEF Max
<1> QED BY <1>2

(* contiguousHigh: what lies up to it is held.                             *)
LEMMA HighIsHeld ==
  ASSUME NEW h, Ledger(h), NEW d \in Devices, NEW o \in Devices
  PROVE  /\ ContiguousHigh(h[d], o) \in Mark
         /\ 0..ContiguousHigh(h[d], o) \subseteq Slots(h[d], o)
<1> DEFINE S == {-1} \cup {s \in Slots(h[d], o) : 0..s \subseteq Slots(h[d], o)}
<1>1. h[d] \in SUBSET Event /\ h[o] \in SUBSET Event
  BY DEF Ledger
<1>2. PICK n \in Nat : Slots(h[o], o) = 0..(n - 1)
  BY DEF Ledger, Numbered
<1>3. Slots(h[d], o) \subseteq Slots(h[o], o)
  BY DEF Ledger, Made, Slots
<1>4. S \in SUBSET Mark /\ S # {} /\ \A m \in S : m <= n
  BY <1>1, <1>2, <1>3, SlotsAreNat DEF Mark
<1>5. Max(S) \in S
  BY <1>4, GreatestMark
<1>6. ContiguousHigh(h[d], o) = Max(S)
  BY DEF ContiguousHigh
<1> HIDE DEF S
<1>7. Max(S) \in Mark
  BY <1>4, <1>5
<1>8. Max(S) = -1 \/ 0..Max(S) \subseteq Slots(h[d], o)
  BY <1>5 DEF S
<1>9. 0..(-1) = {}
  OBVIOUS
<1> QED BY <1>6, <1>7, <1>8, <1>9

(* What goes into one push is part of what waits.                          *)
LEMMA BatchIsPart == ASSUME NEW S PROVE Batched(S) \in SUBSET S
BY DEF Batched

(* An origin's next slot.                                                  *)
LEMMA OwnIsNext ==
  ASSUME Ledger(held), NEW d \in Devices
  PROVE  Own(d) \in Nat /\ Slots(held[d], d) = 0..(Own(d) - 1)
<1>1. PICK n \in Nat : Slots(held[d], d) = 0..(n - 1)
  BY DEF Ledger, Numbered
<1>2. Cardinality(0..(n - 1)) = n
  BY FS_Interval
<1> QED BY <1>1, <1>2 DEF Own

(* Only finitely much has been made.                                       *)
LEMMA MadeIsFinite ==
  ASSUME NEW h, Ledger(h) PROVE IsFiniteSet(Made(h))
<1> DEFINE part == [o \in Devices |-> {o} \X Slots(h[o], o)]
           U == {part[o] : o \in Devices}
           f == [e \in Made(h) |-> <<e.origin, e.slot>>]
<1>1. IsFiniteSet(U)
  <2>1. part \in Surjection(Devices, U)
    BY DEF Surjection
  <2> QED BY <2>1, MeshAssumption, FS_Surjection
<1>2. ASSUME NEW o \in Devices PROVE IsFiniteSet(part[o])
  <2>1. PICK n \in Nat : Slots(h[o], o) = 0..(n - 1)
    BY DEF Ledger, Numbered
  <2>2. IsFiniteSet({o}) /\ IsFiniteSet(0..(n - 1))
    <3>1. 0 \in Int /\ n - 1 \in Int
      OBVIOUS
    <3> QED BY <3>1, FS_Singleton, FS_Interval, Zenon
  <2> QED BY <2>1, <2>2, FS_Product
<1>3. IsFiniteSet(UNION U)
  BY <1>1, <1>2, FS_UNION
<1>4. f \in Injection(Made(h), UNION U)
  <2>1. ASSUME NEW e \in Made(h) PROVE f[e] \in UNION U
    <3>1. e \in Event /\ e.origin \in Devices /\ e \in h[e.origin]
      BY DEF Made, Event
    <3>2. e.slot \in Slots(h[e.origin], e.origin)
      BY <3>1 DEF Slots
    <3>3. f[e] \in part[e.origin]
      BY <3>1, <3>2
    <3> QED BY <3>1, <3>3
  <2>2. ASSUME NEW e \in Made(h), NEW g \in Made(h), f[e] = f[g] PROVE e = g
    BY <2>2 DEF Made, Event
  <2> HIDE DEF U, part
  <2>3. f \in [Made(h) -> UNION U]
    BY <2>1
  <2>4. \A a, b \in DOMAIN f : f[a] = f[b] => a = b
    BY <2>2
  <2> QED BY <2>3, <2>4 DEF Injection, IsInjective
<1> QED BY <1>3, <1>4, FS_Injection

-----------------------------------------------------------------------------
(* While ledgers and the cloud's marks grow, frames stay proper.           *)

Grows(h, s, h2, s2) ==
  /\ \A d \in Devices : h[d] \subseteq h2[d]
  /\ s \in [Devices -> Mark] /\ s2 \in [Devices -> Mark]
  /\ \A d \in Devices : s[d] <= s2[d]

LEMMA FramesStayProper ==
  ASSUME NEW h, NEW s, NEW h2, NEW s2, Grows(h, s, h2, s2),
         NEW a \in Devices, NEW b \in Devices
  PROVE  Proper(a, b, h, s) \subseteq Proper(a, b, h2, s2)
<1>1. Slots(h[a], b) \subseteq Slots(h2[a], b)
  BY SlotsGrow DEF Grows
<1>2. Made(h) \subseteq Made(h2)
  BY DEF Made, Event, Grows
<1>3. ASSUME NEW f \in Proper(a, b, h, s) PROVE f \in Proper(a, b, h2, s2)
  <2>1. f \in Frame
    BY DEF Proper
  <2>2. f.kind = "hello_ack" => 0..(f.resume - 1) \subseteq Slots(h2[a], b)
    BY <1>1 DEF Proper
  <2>3. f.kind = "lan_ack" => 0..f.mark \subseteq Slots(h2[a], b)
    BY <1>1 DEF Proper
  <2>4. ASSUME f.kind = "cloud_ack" PROVE f.mark <= s2[b]
    <3>1. f.mark \in Nat /\ f.mark <= s[b]
      BY <2>1, <2>4 DEF Proper, Frame
    <3>2. s[b] \in Mark /\ s2[b] \in Mark /\ s[b] <= s2[b]
      BY DEF Grows
    <3> QED BY <3>1, <3>2 DEF Mark
  <2>5. f.kind \in {"push", "batch"} => f.events \subseteq Made(h2)
    BY <1>2 DEF Proper
  <2> QED BY <2>1, <2>2, <2>3, <2>4, <2>5 DEF Proper
<1> QED BY <1>3

LEMMA WiresStayOK ==
  ASSUME NEW w, NEW h, NEW s, NEW h2, NEW s2, Grows(h, s, h2, s2), WiresOK(w, h, s)
  PROVE  WiresOK(w, h2, s2)
<1>1. ASSUME NEW a \in Devices, NEW b \in Devices
      PROVE  w[a][b] \in Seq(Proper(a, b, h2, s2))
  BY FramesStayProper DEF WiresOK
<1> QED BY <1>1 DEF WiresOK

LEMMA NodeStaysOK ==
  ASSUME NEW h, NEW s, NEW h2, NEW s2, Grows(h, s, h2, s2),
         NEW d \in Devices, NEW m, NodeOK(d, m, h, s)
  PROVE  NodeOK(d, m, h2, s2)
<1>1. m.conn => Slots(h[m.hub], d) \subseteq Slots(h2[m.hub], d)
  BY SlotsGrow DEF Grows, NodeOK
<1>2. ASSUME NEW o \in Devices PROVE m.relayed[o] <= s2[o]
  <2>1. m.relayed[o] \in Mark /\ s[o] \in Mark /\ s2[o] \in Mark
    BY DEF Grows, NodeOK, Memory
  <2>2. m.relayed[o] <= s[o] /\ s[o] <= s2[o]
    BY DEF Grows, NodeOK
  <2> QED BY <2>1, <2>2 DEF Mark
<1> QED BY <1>1, <1>2 DEF NodeOK

LEMMA PushesGrow ==
  ASSUME NEW h, NEW s, NEW h2, NEW s2, Grows(h, s, h2, s2)
  PROVE  Pushes(h) \subseteq Pushes(h2)
<1>1. \A o \in Devices : Slots(h[o], o) \subseteq Slots(h2[o], o)
  BY SlotsGrow DEF Grows
<1> QED BY <1>1 DEF Pushes

LEMMA AcksGrow ==
  ASSUME NEW h, NEW s, NEW h2, NEW s2, Grows(h, s, h2, s2)
  PROVE  Acks(s) \subseteq Acks(s2)
<1>1. ASSUME NEW r \in Acks(s) PROVE r.mark <= s2[r.origin]
  <2>1. r.mark \in Mark /\ r.origin \in Devices /\ r.mark <= s[r.origin]
    BY DEF Acks
  <2>2. s[r.origin] \in Mark /\ s2[r.origin] \in Mark /\ s[r.origin] <= s2[r.origin]
    BY <2>1 DEF Grows
  <2> QED BY <2>1, <2>2 DEF Mark
<1> QED BY <1>1 DEF Acks

LEMMA GrowsItself ==
  ASSUME NEW h, NEW s \in [Devices -> Mark] PROVE Grows(h, s, h, s)
BY DEF Grows, Mark

(* An event of an origin's ledger added to another's.                      *)
LEMMA LedgerLearns ==
  ASSUME NEW h, Ledger(h), NEW d \in Devices, NEW evs \in SUBSET Made(h)
  PROVE  /\ Ledger([h EXCEPT ![d] = @ \cup evs])
         /\ \A p \in Devices : h[p] \subseteq [h EXCEPT ![d] = @ \cup evs][p]
<1> DEFINE g == [h EXCEPT ![d] = @ \cup evs]
<1>1. h \in [Devices -> SUBSET Event] /\ evs \subseteq Event
  BY DEF Ledger, Made
<1>2. g \in [Devices -> SUBSET Event] /\ g[d] = h[d] \cup evs
      /\ \A p \in Devices \ {d} : g[p] = h[p]
  BY <1>1
<1> HIDE DEF g
<1>3. \A p \in Devices : h[p] \subseteq g[p]
  BY <1>2
<1>4. Made(h) \subseteq Made(g)
  BY <1>3 DEF Made, Event
<1>5. \A p \in Devices : g[p] \subseteq Made(g)
  BY <1>2, <1>4 DEF Ledger
<1>6. ASSUME NEW o \in Devices PROVE Slots(g[o], o) = Slots(h[o], o)
  <2>1. ASSUME NEW e \in evs, e.origin = o PROVE e \in h[o]
    BY <2>1 DEF Made
  <2> QED BY <1>2, <2>1 DEF Slots
<1> QED BY <1>2, <1>3, <1>5, <1>6 DEF Ledger, Numbered, g

(* An event appended.                                                      *)
LEMMA LedgerAppends ==
  ASSUME Ledger(held), NEW d \in Devices
  PROVE  LET g == [held EXCEPT ![d] = @ \cup {[origin |-> d, slot |-> Own(d)]}] IN
         /\ Ledger(g)
         /\ \A p \in Devices : held[p] \subseteq g[p]
<1> DEFINE e == [origin |-> d, slot |-> Own(d)]
           g == [held EXCEPT ![d] = @ \cup {e}]
<1>1. Own(d) \in Nat /\ Slots(held[d], d) = 0..(Own(d) - 1)
  BY OwnIsNext
<1>2. held \in [Devices -> SUBSET Event] /\ e \in Event /\ e.origin = d /\ e.slot = Own(d)
  BY <1>1 DEF Ledger, Event
<1> HIDE DEF e
<1>3. g \in [Devices -> SUBSET Event] /\ g[d] = held[d] \cup {e}
      /\ \A p \in Devices \ {d} : g[p] = held[p]
  BY <1>2
<1> HIDE DEF g
<1>4. \A p \in Devices : held[p] \subseteq g[p]
  BY <1>3
<1>5. Made(held) \subseteq Made(g) /\ e \in Made(g)
  BY <1>2, <1>3, <1>4 DEF Made, Event
<1>6. \A p \in Devices : g[p] \subseteq Made(g)
  BY <1>3, <1>5 DEF Ledger
<1>7. Slots(g[d], d) = Slots(held[d], d) \cup {Own(d)}
  BY <1>2, <1>3 DEF Slots
<1>8. Slots(g[d], d) = 0..((Own(d) + 1) - 1)
  <2>1. \A n \in Nat : 0..(n - 1) \cup {n} = 0..((n + 1) - 1)
    OBVIOUS
  <2> QED BY <1>1, <1>7, <2>1
<1>9. Numbered(g)
  <2>1. ASSUME NEW o \in Devices PROVE \E n \in Nat : Slots(g[o], o) = 0..(n - 1)
    <3>1. CASE o = d
      <4>1. Own(d) + 1 \in Nat
        BY <1>1
      <4> QED BY <1>8, <3>1, <4>1
    <3>2. CASE o # d
      <4>1. \E n \in Nat : Slots(held[o], o) = 0..(n - 1)
        BY DEF Ledger, Numbered
      <4> QED BY <1>3, <3>2, <4>1
    <3> QED BY <3>1, <3>2
  <2> QED BY <2>1 DEF Numbered
<1> QED BY <1>3, <1>4, <1>6, <1>9 DEF Ledger, g, e

-----------------------------------------------------------------------------
(* What a handler sends.                                                   *)

Sendable(d, out, h, s) == \A p \in Devices : out[p] \in Seq(Proper(d, p, h, s))

LEMMA NothingSendable ==
  ASSUME NEW h, NEW s, NEW d PROVE Sendable(d, Nothing, h, s)
BY DEF Sendable, Nothing

LEMMA ToSendable ==
  ASSUME NEW h, NEW s, NEW d, NEW p, NEW frames,
         p \in Devices => frames \in Seq(Proper(d, p, h, s))
  PROVE  Sendable(d, To(p, frames), h, s)
BY DEF Sendable, To

LEMMA ThenSendable ==
  ASSUME NEW h, NEW s, NEW d, NEW out, Sendable(d, out, h, s),
         NEW more, Sendable(d, more, h, s)
  PROVE  Sendable(d, Then(out, more), h, s)
<1>1. ASSUME NEW p \in Devices PROVE out[p] \o more[p] \in Seq(Proper(d, p, h, s))
  BY DEF Sendable
<1> QED BY <1>1 DEF Sendable, Then

LEMMA Signals ==
  ASSUME NEW h, NEW s, NEW d, NEW p, NEW k \in {"hello", "ping", "pong"}
  PROVE  <<[kind |-> k]>> \in Seq(Proper(d, p, h, s))
<1>1. [kind |-> k] \in Proper(d, p, h, s)
  BY DEF Proper, Frame
<1> QED BY <1>1

LEMMA HelloSendable ==
  ASSUME NEW h, NEW s, NEW d, NEW p PROVE Sendable(d, Hello(p), h, s)
BY Signals, ToSendable DEF Hello

LEMMA WindowProper ==
  ASSUME NEW h, NEW s, NEW d, NEW p, NEW evs \in SUBSET Made(h)
  PROVE  Window(evs) \in Seq(Proper(d, p, h, s))
<1> DEFINE f == [kind |-> "batch", events |-> evs]
<1>1. f \in Frame
  BY DEF Frame, Made
<1>2. f \in Proper(d, p, h, s)
  BY <1>1 DEF Proper
<1> HIDE DEF f
<1>3. <<f>> \in Seq(Proper(d, p, h, s)) /\ <<>> \in Seq(Proper(d, p, h, s))
  BY <1>2
<1> QED BY <1>3 DEF Window, f

LEMMA CloudAckProper ==
  ASSUME NEW h, NEW s, NEW d \in Devices, NEW p \in Devices, NEW m, NodeOK(d, m, h, s)
  PROVE  CloudAckTo(p, m) \in Seq(Proper(d, p, h, s))
<1>1. m.relayed[p] \in Mark /\ m.relayed[p] <= s[p]
  BY DEF NodeOK, Memory
<1>2. CASE m.relayed[p] < 0
  BY <1>2 DEF CloudAckTo
<1>3. CASE ~(m.relayed[p] < 0)
  <2> DEFINE f == [kind |-> "cloud_ack", mark |-> m.relayed[p]]
  <2>1. f \in Frame
    BY <1>1, <1>3 DEF Frame, Mark
  <2>2. f \in Proper(d, p, h, s)
    BY <1>1, <2>1 DEF Proper
  <2> HIDE DEF f
  <2>3. <<f>> \in Seq(Proper(d, p, h, s))
    BY <2>2
  <2> QED BY <1>3, <2>3 DEF CloudAckTo, f
<1> QED BY <1>2, <1>3

(* Events of one's own are in one's ledger.                                *)
LEMMA OwnEventsMade ==
  ASSUME NEW h, Ledger(h), NEW d \in Devices, NEW S \in SUBSET Slots(h[d], d)
  PROVE  {[origin |-> d, slot |-> s] : s \in S} \subseteq Made(h)
<1>1. ASSUME NEW s \in S PROVE [origin |-> d, slot |-> s] \in Made(h)
  <2>1. h[d] \in SUBSET Event /\ s \in Nat
    BY SlotsAreNat DEF Ledger
  <2>2. [origin |-> d, slot |-> s] \in h[d]
    BY <2>1, SlotHeld
  <2> QED BY <2>1, <2>2 DEF Made
<1> QED BY <1>1

LEMMA DrainSendable ==
  ASSUME NEW h, NEW s, Ledger(h), NEW d \in Devices, NEW m
  PROVE  Sendable(d, DrainPush(d, m, h[d]), h, s)
<1> DEFINE from == Max({m.resume, m.lanAck + 1})
           pending == {x \in Slots(h[d], d) : x >= from}
           some == Batched(pending)
           evs == {[origin |-> d, slot |-> x] : x \in some}
           f == [kind |-> "push", events |-> evs]
<1>1. evs \subseteq Made(h)
  <2>1. pending \in SUBSET Slots(h[d], d)
    OBVIOUS
  <2> HIDE DEF pending
  <2>2. some \in SUBSET Slots(h[d], d)
    BY <2>1, BatchIsPart
  <2> HIDE DEF some
  <2> QED BY <2>2, OwnEventsMade
<1> HIDE DEF evs
<1>2. f \in Frame
  BY <1>1 DEF Frame, Made
<1>3. \A p \in Devices : f \in Proper(d, p, h, s)
  BY <1>1, <1>2 DEF Proper
<1> HIDE DEF f
<1>4. \A p \in Devices : <<f>> \in Seq(Proper(d, p, h, s))
  BY <1>3
<1>5. Sendable(d, To(m.hub, <<f>>), h, s)
  BY <1>4, ToSendable
<1>6. DrainPush(d, m, h[d]) = IF ~m.conn \/ pending = {} THEN Nothing ELSE To(m.hub, <<f>>)
  BY Zenon DEF DrainPush, f, evs
<1> QED BY <1>5, <1>6, NothingSendable

LEMMA AdmitSendable ==
  ASSUME NEW h, NEW s, Ledger(h), NEW d \in Devices, NEW p \in Devices, NEW m
  PROVE  Sendable(d, AdmitFollower(m, p, h[d]).out, h, s)
<1> DEFINE high == ContiguousHigh(h[d], p)
           f == [kind |-> "hello_ack", resume |-> high + 1]
<1>1. high \in Mark /\ 0..high \subseteq Slots(h[d], p)
  BY HighIsHeld
<1> HIDE DEF high
<1>2. f \in Frame /\ f.kind = "hello_ack" /\ f.resume - 1 = high
  BY <1>1 DEF Frame, Mark
<1>3. f \in Proper(d, p, h, s)
  BY <1>1, <1>2 DEF Proper
<1> HIDE DEF f
<1>4. Window(h[d]) \in Seq(Proper(d, p, h, s))
  BY WindowProper DEF Ledger
<1>5. <<f>> \o Window(h[d]) \in Seq(Proper(d, p, h, s))
  BY <1>3, <1>4
<1> QED BY <1>5, ToSendable DEF AdmitFollower, f, high

LEMMA RepliesSendable ==
  ASSUME NEW h, NEW s, Ledger(h), NEW d \in Devices, NEW p \in Devices, NEW m,
         NEW before, NEW pushed
  PROVE  Sendable(d, PushReplies(m, p, before, h[d], pushed), h, s)
<1> DEFINE high == ContiguousHigh(h[d], p)
           fresh == (pushed \cap h[d]) \ before
           f == [kind |-> "lan_ack", mark |-> high]
           ack == IF high < 0 THEN <<>> ELSE <<f>>
           fan == [q \in Devices |-> IF q \in m.followers \ {p} THEN Window(fresh) ELSE <<>>]
<1>1. high \in Mark /\ 0..high \subseteq Slots(h[d], p)
  BY HighIsHeld
<1> HIDE DEF high
<1>2. ack \in Seq(Proper(d, p, h, s))
  <2>1. CASE high < 0
    BY <2>1
  <2>2. CASE ~(high < 0)
    <3>1. f \in Frame /\ f.kind = "lan_ack" /\ f.mark = high
      BY <1>1, <2>2 DEF Frame, Mark
    <3>2. f \in Proper(d, p, h, s)
      BY <1>1, <3>1 DEF Proper
    <3> HIDE DEF f
    <3> QED BY <2>2, <3>2
  <2> QED BY <2>1, <2>2
<1>3. Sendable(d, To(p, ack), h, s)
  BY <1>2, ToSendable
<1>4. Sendable(d, fan, h, s)
  <2>1. fresh \in SUBSET Made(h)
    BY DEF Ledger
  <2> HIDE DEF fresh
  <2>2. ASSUME NEW q \in Devices PROVE fan[q] \in Seq(Proper(d, q, h, s))
    <3>1. Window(fresh) \in Seq(Proper(d, q, h, s)) /\ <<>> \in Seq(Proper(d, q, h, s))
      BY <2>1, WindowProper
    <3> QED BY <3>1
  <2> HIDE DEF fan
  <2> QED BY <2>2 DEF Sendable
<1>5. PushReplies(m, p, before, h[d], pushed) = Then(To(p, ack), fan)
  BY Zenon DEF PushReplies, high
<1> QED BY <1>3, <1>4, <1>5, ThenSendable

(* What is sent joins what is on its way, on the sockets that are up.      *)
LEMMA PostedOK ==
  ASSUME NEW w, NEW h, NEW s, WiresOK(w, h, s), NEW d \in Devices,
         NEW out, Sendable(d, out, h, s)
  PROVE  /\ WiresOK(Post(w, d, out), h, s)
         /\ \A a, b \in Devices : Post(w, d, out)[a][b] # <<>> => w[a][b] # <<>> \/ Linked(a, b)
<1> DEFINE row == [p \in Devices |-> IF Linked(d, p) THEN w[d][p] \o out[p] ELSE w[d][p]]
           x == Post(w, d, out)
<1>1. ASSUME NEW p \in Devices PROVE row[p] \in Seq(Proper(d, p, h, s)) /\ row[p] \in Seq(Frame)
  <2>1. w[d][p] \in Seq(Proper(d, p, h, s)) /\ out[p] \in Seq(Proper(d, p, h, s))
    BY DEF WiresOK, Sendable
  <2>2. w[d][p] \o out[p] \in Seq(Proper(d, p, h, s))
    BY <2>1
  <2>3. row[p] \in Seq(Proper(d, p, h, s))
    BY <2>1, <2>2
  <2>4. Proper(d, p, h, s) \subseteq Frame
    BY DEF Proper
  <2> HIDE DEF row
  <2> QED BY <2>3, <2>4
<1>2. row \in [Devices -> Seq(Frame)]
  BY <1>1
<1>3. \A p \in Devices : row[p] # <<>> => w[d][p] # <<>> \/ Linked(d, p)
  OBVIOUS
<1>4. x = [w EXCEPT ![d] = row]
  BY Zenon DEF Post
<1>5. w \in [Devices -> [Devices -> Seq(Frame)]]
  BY DEF WiresOK
<1> HIDE DEF row, x
<1>6. x \in [Devices -> [Devices -> Seq(Frame)]] /\ x[d] = row
      /\ \A a \in Devices \ {d} : x[a] = w[a]
  BY <1>2, <1>4, <1>5
<1>7. WiresOK(x, h, s)
  BY <1>1, <1>6 DEF WiresOK
<1>8. \A a, b \in Devices : x[a][b] # <<>> => w[a][b] # <<>> \/ Linked(a, b)
  BY <1>3, <1>6
<1> QED BY <1>7, <1>8 DEF x

-----------------------------------------------------------------------------
(* The election and the mesh session's handlers.                           *)

(* electHub finds a best device, if there is an eligible one: of the least *)
(* rank the least id.                                                      *)
LEMMA HubIsOneOfThem ==
  ASSUME NEW S \in SUBSET Devices
  PROVE  ElectHub(S) \in S \cup {None}
<1> DEFINE can == {d \in S : Eligible(d)}
           Best(d) == \A p \in can \ {d} : Outranks(d, p)
<1>1. CASE can = {}
  BY <1>1, Zenon DEF ElectHub
<1>2. CASE can # {}
  <2>1. \A d \in can : Rank[d] \in Nat /\ Id[d] \in Nat
    BY MeshAssumption DEF Eligible
  <2>2. \A d, p \in can : Id[d] = Id[p] => d = p
    BY MeshAssumption
  <2> HIDE DEF can
  <2> DEFINE ranks == {Rank[d] : d \in can}
             first == {d \in can : \A p \in can : Rank[d] <= Rank[p]}
             ids == {Id[d] : d \in first}
  <2>3. first # {}
    <3>1. ranks \in SUBSET Nat /\ ranks # {}
      BY <1>2, <2>1
    <3>2. PICK r \in ranks : \A n \in ranks : r <= n
      BY <3>1, LeastNatural
    <3>3. PICK d \in can : Rank[d] = r
      BY <3>2
    <3> QED BY <3>2, <3>3
  <2>4. PICK d \in first : \A p \in first : Id[d] <= Id[p]
    <3>1. ids \in SUBSET Nat /\ ids # {}
      BY <2>1, <2>3
    <3>2. PICK i \in ids : \A n \in ids : i <= n
      BY <3>1, LeastNatural
    <3> QED BY <3>2
  <2>5. ASSUME NEW p \in can \ {d} PROVE Outranks(d, p)
    <3>1. d \in can /\ p \in can /\ d # p /\ Rank[d] <= Rank[p] /\ Id[d] # Id[p]
      BY <2>2, <2>4
    <3>2. CASE Rank[d] = Rank[p]
      <4>1. p \in first
        BY <3>1, <3>2, <2>4
      <4> QED BY <2>1, <2>4, <3>1, <3>2, <4>1 DEF Outranks
    <3>3. CASE Rank[d] # Rank[p]
      BY <2>1, <3>1, <3>3 DEF Outranks
    <3> QED BY <3>2, <3>3
  <2>6. d \in can /\ Best(d)
    BY <2>4, <2>5
  <2>7. (CHOOSE x \in can : Best(x)) \in can
    BY <2>6, Zenon
  <2>8. ElectHub(S) = CHOOSE x \in can : Best(x)
    BY <1>2, Zenon DEF ElectHub, can
  <2> QED BY <2>7, <2>8 DEF can
<1> QED BY <1>1, <1>2

LEMMA TornFollowerOK ==
  ASSUME NEW h, NEW s, NEW d, NEW m, NodeOK(d, m, h, s)
  PROVE  /\ NodeOK(d, TeardownFollower(m), h, s)
         /\ TeardownFollower(m).hub = None /\ TeardownFollower(m).state = m.state
         /\ TeardownFollower(m).latch => m.latch
         /\ ~TeardownFollower(m).conn
         /\ TeardownFollower(m).wan = m.wan
BY DEF TeardownFollower, NodeOK, Memory, Mark, Serving

LEMMA TornHubOK ==
  ASSUME NEW h, NEW s, NEW d, NEW m, NodeOK(d, m, h, s)
  PROVE  /\ NodeOK(d, TeardownHub(m), h, s)
         /\ ~TeardownHub(m).latch /\ TeardownHub(m).wan = m.wan
BY DEF TeardownHub, NodeOK, Memory, Serving

(* A handler keeps the memory sound, keeps the cloud connection, and sends *)
(* what it may.                                                            *)
Handled(d, r, wan, h, s) ==
  /\ NodeOK(d, r.m, h, s) /\ Decided(r.m) /\ r.m.wan = wan
  /\ Sendable(d, r.out, h, s)

LEMMA QuietHandled ==
  ASSUME NEW h, NEW s, NEW d, NEW m, NodeOK(d, m, h, s), Decided(m)
  PROVE  Handled(d, Quiet(m), m.wan, h, s)
BY NothingSendable DEF Handled, Quiet

LEMMA RecomputeHandled ==
  ASSUME NEW h, NEW s, NEW d \in Devices, NEW m, NodeOK(d, m, h, s)
  PROVE  Handled(d, Recompute(d, m), m.wan, h, s)
<1> DEFINE winner == ElectHub((m.visible \ m.suspects) \cup {d})
           free == TeardownFollower(m)
           left == IF Serving(m) THEN TeardownHub(m) ELSE m
           top == [free EXCEPT !.state = IF m.visible = {} THEN "solo" ELSE "hub"]
           alone == [TeardownFollower(left) EXCEPT !.state = "follower"]
           behind == [TeardownFollower(left) EXCEPT !.state = "follower", !.hub = winner]
<1>1. winner \in Devices \cup {None} /\ None \notin Devices
  <2>1. (m.visible \ m.suspects) \cup {d} \in SUBSET Devices
    BY DEF NodeOK, Memory
  <2> QED BY <2>1, HubIsOneOfThem, MeshAssumption
<1>2. NodeOK(d, left, h, s) /\ ~left.latch /\ left.wan = m.wan
  <2>1. CASE Serving(m)
    BY <2>1, TornHubOK
  <2>2. CASE ~Serving(m)
    BY <2>2 DEF NodeOK, Memory
  <2> QED BY <2>1, <2>2
<1>3. /\ NodeOK(d, free, h, s) /\ free.hub = None /\ ~free.conn /\ free.wan = m.wan
      /\ free.latch => m.latch
  BY TornFollowerOK
<1>4. /\ NodeOK(d, TeardownFollower(left), h, s) /\ TeardownFollower(left).hub = None
      /\ ~TeardownFollower(left).conn /\ TeardownFollower(left).wan = m.wan
      /\ ~TeardownFollower(left).latch
  <2> HIDE DEF left
  <2> QED BY <1>2, TornFollowerOK
<1>5. CASE winner = d
  <2>1. Recompute(d, m) = Quiet(top)
    BY <1>1, <1>5 DEF Recompute
  <2> DEFINE st == IF m.visible = {} THEN "solo" ELSE "hub"
  <2>2. st \in {"solo", "hub"}
    OBVIOUS
  <2> HIDE DEF free, st
  <2>3. /\ NodeOK(d, [free EXCEPT !.state = st], h, s)
        /\ [free EXCEPT !.state = st].state = st
        /\ [free EXCEPT !.state = st].wan = free.wan
    BY <1>3, <2>2 DEF NodeOK, Memory, Serving
  <2>4. NodeOK(d, top, h, s) /\ Decided(top) /\ top.wan = m.wan
    BY <1>3, <2>2, <2>3 DEF Decided, st
  <2> HIDE DEF top
  <2> QED BY <2>1, <2>4, QuietHandled
<1>6. CASE winner = None
  <2>1. winner # d
    BY <1>1, <1>6
  <2>2. Recompute(d, m) = Quiet(alone)
    BY <1>6, <2>1, <1>1 DEF Recompute
  <2> HIDE DEF left
  <2>3. NodeOK(d, alone, h, s) /\ alone.state = "follower"
        /\ alone.wan = TeardownFollower(left).wan
    BY <1>4 DEF NodeOK, Memory, Serving
  <2>4. Decided(alone) /\ alone.wan = m.wan
    BY <1>4, <2>3 DEF Decided
  <2> HIDE DEF alone
  <2> QED BY <2>2, <2>3, <2>4, QuietHandled
<1>7. CASE winner \in Devices \ {d} /\ m.state = "follower" /\ m.hub = winner
  <2>1. Recompute(d, m) = Quiet(m)
    BY <1>1, <1>7 DEF Recompute
  <2> QED BY <1>7, <2>1, QuietHandled DEF Decided
<1>8. CASE winner \in Devices \ {d} /\ ~(m.state = "follower" /\ m.hub = winner)
  <2>1. Recompute(d, m) = [m |-> behind, out |-> Hello(winner)]
    BY <1>1, <1>8 DEF Recompute
  <2>2. NodeOK(d, behind, h, s) /\ Decided(behind) /\ behind.wan = m.wan
    BY <1>4, <1>8 DEF NodeOK, Memory, Serving, Decided
  <2> HIDE DEF behind
  <2>3. Recompute(d, m).m = behind /\ Recompute(d, m).out = Hello(winner)
    BY <2>1
  <2> QED BY <2>2, <2>3, HelloSendable DEF Handled
<1> QED BY <1>1, <1>5, <1>6, <1>7, <1>8

LEMMA HubLossHandled ==
  ASSUME NEW h, NEW s, NEW d \in Devices, NEW m, NodeOK(d, m, h, s), ~Serving(m),
         NEW suspect \in BOOLEAN, suspect => m.hub \in Devices
  PROVE  Handled(d, OnHubLoss(d, m, suspect), m.wan, h, s)
<1> DEFINE free == TeardownFollower(m)
           lost == [free EXCEPT !.suspects = IF suspect THEN @ \cup {m.hub} ELSE @,
                                !.state = IF Eligible(d) THEN "candidate" ELSE "follower"]
<1>1. /\ NodeOK(d, free, h, s) /\ free.hub = None /\ ~free.conn /\ free.wan = m.wan
      /\ free.latch => m.latch
  BY TornFollowerOK
<1>2. ~m.latch
  BY DEF NodeOK
<1> HIDE DEF free
<1>3. NodeOK(d, lost, h, s) /\ lost.wan = m.wan
  BY <1>1, <1>2 DEF NodeOK, Memory, Serving
<1>4. OnHubLoss(d, m, suspect) = Recompute(d, lost)
  BY Zenon DEF OnHubLoss, free
<1> HIDE DEF lost
<1> QED BY <1>3, <1>4, RecomputeHandled

LEMMA PeerVisibleHandled ==
  ASSUME NEW h, NEW s, NEW d \in Devices, NEW m, NodeOK(d, m, h, s), NEW p \in Devices
  PROVE  Handled(d, OnPeerVisible(d, m, p), m.wan, h, s)
<1> DEFINE seen == [m EXCEPT !.visible = @ \cup {p}]
<1>1. NodeOK(d, seen, h, s) /\ seen.wan = m.wan
  BY DEF NodeOK, Memory, Serving
<1>2. OnPeerVisible(d, m, p) = Recompute(d, seen)
  BY Zenon DEF OnPeerVisible
<1> HIDE DEF seen
<1> QED BY <1>1, <1>2, RecomputeHandled

LEMMA PeerLostHandled ==
  ASSUME NEW h, NEW s, NEW d \in Devices, NEW m, NodeOK(d, m, h, s), NEW p \in Devices
  PROVE  Handled(d, OnPeerLost(d, m, p), m.wan, h, s)
<1> DEFINE gone == [m EXCEPT !.visible = @ \ {p}, !.followers = @ \ {p}]
<1>1. NodeOK(d, gone, h, s) /\ gone.wan = m.wan /\ gone.hub = m.hub
  BY DEF NodeOK, Memory, Serving
<1>2. CASE p = m.hub
  <2>1. OnPeerLost(d, m, p) = OnHubLoss(d, gone, FALSE)
    BY <1>2, Zenon DEF OnPeerLost
  <2>2. ~Serving(gone)
    BY <1>1, <1>2, MeshAssumption DEF NodeOK, Serving
  <2> HIDE DEF gone
  <2>3. Handled(d, OnHubLoss(d, gone, FALSE), gone.wan, h, s)
    BY <1>1, <2>2, HubLossHandled
  <2> QED BY <1>1, <2>1, <2>3
<1>3. CASE p # m.hub
  <2>1. OnPeerLost(d, m, p) = Recompute(d, gone)
    BY <1>3, Zenon DEF OnPeerLost
  <2> HIDE DEF gone
  <2> QED BY <1>1, <2>1, RecomputeHandled
<1> QED BY <1>2, <1>3

LEMMA AliveHandled ==
  ASSUME NEW h, NEW s, NEW d \in Devices, NEW m, NodeOK(d, m, h, s), Decided(m), NEW p
  PROVE  Handled(d, Alive(d, m, p), m.wan, h, s)
<1>1. CASE p \in m.suspects
  <2> DEFINE clear == [m EXCEPT !.suspects = @ \ {p}]
  <2>1. NodeOK(d, clear, h, s) /\ clear.wan = m.wan
    BY DEF NodeOK, Memory, Serving
  <2>2. Alive(d, m, p) = Recompute(d, clear)
    BY <1>1, Zenon DEF Alive
  <2> HIDE DEF clear
  <2> QED BY <2>1, <2>2, RecomputeHandled
<1>2. CASE p \notin m.suspects
  BY <1>2, QuietHandled DEF Alive
<1> QED BY <1>1, <1>2

LEMMA AdmitHandled ==
  ASSUME NEW h, NEW s, Ledger(h), NEW d \in Devices, NEW m, NodeOK(d, m, h, s), Decided(m),
         NEW p \in Devices
  PROVE  Handled(d, AdmitFollower(m, p, h[d]), m.wan, h, s)
<1> DEFINE more == [m EXCEPT !.followers = @ \cup {p}]
<1>1. NodeOK(d, more, h, s) /\ more.wan = m.wan /\ Decided(more)
  BY DEF NodeOK, Memory, Serving, Decided
<1>2. AdmitFollower(m, p, h[d]).m = more
  BY DEF AdmitFollower
<1> HIDE DEF more
<1> QED BY <1>1, <1>2, AdmitSendable DEF Handled

-----------------------------------------------------------------------------
(* The steps.  First what they have in common.                             *)

LEMMA HeadIsProper ==
  ASSUME IInv, NEW d \in Devices, NEW p \in Devices, NEW k, Arrives(d, p, k)
  PROVE  /\ Head(wire[p][d]) \in Proper(p, d, held, settled)
         /\ Head(wire[p][d]).kind = k
         /\ Linked(p, d)
<1>1. wire[p][d] \in Seq(Proper(p, d, held, settled)) /\ wire[p][d] # <<>>
  BY DEF IInv, WiresOK, Arrives
<1> QED BY <1>1 DEF Arrives, IInv, Connected

LEMMA TakenOK ==
  ASSUME IInv, NEW d \in Devices, NEW p \in Devices, wire[p][d] # <<>>
  PROVE  /\ WiresOK(Taken(d, p), held, settled)
         /\ \A a, b \in Devices : Taken(d, p)[a][b] # <<>> => Linked(a, b)
<1> DEFINE w == Taken(d, p)
<1>1. wire \in [Devices -> [Devices -> Seq(Frame)]]
  BY DEF IInv, WiresOK
<1>2. Tail(wire[p][d]) \in Seq(Proper(p, d, held, settled)) /\ Tail(wire[p][d]) \in Seq(Frame)
  BY <1>1 DEF IInv, WiresOK
<1>3. /\ w \in [Devices -> [Devices -> Seq(Frame)]]
      /\ w[p][d] = Tail(wire[p][d])
      /\ \A a, b \in Devices : ~(a = p /\ b = d) => w[a][b] = wire[a][b]
  BY <1>1, <1>2 DEF Taken
<1> HIDE DEF w
<1>4. WiresOK(w, held, settled)
  BY <1>2, <1>3 DEF IInv, WiresOK
<1>5. \A a, b \in Devices : w[a][b] # <<>> => Linked(a, b)
  BY <1>3 DEF IInv, Connected
<1> QED BY <1>4, <1>5 DEF w

LEMMA Grown ==
  ASSUME IInv, NEW h2, NEW s2 \in [Devices -> Mark],
         \A d \in Devices : held[d] \subseteq h2[d], \A d \in Devices : settled[d] <= s2[d]
  PROVE  Grows(held, settled, h2, s2)
BY DEF Grows, IInv, Cloudy

LEMMA Same ==
  ASSUME IInv PROVE Grows(held, settled, held, settled)
BY DEF Grows, IInv, Cloudy, Mark

(* One node takes m2 for its memory while the ledgers and marks grow.      *)
LEMMA NodesStay ==
  ASSUME IInv, NEW d \in Devices, NEW m2, Grows(held, settled, held', settled'),
         NodeOK(d, m2, held', settled'), Decided(m2), node' = [node EXCEPT ![d] = m2]
  PROVE  Nodes'
<1>1. node \in [Devices -> Memory] /\ m2 \in Memory
  BY DEF IInv, Nodes, NodeOK
<1>2. node' \in [Devices -> Memory] /\ node'[d] = m2
      /\ \A p \in Devices \ {d} : node'[p] = node[p]
  BY <1>1
<1>3. ASSUME NEW p \in Devices PROVE NodeOK(p, node'[p], held', settled') /\ Decided(node'[p])
  <2>1. CASE p = d
    BY <1>2, <2>1
  <2>2. CASE p # d
    <3>1. NodeOK(p, node[p], held, settled) /\ Decided(node[p])
      BY DEF IInv, Nodes
    <3>2. NodeOK(p, node[p], held', settled')
      BY <3>1, NodeStaysOK
    <3> QED BY <1>2, <2>2, <3>1, <3>2
  <2> QED BY <2>1, <2>2
<1> QED BY <1>2, <1>3 DEF Nodes

(* A step of the mesh alone: a node, the frames on the sockets, at most a  *)
(* checkpoint that the cloud backs.                                        *)
LEMMA LanStep ==
  ASSUME IInv, NEW d \in Devices, NEW m2, NodeOK(d, m2, held, settled), Decided(m2),
         m2.wan = node[d].wan, node' = [node EXCEPT ![d] = m2],
         WiresOK(wire', held, settled),
         \A a, b \in Devices : wire'[a][b] # <<>> => Linked(a, b),
         ckpt' \in [Devices -> Mark], \A p \in Devices : ckpt'[p] <= settled[p],
         SceneOK', UNCHANGED <<held, links, up, down, settled>>
  PROVE  IInv'
<1>1. Nodes'
  BY Same, NodesStay
<1>2. Cloudy'
  BY DEF IInv, Cloudy, CheckpointInCloud
<1>3. Connected'
  <2>1. \A p \in Devices : node'[p].wan = node[p].wan
    BY DEF IInv, Nodes
  <2>2. \A a, b \in Devices : wire'[a][b] # <<>> => Linked(a, b)'
    BY DEF Linked
  <2> QED BY <2>1, <2>2 DEF IInv, Connected
<1> QED BY <1>1, <1>2, <1>3 DEF IInv

LEMMA NowHandled ==
  ASSUME IInv, NEW d \in Devices, NEW p
  PROVE  Handled(d, Now(d, p), node[d].wan, held, settled)
<1>1. NodeOK(d, node[d], held, settled) /\ Decided(node[d])
  BY DEF IInv, Nodes
<1> QED BY <1>1, AliveHandled DEF Now

(* A frame is taken and what the handler returns is sent.                  *)
LEMMA Answered ==
  ASSUME IInv, NEW d \in Devices, NEW p \in Devices, wire[p][d] # <<>>,
         NEW h2, Grows(held, settled, h2, settled),
         NEW out, Sendable(d, out, h2, settled),
         wire' = Post(Taken(d, p), d, out)
  PROVE  /\ WiresOK(wire', h2, settled)
         /\ \A a, b \in Devices : wire'[a][b] # <<>> => Linked(a, b)
<1>1. WiresOK(Taken(d, p), held, settled)
  BY TakenOK
<1>2. WiresOK(Taken(d, p), h2, settled)
  BY <1>1, WiresStayOK
<1>3. \A a, b \in Devices : Taken(d, p)[a][b] # <<>> => Linked(a, b)
  BY TakenOK
<1> QED BY <1>2, <1>3, PostedOK

LEMMA CkptStays ==
  ASSUME IInv, UNCHANGED ckpt
  PROVE  ckpt' \in [Devices -> Mark] /\ \A p \in Devices : ckpt'[p] <= settled[p]
BY DEF IInv, Cloudy, CheckpointInCloud

LEMMA SceneStays == ASSUME IInv, UNCHANGED scene PROVE SceneOK'
BY DEF IInv, SceneOK

LEMMA HelloKeeps ==
  ASSUME IInv, NEW d \in Devices, NEW p \in Devices, OnHello(d, p) PROVE IInv'
<1> DEFINE a == Now(d, p)
           r == IF Serving(a.m) THEN AdmitFollower(a.m, p, held[d]) ELSE Quiet(a.m)
<1>1. Handled(d, a, node[d].wan, held, settled)
  BY NowHandled
<1>2. Handled(d, r, node[d].wan, held, settled)
  <2> HIDE DEF a
  <2>1. NodeOK(d, a.m, held, settled) /\ Decided(a.m) /\ a.m.wan = node[d].wan
    BY <1>1 DEF Handled
  <2>2. Ledger(held)
    BY DEF IInv
  <2>3. Handled(d, AdmitFollower(a.m, p, held[d]), a.m.wan, held, settled)
    BY <2>1, <2>2, AdmitHandled
  <2>4. Handled(d, Quiet(a.m), a.m.wan, held, settled)
    BY <2>1, QuietHandled
  <2> QED BY <2>1, <2>3, <2>4
<1>3. /\ node' = [node EXCEPT ![d] = r.m]
      /\ wire' = Post(Taken(d, p), d, Then(a.out, r.out))
      /\ wire[p][d] # <<>>
      /\ UNCHANGED <<held, ckpt, links, up, down, settled, scene>>
  BY DEF OnHello, Adopt, Arrives, cloud
<1> HIDE DEF a, r
<1>4. Sendable(d, Then(a.out, r.out), held, settled)
  BY <1>1, <1>2, ThenSendable DEF Handled
<1>5. /\ WiresOK(wire', held, settled)
      /\ \A x, y \in Devices : wire'[x][y] # <<>> => Linked(x, y)
  BY <1>3, <1>4, Same, Answered
<1>6. NodeOK(d, r.m, held, settled) /\ Decided(r.m) /\ r.m.wan = node[d].wan
  BY <1>2 DEF Handled
<1> QED BY <1>3, <1>5, <1>6, CkptStays, SceneStays, LanStep

LEMMA HelloAckKeeps ==
  ASSUME IInv, NEW d \in Devices, NEW p \in Devices, OnHelloAck(d, p) PROVE IInv'
<1> DEFINE a == Now(d, p)
           f == Head(wire[p][d])
           m == IF FollowerOf(a.m, p)
                THEN [a.m EXCEPT !.conn = TRUE, !.resume = f.resume, !.lanAck = -1]
                ELSE a.m
           more == IF FollowerOf(m, p) THEN DrainPush(d, m, held[d]) ELSE Nothing
<1>1. Handled(d, a, node[d].wan, held, settled)
  BY NowHandled
<1>2. /\ node' = [node EXCEPT ![d] = m]
      /\ wire' = Post(Taken(d, p), d, Then(a.out, more))
      /\ wire[p][d] # <<>>
      /\ UNCHANGED <<held, ckpt, links, up, down, settled, scene>>
  BY DEF OnHelloAck, Arrives, cloud
<1>3. f.resume \in Nat /\ 0..(f.resume - 1) \subseteq Slots(held[p], d)
  <2>1. f \in Proper(p, d, held, settled) /\ f.kind = "hello_ack"
    BY HeadIsProper DEF OnHelloAck
  <2> HIDE DEF f
  <2> QED BY <2>1 DEF Proper, Frame
<1> HIDE DEF a, f
<1>4. NodeOK(d, m, held, settled) /\ Decided(m) /\ m.wan = node[d].wan
  <2>1. NodeOK(d, a.m, held, settled) /\ Decided(a.m) /\ a.m.wan = node[d].wan
    BY <1>1 DEF Handled
  <2>2. 0..(-1) = {}
    OBVIOUS
  <2>3. CASE FollowerOf(a.m, p)
    BY <1>3, <2>1, <2>2, <2>3 DEF NodeOK, Memory, Mark, Serving, Decided, FollowerOf
  <2>4. CASE ~FollowerOf(a.m, p)
    BY <2>1, <2>4
  <2> QED BY <2>3, <2>4
<1> HIDE DEF m
<1>5. Sendable(d, more, held, settled)
  BY DrainSendable, NothingSendable DEF IInv
<1> HIDE DEF more
<1>6. Sendable(d, Then(a.out, more), held, settled)
  BY <1>1, <1>5, ThenSendable DEF Handled
<1>7. /\ WiresOK(wire', held, settled)
      /\ \A x, y \in Devices : wire'[x][y] # <<>> => Linked(x, y)
  BY <1>2, <1>6, Same, Answered
<1> QED BY <1>2, <1>4, <1>7, CkptStays, SceneStays, LanStep

LEMMA LanAckKeeps ==
  ASSUME IInv, NEW d \in Devices, NEW p \in Devices, OnLanAck(d, p) PROVE IInv'
<1> DEFINE a == Now(d, p)
           mark == Head(wire[p][d]).mark
           counts == FollowerOf(a.m, p) /\ a.m.conn /\ mark > a.m.lanAck
           m == IF counts THEN [a.m EXCEPT !.lanAck = mark] ELSE a.m
           more == IF counts THEN DrainPush(d, m, held[d]) ELSE Nothing
<1>1. Handled(d, a, node[d].wan, held, settled)
  BY NowHandled
<1>2. /\ node' = [node EXCEPT ![d] = m]
      /\ wire' = Post(Taken(d, p), d, Then(a.out, more))
      /\ wire[p][d] # <<>>
      /\ UNCHANGED <<held, ckpt, links, up, down, settled, scene>>
  BY DEF OnLanAck, Arrives, cloud
<1>3. mark \in Nat /\ 0..mark \subseteq Slots(held[p], d)
  <2> DEFINE f == Head(wire[p][d])
  <2>1. f \in Proper(p, d, held, settled) /\ f.kind = "lan_ack"
    BY HeadIsProper DEF OnLanAck
  <2> HIDE DEF f
  <2>2. f.mark \in Nat /\ 0..f.mark \subseteq Slots(held[p], d)
    BY <2>1 DEF Proper, Frame
  <2> QED BY <2>2 DEF f
<1> HIDE DEF a, mark
<1>4. NodeOK(d, m, held, settled) /\ Decided(m) /\ m.wan = node[d].wan
  <2>1. NodeOK(d, a.m, held, settled) /\ Decided(a.m) /\ a.m.wan = node[d].wan
    BY <1>1 DEF Handled
  <2>2. CASE counts
    BY <1>3, <2>1, <2>2 DEF NodeOK, Memory, Mark, Serving, Decided, FollowerOf
  <2>3. CASE ~counts
    BY <2>1, <2>3
  <2> QED BY <2>2, <2>3
<1> HIDE DEF m, counts
<1>5. Sendable(d, more, held, settled)
  BY DrainSendable, NothingSendable DEF IInv
<1> HIDE DEF more
<1>6. Sendable(d, Then(a.out, more), held, settled)
  BY <1>1, <1>5, ThenSendable DEF Handled
<1>7. /\ WiresOK(wire', held, settled)
      /\ \A x, y \in Devices : wire'[x][y] # <<>> => Linked(x, y)
  BY <1>2, <1>6, Same, Answered
<1> QED BY <1>2, <1>4, <1>7, CkptStays, SceneStays, LanStep

LEMMA CloudAckKeeps ==
  ASSUME IInv, NEW d \in Devices, NEW p \in Devices, OnCloudAckRelayed(d, p) PROVE IInv'
<1> DEFINE a == Now(d, p)
           mark == Head(wire[p][d]).mark
<1>1. Handled(d, a, node[d].wan, held, settled)
  BY NowHandled
<1>2. /\ node' = [node EXCEPT ![d] = a.m]
      /\ wire' = Post(Taken(d, p), d, a.out)
      /\ wire[p][d] # <<>>
      /\ ckpt' = [ckpt EXCEPT ![d] =
           IF FollowerOf(a.m, p) /\ a.m.conn /\ mark < Own(d) THEN Max({@, mark}) ELSE @]
      /\ UNCHANGED <<held, links, up, down, settled, scene>>
  BY DEF OnCloudAckRelayed, Adopt, Arrives, cloud
<1>3. mark \in Nat /\ mark <= settled[d]
  <2> DEFINE f == Head(wire[p][d])
  <2>1. f \in Proper(p, d, held, settled) /\ f.kind = "cloud_ack"
    BY HeadIsProper DEF OnCloudAckRelayed
  <2> HIDE DEF f
  <2>2. f.mark \in Nat /\ f.mark <= settled[d]
    BY <2>1 DEF Proper, Frame
  <2> QED BY <2>2 DEF f
<1>4. ckpt' \in [Devices -> Mark] /\ \A q \in Devices : ckpt'[q] <= settled[q]
  <2>1. /\ ckpt \in [Devices -> Mark] /\ ckpt[d] \in Mark
        /\ \A q \in Devices : ckpt[q] <= settled[q]
    BY DEF IInv, Cloudy, CheckpointInCloud
  <2> HIDE DEF a, mark
  <2>2. Max({ckpt[d], mark}) \in {ckpt[d], mark}
    <3>1. ckpt[d] \in Int /\ mark \in Int
      BY <1>3, <2>1 DEF Mark
    <3> QED BY <3>1, GreaterOfTwo
  <2>3. ckpt'[d] \in {ckpt[d], mark} /\ \A q \in Devices \ {d} : ckpt'[q] = ckpt[q]
    BY <1>2, <2>1, <2>2
  <2>4. ckpt' \in [Devices -> Mark]
    BY <1>2, <1>3, <2>1, <2>2 DEF Mark
  <2> QED BY <1>3, <2>1, <2>3, <2>4
<1> HIDE DEF a, mark
<1>5. /\ WiresOK(wire', held, settled)
      /\ \A x, y \in Devices : wire'[x][y] # <<>> => Linked(x, y)
  BY <1>1, <1>2, Same, Answered DEF Handled
<1>6. NodeOK(d, a.m, held, settled) /\ Decided(a.m) /\ a.m.wan = node[d].wan
  BY <1>1 DEF Handled
<1> QED BY <1>2, <1>4, <1>5, <1>6, SceneStays, LanStep

(* A ping is answered by its hub's follower; a pong by nobody.             *)
LEMMA BeatKeeps ==
  ASSUME IInv, NEW d \in Devices, NEW p \in Devices, OnPing(d, p) \/ OnPong(d, p) PROVE IInv'
<1> DEFINE a == Now(d, p)
           pong == To(p, IF a.m.hub = p THEN <<[kind |-> "pong"]>> ELSE <<>>)
<1>1. Handled(d, a, node[d].wan, held, settled)
  BY NowHandled
<1>2. /\ node' = [node EXCEPT ![d] = a.m]
      /\ wire' = Post(Taken(d, p), d, Then(a.out, pong)) \/ wire' = Post(Taken(d, p), d, a.out)
      /\ wire[p][d] # <<>>
      /\ UNCHANGED <<held, ckpt, links, up, down, settled, scene>>
  BY DEF OnPing, OnPong, Adopt, Arrives, cloud
<1>3. Sendable(d, pong, held, settled)
  <2> DEFINE frames == IF a.m.hub = p THEN <<[kind |-> "pong"]>> ELSE <<>>
  <2>1. frames \in Seq(Proper(d, p, held, settled))
    BY Signals
  <2> HIDE DEF frames
  <2>2. Sendable(d, To(p, frames), held, settled)
    BY <2>1, ToSendable
  <2> QED BY <2>2 DEF frames
<1> HIDE DEF a, pong
<1>4. Sendable(d, Then(a.out, pong), held, settled) /\ Sendable(d, a.out, held, settled)
  BY <1>1, <1>3, ThenSendable DEF Handled
<1>5. /\ WiresOK(wire', held, settled)
      /\ \A x, y \in Devices : wire'[x][y] # <<>> => Linked(x, y)
  BY <1>2, <1>4, Same, Answered
<1>6. NodeOK(d, a.m, held, settled) /\ Decided(a.m) /\ a.m.wan = node[d].wan
  BY <1>1 DEF Handled
<1> QED BY <1>2, <1>5, <1>6, CkptStays, SceneStays, LanStep

-----------------------------------------------------------------------------
(* Steps that bring events.                                                *)

LEMMA SomeOrder ==
  ASSUME NEW S, IsFiniteSet(S)
  PROVE  \E n \in Nat : SetToSeq(S) \in [1..n -> S]
<1> DEFINE n == Cardinality(S)
<1>1. n \in Nat /\ ExistsBijection(1..n, S)
  BY FS_CardinalityType
<1>2. \E f \in [1..n -> S] : IsInjective(f)
  BY <1>1 DEF ExistsBijection, Bijection, Injection
<1>3. (CHOOSE f \in [1..n -> S] : IsInjective(f)) \in [1..n -> S]
  BY <1>2, Zenon
<1>4. SetToSeq(S) \in [1..n -> S]
  BY <1>3, Zenon DEF SetToSeq
<1> QED BY <1>1, <1>4

(* What a device holds of an origin, the origin holds.                     *)
LEMMA SlotsOfOrigin ==
  ASSUME NEW h, Ledger(h), NEW d \in Devices, NEW o \in Devices
  PROVE  Slots(h[d], o) \subseteq Slots(h[o], o) /\ Slots(h[d], o) \in SUBSET Nat
<1>1. h[d] \in SUBSET Event /\ h[d] \subseteq Made(h)
  BY DEF Ledger
<1>2. Slots(h[d], o) \subseteq Slots(h[o], o)
  BY <1>1 DEF Made, Slots
<1> QED BY <1>1, <1>2, SlotsAreNat

LEMMA OwnPushOK ==
  ASSUME NEW h, Ledger(h), NEW d \in Devices, NEW mark
  PROVE  /\ OwnPush(d, mark, h[d]) \in Seq(Pushes(h))
         /\ \A i \in 1..Len(OwnPush(d, mark, h[d])) : OwnPush(d, mark, h[d])[i].origin = d
<1> DEFINE pending == {s \in Slots(h[d], d) : s > mark}
           r == [origin |-> d, slots |-> Batched(pending)]
<1>1. r \in Pushes(h)
  BY SlotsOfOrigin, BatchIsPart DEF Pushes
<1>2. r.origin = d
  OBVIOUS
<1>3. OwnPush(d, mark, h[d]) = IF pending = {} THEN <<>> ELSE <<r>>
  BY Zenon DEF OwnPush
<1> HIDE DEF r, pending
<1>4. CASE pending = {}
  BY <1>3, <1>4
<1>5. CASE pending # {}
  <2>1. OwnPush(d, mark, h[d]) = <<r>>
    BY <1>3, <1>5
  <2> QED BY <1>1, <1>2, <2>1
<1> QED BY <1>4, <1>5

LEMMA RelayOK ==
  ASSUME NEW h, Ledger(h), NEW d \in Devices, NEW m, NEW origins \in SUBSET Devices
  PROVE  /\ RelayDrain(d, m, h[d], origins) \in Seq(Pushes(h))
         /\ RelayDrain(d, m, h[d], origins) # <<>> => m.wan /\ m.latch
<1> DEFINE late == {o \in origins \ {d} : \E s \in Slots(h[d], o) : s > m.relayed[o]}
           order == SetToSeq(late)
           r == [i \in DOMAIN order |->
                  [origin |-> order[i],
                   slots |-> Batched({s \in Slots(h[d], order[i]) : s > m.relayed[order[i]]})]]
<1>1. RelayDrain(d, m, h[d], origins) = IF ~m.wan \/ ~m.latch THEN <<>> ELSE r
  BY Zenon DEF RelayDrain
<1>2. IsFiniteSet(late)
  BY MeshAssumption, FS_Subset
<1>3. PICK n \in Nat : order \in [1..n -> late]
  BY <1>2, SomeOrder
<1> HIDE DEF order
<1>4. ASSUME NEW i \in 1..n PROVE r[i] \in Pushes(h)
  <2>1. order[i] \in Devices
    BY <1>3
  <2>2. Batched({s \in Slots(h[d], order[i]) : s > m.relayed[order[i]]})
          \subseteq Slots(h[order[i]], order[i])
    BY <2>1, SlotsOfOrigin, BatchIsPart
  <2>3. Slots(h[order[i]], order[i]) \in SUBSET Nat
    BY <2>1, SlotsOfOrigin
  <2> QED BY <1>3, <2>1, <2>2, <2>3 DEF Pushes
<1>5. DOMAIN r = 1..n
  BY <1>3
<1>6. r = [i \in 1..n |-> r[i]]
  BY <1>5
<1> HIDE DEF r
<1>7. r \in [1..n -> Pushes(h)]
  BY <1>4, <1>6
<1>8. r \in Seq(Pushes(h))
  BY <1>7
<1> QED BY <1>1, <1>8

(* A step of one node that may bring events and pushes.                    *)
LEMMA NodeStep ==
  ASSUME IInv, NEW d \in Devices, NEW m2, NodeOK(d, m2, held', settled), Decided(m2),
         m2.wan = node[d].wan, node' = [node EXCEPT ![d] = m2],
         Ledger(held'), Grows(held, settled, held', settled),
         WiresOK(wire', held', settled),
         \A a, b \in Devices : wire'[a][b] # <<>> => Linked(a, b),
         NEW q \in Seq(Pushes(held')), q # <<>> => up[d] # <<>> \/ m2.wan,
         up' = [up EXCEPT ![d] = q],
         SceneOK', UNCHANGED <<ckpt, links, down, settled>>
  PROVE  IInv'
<1>1. Nodes'
  BY NodesStay
<1>2. Cloudy'
  <2>1. up \in [Devices -> Seq(Pushes(held))] /\ Pushes(held) \subseteq Pushes(held')
    BY PushesGrow DEF IInv, Cloudy
  <2>2. up \in [Devices -> Seq(Pushes(held'))]
    BY <2>1
  <2>3. up' \in [Devices -> Seq(Pushes(held'))]
    BY <2>2
  <2> QED BY <2>3 DEF IInv, Cloudy, CheckpointInCloud
<1>3. Connected'
  <2>1. \A p \in Devices : node'[p].wan = node[p].wan
    BY DEF IInv, Nodes
  <2>2. \A a, b \in Devices : wire'[a][b] # <<>> => Linked(a, b)'
    BY DEF Linked
  <2>3. \A p \in Devices : up'[p] # <<>> => up[p] # <<>> \/ node'[p].wan
    BY <2>1 DEF IInv, Cloudy
  <2> QED BY <2>1, <2>2, <2>3 DEF IInv, Connected
<1> QED BY <1>1, <1>2, <1>3 DEF IInv

LEMMA IngestKeeps ==
  ASSUME IInv, NEW d \in Devices, NEW evs \in SUBSET Made(held), NEW bad, Ingest(d, evs, bad)
  PROVE  Ledger(held') /\ Grows(held, settled, held', settled) /\ SceneOK'
<1>1. Ledger(held) /\ settled \in [Devices -> Mark] /\ SceneOK
  BY DEF IInv, Cloudy
<1>2. Ledger(held') /\ \A p \in Devices : held[p] \subseteq held'[p]
  <2>1. evs \ bad \in SUBSET Made(held)
    OBVIOUS
  <2>2. held' = [held EXCEPT ![d] = @ \cup (evs \ bad)]
    BY DEF Ingest
  <2> QED BY <1>1, <2>1, <2>2, LedgerLearns
<1>3. Grows(held, settled, held', settled)
  BY <1>1, <1>2 DEF Grows, Mark
<1>4. SceneOK'
  <2>1. IsFiniteSet(Made(held)) /\ bad \in SUBSET Made(held)
    BY <1>1, MadeIsFinite DEF Ingest
  <2>2. Cardinality(bad) \in Nat
    BY <2>1, FS_Subset, FS_CardinalityType
  <2>3. Cardinality(bad) <= scene.failures
        /\ scene' = [scene EXCEPT !.failures = @ - Cardinality(bad)]
    BY DEF Ingest
  <2> QED BY <1>1, <2>2, <2>3 DEF SceneOK
<1> QED BY <1>2, <1>3, <1>4

LEMMA PushKeeps ==
  ASSUME IInv, NEW d \in Devices, NEW p \in Devices, OnPush(d, p) PROVE IInv'
<1> DEFINE a == Now(d, p)
           pushed == Head(wire[p][d]).events
           m == [a.m EXCEPT !.latch = TRUE]
           replies == PushReplies(m, p, held[d], held'[d], pushed)
           relay == RelayDrain(d, m, held'[d], Devices)
<1>1. Handled(d, a, node[d].wan, held, settled)
  BY NowHandled
<1>2. pushed \in SUBSET Made(held) /\ wire[p][d] # <<>>
  <2> DEFINE f == Head(wire[p][d])
  <2>1. f \in Proper(p, d, held, settled) /\ f.kind = "push"
    BY HeadIsProper DEF OnPush
  <2> HIDE DEF f
  <2>2. f.events \subseteq Made(held)
    BY <2>1 DEF Proper
  <2> QED BY <2>2 DEF f, OnPush, Arrives
<1>3. UNCHANGED <<ckpt, links, down, settled>>
  BY DEF OnPush
<1>4. NodeOK(d, a.m, held, settled) /\ Decided(a.m) /\ a.m.wan = node[d].wan
  BY <1>1 DEF Handled
<1>5. CASE Serving(a.m)
  <2>1. PICK bad \in SUBSET pushed : Ingest(d, pushed, bad)
    BY <1>5 DEF OnPush
  <2>2. /\ node' = [node EXCEPT ![d] = m]
        /\ wire' = Post(Taken(d, p), d, Then(a.out, replies))
        /\ up' = [up EXCEPT ![d] = @ \o relay]
    BY <1>5 DEF OnPush
  <2> HIDE DEF a, pushed
  <2>3. Ledger(held') /\ Grows(held, settled, held', settled) /\ SceneOK'
    BY <1>2, <2>1, IngestKeeps
  <2>4. NodeOK(d, m, held, settled) /\ Decided(m) /\ m.wan = node[d].wan
    BY <1>4, <1>5 DEF NodeOK, Memory, Serving, Decided
  <2> HIDE DEF m
  <2>5. NodeOK(d, m, held', settled)
    BY <2>3, <2>4, NodeStaysOK
  <2>6. Sendable(d, replies, held', settled)
    BY <2>3, RepliesSendable
  <2>7. Sendable(d, a.out, held', settled)
    <3>1. \A q \in Devices : a.out[q] \in Seq(Proper(d, q, held, settled))
      BY <1>1 DEF Handled, Sendable
    <3>2. \A q \in Devices : Proper(d, q, held, settled) \subseteq Proper(d, q, held', settled)
      BY <2>3, FramesStayProper
    <3>3. \A q \in Devices : a.out[q] \in Seq(Proper(d, q, held', settled))
      BY <3>1, <3>2
    <3> QED BY <3>3 DEF Sendable
  <2> HIDE DEF replies
  <2>8. Sendable(d, Then(a.out, replies), held', settled)
    BY <2>6, <2>7, ThenSendable
  <2>9. /\ WiresOK(wire', held', settled)
        /\ \A x, y \in Devices : wire'[x][y] # <<>> => Linked(x, y)
    BY <1>2, <2>2, <2>3, <2>8, Answered
  <2>10. relay \in Seq(Pushes(held')) /\ (relay # <<>> => m.wan)
    BY <2>3, RelayOK
  <2> HIDE DEF relay
  <2>11. up[d] \in Seq(Pushes(held'))
    BY <2>3, PushesGrow DEF IInv, Cloudy
  <2>12. up[d] \o relay \in Seq(Pushes(held'))
         /\ (up[d] \o relay # <<>> => up[d] # <<>> \/ m.wan)
    BY <2>10, <2>11
  <2>13. up' = [up EXCEPT ![d] = up[d] \o relay]
    BY <2>2
  <2> QED BY <1>3, <2>2, <2>3, <2>4, <2>5, <2>9, <2>12, <2>13, NodeStep
<1>6. CASE ~Serving(a.m)
  <2>1. /\ node' = [node EXCEPT ![d] = a.m]
        /\ wire' = Post(Taken(d, p), d, a.out)
        /\ UNCHANGED <<held, scene, up>>
    BY <1>6 DEF OnPush, Adopt
  <2> HIDE DEF a
  <2>2. /\ WiresOK(wire', held, settled)
        /\ \A x, y \in Devices : wire'[x][y] # <<>> => Linked(x, y)
    BY <1>1, <1>2, <2>1, Same, Answered DEF Handled
  <2> QED BY <1>3, <1>4, <2>1, <2>2, CkptStays, SceneStays, LanStep
<1> QED BY <1>5, <1>6

LEMMA BatchKeeps ==
  ASSUME IInv, NEW d \in Devices, NEW p \in Devices, OnBatch(d, p) PROVE IInv'
<1> DEFINE a == Now(d, p)
           evs == Head(wire[p][d]).events
<1>1. Handled(d, a, node[d].wan, held, settled)
  BY NowHandled
<1>2. evs \in SUBSET Made(held) /\ wire[p][d] # <<>>
  <2> DEFINE f == Head(wire[p][d])
  <2>1. f \in Proper(p, d, held, settled) /\ f.kind = "batch"
    BY HeadIsProper DEF OnBatch
  <2> HIDE DEF f
  <2>2. f.events \subseteq Made(held)
    BY <2>1 DEF Proper
  <2> QED BY <2>2 DEF f, OnBatch, Arrives
<1>3. PICK bad \in SUBSET evs : Ingest(d, evs, bad)
  BY DEF OnBatch
<1>4. /\ node' = [node EXCEPT ![d] = a.m]
      /\ wire' = Post(Taken(d, p), d, a.out)
      /\ UNCHANGED <<ckpt, links, up, down, settled>>
  BY DEF OnBatch, Adopt, cloud
<1> HIDE DEF a, evs
<1>5. Ledger(held') /\ Grows(held, settled, held', settled) /\ SceneOK'
  BY <1>2, <1>3, IngestKeeps
<1>6. NodeOK(d, a.m, held', settled) /\ Decided(a.m) /\ a.m.wan = node[d].wan
  BY <1>1, <1>5, NodeStaysOK DEF Handled
<1>7. Sendable(d, a.out, held', settled)
  <2>1. \A q \in Devices : a.out[q] \in Seq(Proper(d, q, held, settled))
    BY <1>1 DEF Handled, Sendable
  <2>2. \A q \in Devices : Proper(d, q, held, settled) \subseteq Proper(d, q, held', settled)
    BY <1>5, FramesStayProper
  <2>3. \A q \in Devices : a.out[q] \in Seq(Proper(d, q, held', settled))
    BY <2>1, <2>2
  <2> QED BY <2>3 DEF Sendable
<1>8. /\ WiresOK(wire', held', settled)
      /\ \A x, y \in Devices : wire'[x][y] # <<>> => Linked(x, y)
  BY <1>2, <1>4, <1>5, <1>7, Answered
<1>9. up[d] \in Seq(Pushes(held')) /\ up' = [up EXCEPT ![d] = up[d]]
  BY <1>4, <1>5, PushesGrow DEF IInv, Cloudy
<1> QED BY <1>4, <1>5, <1>6, <1>8, <1>9, NodeStep

LEMMA AppendKeeps ==
  ASSUME IInv, NEW d \in Devices, AppendEvent(d) PROVE IInv'
<1> DEFINE evs == held[d] \cup {[origin |-> d, slot |-> Own(d)]}
           m == node[d]
           late == Batched({s \in Slots(evs, d) : s >= m.fan})
           news == {[origin |-> d, slot |-> s] : s \in late}
           fan == [p \in Devices |-> IF p \in m.followers THEN Window(news) ELSE <<>>]
           past == Max({m.fan} \cup {s + 1 : s \in late})
           q == IF m.wan THEN up[d] \o OwnPush(d, ckpt[d], evs) ELSE up[d]
<1>1. /\ held' = [held EXCEPT ![d] = evs]
      /\ \/ wire' = Post(wire, d, DrainPush(d, m, evs)) /\ node' = node
         \/ wire' = Post(wire, d, fan) /\ node' = [node EXCEPT ![d].fan = past]
      /\ UNCHANGED <<ckpt, links, down, settled, scene>>
  BY DEF AppendEvent
<1>2. up' = [up EXCEPT ![d] = q]
  BY DEF AppendEvent
<1>3. Ledger(held) /\ settled \in [Devices -> Mark] /\ held \in [Devices -> SUBSET Event]
  BY DEF IInv, Cloudy, Ledger
<1>4. Ledger(held') /\ Grows(held, settled, held', settled) /\ held'[d] = evs
  <2>1. Ledger(held') /\ \A p \in Devices : held[p] \subseteq held'[p]
    <3>1. held' = [held EXCEPT ![d] = @ \cup {[origin |-> d, slot |-> Own(d)]}]
      BY <1>1
    <3> QED BY <1>3, <3>1, LedgerAppends
  <2>2. held'[d] = evs
    BY <1>1, <1>3
  <2> QED BY <1>3, <2>1, <2>2 DEF Grows, Mark
<1>5. NodeOK(d, m, held, settled) /\ Decided(m) /\ node \in [Devices -> Memory]
  BY DEF IInv, Nodes
<1>6. NodeOK(d, m, held', settled)
  BY <1>4, <1>5, NodeStaysOK
<1>7. Sendable(d, DrainPush(d, m, evs), held', settled)
  BY <1>4, DrainSendable
<1>8. Sendable(d, fan, held', settled)
  <2>1. late \in SUBSET Slots(held'[d], d)
    BY <1>4, BatchIsPart
  <2> HIDE DEF late, evs
  <2>2. news \in SUBSET Made(held')
    BY <1>4, <2>1, OwnEventsMade
  <2> HIDE DEF news
  <2>3. ASSUME NEW p \in Devices PROVE fan[p] \in Seq(Proper(d, p, held', settled))
    <3>1. Window(news) \in Seq(Proper(d, p, held', settled))
          /\ <<>> \in Seq(Proper(d, p, held', settled))
      BY <2>2, WindowProper
    <3> QED BY <3>1
  <2> HIDE DEF fan
  <2> QED BY <2>3 DEF Sendable
<1>9. q \in Seq(Pushes(held')) /\ (q # <<>> => up[d] # <<>> \/ m.wan)
  <2>1. up[d] \in Seq(Pushes(held'))
    BY <1>4, PushesGrow DEF IInv, Cloudy
  <2>2. OwnPush(d, ckpt[d], evs) \in Seq(Pushes(held'))
    BY <1>4, OwnPushOK
  <2> HIDE DEF evs
  <2> QED BY <2>1, <2>2
<1>10. WiresOK(wire, held', settled) /\ \A a, b \in Devices : wire[a][b] # <<>> => Linked(a, b)
  BY <1>4, WiresStayOK DEF IInv, Connected
<1>11. past \in Nat
  <2>1. late \in SUBSET Slots(held'[d], d)
    BY <1>4, BatchIsPart
  <2>2. PICK n \in Nat : Slots(held'[d], d) = 0..(n - 1)
    BY <1>4 DEF Ledger, Numbered
  <2>3. m.fan \in Nat
    BY <1>5 DEF Memory
  <2> DEFINE S == {m.fan} \cup {s + 1 : s \in late}
  <2> HIDE DEF late, evs
  <2>4. S \in SUBSET Nat /\ S # {} /\ \A x \in S : x <= n + m.fan
    BY <2>1, <2>2, <2>3
  <2>5. n + m.fan \in Nat
    BY <2>2, <2>3
  <2> HIDE DEF S
  <2>6. Max(S) \in S
    BY <2>4, <2>5, GreatestNatural
  <2> QED BY <2>4, <2>6 DEF S
<1> HIDE DEF evs, fan, q, past
<1>12. SceneOK'
  BY <1>1, SceneStays
<1>13. CASE wire' = Post(wire, d, DrainPush(d, m, evs)) /\ node' = node
  <2>1. /\ WiresOK(wire', held', settled)
        /\ \A a, b \in Devices : wire'[a][b] # <<>> => Linked(a, b)
    BY <1>7, <1>10, <1>13, PostedOK
  <2>2. node' = [node EXCEPT ![d] = m]
    BY <1>5, <1>13
  <2> QED BY <1>1, <1>2, <1>4, <1>5, <1>6, <1>9, <1>12, <2>1, <2>2, NodeStep
<1>14. CASE wire' = Post(wire, d, fan) /\ node' = [node EXCEPT ![d].fan = past]
  <2> DEFINE m2 == [m EXCEPT !.fan = past]
  <2>1. /\ WiresOK(wire', held', settled)
        /\ \A a, b \in Devices : wire'[a][b] # <<>> => Linked(a, b)
    BY <1>8, <1>10, <1>14, PostedOK
  <2>2. node' = [node EXCEPT ![d] = m2]
    BY <1>14
  <2>3. past \in Nat
    BY <1>11
  <2>4. NodeOK(d, m2, held', settled) /\ Decided(m2) /\ m2.wan = node[d].wan
    BY <1>5, <1>6, <2>3 DEF NodeOK, Memory, Serving, Decided
  <2> HIDE DEF m2
  <2>5. q # <<>> => up[d] # <<>> \/ m2.wan
    BY <1>9, <2>4
  <2> QED BY <1>1, <1>2, <1>4, <1>9, <1>12, <2>1, <2>2, <2>4, <2>5, NodeStep
<1> QED BY <1>1, <1>13, <1>14

-----------------------------------------------------------------------------
(* Timers.                                                                 *)

LEMMA SpendKeeps == ASSUME IInv, Spend PROVE SceneOK'
BY DEF IInv, SceneOK, Spend

(* A timer's step: frames posted, and perhaps a new memory.                *)
LEMMA TimerStep ==
  ASSUME IInv, NEW d \in Devices, NEW m2, NodeOK(d, m2, held, settled), Decided(m2),
         m2.wan = node[d].wan, node' = [node EXCEPT ![d] = m2],
         NEW out, Sendable(d, out, held, settled), wire' = Post(wire, d, out),
         SceneOK', UNCHANGED <<held, ckpt, links, up, down, settled>>
  PROVE  IInv'
<1>1. WiresOK(wire, held, settled) /\ \A a, b \in Devices : wire[a][b] # <<>> => Linked(a, b)
  BY DEF IInv, Connected
<1>2. /\ WiresOK(wire', held, settled)
      /\ \A a, b \in Devices : wire'[a][b] # <<>> => Linked(a, b)
  BY <1>1, PostedOK
<1> QED BY <1>2, CkptStays, LanStep

LEMMA NodeAsItIs ==
  ASSUME IInv, NEW d \in Devices
  PROVE  /\ NodeOK(d, node[d], held, settled) /\ Decided(node[d])
         /\ node = [node EXCEPT ![d] = node[d]]
BY DEF IInv, Nodes

LEMMA HeartbeatKeeps ==
  ASSUME IInv, NEW h \in Devices, NEW f \in Devices, Heartbeat(h, f) PROVE IInv'
<1> DEFINE frames == <<[kind |-> "ping"]>> \o Window(held[h]) \o CloudAckTo(f, node[h])
<1>1. frames \in Seq(Proper(h, f, held, settled))
  <2>1. Window(held[h]) \in Seq(Proper(h, f, held, settled))
    BY WindowProper DEF IInv, Ledger
  <2>2. CloudAckTo(f, node[h]) \in Seq(Proper(h, f, held, settled))
    BY NodeAsItIs, CloudAckProper
  <2>3. <<[kind |-> "ping"]>> \in Seq(Proper(h, f, held, settled))
    BY Signals
  <2> QED BY <2>1, <2>2, <2>3
<1>2. wire' = Post(wire, h, To(f, frames))
      /\ UNCHANGED <<node, held, ckpt, links, up, down, settled, scene>>
  BY DEF Heartbeat, cloud
<1> HIDE DEF frames
<1>3. Sendable(h, To(f, frames), held, settled)
  BY <1>1, ToSendable
<1> QED BY <1>2, <1>3, NodeAsItIs, SceneStays, TimerStep

LEMMA MissedBeatsKeeps ==
  ASSUME IInv, NEW h \in Devices, NEW f \in Devices, MissedBeats(h, f) PROVE IInv'
<1> DEFINE m2 == [node[h] EXCEPT !.followers = @ \ {f}]
<1>1. NodeOK(h, m2, held, settled) /\ Decided(m2) /\ m2.wan = node[h].wan
  BY NodeAsItIs DEF NodeOK, Memory, Serving, Decided
<1>2. node' = [node EXCEPT ![h] = m2]
  BY DEF MissedBeats
<1>3. SceneOK' /\ UNCHANGED <<held, ckpt, links, wire, up, down, settled>>
  BY SpendKeeps, SceneStays DEF MissedBeats, cloud
<1> HIDE DEF m2
<1>4. WiresOK(wire', held, settled) /\ \A a, b \in Devices : wire'[a][b] # <<>> => Linked(a, b)
  BY <1>3 DEF IInv, Connected
<1> QED BY <1>1, <1>2, <1>3, <1>4, CkptStays, LanStep

LEMMA FollowerTickKeeps ==
  ASSUME IInv, NEW d \in Devices, FollowerTick(d) PROVE IInv'
<1> DEFINE h == node[d].hub
           retry == IF node[d].conn THEN DrainPush(d, node[d], held[d]) ELSE Hello(h)
<1>1. Sendable(d, retry, held, settled)
  BY DrainSendable, HelloSendable DEF IInv
<1>2. wire' = Post(wire, d, retry)
      /\ UNCHANGED <<node, held, ckpt, links, up, down, settled, scene>>
  BY DEF FollowerTick, cloud
<1> HIDE DEF retry
<1> QED BY <1>1, <1>2, NodeAsItIs, SceneStays, TimerStep

LEMMA TimesOutKeeps ==
  ASSUME IInv, NEW d \in Devices, NEW truly, TimesOut(d, truly) PROVE IInv'
<1> DEFINE r == OnHubLoss(d, node[d], TRUE)
<1>1. node[d].hub \in Devices /\ ~Serving(node[d])
  BY NodeAsItIs DEF TimesOut, NodeOK, Memory, Serving
<1>2. Handled(d, r, node[d].wan, held, settled)
  BY <1>1, NodeAsItIs, HubLossHandled
<1>3. /\ node' = [node EXCEPT ![d] = r.m] /\ wire' = Post(wire, d, r.out)
      /\ UNCHANGED <<held, ckpt, links, up, down, settled>>
  BY DEF TimesOut, Adopt, cloud
<1>4. SceneOK'
  BY SceneStays, SpendKeeps DEF TimesOut
<1> HIDE DEF r
<1> QED BY <1>2, <1>3, <1>4, TimerStep DEF Handled

-----------------------------------------------------------------------------
(* Sockets and restarts.                                                   *)

LEMMA LinkUpKeeps ==
  ASSUME IInv, NEW a \in Devices, NEW b \in Devices, LinkUp(a, b) PROVE IInv'
<1> DEFINE ra == OnPeerVisible(a, node[a], b)
           rb == OnPeerVisible(b, node[b], a)
           rowA == [p \in Devices |->
                     IF Linked(a, p) \/ p = b THEN wire[a][p] \o ra.out[p] ELSE wire[a][p]]
           rowB == [p \in Devices |->
                     IF Linked(b, p) \/ p = a THEN wire[b][p] \o rb.out[p] ELSE wire[b][p]]
<1>1. Handled(a, ra, node[a].wan, held, settled) /\ Handled(b, rb, node[b].wan, held, settled)
  BY NodeAsItIs, PeerVisibleHandled
<1>2. a # b /\ links' = links \cup {Pair(a, b)}
      /\ UNCHANGED <<held, ckpt, up, down, settled, scene>>
  BY DEF LinkUp, cloud
<1>3. node' = [node EXCEPT ![a] = ra.m, ![b] = rb.m]
  BY DEF LinkUp
<1>4. wire' = [wire EXCEPT ![a] = rowA, ![b] = rowB]
  <2>1. /\ wire \in [Devices -> [Devices -> Seq(Frame)]]
    BY DEF IInv, WiresOK
  <2>2. wire' = [wire EXCEPT
              ![a] = [p \in Devices |-> IF Linked(a, p) \/ p = b THEN @[p] \o ra.out[p] ELSE @[p]],
              ![b] = [p \in Devices |-> IF Linked(b, p) \/ p = a THEN @[p] \o rb.out[p] ELSE @[p]]]
    BY DEF LinkUp
  <2> HIDE DEF ra, rb
  <2> QED BY <1>2, <2>1, <2>2
<1> HIDE DEF ra, rb
<1>5. ASSUME NEW p \in Devices
      PROVE  /\ rowA[p] \in Seq(Proper(a, p, held, settled)) /\ rowA[p] \in Seq(Frame)
             /\ rowB[p] \in Seq(Proper(b, p, held, settled)) /\ rowB[p] \in Seq(Frame)
  <2>1. /\ wire[a][p] \in Seq(Proper(a, p, held, settled))
        /\ wire[b][p] \in Seq(Proper(b, p, held, settled))
    BY DEF IInv, WiresOK
  <2>2. /\ ra.out[p] \in Seq(Proper(a, p, held, settled))
        /\ rb.out[p] \in Seq(Proper(b, p, held, settled))
    BY <1>1 DEF Handled, Sendable
  <2>3. /\ wire[a][p] \o ra.out[p] \in Seq(Proper(a, p, held, settled))
        /\ wire[b][p] \o rb.out[p] \in Seq(Proper(b, p, held, settled))
    BY <2>1, <2>2
  <2>4. /\ rowA[p] \in Seq(Proper(a, p, held, settled))
        /\ rowB[p] \in Seq(Proper(b, p, held, settled))
    BY <2>1, <2>3
  <2>5. Proper(a, p, held, settled) \subseteq Frame /\ Proper(b, p, held, settled) \subseteq Frame
    BY DEF Proper
  <2> HIDE DEF rowA, rowB
  <2> QED BY <2>4, <2>5
<1>6. /\ \A p \in Devices : rowA[p] # <<>> => wire[a][p] # <<>> \/ Linked(a, p) \/ p = b
      /\ \A p \in Devices : rowB[p] # <<>> => wire[b][p] # <<>> \/ Linked(b, p) \/ p = a
  OBVIOUS
<1>7. rowA \in [Devices -> Seq(Frame)] /\ rowB \in [Devices -> Seq(Frame)]
  BY <1>5
<1> HIDE DEF rowA, rowB
<1>8. /\ wire' \in [Devices -> [Devices -> Seq(Frame)]]
      /\ wire'[a] = rowA /\ wire'[b] = rowB
      /\ \A p \in Devices \ {a, b} : wire'[p] = wire[p]
  BY <1>2, <1>4, <1>7 DEF IInv, WiresOK
<1>9. WiresOK(wire', held, settled)
  BY <1>5, <1>8 DEF IInv, WiresOK
<1>10. /\ node' \in [Devices -> Memory]
       /\ node'[a] = ra.m /\ node'[b] = rb.m
       /\ \A p \in Devices \ {a, b} : node'[p] = node[p]
  <2>1. node \in [Devices -> Memory] /\ ra.m \in Memory /\ rb.m \in Memory
    BY <1>1 DEF IInv, Nodes, Handled, NodeOK
  <2> QED BY <1>2, <1>3, <2>1
<1>11. Nodes' /\ \A p \in Devices : node'[p].wan = node[p].wan
  BY <1>1, <1>2, <1>10 DEF IInv, Nodes, Handled
<1>12. Connected'
  <2>1. links' \subseteq SUBSET Devices
    BY <1>2 DEF IInv, Connected, Pair
  <2>2. \A x, y \in Devices : Linked(x, y) => Linked(x, y)'
    BY <1>2 DEF Linked
  <2>3. Linked(a, b)' /\ Linked(b, a)'
    BY <1>2 DEF Linked, Pair
  <2>4. \A x, y \in Devices : wire'[x][y] # <<>> => Linked(x, y)'
    <3>1. ASSUME NEW x \in Devices, NEW y \in Devices, wire'[x][y] # <<>>
          PROVE  wire[x][y] # <<>> \/ Linked(x, y) \/ (x = a /\ y = b) \/ (x = b /\ y = a)
      <4>1. CASE x = a
        BY <1>6, <1>8, <3>1, <4>1
      <4>2. CASE x = b
        BY <1>6, <1>8, <3>1, <4>2
      <4>3. CASE x \notin {a, b}
        BY <1>8, <3>1, <4>3
      <4> QED BY <4>1, <4>2, <4>3
    <3>2. \A x, y \in Devices : wire[x][y] # <<>> => Linked(x, y)
      BY DEF IInv, Connected
    <3> QED BY <2>2, <2>3, <3>1, <3>2
  <2> QED BY <1>2, <1>11, <2>1, <2>4 DEF IInv, Connected
<1> QED BY <1>2, <1>9, <1>11, <1>12, SceneStays DEF IInv, Cloudy, CheckpointInCloud

LEMMA StartedOK ==
  ASSUME NEW h, NEW s \in [Devices -> Mark], NEW d \in Devices
  PROVE  /\ NodeOK(d, Started(d), h, s) /\ Decided(Started(d)) /\ ~Started(d).wan
BY DEF Started, NodeOK, Decided, Memory, Mark, Serving

LEMMA LoseKeeps ==
  ASSUME IInv, NEW gone, NEW restarted \in SUBSET Devices, Lose(gone, restarted),
         up' \in [Devices -> Seq(Pushes(held))], down' \in [Devices -> Seq(Acks(settled))],
         \A d \in Devices : up'[d] # <<>> => up[d] # <<>> /\ d \notin restarted,
         \A d \in Devices : down'[d] # <<>> => down[d] # <<>> /\ d \notin restarted,
         SceneOK', UNCHANGED <<held, ckpt, settled>>
  PROVE  IInv'
<1> DEFINE lost(d) == {p \in Devices \ {d} : Pair(d, p) \in gone}
           react(d) == IF d \in restarted THEN Quiet(Started(d))
                       ELSE IF lost(d) = {} THEN Quiet(node[d])
                       ELSE OnPeerLost(d, node[d], CHOOSE p \in lost(d) : TRUE)
<1>1. ASSUME NEW d \in Devices
      PROVE  /\ Handled(d, react(d), react(d).m.wan, held, settled)
             /\ d \notin restarted => react(d).m.wan = node[d].wan
  <2>1. CASE d \in restarted
    <3>1. NodeOK(d, Started(d), held, settled) /\ Decided(Started(d))
      BY StartedOK DEF IInv, Cloudy
    <3>2. react(d) = Quiet(Started(d))
      BY <2>1
    <3>3. Handled(d, Quiet(Started(d)), Started(d).wan, held, settled)
      BY <3>1, QuietHandled
    <3> HIDE DEF react
    <3> QED BY <2>1, <3>2, <3>3 DEF Handled
  <2>2. CASE d \notin restarted /\ lost(d) = {}
    <3>1. react(d) = Quiet(node[d])
      BY <2>2
    <3>2. Handled(d, Quiet(node[d]), node[d].wan, held, settled)
      BY NodeAsItIs, QuietHandled
    <3> HIDE DEF react
    <3> QED BY <3>1, <3>2 DEF Handled
  <2>3. CASE d \notin restarted /\ lost(d) # {}
    <3> DEFINE p == CHOOSE p \in lost(d) : TRUE
    <3>1. p \in Devices
      BY <2>3
    <3>2. react(d) = OnPeerLost(d, node[d], p)
      BY <2>3
    <3> HIDE DEF p
    <3>3. Handled(d, OnPeerLost(d, node[d], p), node[d].wan, held, settled)
      BY <3>1, NodeAsItIs, PeerLostHandled
    <3> HIDE DEF react
    <3> QED BY <3>2, <3>3 DEF Handled
  <2> QED BY <2>1, <2>2, <2>3
<1>2. /\ links' = links \ gone
      /\ node' = [d \in Devices |-> react(d).m]
      /\ wire' = [a \in Devices |-> [b \in Devices |->
           IF Pair(a, b) \in gone THEN <<>>
           ELSE IF Linked(a, b) THEN wire[a][b] \o react(a).out[b]
           ELSE wire[a][b]]]
  BY Zenon DEF Lose
<1> HIDE DEF react
<1>3. ASSUME NEW a \in Devices, NEW b \in Devices
      PROVE  /\ wire'[a][b] \in Seq(Proper(a, b, held, settled))
             /\ wire'[a][b] \in Seq(Frame)
             /\ wire'[a][b] # <<>> => Linked(a, b) /\ Pair(a, b) \notin gone
  <2>1. wire[a][b] \in Seq(Proper(a, b, held, settled)) /\ (wire[a][b] # <<>> => Linked(a, b))
    BY DEF IInv, WiresOK, Connected
  <2>2. react(a).out[b] \in Seq(Proper(a, b, held, settled))
    BY <1>1 DEF Handled, Sendable
  <2>3. wire[a][b] \o react(a).out[b] \in Seq(Proper(a, b, held, settled))
    BY <2>1, <2>2
  <2>4. wire'[a][b] = IF Pair(a, b) \in gone THEN <<>>
                      ELSE IF Linked(a, b) THEN wire[a][b] \o react(a).out[b]
                      ELSE wire[a][b]
    BY <1>2
  <2>5. wire'[a][b] \in Seq(Proper(a, b, held, settled))
    BY <2>1, <2>3, <2>4
  <2>6. Proper(a, b, held, settled) \subseteq Frame
    BY DEF Proper
  <2> QED BY <2>1, <2>4, <2>5, <2>6
<1>4. wire' \in [Devices -> [Devices -> Seq(Frame)]]
  <2>1. wire' = [a \in Devices |-> wire'[a]]
    BY <1>2
  <2>2. \A a \in Devices : wire'[a] = [b \in Devices |-> wire'[a][b]]
    BY <1>2
  <2>3. \A a \in Devices : wire'[a] \in [Devices -> Seq(Frame)]
    BY <1>3, <2>2
  <2> QED BY <2>1, <2>3
<1>5. WiresOK(wire', held, settled)
  BY <1>3, <1>4 DEF WiresOK
<1>6. Nodes'
  <2>1. \A d \in Devices : NodeOK(d, react(d).m, held, settled) /\ Decided(react(d).m)
    BY <1>1 DEF Handled
  <2>2. \A d \in Devices : react(d).m \in Memory
    BY <2>1 DEF NodeOK
  <2> QED BY <1>2, <2>1, <2>2 DEF Nodes
<1>7. Connected'
  <2>1. links' \subseteq SUBSET Devices
    BY <1>2 DEF IInv, Connected
  <2>2. \A a, b \in Devices : wire'[a][b] # <<>> => Linked(a, b)'
    BY <1>2, <1>3 DEF Linked
  <2>3. \A d \in Devices \ restarted : node'[d].wan = node[d].wan
    BY <1>1, <1>2
  <2> QED BY <2>1, <2>2, <2>3 DEF IInv, Connected
<1> QED BY <1>5, <1>6, <1>7 DEF IInv, Cloudy, CheckpointInCloud

LEMMA LinkDownKeeps ==
  ASSUME IInv, NEW a \in Devices, NEW b \in Devices, LinkDown(a, b) PROVE IInv'
<1>1. Lose({Pair(a, b)}, {}) /\ UNCHANGED <<held, ckpt, up, down, settled>>
  BY DEF LinkDown, cloud
<1>2. SceneOK'
  BY SpendKeeps DEF LinkDown
<1>3. /\ up' \in [Devices -> Seq(Pushes(held))] /\ down' \in [Devices -> Seq(Acks(settled))]
      /\ \A d \in Devices : up'[d] # <<>> => up[d] # <<>> /\ d \notin {}
      /\ \A d \in Devices : down'[d] # <<>> => down[d] # <<>> /\ d \notin {}
  BY <1>1 DEF IInv, Cloudy
<1> DEFINE gone == {Pair(a, b)}
           none == {}
<1>4. Lose(gone, none) /\ none \in SUBSET Devices
  BY <1>1
<1>5. /\ \A d \in Devices : up'[d] # <<>> => up[d] # <<>> /\ d \notin none
      /\ \A d \in Devices : down'[d] # <<>> => down[d] # <<>> /\ d \notin none
  BY <1>3
<1> HIDE DEF gone, none
<1> QED BY <1>1, <1>2, <1>3, <1>4, <1>5, LoseKeeps

(* A connection that ends takes what was on it.                            *)
LEMMA CloudCleared ==
  ASSUME IInv, NEW d \in Devices, up' = [up EXCEPT ![d] = <<>>], down' = [down EXCEPT ![d] = <<>>]
  PROVE  /\ up' \in [Devices -> Seq(Pushes(held))] /\ down' \in [Devices -> Seq(Acks(settled))]
         /\ \A p \in Devices : up'[p] # <<>> => up[p] # <<>> /\ p \notin {d}
         /\ \A p \in Devices : down'[p] # <<>> => down[p] # <<>> /\ p \notin {d}
<1>1. <<>> \in Seq(Pushes(held)) /\ <<>> \in Seq(Acks(settled))
  OBVIOUS
<1>2. up \in [Devices -> Seq(Pushes(held))] /\ down \in [Devices -> Seq(Acks(settled))]
  BY DEF IInv, Cloudy
<1> QED BY <1>1, <1>2

LEMMA RestartKeeps ==
  ASSUME IInv, NEW d \in Devices, Restart(d) PROVE IInv'
<1>1. Lose({l \in links : d \in l}, {d}) /\ UNCHANGED <<held, ckpt, settled>>
      /\ up' = [up EXCEPT ![d] = <<>>] /\ down' = [down EXCEPT ![d] = <<>>]
  BY DEF Restart
<1>2. SceneOK'
  BY SpendKeeps DEF Restart
<1> DEFINE gone == {l \in links : d \in l}
           self == {d}
<1>3. Lose(gone, self) /\ self \in SUBSET Devices
  BY <1>1
<1>4. /\ up' \in [Devices -> Seq(Pushes(held))] /\ down' \in [Devices -> Seq(Acks(settled))]
      /\ \A p \in Devices : up'[p] # <<>> => up[p] # <<>> /\ p \notin self
      /\ \A p \in Devices : down'[p] # <<>> => down[p] # <<>> /\ p \notin self
  BY <1>1, CloudCleared
<1> HIDE DEF gone, self
<1> QED BY <1>1, <1>2, <1>3, <1>4, LoseKeeps

-----------------------------------------------------------------------------
(* The cloud connection.                                                   *)

LEMMA CloudStep ==
  ASSUME IInv, NEW d \in Devices, NEW m2, NodeOK(d, m2, held, settled'), Decided(m2),
         node' = [node EXCEPT ![d] = m2], Grows(held, settled, held, settled'), Cloudy',
         \A p \in Devices : up'[p] # <<>> \/ down'[p] # <<>> => node'[p].wan,
         SceneOK', UNCHANGED <<held, links, wire>>
  PROVE  IInv'
<1>1. Nodes'
  BY NodesStay
<1>2. WiresOK(wire', held', settled')
  BY WiresStayOK DEF IInv
<1>3. Connected'
  BY DEF IInv, Connected, Linked
<1> QED BY <1>1, <1>2, <1>3 DEF IInv

LEMMA WanUpKeeps ==
  ASSUME IInv, NEW d \in Devices, WanUp(d) PROVE IInv'
<1> DEFINE m == [node[d] EXCEPT !.wan = TRUE]
           own == OwnPush(d, ckpt[d], held[d])
           relay == RelayDrain(d, m, held[d], Devices)
<1>1. /\ node' = [node EXCEPT ![d] = m] /\ up' = [up EXCEPT ![d] = own \o relay]
      /\ UNCHANGED <<held, ckpt, links, wire, down, settled, scene>>
  BY DEF WanUp
<1>2. NodeOK(d, m, held, settled) /\ Decided(m) /\ m.wan
  <2>1. m.wan
    BY NodeAsItIs DEF NodeOK, Memory
  <2>2. NodeOK(d, m, held, settled) /\ Decided(m)
    BY NodeAsItIs DEF NodeOK, Memory, Serving, Decided
  <2> QED BY <2>1, <2>2
<1> HIDE DEF m
<1>3. own \o relay \in Seq(Pushes(held))
  <2>1. own \in Seq(Pushes(held)) /\ relay \in Seq(Pushes(held))
    BY OwnPushOK, RelayOK DEF IInv
  <2> HIDE DEF own, relay
  <2> QED BY <2>1
<1> HIDE DEF own, relay
<1>4. Cloudy'
  BY <1>1, <1>3 DEF IInv, Cloudy, CheckpointInCloud
<1>5. \A p \in Devices : up'[p] # <<>> \/ down'[p] # <<>> => node'[p].wan
  <2>1. node'[d].wan
    BY <1>1, <1>2 DEF IInv, Nodes
  <2>2. ASSUME NEW p \in Devices \ {d} PROVE up'[p] = up[p] /\ down'[p] = down[p] /\ node'[p] = node[p]
    BY <1>1 DEF IInv, Cloudy, Nodes
  <2> QED BY <2>1, <2>2 DEF IInv, Connected
<1>6. settled' = settled /\ SceneOK'
  BY <1>1, SceneStays
<1> QED BY <1>1, <1>2, <1>4, <1>5, <1>6, Same, CloudStep

LEMMA WanDownKeeps ==
  ASSUME IInv, NEW d \in Devices, WanDown(d) PROVE IInv'
<1> DEFINE m == [node[d] EXCEPT !.wan = FALSE]
<1>1. /\ node' = [node EXCEPT ![d] = m]
      /\ up' = [up EXCEPT ![d] = <<>>] /\ down' = [down EXCEPT ![d] = <<>>]
      /\ UNCHANGED <<held, ckpt, links, wire, settled>>
  BY DEF WanDown
<1>2. NodeOK(d, m, held, settled) /\ Decided(m)
  BY NodeAsItIs DEF NodeOK, Memory, Serving, Decided
<1> HIDE DEF m
<1>3. Cloudy'
  BY <1>1, CloudCleared DEF IInv, Cloudy, CheckpointInCloud
<1>4. \A p \in Devices : up'[p] # <<>> \/ down'[p] # <<>> => node'[p].wan
  BY <1>1, CloudCleared DEF IInv, Connected, Nodes
<1>5. settled' = settled /\ SceneOK'
  BY <1>1, SpendKeeps DEF WanDown
<1> QED BY <1>1, <1>2, <1>3, <1>4, <1>5, Same, CloudStep

(* The watermark the gateway acks is never below the one it had.           *)
LEMMA SettledRises ==
  ASSUME IInv, NEW push \in Pushes(held)
  PROVE  SettledAfter(push) \in Mark /\ settled[push.origin] <= SettledAfter(push)
<1> DEFINE old == settled[push.origin]
           S == {old} \cup {s \in push.slots : (old + 1)..s \subseteq push.slots}
<1>1. push.origin \in Devices /\ push.slots \in SUBSET Nat
      /\ push.slots \subseteq Slots(held[push.origin], push.origin)
  BY DEF Pushes
<1>2. PICK n \in Nat : Slots(held[push.origin], push.origin) = 0..(n - 1)
  BY <1>1 DEF IInv, Ledger, Numbered
<1>3. old \in Mark
  BY <1>1 DEF IInv, Cloudy
<1>4. PICK b \in Nat : n <= b /\ old <= b
  <2>1. CASE old <= n
    BY <2>1
  <2>2. CASE ~(old <= n)
    BY <1>3, <2>2 DEF Mark
  <2> QED BY <2>1, <2>2
<1>5. S \in SUBSET Mark /\ S # {} /\ old \in S /\ \A x \in S : x <= b
  <2>1. ASSUME NEW x \in S PROVE x \in Mark /\ x <= b
    <3>1. CASE x = old
      BY <1>3, <1>4, <3>1
    <3>2. CASE x # old
      <4>1. x \in 0..(n - 1)
        BY <1>1, <1>2, <3>2
      <4> QED BY <1>4, <4>1 DEF Mark
    <3> QED BY <3>1, <3>2
  <2> QED BY <2>1
<1>6. SettledAfter(push) = Max(S)
  BY Zenon DEF SettledAfter
<1> HIDE DEF S
<1>7. Max(S) \in S /\ \A x \in S : x <= Max(S)
  BY <1>5, GreatestMark
<1> QED BY <1>5, <1>6, <1>7

LEMMA CloudSettlesKeeps ==
  ASSUME IInv, NEW d \in Devices, CloudSettles(d) PROVE IInv'
<1> DEFINE push == Head(up[d])
           mark == SettledAfter(push)
           acks == IF mark < 0 THEN down[d]
                   ELSE Append(down[d], [origin |-> push.origin, mark |-> mark])
<1>1. /\ settled' = [settled EXCEPT ![push.origin] = mark]
      /\ down' = [down EXCEPT ![d] = acks]
      /\ up' = [up EXCEPT ![d] = Tail(@)] /\ up[d] # <<>>
      /\ UNCHANGED <<node, held, ckpt, links, wire, scene>>
  BY DEF CloudSettles
<1>2. push \in Pushes(held) /\ Tail(up[d]) \in Seq(Pushes(held)) /\ up[d] # <<>>
  BY <1>1 DEF IInv, Cloudy
<1>3. mark \in Mark /\ settled[push.origin] <= mark /\ push.origin \in Devices
  BY <1>2, SettledRises DEF Pushes
<1> HIDE DEF push, mark
<1>4. /\ settled' \in [Devices -> Mark] /\ settled'[push.origin] = mark
      /\ \A p \in Devices : settled[p] <= settled'[p]
  <2>1. settled \in [Devices -> Mark]
    BY DEF IInv, Cloudy
  <2>2. /\ settled' \in [Devices -> Mark] /\ settled'[push.origin] = mark
        /\ \A p \in Devices \ {push.origin} : settled'[p] = settled[p]
    BY <1>1, <1>3, <2>1
  <2>3. \A p \in Devices : settled[p] <= settled[p]
    BY <2>1 DEF Mark
  <2> QED BY <1>3, <2>2, <2>3
<1>5. Grows(held, settled, held, settled')
  BY <1>4 DEF IInv, Cloudy, Grows
<1>6. acks \in Seq(Acks(settled'))
  <2>1. down[d] \in Seq(Acks(settled'))
    BY <1>5, AcksGrow DEF IInv, Cloudy
  <2>2. [origin |-> push.origin, mark |-> mark] \in Acks(settled')
    BY <1>3, <1>4 DEF Acks, Mark
  <2> QED BY <2>1, <2>2
<1> HIDE DEF acks
<1>7. Cloudy'
  <2>1. down \in [Devices -> Seq(Acks(settled'))]
    BY <1>5, AcksGrow DEF IInv, Cloudy
  <2>2. down' \in [Devices -> Seq(Acks(settled'))]
    BY <1>1, <1>6, <2>1
  <2>3. up' \in [Devices -> Seq(Pushes(held'))]
    BY <1>1, <1>2 DEF IInv, Cloudy
  <2>4. ASSUME NEW p \in Devices PROVE ckpt[p] <= settled'[p]
    <3>1. /\ ckpt[p] \in Mark /\ settled[p] \in Mark /\ settled'[p] \in Mark
          /\ ckpt[p] <= settled[p] /\ settled[p] <= settled'[p]
      BY <1>4 DEF IInv, Cloudy, CheckpointInCloud
    <3> QED BY <3>1 DEF Mark
  <2> QED BY <1>1, <1>4, <2>2, <2>3, <2>4 DEF IInv, Cloudy, CheckpointInCloud
<1>8. \A p \in Devices : up'[p] # <<>> \/ down'[p] # <<>> => node'[p].wan
  <2>1. node[d].wan /\ node' = node
    BY <1>1 DEF IInv, Connected
  <2>2. ASSUME NEW p \in Devices \ {d} PROVE up'[p] = up[p] /\ down'[p] = down[p]
    BY <1>1 DEF IInv, Cloudy
  <2> QED BY <2>1, <2>2 DEF IInv, Connected
<1>9. NodeOK(d, node[d], held, settled') /\ Decided(node[d])
      /\ node' = [node EXCEPT ![d] = node[d]]
  BY <1>1, <1>5, NodeAsItIs, NodeStaysOK
<1> QED BY <1>1, <1>5, <1>7, <1>8, <1>9, SceneStays, CloudStep

LEMMA OnCloudAckKeeps ==
  ASSUME IInv, NEW d \in Devices, OnCloudAck(d) PROVE IInv'
<1> DEFINE ack == Head(down[d])
           m == [node[d] EXCEPT !.relayed[ack.origin] = ack.mark]
           more == IF ack.origin = d THEN OwnPush(d, ckpt'[d], held[d])
                   ELSE RelayDrain(d, m, held[d], {ack.origin})
<1>1. /\ down[d] # <<>> /\ down' = [down EXCEPT ![d] = Tail(@)]
      /\ UNCHANGED <<held, links, wire, settled, scene>>
  BY DEF OnCloudAck
<1>2. \/ /\ node' = [node EXCEPT ![d] = m]
         /\ ckpt' = [ckpt EXCEPT ![d] = IF ack.origin = d THEN Max({@, ack.mark}) ELSE @]
         /\ up' = [up EXCEPT ![d] = @ \o more]
      \/ UNCHANGED <<node, ckpt, up>>
  BY DEF OnCloudAck
<1>3. ack \in Acks(settled) /\ Tail(down[d]) \in Seq(Acks(settled))
  BY <1>1 DEF IInv, Cloudy
<1>4. ack.origin \in Devices /\ ack.mark \in Mark /\ ack.mark <= settled[ack.origin]
  BY <1>3 DEF Acks
<1> HIDE DEF ack
<1>5. node[d].wan
  BY <1>1 DEF IInv, Connected
<1>6. NodeOK(d, m, held, settled) /\ Decided(m) /\ m.wan
  BY <1>4, <1>5, NodeAsItIs DEF NodeOK, Memory, Serving, Decided
<1> HIDE DEF m
<1>7. more \in Seq(Pushes(held))
  BY <1>4, OwnPushOK, RelayOK DEF IInv
<1> HIDE DEF more
<1>8. ckpt' \in [Devices -> Mark] /\ \A p \in Devices : ckpt'[p] <= settled[p]
  <2>1. CASE UNCHANGED ckpt
    BY <2>1, CkptStays
  <2>2. CASE ckpt' = [ckpt EXCEPT ![d] = IF ack.origin = d THEN Max({@, ack.mark}) ELSE @]
    <3>1. /\ ckpt \in [Devices -> Mark] /\ ckpt[d] \in Mark
          /\ \A p \in Devices : ckpt[p] <= settled[p]
      BY DEF IInv, Cloudy, CheckpointInCloud
    <3>2. Max({ckpt[d], ack.mark}) \in {ckpt[d], ack.mark}
      <4>1. ckpt[d] \in Int /\ ack.mark \in Int
        BY <1>4, <3>1 DEF Mark
      <4> QED BY <4>1, GreaterOfTwo
    <3>3. /\ ckpt'[d] \in Mark /\ ckpt'[d] <= settled[d]
          /\ \A p \in Devices \ {d} : ckpt'[p] = ckpt[p]
      BY <1>4, <2>2, <3>1, <3>2
    <3>4. ckpt' \in [Devices -> Mark]
      BY <2>2, <3>1, <3>3
    <3> QED BY <3>1, <3>3, <3>4
  <2> QED BY <1>2, <2>1, <2>2
<1>9. /\ up' \in [Devices -> Seq(Pushes(held))]
      /\ down' \in [Devices -> Seq(Acks(settled))]
      /\ \A p \in Devices \ {d} : up'[p] = up[p] /\ down'[p] = down[p]
  <2>1. /\ up \in [Devices -> Seq(Pushes(held))] /\ down \in [Devices -> Seq(Acks(settled))]
    BY DEF IInv, Cloudy
  <2>2. up[d] \o more \in Seq(Pushes(held))
    BY <1>7, <2>1
  <2> QED BY <1>1, <1>2, <1>3, <2>1, <2>2
<1>10. Cloudy'
  BY <1>1, <1>8, <1>9 DEF IInv, Cloudy, CheckpointInCloud
<1>11. SceneOK' /\ settled' = settled
  BY <1>1, SceneStays
<1>12. CASE node' = [node EXCEPT ![d] = m]
  <2>1. \A p \in Devices : up'[p] # <<>> \/ down'[p] # <<>> => node'[p].wan
    BY <1>6, <1>9, <1>12 DEF IInv, Connected, Nodes
  <2> QED BY <1>1, <1>6, <1>10, <1>11, <1>12, <2>1, Same, CloudStep
<1>13. CASE UNCHANGED node
  <2>1. \A p \in Devices : up'[p] # <<>> \/ down'[p] # <<>> => node'[p].wan
    BY <1>5, <1>9, <1>13 DEF IInv, Connected
  <2>2. NodeOK(d, node[d], held, settled) /\ Decided(node[d])
        /\ node' = [node EXCEPT ![d] = node[d]]
    BY <1>13, NodeAsItIs
  <2> QED BY <1>1, <1>10, <1>11, <2>1, <2>2, Same, CloudStep
<1> QED BY <1>2, <1>12, <1>13

-----------------------------------------------------------------------------

LEMMA InitIInv == ASSUME Init PROVE IInv
<1>1. scene \in [on : SUBSET Devices, first : [Devices -> Nat],
                 last : [Devices -> Nat], failures : Nat]
  BY MeshAssumption DEF Init
<1>2. Ledger(held)
  <2>1. ASSUME NEW d \in Devices
        PROVE  held[d] = {[origin |-> d, slot |-> s] : s \in 0..(scene.first[d] - 1)}
    BY DEF Init
  <2>2. ASSUME NEW d \in Devices PROVE scene.first[d] \in Nat
    BY <1>1
  <2>3. ASSUME NEW d \in Devices
        PROVE  /\ held[d] \in SUBSET Event /\ \A e \in held[d] : e.origin = d
               /\ Slots(held[d], d) = 0..(scene.first[d] - 1)
    <3> DEFINE n == scene.first[d]
    <3>1. n \in Nat
      BY <2>2
    <3> HIDE DEF n
    <3>2. held[d] = {[origin |-> d, slot |-> s] : s \in 0..(n - 1)}
      BY <2>1 DEF n
    <3>3. \A s \in 0..(n - 1) : s \in Nat
      BY <3>1
    <3>4. held[d] \in SUBSET Event /\ \A e \in held[d] : e.origin = d
      BY <3>2, <3>3 DEF Event
    <3>5. ASSUME NEW s \in Nat PROVE s \in Slots(held[d], d) <=> s \in 0..(n - 1)
      <4>1. [origin |-> d, slot |-> s] \in held[d] <=> s \in 0..(n - 1)
        BY <3>2
      <4> QED BY <3>4, <4>1, SlotHeld
    <3>6. Slots(held[d], d) = 0..(n - 1)
      BY <3>3, <3>4, <3>5, SlotsAreNat
    <3> QED BY <3>4, <3>6 DEF n
  <2>4. held \in [Devices -> SUBSET Event]
    <3>1. held = [d \in Devices |-> held[d]]
      BY DEF Init
    <3> QED BY <2>3, <3>1
  <2>5. \A d \in Devices : held[d] \subseteq Made(held)
    BY <2>3 DEF Made
  <2>6. Numbered(held)
    BY <2>2, <2>3 DEF Numbered
  <2> QED BY <2>4, <2>5, <2>6 DEF Ledger
<1>3. /\ settled = [d \in Devices |-> -1] /\ ckpt = settled
      /\ up = [d \in Devices |-> <<>>] /\ down = up /\ links = {}
      /\ wire = [a \in Devices |-> [b \in Devices |-> <<>>]]
      /\ node = [d \in Devices |-> Started(d)]
  BY DEF Init
<1>4. WiresOK(wire, held, settled)
  BY <1>3 DEF WiresOK
<1>5. settled \in [Devices -> Mark]
  BY <1>3 DEF Mark
<1>6. Nodes
  <2>1. ASSUME NEW d \in Devices
        PROVE NodeOK(d, node[d], held, settled) /\ Decided(node[d])
    BY <1>3, <1>5, StartedOK
  <2>2. node \in [Devices -> Memory]
    BY <1>3, <2>1 DEF NodeOK
  <2> QED BY <2>1, <2>2 DEF Nodes
<1>7. Cloudy
  <2>1. <<>> \in Seq(Pushes(held)) /\ <<>> \in Seq(Acks(settled))
    OBVIOUS
  <2>2. \A d \in Devices : ckpt[d] <= settled[d]
    BY <1>3
  <2> QED BY <1>3, <1>5, <2>1, <2>2 DEF Cloudy, CheckpointInCloud
<1>8. Connected
  BY <1>3 DEF Connected
<1> QED BY <1>1, <1>2, <1>4, <1>6, <1>7, <1>8 DEF IInv, SceneOK

LEMMA NextKeeps == ASSUME IInv, [Next]_vars PROVE IInv'
<1>1. ASSUME NEW d \in Devices, AppendEvent(d) PROVE IInv'
  BY <1>1, AppendKeeps
<1>2. ASSUME NEW d \in Devices, Timers(d) PROVE IInv'
  BY <1>2, FollowerTickKeeps, TimesOutKeeps, HeartbeatKeeps DEF Timers, LossCheck, HelloTimeout
<1>3. ASSUME NEW d \in Devices, WanUp(d) \/ Cloud(d) PROVE IInv'
  BY <1>3, WanUpKeeps, CloudSettlesKeeps, OnCloudAckKeeps DEF Cloud
<1>4. ASSUME NEW a \in Devices, NEW b \in Devices, LinkUp(a, b) PROVE IInv'
  BY <1>4, LinkUpKeeps
<1>5. ASSUME NEW d \in Devices, NEW p \in Devices, Receive(d, p) PROVE IInv'
  <2>1. CASE OnHello(d, p) \/ OnHelloAck(d, p) \/ OnLanAck(d, p)
    BY <2>1, HelloKeeps, HelloAckKeeps, LanAckKeeps
  <2>2. CASE OnPush(d, p) \/ OnBatch(d, p)
    BY <2>2, PushKeeps, BatchKeeps
  <2>3. CASE OnCloudAckRelayed(d, p) \/ OnPing(d, p) \/ OnPong(d, p)
    BY <2>3, CloudAckKeeps, BeatKeeps
  <2> QED BY <1>5, <2>1, <2>2, <2>3 DEF Receive
<1>6. ASSUME Failure PROVE IInv'
  BY <1>6, LinkDownKeeps, MissedBeatsKeeps, RestartKeeps, WanDownKeeps DEF Failure
<1>7. CASE UNCHANGED vars
  BY <1>7 DEF vars, IInv, Nodes, Cloudy, CheckpointInCloud, Connected, Linked, SceneOK
<1> QED BY <1>1, <1>2, <1>3, <1>4, <1>5, <1>6, <1>7 DEF Next

LEMMA AlwaysIInv == Spec => []IInv
<1>1. Init => IInv
  BY InitIInv
<1>2. IInv /\ [Next]_vars => IInv'
  BY NextKeeps
<1> QED BY <1>1, <1>2, PTL DEF Spec

(* The memory, disks and sockets of the devices keep their shapes, an      *)
(* election always ends in a role, and nothing is on its way on a socket   *)
(* or a cloud connection that is down.                                     *)
THEOREM TypeCorrect == Spec => []TypeOK
<1>1. IInv => TypeOK
  <2> SUFFICES ASSUME IInv PROVE TypeOK
    OBVIOUS
  <2> DEFINE Settled ==
        [state : {"solo", "hub", "follower"}, visible : SUBSET Devices,
         suspects : SUBSET Devices, hub : Devices \cup {None}, conn : BOOLEAN, resume : Nat,
         lanAck : Mark, fan : Nat, followers : SUBSET Devices, wan : BOOLEAN,
         latch : BOOLEAN, relayed : [Devices -> Mark]]
  <2>1. ASSUME NEW d \in Devices PROVE node[d] \in Settled
    BY DEF IInv, Nodes, Memory, Decided
  <2>2. node \in [Devices -> Settled]
    <3> HIDE DEF Settled
    <3> QED BY <2>1 DEF IInv, Nodes
  <2>3. \A d \in Devices : held[d] \subseteq Event
    BY DEF IInv, Ledger
  <2>4. scene.on \subseteq Devices /\ scene.failures \in Nat
    BY DEF IInv, SceneOK
  <2> QED BY <2>2, <2>3, <2>4, Zenon DEF TypeOK, IInv, Cloudy, Connected
<1> QED BY <1>1, AlwaysIInv, PTL

(* A device never forgets an own event the cloud lacks: whichever hubs     *)
(* relayed for it, however late an ack is forwarded and whoever restarts,  *)
(* its own checkpoint stays at or below the cloud's watermark.             *)
THEOREM CheckpointsAreSafe == Spec => []CheckpointInCloud
<1>1. IInv => CheckpointInCloud
  BY DEF IInv, Cloudy
<1> QED BY <1>1, AlwaysIInv, PTL

(* A follower drops from its pushes only what its hub has on disk: the     *)
(* resume point of the hello_ack and the LAN ack both speak of slots the   *)
(* hub's ledger holds without a hole, through hub changes and failures.    *)
THEOREM LanCursorsAreSafe == Spec => []LanCursorHeld
<1>1. ASSUME IInv, NEW d \in Devices, node[d].conn
      PROVE  0..Max({node[d].resume - 1, node[d].lanAck}) \subseteq Slots(held[node[d].hub], d)
  <2>1. /\ 0..(node[d].resume - 1) \subseteq Slots(held[node[d].hub], d)
        /\ 0..node[d].lanAck \subseteq Slots(held[node[d].hub], d)
    BY <1>1 DEF IInv, Nodes, NodeOK
  <2>2. node[d].resume - 1 \in Int /\ node[d].lanAck \in Int
    BY <1>1 DEF IInv, Nodes, Memory, Mark
  <2>3. Max({node[d].resume - 1, node[d].lanAck}) \in {node[d].resume - 1, node[d].lanAck}
    BY <2>2, GreaterOfTwo
  <2> QED BY <2>1, <2>3
<1>2. IInv => LanCursorHeld
  BY <1>1 DEF LanCursorHeld
<1> QED BY <1>2, AlwaysIInv, PTL

-----------------------------------------------------------------------------
(* Who relays.                                                             *)

LawfulGrowth(p) ==
  Len(up'[p]) > Len(up[p]) /\ up'[p][Len(up'[p])].origin # p => Serving(node'[p])

LEMMA GrowsByOwn ==
  ASSUME NEW S, NEW s \in Seq(S), NEW own \in Seq(S), NEW d,
         \A i \in 1..Len(own) : own[i].origin = d, own # <<>>
  PROVE  (s \o own)[Len(s \o own)].origin = d
<1>1. Len(own) \in 1..Len(own) /\ Len(s) \in Nat
  OBVIOUS
<1>2. Len(s \o own) = Len(s) + Len(own) /\ (s \o own)[Len(s) + Len(own)] = own[Len(own)]
  BY <1>1
<1> QED BY <1>1, <1>2

(* More on the queue of one device: own events, or a hub's relay.          *)
LEMMA LawfulAdded ==
  ASSUME IInv, IInv', NEW d \in Devices, NEW p \in Devices,
         NEW own \in Seq(Pushes(held')), \A i \in 1..Len(own) : own[i].origin = d,
         NEW relay \in Seq(Pushes(held')), relay # <<>> => node'[d].latch,
         NEW q, q \in Seq(Pushes(held')), Len(q) <= Len(up[d]),
         up' = [up EXCEPT ![d] = (q \o own) \o relay]
  PROVE  LawfulGrowth(p)
<1>1. up \in [Devices -> Seq(Pushes(held))]
  BY DEF IInv, Cloudy
<1>2. CASE p # d
  BY <1>1, <1>2 DEF LawfulGrowth
<1>3. CASE p = d /\ relay # <<>>
  BY <1>3 DEF LawfulGrowth, IInv, Nodes, NodeOK
<1>4. CASE p = d /\ relay = <<>>
  <2>1. up'[d] = q \o own
    BY <1>1, <1>4
  <2>2. CASE own = <<>>
    <3>1. up'[d] = q
      BY <2>1, <2>2
    <3> QED BY <1>1, <1>4, <3>1 DEF LawfulGrowth
  <2>3. CASE own # <<>>
    <3>1. (q \o own)[Len(q \o own)].origin = d
      BY <2>3, GrowsByOwn
    <3> QED BY <1>4, <2>1, <3>1 DEF LawfulGrowth
  <2> QED BY <2>2, <2>3
<1> QED BY <1>2, <1>3, <1>4

LEMMA LawfulSame ==
  ASSUME IInv, NEW p \in Devices, up'[p] = up[p] \/ up'[p] = <<>> PROVE LawfulGrowth(p)
<1>1. Len(up[p]) \in Nat
  BY DEF IInv, Cloudy
<1> QED BY <1>1 DEF LawfulGrowth

LEMMA LawfulAppend ==
  ASSUME IInv, IInv', NEW d \in Devices, AppendEvent(d), NEW p \in Devices
  PROVE  LawfulGrowth(p)
<1> DEFINE evs == held[d] \cup {[origin |-> d, slot |-> Own(d)]}
           own == OwnPush(d, ckpt[d], evs)
<1>1. up \in [Devices -> Seq(Pushes(held))] /\ held \in [Devices -> SUBSET Event]
  BY DEF IInv, Cloudy, Ledger
<1>2. held'[d] = evs /\ up' = [up EXCEPT ![d] = IF node[d].wan THEN @ \o own ELSE @]
  BY <1>1 DEF AppendEvent
<1>3. CASE ~node[d].wan \/ p # d
  <2>1. up'[p] = up[p]
    BY <1>1, <1>2, <1>3
  <2> QED BY <2>1, LawfulSame
<1>4. CASE node[d].wan /\ p = d
  <2>1. own \in Seq(Pushes(held')) /\ \A i \in 1..Len(own) : own[i].origin = d
    <3>1. Ledger(held') /\ evs = held'[d]
      BY <1>2 DEF IInv
    <3> HIDE DEF evs
    <3>2. own = OwnPush(d, ckpt[d], held'[d])
      BY <3>1
    <3> HIDE DEF own
    <3> QED BY <3>1, <3>2, OwnPushOK
  <2>2. up[d] \in Seq(Pushes(held)) /\ up'[d] = up[d] \o own
    BY <1>1, <1>2, <1>4
  <2> HIDE DEF own
  <2>3. CASE own = <<>>
    <3>1. up'[d] = up[d]
      BY <2>2, <2>3
    <3> QED BY <1>4, <3>1, LawfulSame
  <2>4. CASE own # <<>>
    <3> DEFINE U == Pushes(held) \cup Pushes(held')
    <3>1. up[d] \in Seq(U) /\ own \in Seq(U)
      BY <2>1, <2>2
    <3> HIDE DEF U
    <3>2. (up[d] \o own)[Len(up[d] \o own)].origin = d
      BY <2>1, <2>4, <3>1, GrowsByOwn
    <3> QED BY <1>4, <2>2, <3>2 DEF LawfulGrowth
  <2> QED BY <2>3, <2>4
<1> QED BY <1>3, <1>4

LEMMA LawfulPush ==
  ASSUME IInv, IInv', NEW d \in Devices, NEW a \in Devices, OnPush(d, a), NEW p \in Devices
  PROVE  LawfulGrowth(p)
<1>1. up \in [Devices -> Seq(Pushes(held))] /\ node \in [Devices -> Memory]
  BY DEF IInv, Cloudy, Nodes
<1>2. CASE UNCHANGED up
  BY <1>2, LawfulSame
<1>3. CASE Serving(Now(d, a).m) /\ p = d
  <2>1. node'[d] = [Now(d, a).m EXCEPT !.latch = TRUE]
    BY <1>1, <1>3 DEF OnPush
  <2>2. Now(d, a).m \in Memory
    BY NowHandled DEF Handled, NodeOK
  <2>3. node'[d].latch
    BY <2>1, <2>2 DEF Memory
  <2> QED BY <1>3, <2>3 DEF LawfulGrowth, IInv, Nodes, NodeOK
<1>4. CASE p # d /\ ~UNCHANGED up
  <2>1. up'[p] = up[p]
    BY <1>1, <1>4 DEF OnPush
  <2> QED BY <2>1, LawfulSame
<1>5. Serving(Now(d, a).m) \/ UNCHANGED up
  BY DEF OnPush
<1> QED BY <1>2, <1>3, <1>4, <1>5

LEMMA LawfulWanUp ==
  ASSUME IInv, IInv', NEW d \in Devices, WanUp(d), NEW p \in Devices
  PROVE  LawfulGrowth(p)
<1> DEFINE m == [node[d] EXCEPT !.wan = TRUE]
           own == OwnPush(d, ckpt[d], held[d])
           relay == RelayDrain(d, m, held[d], Devices)
<1>1. /\ node' = [node EXCEPT ![d] = m] /\ up' = [up EXCEPT ![d] = own \o relay]
      /\ UNCHANGED held
  BY DEF WanUp
<1>2. node'[d] = m
  BY <1>1 DEF IInv, Nodes
<1>3. /\ own \in Seq(Pushes(held')) /\ \A i \in 1..Len(own) : own[i].origin = d
  BY <1>1, OwnPushOK DEF IInv
<1>4. relay \in Seq(Pushes(held')) /\ (relay # <<>> => node'[d].latch)
  <2> HIDE DEF m
  <2> QED BY <1>1, <1>2, RelayOK DEF IInv
<1> HIDE DEF own, relay
<1> DEFINE none == <<>>
<1>5. none \in Seq(Pushes(held')) /\ Len(none) <= Len(up[d]) /\ none \o own = own
  <2>1. Len(up[d]) \in Nat
    BY DEF IInv, Cloudy
  <2> QED BY <1>3, <2>1
<1>6. up' = [up EXCEPT ![d] = (none \o own) \o relay]
  BY <1>1, <1>5
<1> HIDE DEF none
<1> QED BY <1>3, <1>4, <1>5, <1>6, LawfulAdded

LEMMA LawfulCloudAck ==
  ASSUME IInv, IInv', NEW d \in Devices, OnCloudAck(d), NEW p \in Devices
  PROVE  LawfulGrowth(p)
<1> DEFINE ack == Head(down[d])
           m == [node[d] EXCEPT !.relayed[ack.origin] = ack.mark]
           own == OwnPush(d, ckpt'[d], held[d])
           relay == RelayDrain(d, m, held[d], {ack.origin})
<1>1. up \in [Devices -> Seq(Pushes(held))] /\ UNCHANGED held
  BY DEF IInv, Cloudy, OnCloudAck
<1>2. CASE UNCHANGED up
  BY <1>2, LawfulSame
<1>3. CASE /\ node' = [node EXCEPT ![d] = m]
           /\ up' = [up EXCEPT ![d] = @ \o (IF ack.origin = d THEN own ELSE relay)]
  <2>1. ack \in Acks(settled)
    BY DEF IInv, Cloudy, OnCloudAck
  <2>2. ack.origin \in Devices
    BY <2>1 DEF Acks
  <2> HIDE DEF ack
  <2>3. node'[d] = m
    BY <1>3 DEF IInv, Nodes
  <2>4. /\ own \in Seq(Pushes(held')) /\ \A i \in 1..Len(own) : own[i].origin = d
    BY <1>1, OwnPushOK DEF IInv
  <2> HIDE DEF m
  <2>5. relay \in Seq(Pushes(held')) /\ (relay # <<>> => node'[d].latch)
    BY <1>1, <2>2, <2>3, RelayOK DEF IInv
  <2> HIDE DEF own, relay
  <2>6. up[d] \in Seq(Pushes(held')) /\ Len(up[d]) <= Len(up[d])
    BY <1>1
  <2> DEFINE none == <<>>
  <2>7. none \in Seq(Pushes(held')) /\ ~(none # <<>>) /\ \A i \in 1..Len(none) : none[i].origin = d
    OBVIOUS
  <2>8. CASE ack.origin = d
    <3>1. (up[d] \o own) \o none = up[d] \o own
      BY <2>4, <2>6
    <3>2. up' = [up EXCEPT ![d] = (up[d] \o own) \o none]
      BY <1>3, <2>8, <3>1
    <3> HIDE DEF none
    <3> QED BY <2>4, <2>6, <2>7, <3>2, LawfulAdded
  <2>9. CASE ack.origin # d
    <3>1. up[d] \o none = up[d]
      BY <2>6
    <3>2. up' = [up EXCEPT ![d] = (up[d] \o none) \o relay]
      BY <1>3, <2>9, <3>1
    <3> HIDE DEF none
    <3> QED BY <2>5, <2>6, <2>7, <3>2, LawfulAdded
  <2> QED BY <2>8, <2>9
<1> QED BY <1>2, <1>3 DEF OnCloudAck

(* The pushes that a device without a serving role puts on its cloud       *)
(* connection carry its own events: relaying stops with the role, whatever *)
(* election, reconnect or late ack follows.                                *)
THEOREM OnlyHubsRelay == Spec => FollowersNeverRelay
<1>1. ASSUME IInv, IInv', NEW p \in Devices, NEW d \in Devices,
             AppendEvent(d) \/ WanUp(d) \/ Timers(d) \/ Cloud(d)
      PROVE  LawfulGrowth(p)
  <2>1. CASE AppendEvent(d) \/ WanUp(d) \/ OnCloudAck(d)
    BY <1>1, <2>1, LawfulAppend, LawfulWanUp, LawfulCloudAck
  <2>2. CASE CloudSettles(d)
    <3>1. up' = [up EXCEPT ![d] = Tail(@)] /\ up[d] # <<>>
      BY <2>2 DEF CloudSettles
    <3>2. up \in [Devices -> Seq(Pushes(held))]
      BY <1>1 DEF IInv, Cloudy
    <3>3. Len(Tail(up[d])) <= Len(up[d])
      BY <3>1, <3>2
    <3>4. CASE p = d
      BY <3>1, <3>2, <3>3, <3>4 DEF LawfulGrowth
    <3>5. CASE p # d
      <4>1. up'[p] = up[p]
        BY <3>1, <3>2, <3>5
      <4> QED BY <1>1, <4>1, LawfulSame
    <3> QED BY <3>4, <3>5
  <2>3. CASE Timers(d)
    <3>1. UNCHANGED up
      BY <2>3 DEF Timers, FollowerTick, LossCheck, HelloTimeout, TimesOut, Heartbeat, cloud
    <3> QED BY <1>1, <3>1, LawfulSame
  <2> QED BY <1>1, <2>1, <2>2, <2>3 DEF Cloud
<1>2. ASSUME IInv, IInv', NEW p \in Devices, NEW a \in Devices, NEW b \in Devices,
             LinkUp(a, b) \/ Receive(a, b)
      PROVE  LawfulGrowth(p)
  <2>1. CASE OnPush(a, b)
    BY <1>2, <2>1, LawfulPush
  <2>2. CASE LinkUp(a, b)
    BY <1>2, <2>2, LawfulSame DEF LinkUp, cloud
  <2>3. CASE OnHello(a, b) \/ OnHelloAck(a, b) \/ OnLanAck(a, b) \/ OnCloudAckRelayed(a, b)
    <3>1. UNCHANGED up
      BY <2>3 DEF OnHello, OnHelloAck, OnLanAck, OnCloudAckRelayed, cloud
    <3> QED BY <1>2, <3>1, LawfulSame
  <2>4. CASE OnBatch(a, b) \/ OnPing(a, b) \/ OnPong(a, b)
    <3>1. UNCHANGED up
      BY <2>4 DEF OnBatch, OnPing, OnPong, cloud
    <3> QED BY <1>2, <3>1, LawfulSame
  <2> QED BY <1>2, <2>1, <2>2, <2>3, <2>4 DEF Receive
<1>3. ASSUME IInv, NEW p \in Devices, Failure PROVE LawfulGrowth(p)
  <2>1. up'[p] = up[p] \/ up'[p] = <<>>
    <3>1. up \in [Devices -> Seq(Pushes(held))]
      BY <1>3 DEF IInv, Cloudy
    <3>2. UNCHANGED up \/ \E d \in Devices : up' = [up EXCEPT ![d] = <<>>]
      BY <1>3 DEF Failure, LinkDown, MissedBeats, Restart, WanDown, cloud
    <3> QED BY <3>1, <3>2
  <2> QED BY <1>3, <2>1, LawfulSame
<1>4. IInv /\ IInv' /\ [Next]_vars
      => [\A d \in Devices : Len(up'[d]) > Len(up[d]) /\ up'[d][Len(up'[d])].origin # d
            => Serving(node'[d])]_vars
  <2>1. ASSUME IInv, IInv', Next, NEW p \in Devices PROVE LawfulGrowth(p)
    BY <1>1, <1>2, <1>3, <2>1 DEF Next
  <2> QED BY <2>1 DEF LawfulGrowth
<1> QED BY <1>4, AlwaysIInv, PTL DEF Spec, FollowersNeverRelay

=============================================================================
