-------------------------- MODULE CloudSyncProofs --------------------------
(***************************************************************************)
(* What a device lets go of is in the gateway's log, no event slips        *)
(* between the catch-up read and the live fan-out, and the cursor stays    *)
(* below a standing blockage: for any number of devices, events, batch and *)
(* page sizes, drops and faults.                                           *)
(***************************************************************************)
EXTENDS CloudSync, FiniteSetTheorems, WellFoundedInduction, TLAPS

-----------------------------------------------------------------------------
(* Least and greatest elements.                                            *)

(* Every nonempty set of naturals has a least element.                     *)
LEMMA LeastNatural ==
  ASSUME NEW S \in SUBSET Nat, S # {}
  PROVE  \E m \in S : \A n \in S : m <= n
<1> DEFINE Below == OpToRel(<, Nat)
<1>1. IsWellFoundedOn(Below, Nat)
  BY NatLessThanWellFounded, Zenon
<1>2. \A m, n \in Nat : n < m => <<n, m>> \in Below
  BY Zenon DEF OpToRel
<1> HIDE DEF Below
<1>3. PICK m \in S : \A n \in S : ~ (<<n, m>> \in Below)
  BY <1>1, WFMin, Zenon
<1>4. ASSUME NEW n \in S PROVE ~(n < m)
  BY <1>2, <1>3, Zenon
<1>5. \A n \in S : m <= n
  BY <1>4, SMT
<1> QED BY <1>5, Zenon

(* And a greatest one, if there is a bound.                                *)
LEMMA GreatestNatural ==
  ASSUME NEW S \in SUBSET Nat, S # {}, NEW b \in Nat, \A n \in S : n <= b
  PROVE  Max(S) \in S /\ \A n \in S : n <= Max(S)
<1> DEFINE D == {b - n : n \in S}
<1>1. D \in SUBSET Nat /\ D # {} /\ \A n \in S : b - n \in D
  <2>1. \A n \in S : b - n \in Nat
    OBVIOUS
  <2> QED BY <2>1
<1>2. \A d \in D : \E n \in S : d = b - n
  OBVIOUS
<1> HIDE DEF D
<1>3. PICK d \in D : \A c \in D : d <= c
  BY <1>1, LeastNatural
<1>4. PICK m \in S : d = b - m
  BY <1>2
<1>5. \A n \in S : m >= n
  BY <1>1, <1>3, <1>4
<1>6. Max(S) \in S /\ \A n \in S : Max(S) >= n
  BY <1>5, Zenon DEF Max
<1> QED BY <1>6

-----------------------------------------------------------------------------
(* The frames of either direction, the handlers, and those that outlive    *)
(* their connection.                                                       *)
Marks == Nat \cup {-1}
UpFrames ==
  [kind : {"hello"}] \cup [kind : {"push"}, lo : Nat, hi : Nat] \cup [kind : {"catchup"}, from : Nat]
PageFrames == [kind : {"page"}, seqs : SUBSET Nat, complete : BOOLEAN, next : Nat]
DownFrames ==
  [kind : {"hello_ack"}] \cup [kind : {"push_ack"}, mark : Nat]
    \cup [kind : {"events"}, seqs : SUBSET Nat] \cup PageFrames
Jobs ==
  [kind : {"none", "hello"}] \cup [kind : {"ack"}, seqs : SUBSET Nat, mark : Marks]
    \cup [kind : {"fan"}, seqs : SUBSET Nat] \cup PageFrames
Strays ==
  [kind : {"push"}, dev : Devices, lo : Nat, hi : Nat] \cup [kind : {"fan"}, seqs : SUBSET Nat]
Events == [author : Devices, slot : Nat]
Stages == {"down", "hello", "open"}
Sessions == [stage : Stages, lastAck : Marks, blocked : Nat]

Shape ==
  /\ log \in Seq(Events)
  /\ settled \in [Devices -> Marks]
  /\ joined \subseteq Devices
  /\ job \in [Devices -> Jobs]
  /\ stray \subseteq Strays
  /\ own \in [Devices -> Nat]
  /\ ckpt \in [Devices -> Marks]
  /\ cursor \in [Devices -> Nat]
  /\ held \in [Devices -> SUBSET Nat]
  /\ session \in [Devices -> Sessions]
  /\ up \in [Devices -> Seq(UpFrames)]
  /\ down \in [Devices -> Seq(DownFrames)]
  /\ base \in [Devices -> Nat]
  /\ failed \in [Devices -> SUBSET Nat]

(* What is settled of a device is in the log, and nothing else of it.      *)
SettledInLog ==
  /\ \A i \in Seqs : log[i].slot <= settled[log[i].author]
  /\ \A d \in Devices : \A s \in 0..settled[d] :
       \E i \in Seqs : log[i] = [author |-> d, slot |-> s]

(* Frames and handlers speak of the log as it is, and only a device in the *)
(* fan-out set has been told, or is being told, that its session is open.  *)
Speaks(f, d, members, marks, n) ==
  /\ f.kind \in {"hello", "hello_ack"} => d \in members
  /\ f.kind \in {"push_ack", "ack"} => f.mark <= marks[d]
  /\ f.kind \in {"events", "page", "ack", "fan"} => f.seqs \subseteq 1..n

JobsSpeak(j, members, marks, n) == \A d \in Devices : Speaks(j[d], d, members, marks, n)

DownSpeaks(q, members, marks, n) ==
  \A d \in Devices : \A i \in 1..Len(q[d]) : Speaks(q[d][i], d, members, marks, n)

StraysSpeak(S, n) == \A s \in S : s.kind = "fan" => s.seqs \subseteq 1..n

Told ==
  /\ JobsSpeak(job, joined, settled, Len(log))
  /\ DownSpeaks(down, joined, settled, Len(log))
  /\ StraysSpeak(stray, Len(log))
  /\ \A d \in Devices : session[d].stage = "open" => d \in joined
  /\ \A d \in Devices : ckpt[d] <= settled[d]

LogInv == Shape /\ SettledInLog /\ LogInOrder /\ Told

-----------------------------------------------------------------------------
(* Frames                                                                  *)
LEMMA UpFields ==
  ASSUME NEW f \in UpFrames
  PROVE  /\ f.kind \in {"hello", "push", "catchup"}
         /\ f.kind = "push" => f.lo \in Nat /\ f.hi \in Nat
         /\ f.kind = "catchup" => f.from \in Nat
BY DEF UpFrames

LEMMA DownFields ==
  ASSUME NEW f \in DownFrames
  PROVE  /\ f.kind \in {"hello_ack", "push_ack", "events", "page"}
         /\ f.kind = "push_ack" => f.mark \in Nat
         /\ f.kind \in {"events", "page"} => f.seqs \subseteq Nat
         /\ f.kind = "page" => f.next \in Nat
BY DEF DownFrames, PageFrames

LEMMA JobFields ==
  ASSUME NEW f \in Jobs
  PROVE  /\ f.kind \in {"none", "hello", "ack", "fan", "page"}
         /\ f.kind \in {"ack", "fan", "page"} => f.seqs \subseteq Nat
         /\ f.kind = "ack" => f.mark \in Marks
         /\ f.kind = "page" => f \in PageFrames /\ f \in DownFrames /\ f.next \in Nat
BY DEF Jobs, PageFrames, DownFrames

LEMMA StrayFields ==
  ASSUME NEW s \in Strays
  PROVE  /\ s.kind \in {"push", "fan"}
         /\ s.kind = "push" => s.dev \in Devices /\ s.lo \in Nat /\ s.hi \in Nat
         /\ s.kind = "fan" => s.seqs \subseteq Nat
BY DEF Strays

LEMMA FramesMade ==
  /\ [kind |-> "hello"] \in UpFrames
  /\ \A lo, hi \in Nat : [kind |-> "push", lo |-> lo, hi |-> hi] \in UpFrames
  /\ \A g \in Nat : [kind |-> "catchup", from |-> g] \in UpFrames
  /\ [kind |-> "hello_ack"] \in DownFrames
  /\ \A m \in Nat : [kind |-> "push_ack", mark |-> m] \in DownFrames
  /\ \A s \in SUBSET Nat : [kind |-> "events", seqs |-> s] \in DownFrames
BY DEF UpFrames, DownFrames

LEMMA JobsMade ==
  /\ Idle \in Jobs /\ [kind |-> "hello"] \in Jobs
  /\ \A s \in SUBSET Nat, m \in Marks : [kind |-> "ack", seqs |-> s, mark |-> m] \in Jobs
  /\ \A s \in SUBSET Nat : [kind |-> "fan", seqs |-> s] \in Jobs /\ [kind |-> "fan", seqs |-> s] \in Strays
  /\ \A s \in SUBSET Nat, c \in BOOLEAN, n \in Nat :
       [kind |-> "page", seqs |-> s, complete |-> c, next |-> n] \in Jobs
  /\ \A d \in Devices, lo, hi \in Nat :
       [kind |-> "push", dev |-> d, lo |-> lo, hi |-> hi] \in Strays
BY DEF Jobs, Strays, PageFrames, Idle

LEMMA OutboxShape ==
  ASSUME Shape, NEW d \in Devices, NEW mark \in Marks
  PROVE  Outbox(d, mark) \in Seq(UpFrames)
<1>1. own[d] \in Nat /\ Batch \in Nat \ {0}
  BY CloudSyncAssumption DEF Shape
<1>2. CASE mark + 1 >= own[d]
  BY <1>2 DEF Outbox
<1>3. CASE ~(mark + 1 >= own[d])
  <2>1. mark + 1 \in Nat /\ Least(mark + Batch, own[d] - 1) \in Nat
    BY <1>1, <1>3 DEF Marks, Least
  <2>2. [kind |-> "push", lo |-> mark + 1, hi |-> Least(mark + Batch, own[d] - 1)] \in UpFrames
    BY <2>1, FramesMade
  <2> QED BY <1>3, <2>2 DEF Outbox
<1> QED BY <1>2, <1>3

LEMMA CatchupShape == ASSUME NEW g \in Nat PROVE CatchupFrom(g) \in Seq(UpFrames)
BY FramesMade DEF CatchupFrom

(* An element of a sequence stays where it was, or moves up.               *)
LEMMA AppendAt ==
  ASSUME NEW S, NEW s \in Seq(S), NEW x \in S
  PROVE  /\ Append(s, x) \in Seq(S)
         /\ \A i \in 1..Len(s) : i \in 1..Len(Append(s, x)) /\ Append(s, x)[i] = s[i]
         /\ Len(s) + 1 \in 1..Len(Append(s, x)) /\ Append(s, x)[Len(s) + 1] = x
         /\ \A i \in 1..Len(Append(s, x)) : i \in 1..Len(s) \/ Append(s, x)[i] = x
OBVIOUS

LEMMA TailAt ==
  ASSUME NEW S, NEW s \in Seq(S), s # <<>>
  PROVE  /\ Tail(s) \in Seq(S) /\ Head(s) \in S /\ 1 \in 1..Len(s) /\ Head(s) = s[1]
         /\ \A i \in 1..Len(s) : i = 1 \/ (i - 1 \in 1..Len(Tail(s)) /\ Tail(s)[i - 1] = s[i])
         /\ \A i \in 1..Len(Tail(s)) : i + 1 \in 1..Len(s) /\ Tail(s)[i] = s[i + 1]
OBVIOUS

LEMMA ConcatAt ==
  ASSUME NEW S, NEW s \in Seq(S), NEW t \in Seq(S)
  PROVE  /\ s \o t \in Seq(S) /\ Len(s \o t) = Len(s) + Len(t)
         /\ \A i \in 1..Len(s) : i \in 1..Len(s \o t) /\ (s \o t)[i] = s[i]
         /\ \A i \in 1..Len(t) : Len(s) + i \in 1..Len(s \o t) /\ (s \o t)[Len(s) + i] = t[i]
         /\ \A i \in 1..Len(s \o t) : i \in 1..Len(s) \/ (i - Len(s) \in 1..Len(t) /\ (s \o t)[i] = t[i - Len(s)])
OBVIOUS

-----------------------------------------------------------------------------
(* What frames and handlers say stays true while the log grows.            *)
LEMMA SpeaksGrows ==
  ASSUME NEW f, NEW d \in Devices, NEW members, NEW members2, members \subseteq members2,
         NEW marks \in [Devices -> Marks], NEW marks2 \in [Devices -> Marks],
         marks[d] <= marks2[d], NEW n \in Nat, NEW n2 \in Nat, n <= n2,
         f.kind \in {"push_ack", "ack"} => f.mark \in Marks,
         Speaks(f, d, members, marks, n)
  PROVE  Speaks(f, d, members2, marks2, n2)
<1>1. f.kind \in {"push_ack", "ack"} => f.mark <= marks2[d]
  BY DEF Speaks, Marks
<1>2. 1..n \subseteq 1..n2
  OBVIOUS
<1> QED BY <1>1, <1>2 DEF Speaks

LEMMA DownGrows ==
  ASSUME NEW q \in [Devices -> Seq(DownFrames)], NEW members, NEW members2,
         members \subseteq members2, NEW marks \in [Devices -> Marks],
         NEW marks2 \in [Devices -> Marks], \A d \in Devices : marks[d] <= marks2[d],
         NEW n \in Nat, NEW n2 \in Nat, n <= n2, DownSpeaks(q, members, marks, n)
  PROVE  DownSpeaks(q, members2, marks2, n2)
<1> SUFFICES ASSUME NEW d \in Devices, NEW i \in 1..Len(q[d])
             PROVE  Speaks(q[d][i], d, members2, marks2, n2)
  BY DEF DownSpeaks
<1>1. q[d][i] \in DownFrames /\ Speaks(q[d][i], d, members, marks, n)
  BY DEF DownSpeaks
<1>2. q[d][i].kind \in {"push_ack", "ack"} => q[d][i].mark \in Marks
  BY <1>1, DownFields DEF Marks
<1>3. marks[d] <= marks2[d]
  OBVIOUS
<1> QED BY <1>1, <1>2, <1>3, SpeaksGrows

LEMMA JobsGrow ==
  ASSUME NEW j \in [Devices -> Jobs], NEW members, NEW members2,
         members \subseteq members2, NEW marks \in [Devices -> Marks],
         NEW marks2 \in [Devices -> Marks], \A d \in Devices : marks[d] <= marks2[d],
         NEW n \in Nat, NEW n2 \in Nat, n <= n2, JobsSpeak(j, members, marks, n)
  PROVE  JobsSpeak(j, members2, marks2, n2)
<1> SUFFICES ASSUME NEW d \in Devices
             PROVE  Speaks(j[d], d, members2, marks2, n2)
  BY DEF JobsSpeak
<1>1. j[d] \in Jobs /\ Speaks(j[d], d, members, marks, n)
  BY DEF JobsSpeak
<1>2. j[d].kind \in {"push_ack", "ack"} => j[d].mark \in Marks
  BY <1>1, JobFields
<1>3. marks[d] <= marks2[d]
  OBVIOUS
<1> QED BY <1>1, <1>2, <1>3, SpeaksGrows

LEMMA StraysGrow ==
  ASSUME NEW S, NEW n \in Nat, NEW n2 \in Nat, n <= n2, StraysSpeak(S, n)
  PROVE  StraysSpeak(S, n2)
<1>1. 1..n \subseteq 1..n2
  OBVIOUS
<1> QED BY <1>1 DEF StraysSpeak

LEMMA DownTaken ==
  ASSUME NEW q \in [Devices -> Seq(DownFrames)], NEW members, NEW marks, NEW n,
         DownSpeaks(q, members, marks, n), NEW d \in Devices, q[d] # <<>>
  PROVE  /\ [q EXCEPT ![d] = Tail(@)] \in [Devices -> Seq(DownFrames)]
         /\ DownSpeaks([q EXCEPT ![d] = Tail(@)], members, marks, n)
         /\ Head(q[d]) \in DownFrames /\ Speaks(Head(q[d]), d, members, marks, n)
<1> DEFINE r == [q EXCEPT ![d] = Tail(@)]
<1>1. /\ Tail(q[d]) \in Seq(DownFrames) /\ Head(q[d]) \in DownFrames
      /\ 1 \in 1..Len(q[d]) /\ Head(q[d]) = q[d][1]
      /\ \A i \in 1..Len(Tail(q[d])) : i + 1 \in 1..Len(q[d]) /\ Tail(q[d])[i] = q[d][i + 1]
  BY TailAt
<1>2. r[d] = Tail(q[d]) /\ \A e \in Devices : e # d => r[e] = q[e]
  OBVIOUS
<1>3. r \in [Devices -> Seq(DownFrames)]
  BY <1>1
<1> HIDE DEF r
<1>4. ASSUME NEW e \in Devices, NEW i \in 1..Len(r[e])
      PROVE  Speaks(r[e][i], e, members, marks, n)
  <2>1. CASE e = d
    BY <1>1, <1>2, <1>4, <2>1 DEF DownSpeaks
  <2>2. CASE e # d
    BY <1>2, <1>4, <2>2 DEF DownSpeaks
  <2> QED BY <2>1, <2>2
<1>5. DownSpeaks(r, members, marks, n)
  BY <1>4 DEF DownSpeaks
<1> QED BY <1>1, <1>3, <1>5 DEF r, DownSpeaks

LEMMA DownSent ==
  ASSUME NEW q \in [Devices -> Seq(DownFrames)], NEW members, NEW marks, NEW n,
         DownSpeaks(q, members, marks, n), NEW d \in Devices, NEW f \in DownFrames,
         Speaks(f, d, members, marks, n)
  PROVE  /\ [q EXCEPT ![d] = Append(@, f)] \in [Devices -> Seq(DownFrames)]
         /\ DownSpeaks([q EXCEPT ![d] = Append(@, f)], members, marks, n)
<1> DEFINE r == [q EXCEPT ![d] = Append(@, f)]
<1>1. /\ Append(q[d], f) \in Seq(DownFrames)
      /\ \A i \in 1..Len(q[d]) : i \in 1..Len(Append(q[d], f)) /\ Append(q[d], f)[i] = q[d][i]
      /\ \A i \in 1..Len(Append(q[d], f)) : i \in 1..Len(q[d]) \/ Append(q[d], f)[i] = f
  BY AppendAt
<1>2. r[d] = Append(q[d], f) /\ \A e \in Devices : e # d => r[e] = q[e]
  OBVIOUS
<1>3. r \in [Devices -> Seq(DownFrames)]
  BY <1>1
<1> HIDE DEF r
<1>4. ASSUME NEW e \in Devices, NEW i \in 1..Len(r[e])
      PROVE  Speaks(r[e][i], e, members, marks, n)
  <2>1. CASE e = d
    BY <1>1, <1>2, <1>4, <2>1 DEF DownSpeaks
  <2>2. CASE e # d
    BY <1>2, <1>4, <2>2 DEF DownSpeaks
  <2> QED BY <2>1, <2>2
<1>5. DownSpeaks(r, members, marks, n)
  BY <1>4 DEF DownSpeaks
<1> QED BY <1>3, <1>5 DEF r

LEMMA JobSet ==
  ASSUME NEW j \in [Devices -> Jobs], NEW members, NEW marks, NEW n,
         JobsSpeak(j, members, marks, n), NEW d \in Devices, NEW f \in Jobs,
         Speaks(f, d, members, marks, n)
  PROVE  /\ [j EXCEPT ![d] = f] \in [Devices -> Jobs]
         /\ JobsSpeak([j EXCEPT ![d] = f], members, marks, n)
BY DEF JobsSpeak

LEMMA IdleSpeaks == ASSUME NEW d, NEW members, NEW marks, NEW n PROVE Speaks(Idle, d, members, marks, n)
BY DEF Idle, Speaks

-----------------------------------------------------------------------------
(* A session with one of its parts set.                                    *)
LEMMA SessionSet ==
  ASSUME NEW ses \in [Devices -> Sessions], NEW d \in Devices
  PROVE  /\ \A st \in Stages :
              /\ [ses EXCEPT ![d].stage = st] \in [Devices -> Sessions]
              /\ [ses EXCEPT ![d].stage = st][d].stage = st
              /\ [ses EXCEPT ![d].stage = st][d].blocked = ses[d].blocked
         /\ \A m \in Marks :
              /\ [ses EXCEPT ![d].lastAck = m] \in [Devices -> Sessions]
              /\ [ses EXCEPT ![d].lastAck = m][d].stage = ses[d].stage
              /\ [ses EXCEPT ![d].lastAck = m][d].blocked = ses[d].blocked
         /\ \A b \in Nat :
              /\ [ses EXCEPT ![d].blocked = b] \in [Devices -> Sessions]
              /\ [ses EXCEPT ![d].blocked = b][d].stage = ses[d].stage
              /\ [ses EXCEPT ![d].blocked = b][d].blocked = b
<1>1. ses[d] \in Sessions
  OBVIOUS
<1>2. /\ \A st \in Stages : /\ [ses[d] EXCEPT !.stage = st] \in Sessions
                            /\ [ses[d] EXCEPT !.stage = st].stage = st
                            /\ [ses[d] EXCEPT !.stage = st].blocked = ses[d].blocked
      /\ \A m \in Marks : /\ [ses[d] EXCEPT !.lastAck = m] \in Sessions
                          /\ [ses[d] EXCEPT !.lastAck = m].stage = ses[d].stage
                          /\ [ses[d] EXCEPT !.lastAck = m].blocked = ses[d].blocked
      /\ \A b \in Nat : /\ [ses[d] EXCEPT !.blocked = b] \in Sessions
                        /\ [ses[d] EXCEPT !.blocked = b].stage = ses[d].stage
                        /\ [ses[d] EXCEPT !.blocked = b].blocked = b
  BY <1>1 DEF Sessions
<1> HIDE DEF Sessions
<1>3. /\ \A st \in Stages : [ses EXCEPT ![d].stage = st] = [ses EXCEPT ![d] = [ses[d] EXCEPT !.stage = st]]
      /\ \A m \in Marks : [ses EXCEPT ![d].lastAck = m] = [ses EXCEPT ![d] = [ses[d] EXCEPT !.lastAck = m]]
      /\ \A b \in Nat : [ses EXCEPT ![d].blocked = b] = [ses EXCEPT ![d] = [ses[d] EXCEPT !.blocked = b]]
  OBVIOUS
<1>4. \A x \in Sessions : [ses EXCEPT ![d] = x] \in [Devices -> Sessions] /\ [ses EXCEPT ![d] = x][d] = x
  OBVIOUS
<1> QED BY <1>2, <1>3, <1>4

(* The device's half leaves the gateway alone.                             *)
LEMMA DeviceSide ==
  ASSUME LogInv, UNCHANGED gateway,
         own' \in [Devices -> Nat], ckpt' \in [Devices -> Marks],
         cursor' \in [Devices -> Nat], held' \in [Devices -> SUBSET Nat],
         session' \in [Devices -> Sessions], up' \in [Devices -> Seq(UpFrames)],
         down' \in [Devices -> Seq(DownFrames)], base' \in [Devices -> Nat],
         failed' \in [Devices -> SUBSET Nat],
         DownSpeaks(down', joined, settled, Len(log)),
         \A d \in Devices : session'[d].stage = "open" => d \in joined,
         \A d \in Devices : ckpt'[d] <= settled[d]
  PROVE  LogInv'
<1>1. /\ log' = log /\ settled' = settled /\ joined' = joined /\ job' = job /\ stray' = stray
  BY DEF gateway
<1>2. Shape'
  BY <1>1 DEF LogInv, Shape
<1>3. SettledInLog' /\ LogInOrder'
  BY <1>1 DEF LogInv, SettledInLog, LogInOrder, Seqs
<1>4. Told'
  BY <1>1 DEF LogInv, Told
<1> QED BY <1>2, <1>3, <1>4 DEF LogInv

(* applyEvents: the blockage reported and the cursor that stays below it.  *)
LEMMA CursorStaysBelow ==
  ASSUME Shape, NEW d \in Devices, NEW n \in Nat, NEW seqs \in SUBSET (1..n),
         NEW bad \in SUBSET seqs
  PROVE  /\ ReportedBlock(d, seqs, bad) \in Nat
         /\ CursorAfter(d, seqs, bad) \in Nat
         /\ ReportedBlock(d, seqs, bad) # 0 =>
              CursorAfter(d, seqs, bad) < ReportedBlock(d, seqs, bad)
         /\ session[d].blocked <= n => ReportedBlock(d, seqs, bad) <= n
         /\ cursor[d] <= n => CursorAfter(d, seqs, bad) <= n
<1> DEFINE block == ReportedBlock(d, seqs, bad)
           reached == LandedPrefix(seqs, bad) \cup {cursor[d]}
           capped == {IF block = 0 THEN g ELSE Least(g, block - 1) : g \in reached}
<1>1. block \in Nat /\ (session[d].blocked <= n => block <= n)
  <2>1. CASE bad # {}
    <3>1. bad \in SUBSET Nat
      OBVIOUS
    <3>2. PICK m \in bad : \A b \in bad : m <= b
      BY <2>1, <3>1, LeastNatural
    <3>3. Min(bad) \in bad
      BY <3>2 DEF Min
    <3>4. block = Min(bad)
      BY <2>1, Zenon DEF ReportedBlock
    <3>5. Min(bad) \in 1..n
      BY <3>3
    <3> QED BY <3>4, <3>5
  <2>2. CASE bad = {}
    <3>1. session[d].blocked \in Nat
      BY DEF Shape, Sessions
    <3> QED BY <2>2, <3>1 DEF ReportedBlock
  <2> QED BY <2>1, <2>2
<1>2. cursor[d] \in Nat
  BY DEF Shape
<1>3. /\ reached \in SUBSET Nat /\ cursor[d] \in reached
      /\ \A g \in reached : g <= n + cursor[d] /\ (cursor[d] <= n => g <= n)
  <2>1. LandedPrefix(seqs, bad) \in SUBSET (1..n)
    BY DEF LandedPrefix
  <2>2. ASSUME NEW g \in reached
        PROVE  g \in Nat /\ g <= n + cursor[d] /\ (cursor[d] <= n => g <= n)
    <3>1. CASE g \in 1..n
      BY <1>2, <3>1
    <3>2. CASE g = cursor[d]
      BY <1>2, <3>2
    <3> QED BY <2>1, <3>1, <3>2
  <2> QED BY <2>2
<1>4. CursorAfter(d, seqs, bad) = Max(capped)
  BY DEF CursorAfter
<1> HIDE DEF block, reached
<1>5. /\ capped \in SUBSET Nat /\ capped # {}
      /\ \A c \in capped : /\ c <= n + cursor[d] /\ (block # 0 => c < block)
                           /\ cursor[d] <= n => c <= n
  <2>1. ASSUME NEW g \in reached, NEW c, c = IF block = 0 THEN g ELSE Least(g, block - 1)
        PROVE  /\ c \in Nat /\ c <= g /\ (block # 0 => c < block)
    BY <1>1, <1>3, <2>1 DEF Least
  <2>2. ASSUME NEW c \in capped
        PROVE  /\ c \in Nat /\ c <= n + cursor[d] /\ (block # 0 => c < block)
               /\ cursor[d] <= n => c <= n
    <3>1. PICK g \in reached : c = IF block = 0 THEN g ELSE Least(g, block - 1)
      OBVIOUS
    <3>2. c \in Nat /\ c <= g /\ (block # 0 => c < block)
      BY <2>1, <3>1
    <3>3. g \in Nat /\ g <= n + cursor[d] /\ (cursor[d] <= n => g <= n)
      BY <1>3
    <3> HIDE DEF capped
    <3> QED BY <1>2, <3>2, <3>3
  <2>3. capped # {}
    BY <1>3
  <2> HIDE DEF capped
  <2> QED BY <2>2, <2>3
<1>6. n + cursor[d] \in Nat
  BY <1>2
<1> HIDE DEF capped
<1>7. Max(capped) \in capped
  <2>1. \A c \in capped : c <= n + cursor[d]
    BY <1>5
  <2>2. capped \in SUBSET Nat /\ capped # {}
    BY <1>5
  <2> QED BY <1>6, <2>1, <2>2, GreatestNatural
<1>8. /\ Max(capped) \in Nat /\ (block # 0 => Max(capped) < block)
      /\ cursor[d] <= n => Max(capped) <= n
  BY <1>5, <1>7
<1> QED BY <1>1, <1>4, <1>8 DEF block

(* A batch or page is applied: what it brings is held, or known to have    *)
(* failed, and what was so still is.                                       *)
LEMMA Applied ==
  ASSUME Shape, NEW d \in Devices, NEW n \in Nat, NEW seqs \in SUBSET (1..n), NEW bad,
         Apply(d, seqs, bad), CursorBelowBlock
  PROVE  /\ cursor' \in [Devices -> Nat] /\ session' \in [Devices -> Sessions]
         /\ held' \in [Devices -> SUBSET Nat] /\ failed' \in [Devices -> SUBSET Nat]
         /\ CursorBelowBlock'
         /\ \A e \in Devices : session'[e].stage = session[e].stage
         /\ \A e \in Devices : \A g \in held[e] \cup failed[e] : g \in held'[e] \cup failed'[e]
         /\ \A g \in seqs : g \in held'[d] \cup failed'[d]
<1> DEFINE block == ReportedBlock(d, seqs, bad)
           c == CursorAfter(d, seqs, bad)
<1>1. /\ bad \in SUBSET seqs
      /\ held' = [held EXCEPT ![d] = @ \cup (seqs \ bad)]
      /\ failed' = [failed EXCEPT ![d] = (@ \cup bad) \ (held[d] \cup (seqs \ bad))]
      /\ cursor' = [cursor EXCEPT ![d] = c]
      /\ session' = [session EXCEPT ![d].blocked = block]
  BY DEF Apply
<1>2. block \in Nat /\ c \in Nat /\ (block # 0 => c < block)
  BY <1>1, CursorStaysBelow
<1> HIDE DEF block, c
<1>3. cursor' \in [Devices -> Nat] /\ session' \in [Devices -> Sessions]
  BY <1>1, <1>2 DEF Shape, Sessions
<1>4. held' \in [Devices -> SUBSET Nat] /\ failed' \in [Devices -> SUBSET Nat]
  BY <1>1 DEF Shape
<1>5. /\ session'[d].blocked = block /\ cursor'[d] = c
      /\ \A e \in Devices : session'[e].stage = session[e].stage
      /\ \A e \in Devices : e # d => session'[e] = session[e] /\ cursor'[e] = cursor[e]
  BY <1>1 DEF Shape, Sessions
<1>6. CursorBelowBlock'
  BY <1>2, <1>5 DEF CursorBelowBlock
<1>7. /\ held'[d] = held[d] \cup (seqs \ bad)
      /\ failed'[d] = (failed[d] \cup bad) \ (held[d] \cup (seqs \ bad))
      /\ \A e \in Devices : e # d => held'[e] = held[e] /\ failed'[e] = failed[e]
  BY <1>1 DEF Shape
<1> QED BY <1>3, <1>4, <1>5, <1>6, <1>7

LEMMA LogAppendEvent ==
  ASSUME LogInv, NEW d \in Devices, AppendEvent(d) \/ NotifyAppended(d)
  PROVE  LogInv'
<1>1. /\ UNCHANGED <<gateway, ckpt, cursor, held, session, down, base, failed>>
      /\ own' = own \/ own' = [own EXCEPT ![d] = @ + 1]
      /\ up' = up \/ up' = [up EXCEPT ![d] = @ \o Outbox(d, ckpt[d])]
  <2>1. CASE AppendEvent(d)
    BY <2>1 DEF AppendEvent, disk, history
  <2>2. CASE NotifyAppended(d)
    BY <2>2 DEF NotifyAppended, disk, history
  <2> QED BY <2>1, <2>2
<1>2. Shape /\ Told
  BY DEF LogInv
<1>3. own' \in [Devices -> Nat]
  <2>1. own \in [Devices -> Nat] /\ [own EXCEPT ![d] = @ + 1] \in [Devices -> Nat]
    BY <1>2 DEF Shape
  <2> QED BY <1>1, <2>1
<1>4. up' \in [Devices -> Seq(UpFrames)]
  <2>1. ckpt[d] \in Marks /\ up[d] \in Seq(UpFrames) /\ up \in [Devices -> Seq(UpFrames)]
    BY <1>2 DEF Shape
  <2>2. Outbox(d, ckpt[d]) \in Seq(UpFrames)
    BY <1>2, <2>1, OutboxShape
  <2>3. up[d] \o Outbox(d, ckpt[d]) \in Seq(UpFrames)
    BY <2>1, <2>2, ConcatAt
  <2> QED BY <1>1, <2>1, <2>3
<1> QED BY <1>1, <1>2, <1>3, <1>4, DeviceSide DEF Shape, Told

LEMMA LogConnect ==
  ASSUME LogInv, NEW d \in Devices, Connect(d)
  PROVE  LogInv'
<1>1. /\ UNCHANGED <<gateway, own, ckpt, cursor, held, down, base, failed>>
      /\ session' = [session EXCEPT ![d].stage = "hello"]
      /\ up' = [up EXCEPT ![d] = <<[kind |-> "hello"]>>]
  BY DEF Connect, disk, history
<1>2. Shape /\ Told
  BY DEF LogInv
<1>3. /\ session' \in [Devices -> Sessions]
      /\ \A e \in Devices : session'[e].stage = "open" => session[e].stage = "open"
  BY <1>1, <1>2 DEF Shape, Sessions, Stages
<1>4. up' \in [Devices -> Seq(UpFrames)]
  BY <1>1, <1>2, FramesMade DEF Shape
<1> QED BY <1>1, <1>2, <1>3, <1>4, DeviceSide DEF Shape, Told

LEMMA LogHelloAck ==
  ASSUME LogInv, NEW d \in Devices, OnHelloAck(d)
  PROVE  LogInv'
<1>1. /\ UNCHANGED <<gateway, own, ckpt, cursor, held, failed>>
      /\ session' = [session EXCEPT ![d].stage = "open"]
      /\ down' = [down EXCEPT ![d] = Tail(@)]
      /\ up' = [up EXCEPT ![d] = @ \o Outbox(d, ckpt[d]) \o CatchupFrom(cursor[d])]
      /\ base' = [base EXCEPT ![d] = cursor[d]]
      /\ down[d] # <<>> /\ Head(down[d]).kind = "hello_ack"
  BY DEF OnHelloAck, Receives, disk
<1>2. Shape /\ Told
  BY DEF LogInv
<1>3. /\ down' \in [Devices -> Seq(DownFrames)]
      /\ DownSpeaks(down', joined, settled, Len(log)) /\ d \in joined
  <2>1. down \in [Devices -> Seq(DownFrames)] /\ DownSpeaks(down, joined, settled, Len(log))
    BY <1>2 DEF Shape, Told
  <2>2. Speaks(Head(down[d]), d, joined, settled, Len(log))
    BY <1>1, <2>1, DownTaken
  <2> QED BY <1>1, <2>1, <2>2, DownTaken DEF Speaks
<1>4. /\ session' \in [Devices -> Sessions]
      /\ \A e \in Devices : session'[e].stage = "open" => e \in joined
  <2>1. session \in [Devices -> Sessions] /\ "open" \in Stages
    BY <1>2 DEF Shape, Stages
  <2>2. session' \in [Devices -> Sessions]
    BY <1>1, <2>1, SessionSet
  <2>3. \A e \in Devices : e # d => session'[e] = session[e]
    BY <1>1, <2>1
  <2> QED BY <1>2, <1>3, <2>2, <2>3 DEF Told
<1>5. up' \in [Devices -> Seq(UpFrames)]
  <2>1. ckpt[d] \in Marks /\ cursor[d] \in Nat /\ up[d] \in Seq(UpFrames) /\ up \in [Devices -> Seq(UpFrames)]
    BY <1>2 DEF Shape
  <2>2. Outbox(d, ckpt[d]) \in Seq(UpFrames) /\ CatchupFrom(cursor[d]) \in Seq(UpFrames)
    BY <1>2, <2>1, OutboxShape, CatchupShape
  <2>3. up[d] \o Outbox(d, ckpt[d]) \o CatchupFrom(cursor[d]) \in Seq(UpFrames)
    BY <2>1, <2>2, ConcatAt
  <2> QED BY <1>1, <2>1, <2>3
<1>6. base' \in [Devices -> Nat]
  BY <1>1, <1>2 DEF Shape
<1> QED BY <1>1, <1>2, <1>3, <1>4, <1>5, <1>6, DeviceSide DEF Shape, Told

LEMMA LogPushAck ==
  ASSUME LogInv, NEW d \in Devices, OnPushAck(d)
  PROVE  LogInv'
<1> DEFINE mark == Head(down[d]).mark
<1>1. /\ UNCHANGED <<gateway, own, cursor, held, base, failed>>
      /\ down' = [down EXCEPT ![d] = Tail(@)]
      /\ down[d] # <<>> /\ Head(down[d]).kind = "push_ack"
  BY DEF OnPushAck, Receives, history
<1>a. /\ session' = session \/ session' = [session EXCEPT ![d].lastAck = mark]
      /\ ckpt' = ckpt \/ ckpt' = [ckpt EXCEPT ![d] = Checkpoint(d, mark)]
      /\ up' = up \/ up' = [up EXCEPT ![d] = @] \/ up' = [up EXCEPT ![d] = @ \o Outbox(d, Checkpoint(d, mark))]
  <2>1. CASE AckCounts(d, mark)
    BY <2>1 DEF OnPushAck
  <2>2. CASE ~AckCounts(d, mark)
    BY <2>2 DEF OnPushAck
  <2> QED BY <2>1, <2>2
<1>2. Shape /\ Told
  BY DEF LogInv
<1>3. /\ down' \in [Devices -> Seq(DownFrames)]
      /\ DownSpeaks(down', joined, settled, Len(log))
      /\ mark \in Nat /\ mark <= settled[d]
  <2>1. down \in [Devices -> Seq(DownFrames)] /\ DownSpeaks(down, joined, settled, Len(log))
    BY <1>2 DEF Shape, Told
  <2>2. Speaks(Head(down[d]), d, joined, settled, Len(log)) /\ Head(down[d]) \in DownFrames
    BY <1>1, <2>1, DownTaken
  <2>3. mark \in Nat /\ mark <= settled[d]
    BY <1>1, <2>2, DownFields DEF Speaks
  <2> QED BY <1>1, <2>1, <2>3, DownTaken
<1> HIDE DEF mark
<1>4. /\ session' \in [Devices -> Sessions]
      /\ \A e \in Devices : session'[e].stage = session[e].stage
  <2>1. session \in [Devices -> Sessions] /\ mark \in Marks
    BY <1>2, <1>3 DEF Shape, Marks
  <2>2. CASE session' = session
    BY <2>1, <2>2
  <2>3. CASE session' = [session EXCEPT ![d].lastAck = mark]
    <3>1. session' \in [Devices -> Sessions] /\ session'[d].stage = session[d].stage
      BY <2>1, <2>3, SessionSet
    <3>2. \A e \in Devices : e # d => session'[e] = session[e]
      BY <2>1, <2>3
    <3> QED BY <3>1, <3>2
  <2> QED BY <1>a, <2>2, <2>3
<1>5. Checkpoint(d, mark) \in Marks /\ Checkpoint(d, mark) <= settled[d]
  BY <1>2, <1>3 DEF Checkpoint, Shape, Marks, Told
<1>6. ckpt' \in [Devices -> Marks] /\ \A e \in Devices : ckpt'[e] <= settled[e]
  <2>1. ckpt \in [Devices -> Marks] /\ \A e \in Devices : ckpt[e] <= settled[e]
    BY <1>2 DEF Shape, Told
  <2> QED BY <1>a, <1>5, <2>1
<1>7. up' \in [Devices -> Seq(UpFrames)]
  <2>1. up[d] \in Seq(UpFrames) /\ up \in [Devices -> Seq(UpFrames)]
    BY <1>2 DEF Shape
  <2>2. Outbox(d, Checkpoint(d, mark)) \in Seq(UpFrames)
    BY <1>2, <1>5, OutboxShape
  <2>3. up[d] \o Outbox(d, Checkpoint(d, mark)) \in Seq(UpFrames)
    BY <2>1, <2>2, ConcatAt
  <2> QED BY <1>a, <2>1, <2>3
<1> QED BY <1>1, <1>2, <1>3, <1>4, <1>6, <1>7, DeviceSide DEF Shape, Told

(* A frame of events, live or of a page.                                   *)
LEMMA LogEvents ==
  ASSUME LogInv, CursorBelowBlock, NEW d \in Devices, OnEventBatch(d) \/ OnCatchupPage(d)
  PROVE  /\ LogInv' /\ CursorBelowBlock' /\ down[d] # <<>>
         /\ \A e \in Devices : session'[e].stage = session[e].stage
         /\ \A e \in Devices : \A g \in held[e] \cup failed[e] : g \in held'[e] \cup failed'[e]
         /\ \A g \in Head(down[d]).seqs : g \in held'[d] \cup failed'[d]
<1> DEFINE f == Head(down[d])
<1>1. /\ UNCHANGED <<gateway, own, ckpt, base>>
      /\ down' = [down EXCEPT ![d] = Tail(@)]
      /\ down[d] # <<>> /\ f.kind \in {"events", "page"}
  <2>1. CASE OnEventBatch(d)
    BY <2>1 DEF OnEventBatch, Receives
  <2>2. CASE OnCatchupPage(d)
    BY <2>2 DEF OnCatchupPage, Receives
  <2> QED BY <2>1, <2>2
<1>a. /\ \E bad : Apply(d, f.seqs, bad)
      /\ \/ up' = up \/ up' = [up EXCEPT ![d] = @]
         \/ f.kind = "page" /\ up' = [up EXCEPT ![d] = @ \o CatchupFrom(f.next)]
  <2>1. CASE OnEventBatch(d)
    BY <2>1 DEF OnEventBatch
  <2>2. CASE OnCatchupPage(d)
    <3>1. f.kind = "page" /\ \E bad \in SUBSET f.seqs : Apply(d, f.seqs, bad)
      BY <2>2 DEF OnCatchupPage, Receives
    <3>2. up' = [up EXCEPT ![d] = IF f.complete THEN @ ELSE @ \o CatchupFrom(f.next)]
      BY <2>2 DEF OnCatchupPage
    <3> HIDE DEF f
    <3>3. \E bad : Apply(d, f.seqs, bad)
      BY <3>1
    <3>4. CASE f.complete
      BY <3>2, <3>3, <3>4
    <3>5. CASE ~f.complete
      BY <3>1, <3>2, <3>3, <3>5
    <3> QED BY <3>4, <3>5
  <2> QED BY <2>1, <2>2
<1>2. Shape /\ Told /\ Len(log) \in Nat
  BY DEF LogInv, Shape
<1>3. /\ down' \in [Devices -> Seq(DownFrames)]
      /\ DownSpeaks(down', joined, settled, Len(log))
      /\ f \in DownFrames /\ f.seqs \in SUBSET (1..Len(log))
  <2>1. down \in [Devices -> Seq(DownFrames)] /\ DownSpeaks(down, joined, settled, Len(log))
    BY <1>2 DEF Shape, Told
  <2>2. Speaks(f, d, joined, settled, Len(log)) /\ f \in DownFrames
    BY <1>1, <2>1, DownTaken
  <2>3. f.seqs \in SUBSET (1..Len(log))
    BY <1>1, <2>2 DEF Speaks
  <2> QED BY <1>1, <2>1, <2>2, <2>3, DownTaken
<1> HIDE DEF f
<1>4. PICK bad : Apply(d, f.seqs, bad)
  BY <1>a
<1>5. /\ cursor' \in [Devices -> Nat] /\ session' \in [Devices -> Sessions]
      /\ held' \in [Devices -> SUBSET Nat] /\ failed' \in [Devices -> SUBSET Nat]
      /\ CursorBelowBlock'
      /\ \A e \in Devices : session'[e].stage = session[e].stage
      /\ \A e \in Devices : \A g \in held[e] \cup failed[e] : g \in held'[e] \cup failed'[e]
      /\ \A g \in f.seqs : g \in held'[d] \cup failed'[d]
  BY <1>2, <1>3, <1>4, Applied
<1>6. up' \in [Devices -> Seq(UpFrames)]
  <2>1. up[d] \in Seq(UpFrames) /\ up \in [Devices -> Seq(UpFrames)]
    BY <1>2 DEF Shape
  <2>2. f.kind = "page" => up[d] \o CatchupFrom(f.next) \in Seq(UpFrames)
    BY <1>3, <2>1, ConcatAt, CatchupShape, DownFields
  <2> QED BY <1>a, <2>1, <2>2
<1>7. LogInv'
  BY <1>1, <1>2, <1>3, <1>5, <1>6, DeviceSide DEF Shape, Told
<1> QED BY <1>1, <1>5, <1>7 DEF f

-----------------------------------------------------------------------------
(* A push merges what continues its author's settled slots.                *)
LEMMA MergedFacts ==
  ASSUME Shape, NEW d \in Devices, NEW lo \in Nat, NEW hi \in Nat
  PROVE  /\ SettledAfter(d, lo, hi) \in Marks /\ settled[d] \in Marks
         /\ settled[d] <= SettledAfter(d, lo, hi)
         /\ Merged(d, lo, hi) \in Seq(Events)
         /\ Len(Merged(d, lo, hi)) = SettledAfter(d, lo, hi) - settled[d]
         /\ \A i \in 1..Len(Merged(d, lo, hi)) :
              Merged(d, lo, hi)[i] = [author |-> d, slot |-> settled[d] + i]
<1>1. settled[d] \in Marks
  BY DEF Shape
<1>2. SettledAfter(d, lo, hi) \in Marks /\ settled[d] <= SettledAfter(d, lo, hi)
  BY <1>1 DEF SettledAfter, Marks
<1> DEFINE k == SettledAfter(d, lo, hi) - settled[d]
<1>3. k \in Nat
  BY <1>1, <1>2 DEF Marks
<1>4. Merged(d, lo, hi) = [i \in 1..k |-> [author |-> d, slot |-> settled[d] + i]]
  BY DEF Merged
<1> HIDE DEF k
<1>5. \A i \in 1..k : [author |-> d, slot |-> settled[d] + i] \in Events
  BY <1>1, <1>3 DEF Events, Marks
<1>6. /\ Merged(d, lo, hi) \in Seq(Events) /\ Len(Merged(d, lo, hi)) = k
      /\ \A i \in 1..k : Merged(d, lo, hi)[i] = [author |-> d, slot |-> settled[d] + i]
  BY <1>3, <1>4, <1>5
<1> QED BY <1>1, <1>2, <1>6 DEF k

LEMMA LogGrows ==
  ASSUME LogInv, NEW d \in Devices, NEW lo \in Nat, NEW hi \in Nat,
         log' = log \o Merged(d, lo, hi),
         settled' = [settled EXCEPT ![d] = SettledAfter(d, lo, hi)]
  PROVE  /\ log' \in Seq(Events) /\ settled' \in [Devices -> Marks]
         /\ Len(log) \in Nat /\ Len(log') \in Nat /\ Len(log) <= Len(log')
         /\ NewSeqs(d, lo, hi) = (Len(log) + 1)..Len(log')
         /\ \A e \in Devices : settled[e] <= settled'[e]
         /\ settled'[d] = SettledAfter(d, lo, hi)
         /\ SettledInLog' /\ LogInOrder'
<1> DEFINE n == Len(log)
           m == Merged(d, lo, hi)
           after == SettledAfter(d, lo, hi)
           was == settled[d]
<1>1. Shape /\ SettledInLog /\ LogInOrder
  BY DEF LogInv
<1>2. /\ after \in Marks /\ was \in Marks /\ was <= after
      /\ m \in Seq(Events) /\ Len(m) = after - was
      /\ \A i \in 1..Len(m) : m[i] = [author |-> d, slot |-> was + i]
  BY <1>1, MergedFacts
<1>3. log \in Seq(Events) /\ settled \in [Devices -> Marks] /\ n \in Nat
  BY <1>1 DEF Shape
<1>4. /\ log' \in Seq(Events) /\ Len(log') = n + Len(m)
      /\ \A i \in 1..n : i \in 1..Len(log') /\ log'[i] = log[i]
      /\ \A i \in 1..Len(m) : n + i \in 1..Len(log') /\ log'[n + i] = m[i]
      /\ \A i \in 1..Len(log') : i \in 1..n \/ (i - n \in 1..Len(m) /\ log'[i] = m[i - n])
  BY <1>2, <1>3, ConcatAt
<1>5. NewSeqs(d, lo, hi) = (n + 1)..Len(log')
  BY <1>4 DEF NewSeqs
<1>6. /\ settled' \in [Devices -> Marks] /\ settled'[d] = after
      /\ \A e \in Devices : e # d => settled'[e] = settled[e]
  BY <1>2, <1>3
<1> HIDE DEF n, m, after, was
<1>7. Len(log') \in Nat /\ n <= Len(log')
  BY <1>2, <1>3, <1>4
<1>8. \A e \in Devices : settled[e] <= settled'[e]
  BY <1>2, <1>3, <1>6 DEF was, Marks
<1>a. Len(m) \in Nat /\ after = was + Len(m)
  BY <1>2 DEF Marks
<1>b. ASSUME NEW i \in 1..n
      PROVE  log[i] \in Events /\ log[i].author \in Devices /\ log[i].slot \in Nat
  <2>1. log[i] \in Events
    BY <1>3 DEF n
  <2> QED BY <2>1 DEF Events
<1>c. /\ \A i \in 1..n : log[i].slot <= settled[log[i].author]
      /\ \A e \in Devices : \A s \in 0..settled[e] :
           \E i \in 1..n : log[i] = [author |-> e, slot |-> s]
  BY <1>1 DEF SettledInLog, Seqs, n
<1>d. /\ \A i, j \in 1..n : log[i] = log[j] => i = j
      /\ \A i \in 1..n : \A s \in 0..(log[i].slot - 1) :
           \E j \in 1..(i - 1) : log[j] = [author |-> log[i].author, slot |-> s]
  BY <1>1 DEF LogInOrder, Seqs, n
<1>e. \A i \in 1..Len(log') :
        \/ i \in 1..n /\ log'[i] = log[i]
        \/ i - n \in 1..Len(m) /\ log'[i] = [author |-> d, slot |-> was + (i - n)]
  BY <1>2, <1>4
<1>f. \A s \in 0..after : \E i \in 1..Len(log') : log'[i] = [author |-> d, slot |-> s]
  <2> SUFFICES ASSUME NEW s \in 0..after
               PROVE  \E i \in 1..Len(log') : log'[i] = [author |-> d, slot |-> s]
    OBVIOUS
  <2>1. CASE s <= was
    <3>1. s \in 0..settled[d]
      BY <1>2, <2>1 DEF was, Marks
    <3>2. PICK i \in 1..n : log[i] = [author |-> d, slot |-> s]
      BY <1>c, <3>1
    <3> QED BY <1>4, <3>2
  <2>2. CASE ~(s <= was)
    <3>1. s - was \in 1..Len(m) /\ was + (s - was) = s
      BY <1>2, <1>a, <2>2 DEF Marks
    <3>2. /\ n + (s - was) \in 1..Len(log')
          /\ log'[n + (s - was)] = [author |-> d, slot |-> was + (s - was)]
      BY <1>2, <1>4, <3>1
    <3> QED BY <3>1, <3>2
  <2> QED BY <2>1, <2>2
<1>g. SettledInLog'
  <2>1. ASSUME NEW i \in 1..Len(log') PROVE log'[i].slot <= settled'[log'[i].author]
    <3>1. CASE i \in 1..n /\ log'[i] = log[i]
      <4>1. log[i].slot \in Nat /\ log[i].author \in Devices /\ log[i].slot <= settled[log[i].author]
        BY <1>b, <1>c, <3>1
      <4>2. settled[log[i].author] \in Marks /\ settled'[log[i].author] \in Marks
        BY <1>3, <1>6, <4>1
      <4>3. settled[log[i].author] <= settled'[log[i].author]
        BY <1>8, <4>1
      <4> QED BY <3>1, <4>1, <4>2, <4>3 DEF Marks
    <3>2. CASE i - n \in 1..Len(m) /\ log'[i] = [author |-> d, slot |-> was + (i - n)]
      BY <1>2, <1>6, <1>a, <3>2 DEF Marks
    <3> QED BY <1>e, <3>1, <3>2
  <2>2. ASSUME NEW e \in Devices, NEW s \in 0..settled'[e]
        PROVE  \E i \in 1..Len(log') : log'[i] = [author |-> e, slot |-> s]
    <3>1. CASE e = d
      BY <1>6, <1>f, <3>1
    <3>2. CASE e # d
      <4>1. PICK i \in 1..n : log[i] = [author |-> e, slot |-> s]
        BY <1>6, <1>c, <3>2
      <4> QED BY <1>4, <4>1
    <3> QED BY <3>1, <3>2
  <2> QED BY <2>1, <2>2 DEF SettledInLog, Seqs
<1>h. \A i, j \in 1..Len(log') : log'[i] = log'[j] => i = j
  <2>1. ASSUME NEW i \in 1..n, NEW j \in 1..Len(log'), j - n \in 1..Len(m),
               log'[j] = [author |-> d, slot |-> was + (j - n)]
        PROVE  log[i] # log'[j]
    <3>1. log[i].slot \in Nat /\ log[i].slot <= settled[log[i].author]
      BY <1>b, <1>c
    <3>2. SUFFICES ASSUME log[i] = log'[j] PROVE FALSE
      OBVIOUS
    <3>3. log[i].author = d /\ log[i].slot = was + (j - n)
      BY <2>1, <3>2
    <3>4. j - n \in Nat /\ j - n >= 1
      BY <1>2, <1>a, <2>1
    <3>5. was + (j - n) <= was
      BY <3>1, <3>3 DEF was
    <3>6. was \in Int
      BY <1>2 DEF Marks
    <3> QED BY <3>4, <3>5, <3>6
  <2>2. ASSUME NEW i \in 1..Len(log'), NEW j \in 1..Len(log'),
               i - n \in 1..Len(m), j - n \in 1..Len(m),
               log'[i] = [author |-> d, slot |-> was + (i - n)],
               log'[j] = [author |-> d, slot |-> was + (j - n)], log'[i] = log'[j]
        PROVE  i = j
    <3>1. was + (i - n) = was + (j - n)
      BY <2>2
    <3>2. was \in Int /\ n \in Int /\ i \in Int /\ j \in Int
      BY <1>2, <1>3, <1>7, <2>2 DEF Marks, n
    <3> QED BY <3>1, <3>2
  <2> SUFFICES ASSUME NEW i \in 1..Len(log'), NEW j \in 1..Len(log'), log'[i] = log'[j]
               PROVE  i = j
    OBVIOUS
  <2>3. CASE i \in 1..n /\ j \in 1..n
    BY <1>4, <1>d, <2>3
  <2>4. CASE i - n \in 1..Len(m) /\ log'[i] = [author |-> d, slot |-> was + (i - n)]
    <3>1. CASE j \in 1..n /\ log'[j] = log[j]
      <4>1. log[j] # log'[i]
        BY <2>1, <2>4, <3>1
      <4> QED BY <3>1, <4>1
    <3>2. CASE j - n \in 1..Len(m) /\ log'[j] = [author |-> d, slot |-> was + (j - n)]
      BY <2>2, <2>4, <3>2
    <3> QED BY <1>e, <3>1, <3>2
  <2>5. CASE j - n \in 1..Len(m) /\ log'[j] = [author |-> d, slot |-> was + (j - n)]
    <3>1. CASE i \in 1..n /\ log'[i] = log[i]
      <4>1. log[i] # log'[j]
        BY <2>1, <2>5, <3>1
      <4> QED BY <3>1, <4>1
    <3>2. CASE i - n \in 1..Len(m) /\ log'[i] = [author |-> d, slot |-> was + (i - n)]
      BY <2>2, <2>5, <3>2
    <3> QED BY <1>e, <3>1, <3>2
  <2> QED BY <1>e, <2>3, <2>4, <2>5
<1>i. ASSUME NEW i \in 1..Len(log'), NEW s \in 0..(log'[i].slot - 1)
      PROVE  \E j \in 1..(i - 1) : log'[j] = [author |-> log'[i].author, slot |-> s]
  <2>1. CASE i \in 1..n /\ log'[i] = log[i]
    <3>1. PICK j \in 1..(i - 1) : log[j] = [author |-> log[i].author, slot |-> s]
      BY <1>d, <2>1
    <3>2. j \in 1..n
      BY <1>3, <2>1
    <3> QED BY <1>4, <2>1, <3>1, <3>2
  <2>2. CASE i - n \in 1..Len(m) /\ log'[i] = [author |-> d, slot |-> was + (i - n)]
    <3>1. s \in 0..(was + (i - n) - 1) /\ log'[i].author = d
      <4>1. log'[i].slot = was + (i - n) /\ log'[i].author = d
        BY <2>2
      <4>2. log'[i].slot - 1 = was + (i - n) - 1
        BY <1>2, <1>3, <1>7, <2>2, <4>1 DEF Marks, n
      <4> QED BY <1>i, <4>1, <4>2
    <3>2. CASE s <= was
      <4>1. s \in 0..settled[d]
        BY <1>2, <3>1, <3>2 DEF was, Marks
      <4>2. PICK j \in 1..n : log[j] = [author |-> d, slot |-> s]
        BY <1>c, <4>1
      <4>3. j \in 1..(i - 1) /\ log'[j] = log[j]
        BY <1>3, <1>4, <2>2, <4>2
      <4> QED BY <3>1, <4>2, <4>3
    <3>3. CASE ~(s <= was)
      <4>1. s - was \in 1..Len(m) /\ was + (s - was) = s /\ n + (s - was) \in 1..(i - 1)
        BY <1>2, <1>3, <1>7, <1>a, <2>2, <3>1, <3>3 DEF Marks
      <4>2. log'[n + (s - was)] = [author |-> d, slot |-> was + (s - was)]
        BY <1>2, <1>4, <4>1
      <4> QED BY <3>1, <4>1, <4>2
    <3> QED BY <3>2, <3>3
  <2> QED BY <1>e, <2>1, <2>2
<1>j. LogInOrder'
  BY <1>h, <1>i DEF LogInOrder, Seqs
<1> QED BY <1>3, <1>4, <1>5, <1>6, <1>7, <1>8, <1>g, <1>j DEF n, after

-----------------------------------------------------------------------------
(* The gateway's half leaves the devices' cursors alone.                   *)
LEMMA GatewaySide ==
  ASSUME LogInv, UNCHANGED <<own, ckpt, cursor, base>>,
         held' \in [Devices -> SUBSET Nat], failed' \in [Devices -> SUBSET Nat],
         log' \in Seq(Events), settled' \in [Devices -> Marks],
         SettledInLog', LogInOrder', \A e \in Devices : settled[e] <= settled'[e],
         joined' \subseteq Devices, job' \in [Devices -> Jobs], stray' \subseteq Strays,
         session' \in [Devices -> Sessions], up' \in [Devices -> Seq(UpFrames)],
         down' \in [Devices -> Seq(DownFrames)],
         JobsSpeak(job', joined', settled', Len(log')),
         DownSpeaks(down', joined', settled', Len(log')),
         StraysSpeak(stray', Len(log')),
         \A e \in Devices : session'[e].stage = "open" => e \in joined'
  PROVE  LogInv'
<1>1. /\ ckpt \in [Devices -> Marks] /\ settled \in [Devices -> Marks]
      /\ \A e \in Devices : ckpt[e] <= settled[e]
  BY DEF LogInv, Shape, Told
<1>2. ASSUME NEW e \in Devices PROVE ckpt'[e] <= settled'[e]
  <2>1. ckpt[e] \in Marks /\ settled[e] \in Marks /\ settled'[e] \in Marks
    BY <1>1
  <2>2. ckpt[e] <= settled[e] /\ settled[e] <= settled'[e] /\ ckpt'[e] = ckpt[e]
    BY <1>1
  <2> QED BY <2>1, <2>2 DEF Marks
<1>3. Shape'
  BY DEF LogInv, Shape
<1>4. Told'
  BY <1>2 DEF Told
<1> QED BY <1>3, <1>4 DEF LogInv

LEMMA LogKept ==
  ASSUME LogInv, UNCHANGED <<log, settled, own, ckpt, cursor, base>>,
         held' \in [Devices -> SUBSET Nat], failed' \in [Devices -> SUBSET Nat],
         joined' \subseteq Devices, job' \in [Devices -> Jobs], stray' \subseteq Strays,
         session' \in [Devices -> Sessions], up' \in [Devices -> Seq(UpFrames)],
         down' \in [Devices -> Seq(DownFrames)],
         JobsSpeak(job', joined', settled, Len(log)),
         DownSpeaks(down', joined', settled, Len(log)),
         StraysSpeak(stray', Len(log)),
         \A e \in Devices : session'[e].stage = "open" => e \in joined'
  PROVE  LogInv'
<1>1. /\ log' \in Seq(Events) /\ settled' \in [Devices -> Marks]
      /\ \A e \in Devices : settled[e] <= settled'[e]
  <2>1. log \in Seq(Events) /\ settled \in [Devices -> Marks]
    BY DEF LogInv, Shape
  <2>2. \A e \in Devices : settled[e] \in Int
    BY <2>1 DEF Marks
  <2> QED BY <2>1, <2>2
<1>2. SettledInLog' /\ LogInOrder'
  BY DEF LogInv, SettledInLog, LogInOrder, Seqs
<1> QED BY <1>1, <1>2, GatewaySide

LEMMA UpTaken ==
  ASSUME NEW u \in [Devices -> Seq(UpFrames)], NEW d \in Devices, u[d] # <<>>
  PROVE  /\ [u EXCEPT ![d] = Tail(@)] \in [Devices -> Seq(UpFrames)]
         /\ Head(u[d]) \in UpFrames
<1>1. Tail(u[d]) \in Seq(UpFrames) /\ Head(u[d]) \in UpFrames
  BY TailAt
<1> QED BY <1>1

Fanned(q, members, seqs) ==
  [p \in Devices |-> IF p \in members
                     THEN Append(q[p], [kind |-> "events", seqs |-> seqs]) ELSE q[p]]

LEMMA DownDelivered ==
  ASSUME NEW q \in [Devices -> Seq(DownFrames)], NEW members, NEW marks, NEW n \in Nat,
         DownSpeaks(q, members, marks, n), NEW seqs \in SUBSET (1..n)
  PROVE  /\ Fanned(q, members, seqs) \in [Devices -> Seq(DownFrames)]
         /\ DownSpeaks(Fanned(q, members, seqs), members, marks, n)
<1> DEFINE r == Fanned(q, members, seqs)
           f == [kind |-> "events", seqs |-> seqs]
<1>1. f \in DownFrames
  BY FramesMade
<1>2. \A e \in Devices : Speaks(f, e, members, marks, n)
  BY DEF Speaks
<1>3. /\ \A e \in Devices : r[e] = IF e \in members THEN Append(q[e], f) ELSE q[e]
      /\ r = [e \in Devices |-> r[e]]
  BY DEF Fanned
<1> HIDE DEF f, r
<1>4. \A e \in Devices :
        /\ Append(q[e], f) \in Seq(DownFrames)
        /\ \A i \in 1..Len(q[e]) : i \in 1..Len(Append(q[e], f)) /\ Append(q[e], f)[i] = q[e][i]
        /\ \A i \in 1..Len(Append(q[e], f)) : i \in 1..Len(q[e]) \/ Append(q[e], f)[i] = f
  BY <1>1, AppendAt
<1>5. r \in [Devices -> Seq(DownFrames)]
  <2>1. \A e \in Devices : r[e] \in Seq(DownFrames)
    BY <1>3, <1>4
  <2> QED BY <1>3, <2>1
<1>6. ASSUME NEW e \in Devices, NEW i \in 1..Len(r[e])
      PROVE  Speaks(r[e][i], e, members, marks, n)
  <2>1. \A k \in 1..Len(q[e]) : Speaks(q[e][k], e, members, marks, n)
    BY DEF DownSpeaks
  <2>2. CASE e \in members
    <3>1. r[e] = Append(q[e], f)
      BY <1>3, <2>2
    <3>2. i \in 1..Len(q[e]) \/ r[e][i] = f
      BY <1>4, <1>6, <3>1
    <3>3. CASE r[e][i] = f
      BY <1>2, <3>3
    <3>4. CASE i \in 1..Len(q[e])
      BY <1>4, <2>1, <3>1, <3>4
    <3> QED BY <3>2, <3>3, <3>4
  <2>3. CASE e \notin members
    BY <1>3, <1>6, <2>1, <2>3
  <2> QED BY <2>2, <2>3
<1> QED BY <1>5, <1>6 DEF DownSpeaks, r

-----------------------------------------------------------------------------
(* The handlers of the gateway.                                            *)
LEMMA LogHello ==
  ASSUME LogInv, NEW d \in Devices, Hello(d)
  PROVE  LogInv'
<1>1. /\ UNCHANGED <<log, settled, stray, own, ckpt, cursor, held, session, down, base, failed>>
      /\ joined' = joined \cup {d} /\ job' = [job EXCEPT ![d] = [kind |-> "hello"]]
      /\ up' = [up EXCEPT ![d] = Tail(@)] /\ up[d] # <<>>
  BY DEF Hello, Serves, disk, history
<1>2. Shape /\ Told /\ Len(log) \in Nat
  BY DEF LogInv, Shape
<1>3. up' \in [Devices -> Seq(UpFrames)]
  BY <1>1, <1>2, UpTaken DEF Shape
<1>4. joined' \subseteq Devices /\ joined \subseteq joined'
  BY <1>1, <1>2 DEF Shape
<1>5. settled \in [Devices -> Marks] /\ \A e \in Devices : settled[e] <= settled[e]
  <2>1. settled \in [Devices -> Marks]
    BY <1>2 DEF Shape
  <2>2. \A e \in Devices : settled[e] \in Int
    BY <2>1 DEF Marks
  <2> QED BY <2>1, <2>2
<1>6. JobsSpeak(job, joined', settled, Len(log)) /\ DownSpeaks(down, joined', settled, Len(log))
  <2>1. /\ job \in [Devices -> Jobs] /\ down \in [Devices -> Seq(DownFrames)]
        /\ JobsSpeak(job, joined, settled, Len(log)) /\ DownSpeaks(down, joined, settled, Len(log))
    BY <1>2 DEF Shape, Told
  <2>2. Len(log) <= Len(log)
    BY <1>2
  <2>3. JobsSpeak(job, joined', settled, Len(log))
    BY <1>2, <1>4, <1>5, <2>1, <2>2, JobsGrow
  <2>4. DownSpeaks(down, joined', settled, Len(log))
    BY <1>2, <1>4, <1>5, <2>1, <2>2, DownGrows
  <2> QED BY <2>3, <2>4
<1>7. Speaks([kind |-> "hello"], d, joined', settled, Len(log))
  BY <1>1 DEF Speaks
<1>8. job' \in [Devices -> Jobs] /\ JobsSpeak(job', joined', settled, Len(log))
  BY <1>1, <1>2, <1>6, <1>7, JobSet, JobsMade DEF Shape
<1> QED BY <1>1, <1>2, <1>3, <1>4, <1>6, <1>8, LogKept DEF Shape, Told

LEMMA LogSendsHelloAck ==
  ASSUME LogInv, NEW d \in Devices, HelloAck(d)
  PROVE  LogInv'
<1>1. /\ UNCHANGED <<log, settled, joined, stray, own, ckpt, cursor, held, session, up, base, failed>>
      /\ job[d].kind = "hello" /\ job' = [job EXCEPT ![d] = Idle]
      /\ down' = [down EXCEPT ![d] = Append(@, [kind |-> "hello_ack"])]
  BY DEF HelloAck, disk, history
<1>2. Shape /\ Told
  BY DEF LogInv
<1>3. Speaks([kind |-> "hello_ack"], d, joined, settled, Len(log))
  BY <1>1, <1>2 DEF Speaks, Told, JobsSpeak
<1>4. /\ down' \in [Devices -> Seq(DownFrames)] /\ DownSpeaks(down', joined, settled, Len(log))
  BY <1>1, <1>2, <1>3, DownSent, FramesMade DEF Shape, Told
<1>5. job' \in [Devices -> Jobs] /\ JobsSpeak(job', joined, settled, Len(log))
  BY <1>1, <1>2, JobSet, JobsMade, IdleSpeaks DEF Shape, Told
<1> QED BY <1>1, <1>2, <1>4, <1>5, LogKept DEF Shape, Told

LEMMA LogSendAck ==
  ASSUME LogInv, NEW d \in Devices, SendAck(d)
  PROVE  LogInv'
<1> DEFINE m == job[d].mark
           next == IF job[d].seqs = {} THEN Idle ELSE [kind |-> "fan", seqs |-> job[d].seqs]
<1>1. /\ UNCHANGED <<log, settled, joined, stray, own, ckpt, cursor, held, session, up, base, failed>>
      /\ job[d].kind = "ack" /\ job' = [job EXCEPT ![d] = next]
      /\ down' = [down EXCEPT ![d] = IF m < 0 THEN @ ELSE Append(@, [kind |-> "push_ack", mark |-> m])]
  BY DEF SendAck, disk, history
<1>2. Shape /\ Told /\ job[d] \in Jobs /\ Speaks(job[d], d, joined, settled, Len(log))
  BY DEF LogInv, Shape, Told, JobsSpeak
<1>3. m \in Marks /\ m <= settled[d] /\ job[d].seqs \subseteq 1..Len(log) /\ job[d].seqs \in SUBSET Nat
  BY <1>1, <1>2, JobFields DEF Speaks
<1>4. next \in Jobs /\ Speaks(next, d, joined, settled, Len(log))
  <2>1. CASE job[d].seqs = {}
    BY <2>1, JobsMade, IdleSpeaks
  <2>2. CASE job[d].seqs # {}
    BY <1>3, <2>2, JobsMade DEF Speaks
  <2> QED BY <2>1, <2>2
<1> HIDE DEF next, m
<1>5. job' \in [Devices -> Jobs] /\ JobsSpeak(job', joined, settled, Len(log))
  BY <1>1, <1>2, <1>4, JobSet DEF Shape, Told
<1>6. /\ down' \in [Devices -> Seq(DownFrames)] /\ DownSpeaks(down', joined, settled, Len(log))
  <2>1. down \in [Devices -> Seq(DownFrames)] /\ DownSpeaks(down, joined, settled, Len(log))
    BY <1>2 DEF Shape, Told
  <2>2. CASE m < 0
    <3>1. down' = down
      BY <1>1, <2>1, <2>2
    <3> QED BY <2>1, <3>1
  <2>3. CASE ~(m < 0)
    <3>1. [kind |-> "push_ack", mark |-> m] \in DownFrames
      BY <1>3, <2>3, FramesMade DEF Marks
    <3>2. Speaks([kind |-> "push_ack", mark |-> m], d, joined, settled, Len(log))
      BY <1>3 DEF Speaks
    <3>3. down' = [down EXCEPT ![d] = Append(@, [kind |-> "push_ack", mark |-> m])]
      BY <1>1, <2>3
    <3> QED BY <2>1, <3>1, <3>2, <3>3, DownSent
  <2> QED BY <2>2, <2>3
<1> QED BY <1>1, <1>2, <1>5, <1>6, LogKept DEF Shape, Told

LEMMA LogFanOut ==
  ASSUME LogInv, NEW d \in Devices, FanOut(d)
  PROVE  LogInv'
<1>1. /\ UNCHANGED <<log, settled, joined, stray, own, ckpt, cursor, held, session, up, base, failed>>
      /\ job[d].kind = "fan" /\ job' = [job EXCEPT ![d] = Idle]
      /\ Deliver(job[d].seqs)
  BY DEF FanOut, disk, history
<1>2. Shape /\ Told /\ Len(log) \in Nat
  BY DEF LogInv, Shape
<1>3. job[d].seqs \in SUBSET (1..Len(log))
  BY <1>1, <1>2 DEF Told, JobsSpeak, Speaks
<1>4. /\ down' \in [Devices -> Seq(DownFrames)] /\ DownSpeaks(down', joined, settled, Len(log))
  <2>1. down \in [Devices -> Seq(DownFrames)] /\ DownSpeaks(down, joined, settled, Len(log))
    BY <1>2 DEF Shape, Told
  <2>2. down' = Fanned(down, joined, job[d].seqs)
    BY <1>1 DEF Deliver, Fanned
  <2> QED BY <1>2, <1>3, <2>1, <2>2, DownDelivered
<1>5. job' \in [Devices -> Jobs] /\ JobsSpeak(job', joined, settled, Len(log))
  BY <1>1, <1>2, JobSet, JobsMade, IdleSpeaks DEF Shape, Told
<1> QED BY <1>1, <1>2, <1>4, <1>5, LogKept DEF Shape, Told

(* The page a catch-up request is answered with.                           *)
PageFrom(from) ==
  LET last == Least(from + Page, Len(log))
  IN  [kind |-> "page", seqs |-> (from + 1)..last, complete |-> Len(log) <= from + Page,
       next |-> IF last > from THEN last ELSE from]

LEMMA PageRead ==
  ASSUME Shape, NEW from \in Nat
  PROVE  /\ PageFrom(from) \in Jobs /\ PageFrom(from).kind = "page"
         /\ PageFrom(from).seqs \subseteq 1..Len(log)
         /\ \A g \in 1..Len(log) : g > from => Brings(PageFrom(from), g)
<1> DEFINE last == Least(from + Page, Len(log))
           next == IF last > from THEN last ELSE from
<1>1. Len(log) \in Nat /\ Page \in Nat /\ Page >= 1
  BY CloudSyncAssumption DEF Shape
<1>2. last \in Nat /\ last <= Len(log) /\ next \in Nat /\ (from + 1)..last \in SUBSET Nat
  BY <1>1 DEF Least
<1>3. (Len(log) <= from + Page) \in BOOLEAN
  OBVIOUS
<1>4. /\ PageFrom(from).kind = "page" /\ PageFrom(from).seqs = (from + 1)..last
      /\ PageFrom(from).complete = (Len(log) <= from + Page) /\ PageFrom(from).next = next
      /\ PageFrom(from) = [kind |-> "page", seqs |-> (from + 1)..last,
                           complete |-> (Len(log) <= from + Page), next |-> next]
  BY DEF PageFrom
<1>5. PageFrom(from) \in Jobs
  BY <1>2, <1>3, <1>4, JobsMade
<1>6. (from + 1)..last \subseteq 1..Len(log)
  BY <1>1, <1>2
<1>7. ASSUME NEW g \in 1..Len(log), g > from
      PROVE  g \in (from + 1)..last \/ (~(Len(log) <= from + Page) /\ g > next)
  BY <1>1, <1>7 DEF Least
<1> QED BY <1>4, <1>5, <1>6, <1>7 DEF Brings

LEMMA LogReadPage ==
  ASSUME LogInv, NEW d \in Devices, ReadPage(d)
  PROVE  /\ LogInv'
         /\ up[d] # <<>> /\ Head(up[d]).kind = "catchup" /\ Head(up[d]).from \in Nat
         /\ job' = [job EXCEPT ![d] = PageFrom(Head(up[d]).from)]
<1> DEFINE from == Head(up[d]).from
<1>1. /\ UNCHANGED <<log, settled, joined, stray, own, ckpt, cursor, held, session, down, base, failed>>
      /\ up' = [up EXCEPT ![d] = Tail(@)] /\ up[d] # <<>> /\ Head(up[d]).kind = "catchup"
  BY DEF ReadPage, Serves, disk, history
<1>2. job' = [job EXCEPT ![d] = PageFrom(from)]
  BY DEF ReadPage, PageFrom
<1>3. Shape /\ Told
  BY DEF LogInv
<1>4. /\ up' \in [Devices -> Seq(UpFrames)] /\ Head(up[d]) \in UpFrames
  BY <1>1, <1>3, UpTaken DEF Shape
<1>5. from \in Nat
  BY <1>1, <1>4, UpFields
<1> HIDE DEF from
<1>6. PageFrom(from) \in Jobs /\ Speaks(PageFrom(from), d, joined, settled, Len(log))
  BY <1>3, <1>5, PageRead DEF Speaks
<1>7. job' \in [Devices -> Jobs] /\ JobsSpeak(job', joined, settled, Len(log))
  BY <1>2, <1>3, <1>6, JobSet DEF Shape, Told
<1>8. LogInv'
  BY <1>1, <1>3, <1>4, <1>7, LogKept DEF Shape, Told
<1> QED BY <1>1, <1>2, <1>5, <1>8 DEF from

LEMMA LogSendPage ==
  ASSUME LogInv, NEW d \in Devices, SendPage(d)
  PROVE  LogInv'
<1>1. /\ UNCHANGED <<log, settled, joined, stray, own, ckpt, cursor, held, session, up, base, failed>>
      /\ job[d].kind = "page" /\ job' = [job EXCEPT ![d] = Idle]
      /\ down' = [down EXCEPT ![d] = Append(@, job[d])]
  BY DEF SendPage, disk, history
<1>2. Shape /\ Told /\ job[d] \in DownFrames /\ Speaks(job[d], d, joined, settled, Len(log))
  BY <1>1, JobFields DEF LogInv, Shape, Told, JobsSpeak
<1>4. /\ down' \in [Devices -> Seq(DownFrames)] /\ DownSpeaks(down', joined, settled, Len(log))
  BY <1>1, <1>2, DownSent DEF Shape, Told
<1>5. job' \in [Devices -> Jobs] /\ JobsSpeak(job', joined, settled, Len(log))
  BY <1>1, <1>2, JobSet, JobsMade, IdleSpeaks DEF Shape, Told
<1> QED BY <1>1, <1>2, <1>4, <1>5, LogKept DEF Shape, Told

LEMMA LogCommit ==
  ASSUME LogInv, NEW d \in Devices, Commit(d)
  PROVE  /\ LogInv'
         /\ up[d] # <<>> /\ Head(up[d]).kind = "push" /\ Len(log) \in Nat /\ Len(log') \in Nat
         /\ job'[d].kind = "ack" /\ job'[d].seqs = (Len(log) + 1)..Len(log')
         /\ \A e \in Devices : e # d => job'[e] = job[e]
<1> DEFINE lo == Head(up[d]).lo
           hi == Head(up[d]).hi
           a == [kind |-> "ack", seqs |-> NewSeqs(d, lo, hi), mark |-> SettledAfter(d, lo, hi)]
<1>1. /\ UNCHANGED <<joined, stray, own, ckpt, cursor, held, session, down, base, failed>>
      /\ up' = [up EXCEPT ![d] = Tail(@)] /\ up[d] # <<>> /\ Head(up[d]).kind = "push"
      /\ log' = log \o Merged(d, lo, hi)
      /\ settled' = [settled EXCEPT ![d] = SettledAfter(d, lo, hi)]
      /\ job' = [job EXCEPT ![d] = a]
  BY DEF Commit, Serves, disk, history
<1>2. Shape /\ Told
  BY DEF LogInv
<1>3. /\ up' \in [Devices -> Seq(UpFrames)] /\ Head(up[d]) \in UpFrames
  BY <1>1, <1>2, UpTaken DEF Shape
<1>4. lo \in Nat /\ hi \in Nat
  BY <1>1, <1>3, UpFields
<1>5. a.kind = "ack" /\ a.seqs = NewSeqs(d, lo, hi) /\ a.mark = SettledAfter(d, lo, hi)
  OBVIOUS
<1> HIDE DEF lo, hi
<1>6. /\ log' \in Seq(Events) /\ settled' \in [Devices -> Marks]
      /\ Len(log) \in Nat /\ Len(log') \in Nat /\ Len(log) <= Len(log')
      /\ NewSeqs(d, lo, hi) = (Len(log) + 1)..Len(log')
      /\ \A e \in Devices : settled[e] <= settled'[e]
      /\ settled'[d] = SettledAfter(d, lo, hi)
      /\ SettledInLog' /\ LogInOrder'
  BY <1>1, <1>4, LogGrows
<1>7. SettledAfter(d, lo, hi) \in Marks /\ NewSeqs(d, lo, hi) \in SUBSET Nat
  BY <1>2, <1>4, <1>6, MergedFacts
<1>8. a \in Jobs
  BY <1>7, JobsMade
<1> HIDE DEF a
<1>9. Speaks(a, d, joined, settled', Len(log'))
  BY <1>5, <1>6, <1>7 DEF Speaks, Marks
<1>10. /\ job \in [Devices -> Jobs] /\ down \in [Devices -> Seq(DownFrames)]
       /\ settled \in [Devices -> Marks] /\ stray \subseteq Strays /\ joined \subseteq Devices
       /\ JobsSpeak(job, joined, settled, Len(log)) /\ DownSpeaks(down, joined, settled, Len(log))
       /\ StraysSpeak(stray, Len(log))
  BY <1>2 DEF Shape, Told
<1>11. JobsSpeak(job, joined, settled', Len(log'))
  BY <1>6, <1>10, JobsGrow
<1>12. DownSpeaks(down, joined, settled', Len(log'))
  BY <1>6, <1>10, DownGrows
<1>13. StraysSpeak(stray, Len(log'))
  BY <1>6, <1>10, StraysGrow
<1>14. job' \in [Devices -> Jobs] /\ JobsSpeak(job', joined, settled', Len(log'))
  BY <1>1, <1>8, <1>9, <1>10, <1>11, JobSet
<1>15. LogInv'
  BY <1>1, <1>2, <1>3, <1>6, <1>10, <1>12, <1>13, <1>14, GatewaySide DEF Shape, Told
<1>16. job'[d] = a /\ \A e \in Devices : e # d => job'[e] = job[e]
  BY <1>1, <1>10
<1> QED BY <1>1, <1>5, <1>6, <1>15, <1>16

LEMMA LogStrayCommit ==
  ASSUME LogInv, NEW s \in stray, StrayCommit(s)
  PROVE  /\ LogInv'
         /\ Len(log) \in Nat /\ Len(log') \in Nat /\ s.kind = "push"
         /\ stray \ {s} \subseteq stray'
         /\ \A g \in (Len(log) + 1)..Len(log') : \E r \in stray' : r.kind = "fan" /\ g \in r.seqs
<1> DEFINE d == s.dev
           lo == s.lo
           hi == s.hi
           fan == [kind |-> "fan", seqs |-> NewSeqs(d, lo, hi)]
<1>1. /\ UNCHANGED <<joined, job, own, ckpt, cursor, held, session, up, down, base, failed>>
      /\ s.kind = "push"
      /\ log' = log \o Merged(d, lo, hi)
      /\ settled' = [settled EXCEPT ![d] = SettledAfter(d, lo, hi)]
      /\ stray' = (stray \ {s}) \cup (IF NewSeqs(d, lo, hi) = {} THEN {} ELSE {fan})
  BY DEF StrayCommit, disk, history
<1>2. Shape /\ Told
  BY DEF LogInv
<1>3. s \in Strays
  BY <1>2 DEF Shape
<1>4. d \in Devices /\ lo \in Nat /\ hi \in Nat
  BY <1>1, <1>3, StrayFields
<1>5. fan.kind = "fan" /\ fan.seqs = NewSeqs(d, lo, hi)
  OBVIOUS
<1> HIDE DEF d, lo, hi
<1>6. /\ log' \in Seq(Events) /\ settled' \in [Devices -> Marks]
      /\ Len(log) \in Nat /\ Len(log') \in Nat /\ Len(log) <= Len(log')
      /\ NewSeqs(d, lo, hi) = (Len(log) + 1)..Len(log')
      /\ \A e \in Devices : settled[e] <= settled'[e]
      /\ SettledInLog' /\ LogInOrder'
  BY <1>1, <1>4, LogGrows
<1>7. NewSeqs(d, lo, hi) \in SUBSET Nat /\ NewSeqs(d, lo, hi) \subseteq 1..Len(log')
  BY <1>6
<1>8. fan \in Strays
  BY <1>7, JobsMade
<1> HIDE DEF fan
<1>9. /\ job \in [Devices -> Jobs] /\ down \in [Devices -> Seq(DownFrames)]
      /\ settled \in [Devices -> Marks] /\ stray \subseteq Strays /\ joined \subseteq Devices
      /\ JobsSpeak(job, joined, settled, Len(log)) /\ DownSpeaks(down, joined, settled, Len(log))
      /\ StraysSpeak(stray, Len(log))
  BY <1>2 DEF Shape, Told
<1>10. JobsSpeak(job, joined, settled', Len(log'))
  BY <1>6, <1>9, JobsGrow
<1>11. DownSpeaks(down, joined, settled', Len(log'))
  BY <1>6, <1>9, DownGrows
<1>12. StraysSpeak(stray, Len(log'))
  BY <1>6, <1>9, StraysGrow
<1>13. stray' \subseteq Strays /\ stray' \subseteq stray \cup {fan} /\ stray \ {s} \subseteq stray'
  BY <1>1, <1>8, <1>9
<1>14. StraysSpeak(stray', Len(log'))
  BY <1>5, <1>7, <1>12, <1>13 DEF StraysSpeak
<1>15. LogInv'
  BY <1>1, <1>2, <1>6, <1>9, <1>10, <1>11, <1>13, <1>14, GatewaySide DEF Shape, Told
<1>16. \A g \in NewSeqs(d, lo, hi) : fan \in stray'
  BY <1>1
<1> QED BY <1>1, <1>5, <1>6, <1>13, <1>15, <1>16

LEMMA LogStrayFanOut ==
  ASSUME LogInv, NEW s \in stray, StrayFanOut(s)
  PROVE  LogInv'
<1>1. /\ UNCHANGED <<log, settled, joined, job, own, ckpt, cursor, held, session, up, base, failed>>
      /\ s.kind = "fan" /\ stray' = stray \ {s}
      /\ Deliver(s.seqs)
  BY DEF StrayFanOut, disk, history
<1>2. Shape /\ Told /\ Len(log) \in Nat
  BY DEF LogInv, Shape
<1>3. s.seqs \in SUBSET (1..Len(log))
  BY <1>1, <1>2 DEF Told, StraysSpeak
<1>4. /\ down' \in [Devices -> Seq(DownFrames)] /\ DownSpeaks(down', joined, settled, Len(log))
  <2>1. down \in [Devices -> Seq(DownFrames)] /\ DownSpeaks(down, joined, settled, Len(log))
    BY <1>2 DEF Shape, Told
  <2>2. down' = Fanned(down, joined, s.seqs)
    BY <1>1 DEF Deliver, Fanned
  <2> QED BY <1>2, <1>3, <2>1, <2>2, DownDelivered
<1>5. stray' \subseteq Strays /\ StraysSpeak(stray', Len(log))
  BY <1>1, <1>2 DEF Shape, Told, StraysSpeak
<1> QED BY <1>1, <1>2, <1>4, <1>5, LogKept DEF Shape, Told

-----------------------------------------------------------------------------
(* A connection goes: its frames and its handler with it, and what the     *)
(* gateway received or committed for it runs on.                           *)
LEMMA LogBreak ==
  ASSUME LogInv, NEW D \in SUBSET Devices, Break(D), UNCHANGED <<log, settled, own, ckpt, cursor, base>>,
         held' \in [Devices -> SUBSET Nat], failed' \in [Devices -> SUBSET Nat],
         stray' \subseteq Strays, StraysSpeak(stray', Len(log)),
         session' \in [Devices -> Sessions],
         \A e \in D : session'[e].stage # "open",
         \A e \in Devices \ D : session'[e].stage = "open" => session[e].stage = "open"
  PROVE  LogInv'
<1>1. /\ joined' = joined \ D
      /\ job' = [d \in Devices |-> IF d \in D THEN Idle ELSE job[d]]
      /\ up' = [d \in Devices |-> IF d \in D THEN <<>> ELSE up[d]]
      /\ down' = [d \in Devices |-> IF d \in D THEN <<>> ELSE down[d]]
  BY DEF Break
<1>2. Shape /\ Told
  BY DEF LogInv
<1>3. /\ job \in [Devices -> Jobs] /\ down \in [Devices -> Seq(DownFrames)]
      /\ up \in [Devices -> Seq(UpFrames)] /\ joined \subseteq Devices
      /\ JobsSpeak(job, joined, settled, Len(log)) /\ DownSpeaks(down, joined, settled, Len(log))
      /\ \A e \in Devices : session[e].stage = "open" => e \in joined
  BY <1>2 DEF Shape, Told
<1>4. job' \in [Devices -> Jobs]
  BY <1>1, <1>3, JobsMade
<1>5. up' \in [Devices -> Seq(UpFrames)] /\ down' \in [Devices -> Seq(DownFrames)]
  BY <1>1, <1>3
<1>6. ASSUME NEW e \in Devices \ D, NEW f, Speaks(f, e, joined, settled, Len(log))
      PROVE  Speaks(f, e, joined', settled, Len(log))
  BY <1>1, <1>6 DEF Speaks
<1>7. JobsSpeak(job', joined', settled, Len(log))
  <2> SUFFICES ASSUME NEW e \in Devices PROVE Speaks(job'[e], e, joined', settled, Len(log))
    BY DEF JobsSpeak
  <2>1. CASE e \in D
    BY <1>1, <2>1, IdleSpeaks
  <2>2. CASE e \notin D
    BY <1>1, <1>3, <1>6, <2>2 DEF JobsSpeak
  <2> QED BY <2>1, <2>2
<1>8. DownSpeaks(down', joined', settled, Len(log))
  <2> SUFFICES ASSUME NEW e \in Devices, NEW i \in 1..Len(down'[e])
               PROVE  Speaks(down'[e][i], e, joined', settled, Len(log))
    BY DEF DownSpeaks
  <2>1. CASE e \in D
    BY <1>1, <2>1
  <2>2. CASE e \notin D
    <3>1. down'[e] = down[e]
      BY <1>1, <2>2
    <3>2. Speaks(down[e][i], e, joined, settled, Len(log))
      BY <1>3, <3>1 DEF DownSpeaks
    <3> QED BY <1>6, <2>2, <3>1, <3>2
  <2> QED BY <2>1, <2>2
<1>9. joined' \subseteq Devices /\ \A e \in Devices : session'[e].stage = "open" => e \in joined'
  BY <1>1, <1>3
<1> QED BY <1>4, <1>5, <1>7, <1>8, <1>9, LogKept

LEMMA RunsOn ==
  ASSUME LogInv, NEW d \in Devices
  PROVE  /\ Committed(d) \subseteq Strays /\ StraysSpeak(Committed(d), Len(log))
         /\ Received(d) \subseteq Strays /\ StraysSpeak(Received(d), Len(log))
<1>1. job[d] \in Jobs /\ Speaks(job[d], d, joined, settled, Len(log)) /\ up[d] \in Seq(UpFrames)
  BY DEF LogInv, Shape, Told, JobsSpeak
<1>2. ASSUME NEW s \in Committed(d)
      PROVE  s \in Strays /\ (s.kind = "fan" => s.seqs \subseteq 1..Len(log))
  <2>1. job[d].kind \in {"ack", "fan"} /\ s = [kind |-> "fan", seqs |-> job[d].seqs]
    BY <1>2 DEF Committed
  <2>2. job[d].seqs \in SUBSET Nat /\ job[d].seqs \subseteq 1..Len(log)
    BY <1>1, <2>1, JobFields DEF Speaks
  <2> QED BY <2>1, <2>2, JobsMade
<1>3. ASSUME NEW s \in Received(d)
      PROVE  s \in Strays /\ s.kind = "push"
  <2>1. PICK i \in DOMAIN up[d] : /\ up[d][i].kind = "push"
                                  /\ s = [kind |-> "push", dev |-> d, lo |-> up[d][i].lo, hi |-> up[d][i].hi]
    BY <1>3 DEF Received
  <2>2. up[d][i] \in UpFrames
    BY <1>1, <2>1
  <2>3. up[d][i].lo \in Nat /\ up[d][i].hi \in Nat
    BY <2>1, <2>2, UpFields
  <2> QED BY <2>1, <2>3, JobsMade
<1> QED BY <1>2, <1>3 DEF StraysSpeak

-----------------------------------------------------------------------------
(* What the open connection of d will still bring it, over the state's     *)
(* parts.                                                                  *)
BringsIn(q, g) == \E i \in 1..Len(q) : Brings(q[i], g)

Pending(j, S, g) ==
  \/ \E p \in Devices : j[p].kind \in {"ack", "fan"} /\ g \in j[p].seqs
  \/ \E s \in S : s.kind = "fan" /\ g \in s.seqs

Comes(d, g, members, j, S, dn, u) ==
  \/ d \in members /\ Pending(j, S, g)
  \/ BringsIn(dn[d], g) \/ BringsIn(u[d], g) \/ Brings(j[d], g)

Safe(d, g) == g \in held[d] \cup failed[d]

SlipsInv ==
  \A d \in Devices : session[d].stage = "open" =>
    \A g \in (base[d] + 1)..Len(log) : Safe(d, g) \/ Comes(d, g, joined, job, stray, down, up)

LEMMA SlipsIs == ASSUME Shape PROVE NothingSlips <=> SlipsInv
<1>1. ASSUME NEW d \in Devices, NEW g
      PROVE  Coming(d, g) <=> Comes(d, g, joined, job, stray, down, up)
  <2>1. DOMAIN down[d] = 1..Len(down[d]) /\ DOMAIN up[d] = 1..Len(up[d])
    BY DEF Shape
  <2> QED BY <2>1 DEF Coming, Comes, FanPending, Pending, BringsIn
<1> QED BY <1>1 DEF NothingSlips, SlipsInv, Safe

LEMMA BringsTail ==
  ASSUME NEW S, NEW q \in Seq(S), q # <<>>, NEW g, BringsIn(q, g)
  PROVE  Brings(Head(q), g) \/ BringsIn(Tail(q), g)
<1>1. PICK i \in 1..Len(q) : Brings(q[i], g)
  BY DEF BringsIn
<1>2. CASE i = 1
  <2>1. Head(q) = q[1]
    BY TailAt
  <2> QED BY <1>1, <1>2, <2>1
<1>3. CASE i # 1
  <2>1. i - 1 \in 1..Len(Tail(q)) /\ Tail(q)[i - 1] = q[i]
    BY <1>3, TailAt
  <2> QED BY <1>1, <2>1 DEF BringsIn
<1> QED BY <1>2, <1>3

LEMMA BringsAppend ==
  ASSUME NEW S, NEW q \in Seq(S), NEW x \in S, NEW g, BringsIn(q, g) \/ Brings(x, g)
  PROVE  BringsIn(Append(q, x), g)
BY AppendAt DEF BringsIn

LEMMA BringsConcat ==
  ASSUME NEW S, NEW q \in Seq(S), NEW r \in Seq(S), NEW g, BringsIn(q, g) \/ BringsIn(r, g)
  PROVE  BringsIn(q \o r, g)
BY ConcatAt DEF BringsIn

(* A catch-up request brings what lies above it.                           *)
LEMMA CatchupBrings ==
  ASSUME NEW from \in Nat, NEW g \in Nat, g > from
  PROVE  BringsIn(CatchupFrom(from), g)
<1>1. CatchupFrom(from) = <<[kind |-> "catchup", from |-> from]>>
  BY DEF CatchupFrom
<1>2. 1 \in 1..Len(CatchupFrom(from)) /\ Brings(CatchupFrom(from)[1], g)
  BY <1>1 DEF Brings
<1> QED BY <1>2 DEF BringsIn

LEMMA BringsFanned ==
  ASSUME NEW q \in [Devices -> Seq(DownFrames)], NEW members, NEW seqs \in SUBSET Nat,
         NEW d \in Devices, NEW g, BringsIn(q[d], g) \/ (d \in members /\ g \in seqs)
  PROVE  BringsIn(Fanned(q, members, seqs)[d], g)
<1> DEFINE f == [kind |-> "events", seqs |-> seqs]
<1>1. f \in DownFrames /\ (g \in seqs => Brings(f, g))
  BY FramesMade DEF Brings
<1>2. Fanned(q, members, seqs)[d] = IF d \in members THEN Append(q[d], f) ELSE q[d]
  BY DEF Fanned
<1> HIDE DEF f
<1> QED BY <1>1, <1>2, BringsAppend

(* Nothing slips in a step that neither opens a session nor adds to the    *)
(* log, and leaves what is safe safe and what comes coming.                *)
LEMMA StillComes ==
  ASSUME SlipsInv, UNCHANGED <<log, base>>,
         \A e \in Devices : session'[e].stage = "open" => session[e].stage = "open",
         \A e \in Devices : \A g : Safe(e, g) => Safe(e, g)',
         \A e \in Devices : \A g \in (base[e] + 1)..Len(log) :
           session'[e].stage = "open" /\ Comes(e, g, joined, job, stray, down, up) =>
             Safe(e, g)' \/ Comes(e, g, joined', job', stray', down', up')
  PROVE  SlipsInv'
<1> SUFFICES ASSUME NEW e \in Devices, session'[e].stage = "open",
                    NEW g \in (base[e] + 1)..Len(log)
             PROVE  Safe(e, g)' \/ Comes(e, g, joined', job', stray', down', up')
  BY DEF SlipsInv
<1>1. Safe(e, g) \/ Comes(e, g, joined, job, stray, down, up)
  BY DEF SlipsInv
<1> QED BY <1>1

LEMMA SlipsAppendEvent ==
  ASSUME LogInv, SlipsInv, NEW d \in Devices, AppendEvent(d) \/ NotifyAppended(d) \/ Connect(d)
  PROVE  SlipsInv'
<1>1. CASE AppendEvent(d)
  <2>1. UNCHANGED <<log, joined, job, stray, held, session, up, down, base, failed>>
    BY <1>1 DEF AppendEvent, gateway, history
  <2> QED BY <2>1, StillComes DEF Safe
<1>2. CASE NotifyAppended(d)
  <2>1. /\ UNCHANGED <<log, joined, job, stray, held, session, down, base, failed>>
        /\ up' = [up EXCEPT ![d] = @ \o Outbox(d, ckpt[d])]
    BY <1>2 DEF NotifyAppended, gateway, disk, history
  <2>2. up \in [Devices -> Seq(UpFrames)] /\ ckpt[d] \in Marks /\ Shape
    BY DEF LogInv, Shape
  <2>3. Outbox(d, ckpt[d]) \in Seq(UpFrames) /\ up[d] \in Seq(UpFrames)
    BY <2>2, OutboxShape
  <2>4. ASSUME NEW e \in Devices, NEW g, BringsIn(up[e], g) PROVE BringsIn(up'[e], g)
    <3>1. CASE e = d
      BY <2>1, <2>2, <2>3, <2>4, <3>1, BringsConcat
    <3>2. CASE e # d
      BY <2>1, <2>2, <2>4, <3>2
    <3> QED BY <3>1, <3>2
  <2> QED BY <2>1, <2>4, StillComes DEF Safe, Comes
<1>3. CASE Connect(d)
  <2>1. /\ UNCHANGED <<log, joined, job, stray, held, down, base, failed>>
        /\ session' = [session EXCEPT ![d].stage = "hello"]
        /\ up' = [up EXCEPT ![d] = <<[kind |-> "hello"]>>]
    BY <1>3 DEF Connect, gateway, disk, history
  <2>2. session \in [Devices -> Sessions] /\ up \in [Devices -> Seq(UpFrames)] /\ "hello" \in Stages
    BY DEF LogInv, Shape, Stages
  <2>3. session'[d].stage = "hello" /\ \A e \in Devices : e # d => session'[e] = session[e]
    BY <2>1, <2>2, SessionSet
  <2>4. \A e \in Devices : e # d => up'[e] = up[e]
    BY <2>1, <2>2
  <2> QED BY <2>1, <2>3, <2>4, StillComes DEF Safe, Comes
<1> QED BY <1>1, <1>2, <1>3

LEMMA SlipsHelloAck ==
  ASSUME LogInv, SlipsInv, NEW d \in Devices, OnHelloAck(d)
  PROVE  SlipsInv'
<1>1. /\ UNCHANGED <<log, joined, job, stray, held, failed>>
      /\ session' = [session EXCEPT ![d].stage = "open"]
      /\ down' = [down EXCEPT ![d] = Tail(@)]
      /\ up' = [up EXCEPT ![d] = @ \o Outbox(d, ckpt[d]) \o CatchupFrom(cursor[d])]
      /\ base' = [base EXCEPT ![d] = cursor[d]]
  BY DEF OnHelloAck, gateway, disk
<1>2. /\ Shape /\ up \in [Devices -> Seq(UpFrames)] /\ cursor[d] \in Nat /\ ckpt[d] \in Marks
      /\ session \in [Devices -> Sessions] /\ base \in [Devices -> Nat] /\ Len(log) \in Nat
      /\ down \in [Devices -> Seq(DownFrames)]
  BY DEF LogInv, Shape
<1>3. /\ Outbox(d, ckpt[d]) \in Seq(UpFrames) /\ CatchupFrom(cursor[d]) \in Seq(UpFrames)
      /\ up[d] \o Outbox(d, ckpt[d]) \in Seq(UpFrames)
  <2>1. up[d] \in Seq(UpFrames) /\ Outbox(d, ckpt[d]) \in Seq(UpFrames) /\ CatchupFrom(cursor[d]) \in Seq(UpFrames)
    BY <1>2, OutboxShape, CatchupShape
  <2> QED BY <2>1, ConcatAt
<1> SUFFICES ASSUME NEW e \in Devices, session'[e].stage = "open",
                    NEW g \in (base'[e] + 1)..Len(log')
             PROVE  Safe(e, g)' \/ Comes(e, g, joined', job', stray', down', up')
  BY DEF SlipsInv
<1>4. CASE e = d
  <2>1. base'[d] = cursor[d] /\ up'[d] = up[d] \o Outbox(d, ckpt[d]) \o CatchupFrom(cursor[d])
    BY <1>1, <1>2
  <2>2. g \in Nat /\ g > cursor[d]
    BY <1>1, <1>2, <1>4, <2>1
  <2>3. BringsIn(CatchupFrom(cursor[d]), g)
    BY <1>2, <2>2, CatchupBrings
  <2> DEFINE q == up[d] \o Outbox(d, ckpt[d])
             r == CatchupFrom(cursor[d])
  <2>5. up'[d] = q \o r /\ q \in Seq(UpFrames) /\ r \in Seq(UpFrames) /\ BringsIn(r, g)
    BY <1>3, <2>1, <2>3
  <2> HIDE DEF q, r
  <2>4. BringsIn(up'[d], g)
    BY <2>5, BringsConcat
  <2> QED BY <1>4, <2>4 DEF Comes
<1>5. CASE e # d
  <2>1. session'[e] = session[e] /\ base'[e] = base[e] /\ down'[e] = down[e] /\ up'[e] = up[e]
    BY <1>1, <1>2, <1>5
  <2>2. Safe(e, g) \/ Comes(e, g, joined, job, stray, down, up)
    BY <1>1, <2>1 DEF SlipsInv
  <2> QED BY <1>1, <2>1, <2>2 DEF Safe, Comes
<1> QED BY <1>4, <1>5

LEMMA SlipsPushAck ==
  ASSUME LogInv, SlipsInv, NEW d \in Devices, OnPushAck(d), LogInv'
  PROVE  SlipsInv'
<1> DEFINE mark == Head(down[d]).mark
<1>1. /\ UNCHANGED <<log, joined, job, stray, held, base, failed>>
      /\ down' = [down EXCEPT ![d] = Tail(@)]
      /\ down[d] # <<>> /\ Head(down[d]).kind = "push_ack"
  BY DEF OnPushAck, Receives, gateway, history
<1>a. /\ session' = session \/ session' = [session EXCEPT ![d].lastAck = mark]
      /\ up' = up \/ up' = [up EXCEPT ![d] = @] \/ up' = [up EXCEPT ![d] = @ \o Outbox(d, Checkpoint(d, mark))]
  <2>1. CASE AckCounts(d, mark)
    BY <2>1 DEF OnPushAck
  <2>2. CASE ~AckCounts(d, mark)
    BY <2>2 DEF OnPushAck
  <2> QED BY <2>1, <2>2
<1>2. /\ Shape /\ down \in [Devices -> Seq(DownFrames)] /\ up \in [Devices -> Seq(UpFrames)]
      /\ session \in [Devices -> Sessions] /\ ckpt[d] \in Marks
  BY DEF LogInv, Shape
<1>3. Head(down[d]) \in DownFrames /\ mark \in Nat
  <2>1. Head(down[d]) \in DownFrames
    BY <1>1, <1>2, TailAt
  <2> QED BY <1>1, <2>1, DownFields
<1>4. \A g : ~Brings(Head(down[d]), g)
  BY <1>1 DEF Brings
<1> HIDE DEF mark
<1>5. \A e \in Devices : session'[e].stage = session[e].stage
  <2>1. CASE session' = [session EXCEPT ![d].lastAck = mark]
    <3>1. session'[d].stage = session[d].stage
      BY <1>2, <1>3, <2>1, SessionSet DEF Marks
    <3>2. \A e \in Devices : e # d => session'[e] = session[e]
      BY <1>2, <2>1
    <3> QED BY <3>1, <3>2
  <2> QED BY <1>a, <2>1
<1>6. ASSUME NEW e \in Devices, NEW g, BringsIn(down[e], g) PROVE BringsIn(down'[e], g)
  <2>1. CASE e = d
    BY <1>1, <1>2, <1>4, <1>6, <2>1, BringsTail
  <2>2. CASE e # d
    BY <1>1, <1>2, <1>6, <2>2
  <2> QED BY <2>1, <2>2
<1>7. ASSUME NEW e \in Devices, NEW g, BringsIn(up[e], g) PROVE BringsIn(up'[e], g)
  <2>1. Checkpoint(d, mark) \in Marks
    BY <1>2, <1>3 DEF Checkpoint, Marks
  <2>2. Outbox(d, Checkpoint(d, mark)) \in Seq(UpFrames) /\ up[d] \in Seq(UpFrames)
    BY <1>2, <2>1, OutboxShape
  <2>3. CASE up' = [up EXCEPT ![d] = @ \o Outbox(d, Checkpoint(d, mark))]
    <3>1. CASE e = d
      BY <1>2, <1>7, <2>2, <2>3, <3>1, BringsConcat
    <3>2. CASE e # d
      BY <1>2, <1>7, <2>3, <3>2
    <3> QED BY <3>1, <3>2
  <2>4. CASE up' = up \/ up' = [up EXCEPT ![d] = @]
    BY <1>2, <1>7, <2>4
  <2> QED BY <1>a, <2>3, <2>4
<1> QED BY <1>1, <1>5, <1>6, <1>7, StillComes DEF Safe, Comes

(* A frame of events, live or of a page, is applied.                       *)
LEMMA SlipsEvents ==
  ASSUME LogInv, CursorBelowBlock, SlipsInv, NEW d \in Devices, OnEventBatch(d) \/ OnCatchupPage(d)
  PROVE  SlipsInv'
<1> DEFINE f == Head(down[d])
<1>1. /\ UNCHANGED <<log, joined, job, stray, base>>
      /\ down' = [down EXCEPT ![d] = Tail(@)]
      /\ down[d] # <<>>
  <2>1. CASE OnEventBatch(d)
    BY <2>1 DEF OnEventBatch, Receives, gateway
  <2>2. CASE OnCatchupPage(d)
    BY <2>2 DEF OnCatchupPage, Receives, gateway
  <2> QED BY <2>1, <2>2
<1>2. /\ \A e \in Devices : session'[e].stage = session[e].stage
      /\ \A e \in Devices : \A g \in held[e] \cup failed[e] : g \in held'[e] \cup failed'[e]
      /\ \A g \in f.seqs : g \in held'[d] \cup failed'[d]
  BY LogEvents
<1>3. /\ Shape /\ down \in [Devices -> Seq(DownFrames)] /\ up \in [Devices -> Seq(UpFrames)]
      /\ Len(log) \in Nat /\ base \in [Devices -> Nat]
  BY DEF LogInv, Shape
<1>4. f \in DownFrames
  BY <1>1, <1>3, TailAt
<1>5. \/ f.kind = "events" /\ up' = up
      \/ f.kind = "page" /\ up' = [up EXCEPT ![d] = IF f.complete THEN @ ELSE @ \o CatchupFrom(f.next)]
  <2>1. CASE OnEventBatch(d)
    BY <2>1 DEF OnEventBatch, Receives
  <2>2. CASE OnCatchupPage(d)
    BY <2>2 DEF OnCatchupPage, Receives
  <2> QED BY <2>1, <2>2
<1> HIDE DEF f
<1>6. ASSUME f.kind = "page" PROVE f.next \in Nat /\ CatchupFrom(f.next) \in Seq(UpFrames)
  BY <1>4, <1>6, DownFields, CatchupShape
<1>7. ASSUME NEW e \in Devices, NEW g, BringsIn(up[e], g) PROVE BringsIn(up'[e], g)
  <2>1. CASE e = d /\ f.kind = "page" /\ ~f.complete
    <3>1. f.kind # "events" /\ up'[d] = up[d] \o CatchupFrom(f.next)
      BY <1>3, <1>5, <2>1
    <3> QED BY <1>3, <1>6, <1>7, <2>1, <3>1, BringsConcat
  <2>2. CASE ~(e = d /\ f.kind = "page" /\ ~f.complete)
    <3>1. up'[e] = up[e]
      BY <1>3, <1>5, <2>2
    <3> QED BY <1>7, <3>1
  <2> QED BY <2>1, <2>2
<1>8. ASSUME NEW g \in Nat, BringsIn(down[d], g)
      PROVE  g \in held'[d] \cup failed'[d] \/ BringsIn(down'[d], g) \/ BringsIn(up'[d], g)
  <2>1. down'[d] = Tail(down[d]) /\ (Brings(f, g) \/ BringsIn(Tail(down[d]), g))
    BY <1>1, <1>3, <1>8, BringsTail DEF f
  <2>2. CASE g \in f.seqs
    BY <1>2, <2>2
  <2>3. CASE Brings(f, g) /\ g \notin f.seqs
    <3>1. f.kind = "page" /\ ~f.complete /\ g > f.next
      BY <1>5, <2>3 DEF Brings
    <3>2. f.kind # "events" /\ up'[d] = up[d] \o CatchupFrom(f.next)
      BY <1>3, <1>5, <3>1
    <3>3. BringsIn(CatchupFrom(f.next), g)
      BY <1>6, <3>1, CatchupBrings
    <3> QED BY <1>3, <1>6, <3>1, <3>2, <3>3, BringsConcat
  <2> QED BY <2>1, <2>2, <2>3
<1>9. \A e \in Devices : e # d => down'[e] = down[e]
  BY <1>1, <1>3
<1>10. \A e \in Devices : \A g : Safe(e, g) => Safe(e, g)'
  BY <1>2 DEF Safe
<1>11. ASSUME NEW e \in Devices, NEW g \in (base[e] + 1)..Len(log),
              Comes(e, g, joined, job, stray, down, up)
       PROVE  Safe(e, g)' \/ Comes(e, g, joined', job', stray', down', up')
  <2>1. base[e] \in Nat
    BY <1>3
  <2>2. g \in Nat
    BY <1>3, <2>1
  <2>3. CASE e = d
    BY <1>1, <1>7, <1>8, <1>11, <2>2, <2>3 DEF Comes, Safe
  <2>4. CASE e # d
    BY <1>1, <1>7, <1>9, <1>11, <2>4 DEF Comes
  <2> QED BY <2>3, <2>4
<1> QED BY <1>1, <1>2, <1>10, <1>11, StillComes

-----------------------------------------------------------------------------
(* The gateway's steps.                                                    *)
LEMMA UpTakenBrings ==
  ASSUME NEW u \in [Devices -> Seq(UpFrames)], NEW d \in Devices, u[d] # <<>>,
         NEW e \in Devices, NEW g, BringsIn(u[e], g)
  PROVE  BringsIn([u EXCEPT ![d] = Tail(@)][e], g) \/ (e = d /\ Brings(Head(u[d]), g))
<1>1. CASE e = d
  BY <1>1, BringsTail
<1>2. CASE e # d
  BY <1>2
<1> QED BY <1>1, <1>2

LEMMA DownSentBrings ==
  ASSUME NEW q \in [Devices -> Seq(DownFrames)], NEW d \in Devices, NEW x \in DownFrames,
         NEW e \in Devices, NEW g, BringsIn(q[e], g) \/ (e = d /\ Brings(x, g))
  PROVE  BringsIn([q EXCEPT ![d] = Append(@, x)][e], g)
<1>1. CASE e = d
  BY <1>1, BringsAppend
<1>2. CASE e # d
  BY <1>2
<1> QED BY <1>1, <1>2

LEMMA SlipsHello ==
  ASSUME LogInv, SlipsInv, NEW d \in Devices, Hello(d)
  PROVE  SlipsInv'
<1>1. /\ UNCHANGED <<log, stray, held, session, down, base, failed>>
      /\ joined' = joined \cup {d} /\ job' = [job EXCEPT ![d] = [kind |-> "hello"]]
      /\ up' = [up EXCEPT ![d] = Tail(@)]
      /\ up[d] # <<>> /\ job[d] = Idle /\ Head(up[d]).kind = "hello"
  BY DEF Hello, Serves, disk, history
<1>2. job \in [Devices -> Jobs] /\ up \in [Devices -> Seq(UpFrames)]
  BY DEF LogInv, Shape
<1>3. \A e \in Devices : \A g : BringsIn(up[e], g) => BringsIn(up'[e], g)
  BY <1>1, <1>2, UpTakenBrings DEF Brings
<1>4. /\ job'[d].kind = "hello" /\ job[d].kind = "none"
      /\ \A e \in Devices : e # d => job'[e] = job[e]
  BY <1>1, <1>2 DEF Idle
<1>5. \A e \in Devices : \A g : Brings(job[e], g) => Brings(job'[e], g)
  BY <1>4 DEF Brings
<1>6. \A g : Pending(job, stray, g) => Pending(job', stray', g)
  BY <1>1, <1>4 DEF Pending
<1> QED BY <1>1, <1>3, <1>5, <1>6, StillComes DEF Safe, Comes

LEMMA SlipsSendsHelloAck ==
  ASSUME LogInv, SlipsInv, NEW d \in Devices, HelloAck(d)
  PROVE  SlipsInv'
<1>1. /\ UNCHANGED <<log, joined, stray, held, session, up, base, failed>>
      /\ job[d].kind = "hello" /\ job' = [job EXCEPT ![d] = Idle]
      /\ down' = [down EXCEPT ![d] = Append(@, [kind |-> "hello_ack"])]
  BY DEF HelloAck, disk, history
<1>2. job \in [Devices -> Jobs] /\ down \in [Devices -> Seq(DownFrames)]
  BY DEF LogInv, Shape
<1>3. \A e \in Devices : \A g : BringsIn(down[e], g) => BringsIn(down'[e], g)
  BY <1>1, <1>2, DownSentBrings, FramesMade
<1>4. /\ job'[d].kind = "none" /\ \A e \in Devices : e # d => job'[e] = job[e]
  BY <1>1, <1>2 DEF Idle
<1>5. \A e \in Devices : \A g : Brings(job[e], g) => Brings(job'[e], g)
  BY <1>1, <1>4 DEF Brings
<1>6. \A g : Pending(job, stray, g) => Pending(job', stray', g)
  BY <1>1, <1>4 DEF Pending
<1> QED BY <1>1, <1>3, <1>5, <1>6, StillComes DEF Safe, Comes

LEMMA SlipsSendAck ==
  ASSUME LogInv, SlipsInv, NEW d \in Devices, SendAck(d)
  PROVE  SlipsInv'
<1> DEFINE m == job[d].mark
           next == IF job[d].seqs = {} THEN Idle ELSE [kind |-> "fan", seqs |-> job[d].seqs]
<1>1. /\ UNCHANGED <<log, joined, stray, held, session, up, base, failed>>
      /\ job[d].kind = "ack" /\ job' = [job EXCEPT ![d] = next]
      /\ down' = [down EXCEPT ![d] = IF m < 0 THEN @ ELSE Append(@, [kind |-> "push_ack", mark |-> m])]
  BY DEF SendAck, disk, history
<1>2. job \in [Devices -> Jobs] /\ down \in [Devices -> Seq(DownFrames)] /\ m \in Marks
  BY <1>1, JobFields DEF LogInv, Shape
<1>3. /\ next.kind \in {"none", "fan"}
      /\ \A g \in job[d].seqs : next.kind = "fan" /\ g \in next.seqs
  BY DEF Idle
<1> HIDE DEF m, next
<1>4. ASSUME NEW e \in Devices, NEW g, BringsIn(down[e], g) PROVE BringsIn(down'[e], g)
  <2>1. CASE m < 0
    BY <1>1, <1>2, <1>4, <2>1
  <2>2. CASE ~(m < 0)
    <3>1. [kind |-> "push_ack", mark |-> m] \in DownFrames
      BY <1>2, <2>2, FramesMade DEF Marks
    <3>2. down' = [down EXCEPT ![d] = Append(@, [kind |-> "push_ack", mark |-> m])]
      BY <1>1, <2>2
    <3> QED BY <1>2, <1>4, <3>1, <3>2, DownSentBrings
  <2> QED BY <2>1, <2>2
<1>5. job'[d] = next /\ \A e \in Devices : e # d => job'[e] = job[e]
  BY <1>1, <1>2
<1>6. \A e \in Devices : \A g : Brings(job[e], g) => Brings(job'[e], g)
  BY <1>1, <1>5 DEF Brings
<1>7. ASSUME NEW g, Pending(job, stray, g) PROVE Pending(job', stray', g)
  <2>1. CASE \E s \in stray : s.kind = "fan" /\ g \in s.seqs
    BY <1>1, <2>1 DEF Pending
  <2>2. CASE \E p \in Devices : job[p].kind \in {"ack", "fan"} /\ g \in job[p].seqs
    <3>1. PICK p \in Devices : job[p].kind \in {"ack", "fan"} /\ g \in job[p].seqs
      BY <2>2
    <3>2. job'[p].kind \in {"ack", "fan"} /\ g \in job'[p].seqs
      BY <1>3, <1>5, <3>1
    <3> QED BY <3>2 DEF Pending
  <2> QED BY <1>7, <2>1, <2>2 DEF Pending
<1> QED BY <1>1, <1>4, <1>6, <1>7, StillComes DEF Safe, Comes

LEMMA SlipsFanOut ==
  ASSUME LogInv, SlipsInv, NEW d \in Devices, FanOut(d)
  PROVE  SlipsInv'
<1>1. /\ UNCHANGED <<log, joined, stray, held, session, up, base, failed>>
      /\ job[d].kind = "fan" /\ job' = [job EXCEPT ![d] = Idle]
      /\ down' = Fanned(down, joined, job[d].seqs)
  BY DEF FanOut, Deliver, Fanned, disk, history
<1>2. /\ job \in [Devices -> Jobs] /\ down \in [Devices -> Seq(DownFrames)]
      /\ job[d].seqs \in SUBSET Nat
  BY <1>1, JobFields DEF LogInv, Shape
<1>3. ASSUME NEW e \in Devices, NEW g, BringsIn(down[e], g) \/ (e \in joined /\ g \in job[d].seqs)
      PROVE  BringsIn(down'[e], g)
  <2> DEFINE seqs == job[d].seqs
  <2>1. seqs \in SUBSET Nat /\ (BringsIn(down[e], g) \/ (e \in joined /\ g \in seqs))
    BY <1>2, <1>3
  <2>2. down' = Fanned(down, joined, seqs)
    BY <1>1
  <2> HIDE DEF seqs
  <2>3. BringsIn(Fanned(down, joined, seqs)[e], g)
    BY <1>2, <2>1, BringsFanned
  <2> QED BY <2>2, <2>3
<1>4. job'[d].kind = "none" /\ \A e \in Devices : e # d => job'[e] = job[e]
  BY <1>1, <1>2 DEF Idle
<1>5. \A e \in Devices : \A g : Brings(job[e], g) => Brings(job'[e], g)
  BY <1>1, <1>4 DEF Brings
<1>6. \A g : Pending(job, stray, g) => Pending(job', stray', g) \/ g \in job[d].seqs
  BY <1>1, <1>4 DEF Pending
<1>7. ASSUME NEW e \in Devices, NEW g, Comes(e, g, joined, job, stray, down, up)
      PROVE  Comes(e, g, joined', job', stray', down', up')
  BY <1>1, <1>3, <1>5, <1>6, <1>7 DEF Comes
<1> QED BY <1>1, <1>7, StillComes DEF Safe

LEMMA SlipsReadPage ==
  ASSUME LogInv, SlipsInv, NEW d \in Devices, ReadPage(d)
  PROVE  SlipsInv'
<1> DEFINE from == Head(up[d]).from
<1>1. /\ UNCHANGED <<log, joined, stray, held, session, down, base, failed>>
      /\ up' = [up EXCEPT ![d] = Tail(@)] /\ job[d] = Idle
  BY DEF ReadPage, Serves, disk, history
<1>2. /\ up[d] # <<>> /\ Head(up[d]).kind = "catchup" /\ from \in Nat
      /\ job' = [job EXCEPT ![d] = PageFrom(from)]
  BY LogReadPage
<1>3. /\ Shape /\ job \in [Devices -> Jobs] /\ up \in [Devices -> Seq(UpFrames)]
      /\ Len(log) \in Nat /\ base \in [Devices -> Nat]
  BY DEF LogInv, Shape
<1>4. \A e \in Devices : \A g :
        BringsIn(up[e], g) => BringsIn(up'[e], g) \/ (e = d /\ Brings(Head(up[d]), g))
  BY <1>1, <1>2, <1>3, UpTakenBrings
<1>5. \A g : Brings(Head(up[d]), g) => g > from
  BY <1>2 DEF Brings
<1> HIDE DEF from
<1>6. /\ job'[d] = PageFrom(from) /\ PageFrom(from).kind = "page" /\ job[d].kind = "none"
      /\ \A e \in Devices : e # d => job'[e] = job[e]
  BY <1>1, <1>2, <1>3, PageRead DEF Idle
<1>7. \A g \in 1..Len(log) : g > from => Brings(job'[d], g)
  BY <1>2, <1>3, <1>6, PageRead
<1>8. \A e \in Devices : \A g : Brings(job[e], g) => Brings(job'[e], g)
  BY <1>6 DEF Brings
<1>9. \A g : Pending(job, stray, g) => Pending(job', stray', g)
  BY <1>1, <1>6 DEF Pending
<1>10. ASSUME NEW e \in Devices, NEW g \in (base[e] + 1)..Len(log),
              Comes(e, g, joined, job, stray, down, up)
       PROVE  Comes(e, g, joined', job', stray', down', up')
  <2>1. base[e] \in Nat
    BY <1>3
  <2>2. g \in 1..Len(log)
    BY <1>3, <2>1
  <2> QED BY <1>1, <1>4, <1>5, <1>7, <1>8, <1>9, <1>10, <2>2 DEF Comes
<1> QED BY <1>1, <1>10, StillComes DEF Safe

LEMMA SlipsSendPage ==
  ASSUME LogInv, SlipsInv, NEW d \in Devices, SendPage(d)
  PROVE  SlipsInv'
<1>1. /\ UNCHANGED <<log, joined, stray, held, session, up, base, failed>>
      /\ job[d].kind = "page" /\ job' = [job EXCEPT ![d] = Idle]
      /\ down' = [down EXCEPT ![d] = Append(@, job[d])]
  BY DEF SendPage, disk, history
<1>2. /\ job \in [Devices -> Jobs] /\ down \in [Devices -> Seq(DownFrames)]
      /\ job[d] \in DownFrames
  BY <1>1, JobFields DEF LogInv, Shape
<1>3. \A e \in Devices : \A g : BringsIn(down[e], g) \/ (e = d /\ Brings(job[d], g)) => BringsIn(down'[e], g)
  BY <1>1, <1>2, DownSentBrings
<1>4. job'[d].kind = "none" /\ \A e \in Devices : e # d => job'[e] = job[e]
  BY <1>1, <1>2 DEF Idle
<1>6. \A g : Pending(job, stray, g) => Pending(job', stray', g)
  BY <1>1, <1>4 DEF Pending
<1>7. ASSUME NEW e \in Devices, NEW g, Comes(e, g, joined, job, stray, down, up)
      PROVE  Comes(e, g, joined', job', stray', down', up')
  BY <1>1, <1>3, <1>4, <1>6, <1>7 DEF Comes
<1> QED BY <1>1, <1>7, StillComes DEF Safe

(* A push commits: its events are pending for everyone in the fan-out set, *)
(* which every open session's device is.                                   *)
LEMMA NewComes ==
  ASSUME LogInv, SlipsInv, UNCHANGED <<joined, held, session, down, base, failed>>,
         Len(log) \in Nat, Len(log') \in Nat,
         \A g : Pending(job, stray, g) => Pending(job', stray', g),
         \A g \in (Len(log) + 1)..Len(log') : Pending(job', stray', g),
         \A e \in Devices : \A g : Brings(job[e], g) => Brings(job'[e], g),
         \A e \in Devices : \A g : BringsIn(up[e], g) => BringsIn(up'[e], g)
  PROVE  SlipsInv'
<1> SUFFICES ASSUME NEW e \in Devices, session[e].stage = "open",
                    NEW g \in (base[e] + 1)..Len(log')
             PROVE  Safe(e, g)' \/ Comes(e, g, joined', job', stray', down', up')
  BY DEF SlipsInv
<1>1. base[e] \in Nat /\ e \in joined
  BY DEF LogInv, Shape, Told
<1>2. CASE g \in (base[e] + 1)..Len(log)
  <2>1. Safe(e, g) \/ Comes(e, g, joined, job, stray, down, up)
    BY <1>2 DEF SlipsInv
  <2> QED BY <2>1 DEF Safe, Comes
<1>3. CASE g \in (Len(log) + 1)..Len(log')
  BY <1>1, <1>3 DEF Comes
<1> QED BY <1>1, <1>2, <1>3

LEMMA SlipsCommit ==
  ASSUME LogInv, SlipsInv, NEW d \in Devices, Commit(d)
  PROVE  SlipsInv'
<1>1. /\ UNCHANGED <<joined, stray, held, session, down, base, failed>>
      /\ up' = [up EXCEPT ![d] = Tail(@)] /\ job[d] = Idle
  BY DEF Commit, Serves, disk, history
<1>2. /\ up[d] # <<>> /\ Head(up[d]).kind = "push" /\ Len(log) \in Nat /\ Len(log') \in Nat
      /\ job'[d].kind = "ack" /\ job'[d].seqs = (Len(log) + 1)..Len(log')
      /\ \A e \in Devices : e # d => job'[e] = job[e]
  BY LogCommit
<1>3. up \in [Devices -> Seq(UpFrames)]
  BY DEF LogInv, Shape
<1>4. \A e \in Devices : \A g : BringsIn(up[e], g) => BringsIn(up'[e], g)
  BY <1>1, <1>2, <1>3, UpTakenBrings DEF Brings
<1>5. job[d].kind = "none"
  BY <1>1 DEF Idle
<1>6. \A e \in Devices : \A g : Brings(job[e], g) => Brings(job'[e], g)
  BY <1>2, <1>5 DEF Brings
<1>7. \A g : Pending(job, stray, g) => Pending(job', stray', g)
  BY <1>1, <1>2, <1>5 DEF Pending
<1>8. \A g \in (Len(log) + 1)..Len(log') : Pending(job', stray', g)
  BY <1>2 DEF Pending
<1> QED BY <1>1, <1>2, <1>4, <1>6, <1>7, <1>8, NewComes

LEMMA SlipsStrayCommit ==
  ASSUME LogInv, SlipsInv, NEW s \in stray, StrayCommit(s)
  PROVE  SlipsInv'
<1>1. UNCHANGED <<joined, job, held, session, up, down, base, failed>>
  BY DEF StrayCommit, disk, history
<1>2. /\ Len(log) \in Nat /\ Len(log') \in Nat /\ s.kind = "push"
      /\ stray \ {s} \subseteq stray'
      /\ \A g \in (Len(log) + 1)..Len(log') : \E r \in stray' : r.kind = "fan" /\ g \in r.seqs
  BY LogStrayCommit
<1>3. \A g : Pending(job, stray, g) => Pending(job', stray', g)
  BY <1>1, <1>2 DEF Pending
<1>4. \A g \in (Len(log) + 1)..Len(log') : Pending(job', stray', g)
  BY <1>2 DEF Pending
<1> QED BY <1>1, <1>2, <1>3, <1>4, NewComes

LEMMA SlipsStrayFanOut ==
  ASSUME LogInv, SlipsInv, NEW s \in stray, StrayFanOut(s)
  PROVE  SlipsInv'
<1> DEFINE seqs == s.seqs
<1>1. /\ UNCHANGED <<log, joined, job, held, session, up, base, failed>>
      /\ s.kind = "fan" /\ stray' = stray \ {s}
      /\ down' = Fanned(down, joined, seqs)
  BY DEF StrayFanOut, Deliver, Fanned, disk, history
<1>2. down \in [Devices -> Seq(DownFrames)] /\ seqs \in SUBSET Nat
  BY <1>1, StrayFields DEF LogInv, Shape
<1>3. \A g : Pending(job, stray, g) => Pending(job', stray', g) \/ g \in seqs
  BY <1>1 DEF Pending
<1> HIDE DEF seqs
<1>4. ASSUME NEW e \in Devices, NEW g, BringsIn(down[e], g) \/ (e \in joined /\ g \in seqs)
      PROVE  BringsIn(down'[e], g)
  <2>1. BringsIn(Fanned(down, joined, seqs)[e], g)
    BY <1>2, <1>4, BringsFanned
  <2> QED BY <1>1, <2>1
<1>5. ASSUME NEW e \in Devices, NEW g, Comes(e, g, joined, job, stray, down, up)
      PROVE  Comes(e, g, joined', job', stray', down', up')
  BY <1>1, <1>3, <1>4, <1>5 DEF Comes
<1> QED BY <1>1, <1>5, StillComes DEF Safe

-----------------------------------------------------------------------------
(* A connection goes: only the sessions of the others stay open, and what  *)
(* its handler had committed is still fanned out to them.                  *)
LEMMA SlipsBreak ==
  ASSUME LogInv, SlipsInv, NEW D \in SUBSET Devices, Break(D), UNCHANGED <<log, base>>,
         \/ D = Devices
         \/ stray \subseteq stray' /\ \A p \in D : Committed(p) \subseteq stray',
         \A e \in D : session'[e].stage # "open",
         \A e \in Devices \ D : /\ session'[e].stage = "open" => session[e].stage = "open"
                                /\ held'[e] = held[e] /\ failed'[e] = failed[e]
  PROVE  SlipsInv'
<1>1. /\ joined' = joined \ D
      /\ \A d \in Devices \ D : job'[d] = job[d] /\ up'[d] = up[d] /\ down'[d] = down[d]
  BY DEF Break
<1> SUFFICES ASSUME NEW e \in Devices, session'[e].stage = "open",
                    NEW g \in (base[e] + 1)..Len(log)
             PROVE  Safe(e, g)' \/ Comes(e, g, joined', job', stray', down', up')
  BY DEF SlipsInv
<1>2. e \notin D /\ D # Devices
  OBVIOUS
<1>3. Safe(e, g) \/ Comes(e, g, joined, job, stray, down, up)
  BY <1>2 DEF SlipsInv
<1>4. ASSUME Pending(job, stray, g) PROVE Pending(job', stray', g)
  <2>1. CASE \E s \in stray : s.kind = "fan" /\ g \in s.seqs
    BY <1>2, <2>1 DEF Pending
  <2>2. CASE \E p \in Devices : job[p].kind \in {"ack", "fan"} /\ g \in job[p].seqs
    <3>1. PICK p \in Devices : job[p].kind \in {"ack", "fan"} /\ g \in job[p].seqs
      BY <2>2
    <3>2. CASE p \in D
      <4>1. [kind |-> "fan", seqs |-> job[p].seqs] \in Committed(p)
        BY <3>1 DEF Committed
      <4>2. [kind |-> "fan", seqs |-> job[p].seqs] \in stray'
        BY <1>2, <3>2, <4>1
      <4> QED BY <3>1, <4>2 DEF Pending
    <3>3. CASE p \notin D
      BY <1>1, <3>1, <3>3 DEF Pending
    <3> QED BY <3>2, <3>3
  <2> QED BY <1>4, <2>1, <2>2 DEF Pending
<1>5. Safe(e, g) => Safe(e, g)'
  BY <1>2 DEF Safe
<1> QED BY <1>1, <1>2, <1>3, <1>4, <1>5 DEF Comes

LEMMA FreshIs == Fresh \in Sessions /\ Fresh.stage = "down" /\ Fresh.blocked = 0
BY DEF Fresh, Sessions, Stages, Marks

LEMMA Disconnects ==
  ASSUME LogInv, CursorBelowBlock, SlipsInv, NEW d \in Devices, Disconnect(d) \/ Restart(d)
  PROVE  LogInv' /\ CursorBelowBlock' /\ SlipsInv'
<1>1. /\ Break({d}) /\ UNCHANGED <<log, settled, own, ckpt, cursor, held, base, failed>>
      /\ \E got \in SUBSET Received(d) : stray' = stray \cup Committed(d) \cup got
      /\ \/ session' = [session EXCEPT ![d].stage = "down"]
         \/ session' = [session EXCEPT ![d] = Fresh]
  <2>1. CASE Disconnect(d)
    BY <2>1 DEF Disconnect, disk
  <2>2. CASE Restart(d)
    BY <2>2 DEF Restart, disk
  <2> QED BY <2>1, <2>2
<1>2. /\ stray \subseteq Strays /\ StraysSpeak(stray, Len(log))
      /\ held \in [Devices -> SUBSET Nat] /\ failed \in [Devices -> SUBSET Nat]
      /\ session \in [Devices -> Sessions] /\ "down" \in Stages
  BY DEF LogInv, Shape, Told, Stages
<1>3. stray' \subseteq Strays /\ StraysSpeak(stray', Len(log))
  <2>1. PICK got \in SUBSET Received(d) : stray' = stray \cup Committed(d) \cup got
    BY <1>1
  <2> QED BY <1>2, <2>1, RunsOn DEF StraysSpeak
<1>4. stray \subseteq stray' /\ Committed(d) \subseteq stray'
  BY <1>1
<1>5. /\ session' \in [Devices -> Sessions] /\ session'[d].stage = "down"
      /\ session'[d].blocked \in {session[d].blocked, 0}
      /\ \A e \in Devices : e # d => session'[e] = session[e]
  <2>1. CASE session' = [session EXCEPT ![d].stage = "down"]
    <3>1. /\ session' \in [Devices -> Sessions] /\ session'[d].stage = "down"
          /\ session'[d].blocked = session[d].blocked
      BY <1>2, <2>1, SessionSet
    <3> QED BY <1>2, <2>1, <3>1
  <2>2. CASE session' = [session EXCEPT ![d] = Fresh]
    BY <1>2, <2>2, FreshIs
  <2> QED BY <1>1, <2>1, <2>2
<1>6. LogInv'
  BY <1>1, <1>2, <1>3, <1>5, LogBreak
<1>7. CursorBelowBlock'
  BY <1>1, <1>5 DEF CursorBelowBlock
<1>8. SlipsInv'
  BY <1>1, <1>4, <1>5, SlipsBreak
<1> QED BY <1>6, <1>7, <1>8

LEMMA RestartsAfterIngest ==
  ASSUME LogInv, CursorBelowBlock, SlipsInv, NEW d \in Devices, RestartAfterIngest(d)
  PROVE  LogInv' /\ CursorBelowBlock' /\ SlipsInv'
<1>1. /\ Break({d}) /\ UNCHANGED <<log, settled, own, ckpt, cursor, base>>
      /\ down[d] # <<>> /\ Head(down[d]).kind \in {"events", "page"}
      /\ stray' = stray \cup Committed(d)
      /\ held' = [held EXCEPT ![d] = @ \cup Head(down[d]).seqs]
      /\ failed' = [failed EXCEPT ![d] = @ \ Head(down[d]).seqs]
      /\ session' = [session EXCEPT ![d] = Fresh]
  BY DEF RestartAfterIngest, Receives
<1>2. /\ stray \subseteq Strays /\ StraysSpeak(stray, Len(log))
      /\ held \in [Devices -> SUBSET Nat] /\ failed \in [Devices -> SUBSET Nat]
      /\ session \in [Devices -> Sessions] /\ down \in [Devices -> Seq(DownFrames)]
  BY DEF LogInv, Shape, Told
<1>3. stray' \subseteq Strays /\ StraysSpeak(stray', Len(log))
  BY <1>1, <1>2, RunsOn DEF StraysSpeak
<1>4. Head(down[d]).seqs \in SUBSET Nat
  <2>1. Head(down[d]) \in DownFrames
    BY <1>1, <1>2, TailAt
  <2> QED BY <1>1, <2>1, DownFields
<1>5. held' \in [Devices -> SUBSET Nat] /\ failed' \in [Devices -> SUBSET Nat]
  BY <1>1, <1>2, <1>4
<1>6. /\ session' \in [Devices -> Sessions] /\ session'[d].stage = "down" /\ session'[d].blocked = 0
      /\ \A e \in Devices : e # d => session'[e] = session[e] /\ held'[e] = held[e] /\ failed'[e] = failed[e]
  BY <1>1, <1>2, FreshIs
<1>7. LogInv'
  BY <1>1, <1>3, <1>5, <1>6, LogBreak
<1>8. CursorBelowBlock'
  BY <1>1, <1>6 DEF CursorBelowBlock
<1>9. SlipsInv'
  BY <1>1, <1>6, SlipsBreak
<1> QED BY <1>7, <1>8, <1>9

LEMMA GatewayRestarts ==
  ASSUME LogInv, CursorBelowBlock, SlipsInv, GatewayRestart
  PROVE  LogInv' /\ CursorBelowBlock' /\ SlipsInv'
<1>1. /\ Break(Devices) /\ UNCHANGED <<log, settled, own, ckpt, cursor, held, base, failed>>
      /\ stray' = {}
      /\ session' = [d \in Devices |-> [session[d] EXCEPT !.stage = "down"]]
  BY DEF GatewayRestart, disk
<1>2. /\ held \in [Devices -> SUBSET Nat] /\ failed \in [Devices -> SUBSET Nat]
      /\ session \in [Devices -> Sessions] /\ "down" \in Stages
  BY DEF LogInv, Shape, Stages
<1>3. ASSUME NEW d \in Devices
      PROVE  /\ session'[d] \in Sessions /\ session'[d].stage = "down"
             /\ session'[d].blocked = session[d].blocked
  <2>1. session'[d] = [session[d] EXCEPT !.stage = "down"] /\ session[d] \in Sessions
    BY <1>1, <1>2
  <2> QED BY <1>2, <2>1 DEF Sessions
<1>4. session' \in [Devices -> Sessions]
  BY <1>1, <1>3
<1>5. StraysSpeak(stray', Len(log)) /\ stray' \subseteq Strays
  BY <1>1 DEF StraysSpeak
<1>6. LogInv'
  BY <1>1, <1>2, <1>3, <1>4, <1>5, LogBreak
<1>7. CursorBelowBlock'
  BY <1>1, <1>3 DEF CursorBelowBlock
<1>8. SlipsInv'
  BY <1>1, <1>3, SlipsBreak
<1> QED BY <1>6, <1>7, <1>8

-----------------------------------------------------------------------------
(* The inductive invariant.                                                *)
IInv == LogInv /\ CursorBelowBlock /\ NothingSlips

LEMMA InitIInv == Init => IInv
<1> SUFFICES ASSUME Init PROVE IInv
  OBVIOUS
<1>1. Shape
  BY JobsMade, FreshIs, CloudSyncAssumption DEF Init, Shape, Marks
<1>2. Len(log) = 0 /\ Seqs = {} /\ \A d \in Devices : 0..settled[d] = {}
  BY DEF Init, Seqs
<1>3. SettledInLog /\ LogInOrder
  BY <1>2 DEF SettledInLog, LogInOrder
<1>4. \A d \in Devices : session[d] = Fresh /\ session[d].stage = "down" /\ session[d].blocked = 0
  BY FreshIs DEF Init
<1>5. JobsSpeak(job, joined, settled, Len(log))
  BY IdleSpeaks DEF Init, JobsSpeak
<1>6. DownSpeaks(down, joined, settled, Len(log)) /\ StraysSpeak(stray, Len(log))
  BY DEF Init, DownSpeaks, StraysSpeak
<1>7. \A d \in Devices : ckpt[d] <= settled[d]
  BY DEF Init
<1>8. Told
  BY <1>4, <1>5, <1>6, <1>7 DEF Told
<1>9. CursorBelowBlock /\ NothingSlips
  BY <1>4 DEF CursorBelowBlock, NothingSlips
<1> QED BY <1>1, <1>3, <1>8, <1>9 DEF IInv, LogInv

LEMMA BlockKept ==
  ASSUME CursorBelowBlock, UNCHANGED cursor,
         \A e \in Devices : session'[e].blocked = session[e].blocked
  PROVE  CursorBelowBlock'
BY DEF CursorBelowBlock

(* Only an applied batch, a crash or a disconnection touches a cursor or   *)
(* the block it stands below.                                              *)
LEMMA BlocksStand ==
  ASSUME LogInv, CursorBelowBlock, NEW d \in Devices,
         \/ AppendEvent(d) \/ NotifyAppended(d) \/ Connect(d) \/ OnHelloAck(d) \/ OnPushAck(d)
         \/ Handler(d)
  PROVE  CursorBelowBlock'
<1>1. session \in [Devices -> Sessions]
  BY DEF LogInv, Shape
<1>2. CASE AppendEvent(d)
  BY <1>2, BlockKept DEF AppendEvent
<1>3. CASE NotifyAppended(d)
  BY <1>3, BlockKept DEF NotifyAppended, disk
<1>4. CASE Connect(d) \/ OnHelloAck(d)
  <2>1. UNCHANGED cursor /\ \E st \in Stages : session' = [session EXCEPT ![d].stage = st]
    BY <1>4 DEF Connect, OnHelloAck, disk, Stages
  <2>2. PICK st \in Stages : session' = [session EXCEPT ![d].stage = st]
    BY <2>1
  <2>3. session'[d].blocked = session[d].blocked /\ \A e \in Devices : e # d => session'[e] = session[e]
    BY <1>1, <2>2, SessionSet
  <2> QED BY <2>1, <2>3, BlockKept
<1>5. CASE OnPushAck(d)
  <2> DEFINE mark == Head(down[d]).mark
  <2>1. UNCHANGED cursor /\ (session' = session \/ session' = [session EXCEPT ![d].lastAck = mark])
    <3>1. CASE AckCounts(d, mark)
      BY <1>5, <3>1 DEF OnPushAck
    <3>2. CASE ~AckCounts(d, mark)
      BY <1>5, <3>2 DEF OnPushAck
    <3> QED BY <3>1, <3>2
  <2>2. mark \in Marks
    <3>1. down[d] \in Seq(DownFrames) /\ down[d] # <<>> /\ Head(down[d]).kind = "push_ack"
      BY <1>5 DEF OnPushAck, Receives, LogInv, Shape
    <3>2. Head(down[d]) \in DownFrames
      BY <3>1, TailAt
    <3> QED BY <3>1, <3>2, DownFields DEF Marks
  <2> HIDE DEF mark
  <2>3. CASE session' = [session EXCEPT ![d].lastAck = mark]
    <3>1. session'[d].blocked = session[d].blocked /\ \A e \in Devices : e # d => session'[e] = session[e]
      BY <1>1, <2>2, <2>3, SessionSet
    <3> QED BY <2>1, <3>1, BlockKept
  <2> QED BY <2>1, <2>3, BlockKept
<1>6. CASE Handler(d)
  <2>1. UNCHANGED <<cursor, session>>
    BY <1>6 DEF Handler, Hello, HelloAck, Commit, SendAck, FanOut, ReadPage, SendPage, disk
  <2> QED BY <2>1, BlockKept
<1> QED BY <1>2, <1>3, <1>4, <1>5, <1>6

LEMMA StrayBlocks ==
  ASSUME CursorBelowBlock, NEW s \in stray, StrayCommit(s) \/ StrayFanOut(s)
  PROVE  CursorBelowBlock'
<1>1. UNCHANGED <<cursor, session>>
  BY DEF StrayCommit, StrayFanOut, disk
<1> QED BY <1>1, BlockKept

LEMMA NextIInv == IInv /\ [Next]_vars => IInv'
<1> SUFFICES ASSUME IInv, [Next]_vars PROVE IInv'
  OBVIOUS
<1>1. LogInv /\ CursorBelowBlock /\ Shape /\ NothingSlips
  BY DEF IInv, LogInv
<1>2. SlipsInv
  BY <1>1, SlipsIs
<1>3. ASSUME LogInv', CursorBelowBlock', SlipsInv' PROVE IInv'
  <2>1. Shape' /\ (Shape' => (NothingSlips' <=> SlipsInv'))
    BY <1>3, SlipsIs, PTL DEF LogInv
  <2> QED BY <1>3, <2>1 DEF IInv
<1>4. ASSUME NEW d \in Devices, AppendEvent(d) \/ NotifyAppended(d) \/ Connect(d)
      PROVE  IInv'
  <2>1. LogInv'
    BY <1>1, <1>4, LogAppendEvent, LogConnect
  <2>2. CursorBelowBlock' /\ SlipsInv'
    BY <1>1, <1>2, <1>4, BlocksStand, SlipsAppendEvent
  <2> QED BY <1>3, <2>1, <2>2
<1>5. ASSUME NEW d \in Devices, Device(d) PROVE IInv'
  <2>1. CASE OnHelloAck(d)
    BY <1>1, <1>2, <1>3, <2>1, LogHelloAck, BlocksStand, SlipsHelloAck
  <2>2. CASE OnPushAck(d)
    BY <1>1, <1>2, <1>3, <2>2, LogPushAck, BlocksStand, SlipsPushAck
  <2>3. CASE OnEventBatch(d) \/ OnCatchupPage(d)
    BY <1>1, <1>2, <1>3, <2>3, LogEvents, SlipsEvents
  <2> QED BY <1>5, <2>1, <2>2, <2>3 DEF Device
<1>6. ASSUME NEW d \in Devices, Handler(d) PROVE IInv'
  <2>1. CursorBelowBlock'
    BY <1>1, <1>6, BlocksStand
  <2>2. CASE Hello(d)
    BY <1>1, <1>2, <1>3, <2>1, <2>2, LogHello, SlipsHello
  <2>3. CASE HelloAck(d)
    BY <1>1, <1>2, <1>3, <2>1, <2>3, LogSendsHelloAck, SlipsSendsHelloAck
  <2>4. CASE Commit(d)
    BY <1>1, <1>2, <1>3, <2>1, <2>4, LogCommit, SlipsCommit
  <2>5. CASE SendAck(d)
    BY <1>1, <1>2, <1>3, <2>1, <2>5, LogSendAck, SlipsSendAck
  <2>6. CASE FanOut(d)
    BY <1>1, <1>2, <1>3, <2>1, <2>6, LogFanOut, SlipsFanOut
  <2>7. CASE ReadPage(d)
    BY <1>1, <1>2, <1>3, <2>1, <2>7, LogReadPage, SlipsReadPage
  <2>8. CASE SendPage(d)
    BY <1>1, <1>2, <1>3, <2>1, <2>8, LogSendPage, SlipsSendPage
  <2> QED BY <1>6, <2>2, <2>3, <2>4, <2>5, <2>6, <2>7, <2>8 DEF Handler
<1>7. CASE Stray
  <2>1. PICK s \in stray : StrayCommit(s) \/ StrayFanOut(s)
    BY <1>7 DEF Stray
  <2>2. CursorBelowBlock'
    BY <1>1, <2>1, StrayBlocks
  <2>3. CASE StrayCommit(s)
    BY <1>1, <1>2, <1>3, <2>2, <2>3, LogStrayCommit, SlipsStrayCommit
  <2>4. CASE StrayFanOut(s)
    BY <1>1, <1>2, <1>3, <2>2, <2>4, LogStrayFanOut, SlipsStrayFanOut
  <2> QED BY <2>1, <2>3, <2>4
<1>8. CASE Failure
  <2>1. CASE \E d \in Devices : Disconnect(d) \/ Restart(d) \/ RestartAfterIngest(d)
    <3>1. PICK d \in Devices : Disconnect(d) \/ Restart(d) \/ RestartAfterIngest(d)
      BY <2>1
    <3> QED BY <1>1, <1>2, <1>3, <3>1, Disconnects, RestartsAfterIngest
  <2>2. CASE GatewayRestart
    BY <1>1, <1>2, <1>3, <2>2, GatewayRestarts
  <2> QED BY <1>8, <2>1, <2>2 DEF Failure
<1>9. CASE UNCHANGED vars
  <2>1. /\ log' = log /\ settled' = settled /\ joined' = joined /\ job' = job /\ stray' = stray
        /\ own' = own /\ ckpt' = ckpt /\ cursor' = cursor /\ held' = held
        /\ session' = session /\ up' = up /\ down' = down /\ base' = base /\ failed' = failed
    BY <1>9 DEF vars
  <2>2. Shape' /\ Told' /\ SettledInLog' /\ LogInOrder'
    BY <1>1, <2>1 DEF LogInv, Shape, Told, SettledInLog, LogInOrder, Seqs
  <2>3. CursorBelowBlock' /\ SlipsInv'
    BY <1>1, <1>2, <2>1 DEF CursorBelowBlock, SlipsInv, Safe
  <2> QED BY <1>3, <2>2, <2>3 DEF LogInv
<1> QED BY <1>4, <1>5, <1>6, <1>7, <1>8, <1>9 DEF Next

(* The inductive invariant of the protocol: the frames on the wire and the *)
(* running handlers (handleHello, handlePush, handleCatchup and the        *)
(* session's own) speak of the log as it is, the log holds exactly what is *)
(* settled, no event slips, and every cursor is below its block.           *)
THEOREM Inductive == Spec => []IInv
<1>1. Init => IInv
  BY InitIInv
<1>2. IInv /\ [Next]_vars => IInv'
  BY NextIInv
<1> QED BY <1>1, <1>2, PTL DEF Spec

(* What a device's outbox is trimmed at (nextBatch reads past the acked    *)
(* watermark) is in the gateway's log, each event once and in its author's *)
(* order: whatever was lost, repeated or committed after its connection.   *)
THEOREM CheckpointsBacked == Spec => []LogBacksCheckpoints
<1>1. IInv => LogBacksCheckpoints
  <2> SUFFICES ASSUME IInv PROVE LogBacksCheckpoints
    OBVIOUS
  <2>1. Shape /\ SettledInLog /\ LogInOrder /\ Told
    BY DEF IInv, LogInv
  <2>2. ASSUME NEW d \in Devices, NEW s \in 0..ckpt[d]
        PROVE  s \in 0..settled[d]
    <3>1. ckpt[d] \in Marks /\ settled[d] \in Marks /\ ckpt[d] <= settled[d]
      BY <2>1 DEF Shape, Told
    <3> QED BY <2>2, <3>1 DEF Marks
  <2>3. CheckpointBacked
    BY <2>1, <2>2 DEF CheckpointBacked, SettledInLog
  <2> QED BY <2>1, <2>3 DEF LogBacksCheckpoints
<1> QED BY <1>1, Inductive, PTL

(* A push appends to the log what continues its author's settled slots.    *)
LEMMA PushSettles ==
  ASSUME LogInv, NEW d \in Devices, NEW lo \in Nat, NEW hi \in Nat,
         log' = log \o Merged(d, lo, hi),
         settled' = [settled EXCEPT ![d] = SettledAfter(d, lo, hi)], ckpt' = ckpt
  PROVE  Promises!Settle
<1> DEFINE n == Len(log)
           was == settled[d]
           L == LogOfEvents
           M == [i \in 1..Len(log') |->
                   [id |-> log'[i], author |-> log'[i].author, slot |-> log'[i].slot]]
<1>1. /\ log' \in Seq(Events) /\ settled' \in [Devices -> Marks]
      /\ n \in Nat /\ Len(log') \in Nat /\ n <= Len(log')
      /\ \A e \in Devices : settled[e] <= settled'[e]
      /\ SettledInLog' /\ LogInOrder'
  BY LogGrows
<1>2. log \in Seq(Events) /\ settled \in [Devices -> Marks] /\ was \in Marks
  BY DEF LogInv, Shape
<1>3. /\ \A i \in 1..n : log'[i] = log[i]
      /\ \A i \in (n + 1)..Len(log') : log'[i] = [author |-> d, slot |-> was + (i - n)]
  <2>1. /\ Merged(d, lo, hi) \in Seq(Events)
        /\ \A i \in 1..Len(Merged(d, lo, hi)) :
             Merged(d, lo, hi)[i] = [author |-> d, slot |-> was + i]
    BY MergedFacts DEF LogInv
  <2>2. /\ Len(log') = n + Len(Merged(d, lo, hi)) /\ \A i \in 1..n : log'[i] = log[i]
        /\ \A i \in (n + 1)..Len(log') :
             /\ i - n \in 1..Len(Merged(d, lo, hi))
             /\ log'[i] = Merged(d, lo, hi)[i - n]
    BY <1>2, <2>1
  <2> QED BY <2>1, <2>2
<1>4. /\ DOMAIN L = 1..n /\ Len(L) = n /\ DOMAIN M = 1..Len(log') /\ Len(M) = Len(log')
      /\ \A i \in 1..n :
           L[i] = [id |-> log[i], author |-> log[i].author, slot |-> log[i].slot]
      /\ \A i \in 1..Len(log') :
           M[i].id = log'[i] /\ M[i].author = log'[i].author /\ M[i].slot = log'[i].slot
  BY <1>1 DEF LogOfEvents
<1>5. Len(L) <= Len(M) /\ SubSeq(L, 1, Len(L)) = SubSeq(M, 1, Len(L))
  <2>1. \A i \in 1..n : M[i] = L[i]
    BY <1>1, <1>3, <1>4
  <2> HIDE DEF L, M
  <2> QED BY <1>1, <1>4, <2>1
<1>6. LogOfEvents' = M
  BY DEF LogOfEvents
<1> HIDE DEF L, M
<1>7. \A i, j \in DOMAIN M : M[i].id = M[j].id => i = j
  BY <1>1, <1>4 DEF LogInOrder, Seqs
<1>8. ASSUME NEW j \in DOMAIN M \ DOMAIN L
      PROVE  j \in (n + 1)..Len(log') /\ M[j].author = d /\ M[j].slot = was + (j - n)
  <2>1. j \in (n + 1)..Len(log') /\ M[j].author = log'[j].author /\ M[j].slot = log'[j].slot
    BY <1>1, <1>4
  <2>2. log'[j] = [author |-> d, slot |-> was + (j - n)]
    BY <1>3, <2>1
  <2> QED BY <2>1, <2>2
<1>9. \A j \in DOMAIN M \ DOMAIN L : M[j].slot > settled[M[j].author]
  BY <1>1, <1>2, <1>8 DEF Marks
<1>10. \A i, j \in DOMAIN M \ DOMAIN L :
         i < j /\ M[i].author = M[j].author => M[i].slot < M[j].slot
  BY <1>1, <1>2, <1>8 DEF Marks
<1>11. ASSUME NEW x \in Devices, NEW s \in (settled[x] + 1)..settled'[x]
       PROVE  \E i \in DOMAIN M : M[i].author = x /\ M[i].slot = s
  <2>1. s \in 0..settled'[x]
    BY <1>1, <1>2, <1>11 DEF Marks
  <2>2. PICK i \in 1..Len(log') : log'[i] = [author |-> x, slot |-> s]
    BY <1>1, <2>1 DEF SettledInLog, Seqs
  <2> QED BY <1>4, <2>2
<1>12. \A i \in DOMAIN M : M[i].slot <= settled'[M[i].author]
  BY <1>1, <1>4 DEF SettledInLog, Seqs
<1>13. Promises!IsPrefix(LogOfEvents, LogOfEvents')
  BY <1>5, <1>6 DEF L, Promises!IsPrefix
<1>14. \A x \in Devices :
         /\ settled[x] <= settled'[x]
         /\ \A s \in (settled[x] + 1)..settled'[x] : Promises!InLog(LogOfEvents', x, s)
  BY <1>1, <1>6, <1>11 DEF Promises!InLog
<1>15. L = LogOfEvents
  BY DEF L
<1> QED BY <1>6, <1>7, <1>9, <1>10, <1>12, <1>13, <1>14, <1>15, Zenon DEF Promises!Settle

(* An ack that counts moves the checkpoint up to what is settled.          *)
LEMMA AckPromised ==
  ASSUME LogInv, NEW d \in Devices, OnPushAck(d)
  PROVE  UNCHANGED Promises!vars \/ Promises!Promise(d)
<1> DEFINE mark == Head(down[d]).mark
<1>1. /\ log' = log /\ settled' = settled /\ down[d] # <<>> /\ Head(down[d]).kind = "push_ack"
      /\ ckpt' = ckpt \/ ckpt' = [ckpt EXCEPT ![d] = Checkpoint(d, mark)]
  BY DEF OnPushAck, Receives, gateway
<1>2. /\ down \in [Devices -> Seq(DownFrames)] /\ DownSpeaks(down, joined, settled, Len(log))
      /\ ckpt \in [Devices -> Marks] /\ settled \in [Devices -> Marks]
  BY DEF LogInv, Shape, Told
<1>3. mark \in Nat /\ mark <= settled[d]
  <2>1. Speaks(Head(down[d]), d, joined, settled, Len(log)) /\ Head(down[d]) \in DownFrames
    BY <1>1, <1>2, DownTaken
  <2> QED BY <1>1, <2>1, DownFields DEF Speaks
<1> HIDE DEF mark
<1>4. LogOfEvents' = LogOfEvents
  BY <1>1 DEF LogOfEvents
<1>5. CASE ckpt' = ckpt
  BY <1>1, <1>4, <1>5 DEF Promises!vars
<1>6. CASE ckpt' # ckpt
  <2>1. ckpt' = [ckpt EXCEPT ![d] = mark] /\ mark > ckpt[d]
    BY <1>1, <1>2, <1>6 DEF Checkpoint
  <2>2. ckpt'[d] \in (ckpt[d] + 1)..settled[d] /\ ckpt' = [ckpt EXCEPT ![d] = ckpt'[d]]
    BY <1>2, <1>3, <2>1 DEF Marks
  <2> QED BY <1>1, <1>4, <2>2, Zenon DEF Promises!Promise
<1> QED BY <1>5, <1>6

(* The one-step merge of this module and the pipeline of Gateway keep the  *)
(* same log: a push, also of a connection that is gone, only appends what  *)
(* its author settles with it, and a checkpoint (setAckedWatermark) moves  *)
(* only up to what is settled.                                             *)
THEOREM Implements == Spec => ImplementsMergedLog
<1>1. Init => Promises!Init
  <2> SUFFICES ASSUME Init PROVE Promises!Init
    OBVIOUS
  <2>1. LogOfEvents = <<>>
    BY DEF Init, LogOfEvents
  <2> QED BY <2>1 DEF Init, Promises!Init
<1>2. IInv /\ [Next]_vars => [Promises!Next]_(Promises!vars)
  <2> SUFFICES ASSUME IInv, [Next]_vars PROVE [Promises!Next]_(Promises!vars)
    OBVIOUS
  <2>1. LogInv /\ Shape
    BY DEF IInv, LogInv
  <2>2. CASE log' = log /\ settled' = settled /\ ckpt' = ckpt
    BY <2>2 DEF Promises!vars, LogOfEvents
  <2>3. ASSUME NEW d \in Devices, Commit(d) PROVE Promises!Next
    <3>1. /\ up[d] # <<>> /\ Head(up[d]).kind = "push" /\ ckpt' = ckpt
          /\ log' = log \o Merged(d, Head(up[d]).lo, Head(up[d]).hi)
          /\ settled' = [settled EXCEPT ![d] = SettledAfter(d, Head(up[d]).lo, Head(up[d]).hi)]
      BY <2>3 DEF Commit, Serves, disk
    <3>2. Head(up[d]) \in UpFrames
      BY <2>1, <3>1 DEF Shape
    <3>3. Head(up[d]).lo \in Nat /\ Head(up[d]).hi \in Nat
      BY <3>1, <3>2, UpFields
    <3> QED BY <2>1, <3>1, <3>3, PushSettles DEF Promises!Next
  <2>4. ASSUME NEW s \in stray, StrayCommit(s) PROVE Promises!Next
    <3>1. /\ s.kind = "push" /\ ckpt' = ckpt /\ log' = log \o Merged(s.dev, s.lo, s.hi)
          /\ settled' = [settled EXCEPT ![s.dev] = SettledAfter(s.dev, s.lo, s.hi)]
      BY <2>4 DEF StrayCommit, disk
    <3>2. s \in Strays
      BY <2>1 DEF Shape
    <3>3. s.dev \in Devices /\ s.lo \in Nat /\ s.hi \in Nat
      BY <3>1, <3>2, StrayFields
    <3> QED BY <2>1, <3>1, <3>3, PushSettles DEF Promises!Next
  <2>5. ASSUME NEW d \in Devices, OnPushAck(d) PROVE [Promises!Next]_(Promises!vars)
    BY <2>1, <2>5, AckPromised DEF Promises!Next
  <2>6. ASSUME NEW d \in Devices, AppendEvent(d) \/ NotifyAppended(d) \/ Connect(d)
        PROVE  log' = log /\ settled' = settled /\ ckpt' = ckpt
    BY <2>6 DEF AppendEvent, NotifyAppended, Connect, gateway, disk
  <2>7. ASSUME NEW d \in Devices, OnHelloAck(d) \/ OnEventBatch(d) \/ OnCatchupPage(d)
        PROVE  log' = log /\ settled' = settled /\ ckpt' = ckpt
    BY <2>7 DEF OnHelloAck, OnEventBatch, OnCatchupPage, gateway, disk
  <2>8. ASSUME NEW d \in Devices, Hello(d) \/ HelloAck(d) \/ SendAck(d) \/ FanOut(d)
                                    \/ ReadPage(d) \/ SendPage(d)
        PROVE  log' = log /\ settled' = settled /\ ckpt' = ckpt
    BY <2>8 DEF Hello, HelloAck, SendAck, FanOut, ReadPage, SendPage, disk
  <2>9. ASSUME NEW s \in stray, StrayFanOut(s)
        PROVE  log' = log /\ settled' = settled /\ ckpt' = ckpt
    BY <2>9 DEF StrayFanOut, disk
  <2>10. CASE Failure
    BY <2>2, <2>10
       DEF Failure, Disconnect, Restart, RestartAfterIngest, GatewayRestart, disk
  <2>11. CASE UNCHANGED vars
    BY <2>2, <2>11 DEF vars
  <2> QED BY <2>2, <2>3, <2>4, <2>5, <2>6, <2>7, <2>8, <2>9, <2>10, <2>11
          DEF Next, Device, Handler, Stray
<1> QED BY <1>1, <1>2, Inductive, PTL DEF Spec, ImplementsMergedLog, Promises!Spec

(* Joining the fan-out set before the version reads and the renewal of     *)
(* handleHello leaves no gap: what the catch-up does not bring an open     *)
(* session, the fan-out does.                                              *)
THEOREM NoGap == Spec => []NothingSlips
<1>1. IInv => NothingSlips
  BY DEF IInv
<1> QED BY <1>1, Inductive, PTL

(* applyEvents rewinds the cursor below a standing blockage, so the        *)
(* catch-up of the next session asks for the blocked event again.          *)
THEOREM CursorRewinds == Spec => []CursorBelowBlock
<1>1. IInv => CursorBelowBlock
  BY DEF IInv
<1> QED BY <1>1, Inductive, PTL


-----------------------------------------------------------------------------
(* Nobody points past the end of the log: not a page's next, not a         *)
(* catch-up request, not what a device has stored.                         *)
Points(f, n) ==
  /\ f.kind = "page" => f.next <= n
  /\ f.kind = "catchup" => f.from <= n

AllPoint(q, n) == \A d \in Devices : \A i \in 1..Len(q[d]) : Points(q[d][i], n)

JobsPoint(j, n) == \A d \in Devices : Points(j[d], n)

DiskWithin(n) ==
  \A d \in Devices :
    /\ cursor[d] <= n /\ base[d] <= n /\ session[d].blocked <= n
    /\ held[d] \cup failed[d] \subseteq 1..n

BudgetOK == budget \in [drops : 0..MaxDrops, faults : 0..MaxFaults]

WithinLog ==
  /\ AllPoint(up, Len(log)) /\ AllPoint(down, Len(log)) /\ JobsPoint(job, Len(log))
  /\ DiskWithin(Len(log)) /\ BudgetOK

LEMMA PointsTaken ==
  ASSUME NEW S, NEW q \in [Devices -> Seq(S)], NEW n, AllPoint(q, n),
         NEW d \in Devices, q[d] # <<>>
  PROVE  AllPoint([q EXCEPT ![d] = Tail(@)], n) /\ Points(Head(q[d]), n)
<1>1. /\ 1 \in 1..Len(q[d]) /\ Head(q[d]) = q[d][1]
      /\ \A i \in 1..Len(Tail(q[d])) : i + 1 \in 1..Len(q[d]) /\ Tail(q[d])[i] = q[d][i + 1]
  BY TailAt
<1> DEFINE r == [q EXCEPT ![d] = Tail(@)]
<1>2. r[d] = Tail(q[d]) /\ \A e \in Devices : e # d => r[e] = q[e]
  OBVIOUS
<1> HIDE DEF r
<1>3. ASSUME NEW e \in Devices, NEW i \in 1..Len(r[e]) PROVE Points(r[e][i], n)
  <2>1. CASE e = d
    BY <1>1, <1>2, <1>3, <2>1 DEF AllPoint
  <2>2. CASE e # d
    BY <1>2, <1>3, <2>2 DEF AllPoint
  <2> QED BY <2>1, <2>2
<1>4. AllPoint(r, n)
  BY <1>3 DEF AllPoint
<1> QED BY <1>1, <1>4 DEF r, AllPoint

LEMMA PointsJoined ==
  ASSUME NEW S, NEW q \in [Devices -> Seq(S)], NEW n, AllPoint(q, n),
         NEW d \in Devices, NEW t \in Seq(S), \A i \in 1..Len(t) : Points(t[i], n)
  PROVE  AllPoint([q EXCEPT ![d] = @ \o t], n)
<1>1. \A i \in 1..Len(q[d] \o t) :
        \/ i \in 1..Len(q[d]) /\ (q[d] \o t)[i] = q[d][i]
        \/ i - Len(q[d]) \in 1..Len(t) /\ (q[d] \o t)[i] = t[i - Len(q[d])]
  BY ConcatAt
<1> DEFINE r == [q EXCEPT ![d] = @ \o t]
<1>2. r[d] = q[d] \o t /\ \A e \in Devices : e # d => r[e] = q[e]
  OBVIOUS
<1> HIDE DEF r
<1>3. ASSUME NEW e \in Devices, NEW i \in 1..Len(r[e]) PROVE Points(r[e][i], n)
  <2>1. CASE e = d
    BY <1>1, <1>2, <1>3, <2>1 DEF AllPoint
  <2>2. CASE e # d
    BY <1>2, <1>3, <2>2 DEF AllPoint
  <2> QED BY <2>1, <2>2
<1> QED BY <1>3 DEF r, AllPoint

LEMMA PointsSent ==
  ASSUME NEW S, NEW q \in [Devices -> Seq(S)], NEW n, AllPoint(q, n),
         NEW d \in Devices, NEW f \in S, Points(f, n)
  PROVE  AllPoint([q EXCEPT ![d] = Append(@, f)], n)
<1>1. \A i \in 1..Len(Append(q[d], f)) :
        (i \in 1..Len(q[d]) /\ Append(q[d], f)[i] = q[d][i]) \/ Append(q[d], f)[i] = f
  BY AppendAt
<1> DEFINE r == [q EXCEPT ![d] = Append(@, f)]
<1>2. r[d] = Append(q[d], f) /\ \A e \in Devices : e # d => r[e] = q[e]
  OBVIOUS
<1> HIDE DEF r
<1>3. ASSUME NEW e \in Devices, NEW i \in 1..Len(r[e]) PROVE Points(r[e][i], n)
  <2>1. CASE e = d
    BY <1>1, <1>2, <1>3, <2>1 DEF AllPoint
  <2>2. CASE e # d
    BY <1>2, <1>3, <2>2 DEF AllPoint
  <2> QED BY <2>1, <2>2
<1> QED BY <1>3 DEF r, AllPoint

LEMMA OutboxPoints ==
  ASSUME NEW d, NEW mark, NEW n
  PROVE  \A i \in 1..Len(Outbox(d, mark)) : Points(Outbox(d, mark)[i], n)
<1>1. \A lo, hi : Points([kind |-> "push", lo |-> lo, hi |-> hi], n)
  BY DEF Points
<1>2. CASE mark + 1 >= own[d]
  BY <1>2 DEF Outbox
<1>3. CASE ~(mark + 1 >= own[d])
  <2> DEFINE p == [kind |-> "push", lo |-> mark + 1, hi |-> Least(mark + Batch, own[d] - 1)]
  <2>1. Outbox(d, mark) = <<p>>
    BY <1>3 DEF Outbox
  <2>2. Points(p, n)
    BY <1>1
  <2> HIDE DEF p
  <2>3. \A i \in 1..Len(<<p>>) : <<p>>[i] = p
    OBVIOUS
  <2> QED BY <2>1, <2>2, <2>3
<1> QED BY <1>2, <1>3

LEMMA CatchupPoints ==
  ASSUME NEW g, NEW n, g <= n
  PROVE  \A i \in 1..Len(CatchupFrom(g)) : Points(CatchupFrom(g)[i], n)
<1>1. Points([kind |-> "catchup", from |-> g], n)
  BY DEF Points
<1>2. \A i \in 1..Len(CatchupFrom(g)) : CatchupFrom(g)[i] = [kind |-> "catchup", from |-> g]
  BY DEF CatchupFrom
<1> QED BY <1>1, <1>2

(* The other frames and handlers point at nothing.                         *)
LEMMA PointsNowhere ==
  ASSUME NEW f, f.kind \notin {"page", "catchup"}, NEW n
  PROVE  Points(f, n)
BY DEF Points

LEMMA PointsGrow ==
  ASSUME NEW n \in Nat, NEW m \in Nat, n <= m, Shape,
         AllPoint(up, n), AllPoint(down, n), JobsPoint(job, n), DiskWithin(n)
  PROVE  AllPoint(up, m) /\ AllPoint(down, m) /\ JobsPoint(job, m) /\ DiskWithin(m)
<1>1. ASSUME NEW f, Points(f, n), f.kind = "page" => f.next \in Nat,
             f.kind = "catchup" => f.from \in Nat
      PROVE  Points(f, m)
  BY <1>1 DEF Points
<1>2. AllPoint(up, m)
  <2> SUFFICES ASSUME NEW d \in Devices, NEW i \in 1..Len(up[d]) PROVE Points(up[d][i], m)
    BY DEF AllPoint
  <2>1. up[d][i] \in UpFrames /\ Points(up[d][i], n)
    BY DEF Shape, AllPoint
  <2>2. up[d][i].kind # "page" /\ (up[d][i].kind = "catchup" => up[d][i].from \in Nat)
    BY <2>1, UpFields
  <2> QED BY <1>1, <2>1, <2>2
<1>3. AllPoint(down, m)
  <2> SUFFICES ASSUME NEW d \in Devices, NEW i \in 1..Len(down[d]) PROVE Points(down[d][i], m)
    BY DEF AllPoint
  <2>1. down[d][i] \in DownFrames /\ Points(down[d][i], n)
    BY DEF Shape, AllPoint
  <2>2. down[d][i].kind # "catchup" /\ (down[d][i].kind = "page" => down[d][i].next \in Nat)
    BY <2>1, DownFields
  <2> QED BY <1>1, <2>1, <2>2
<1>4. JobsPoint(job, m)
  <2> SUFFICES ASSUME NEW d \in Devices PROVE Points(job[d], m)
    BY DEF JobsPoint
  <2>1. job[d] \in Jobs /\ Points(job[d], n)
    BY DEF Shape, JobsPoint
  <2>2. job[d].kind # "catchup" /\ (job[d].kind = "page" => job[d].next \in Nat)
    BY <2>1, JobFields
  <2> QED BY <1>1, <2>1, <2>2
<1>5. DiskWithin(m)
  <2> SUFFICES ASSUME NEW d \in Devices
               PROVE  /\ cursor[d] <= m /\ base[d] <= m /\ session[d].blocked <= m
                      /\ held[d] \cup failed[d] \subseteq 1..m
    BY DEF DiskWithin
  <2>1. cursor[d] \in Nat /\ base[d] \in Nat /\ session[d].blocked \in Nat
    BY DEF Shape, Sessions
  <2>2. 1..n \subseteq 1..m
    OBVIOUS
  <2> QED BY <2>1, <2>2 DEF DiskWithin
<1> QED BY <1>2, <1>3, <1>4, <1>5

(* A batch that is applied names events of the log, and what fails is      *)
(* within the bound.                                                       *)
LEMMA AppliedWithin ==
  ASSUME Shape, NEW d \in Devices, NEW n \in Nat, NEW seqs \in SUBSET (1..n), NEW bad,
         Apply(d, seqs, bad), DiskWithin(n), UNCHANGED base, BudgetOK
  PROVE  DiskWithin(n)' /\ BudgetOK'
<1> DEFINE block == ReportedBlock(d, seqs, bad)
           c == CursorAfter(d, seqs, bad)
<1>1. /\ bad \in SUBSET seqs /\ Cardinality(bad) <= budget.faults
      /\ budget' = [budget EXCEPT !.faults = @ - Cardinality(bad)]
      /\ held' = [held EXCEPT ![d] = @ \cup (seqs \ bad)]
      /\ failed' = [failed EXCEPT ![d] = (@ \cup bad) \ (held[d] \cup (seqs \ bad))]
      /\ cursor' = [cursor EXCEPT ![d] = c]
      /\ session' = [session EXCEPT ![d].blocked = block]
  BY DEF Apply
<1>2. block \in Nat /\ c <= n /\ block <= n
  BY <1>1, CursorStaysBelow DEF DiskWithin
<1> HIDE DEF block, c
<1>3. Cardinality(bad) \in Nat
  <2>1. IsFiniteSet(1..n) /\ bad \subseteq 1..n
    BY <1>1, FS_Interval
  <2> QED BY <2>1, FS_Subset, FS_CardinalityType
<1>4. budget' \in [drops : 0..MaxDrops, faults : 0..MaxFaults]
  <2>1. budget.faults \in 0..MaxFaults /\ budget.drops \in 0..MaxDrops /\ MaxFaults \in Nat
        /\ budget = [drops |-> budget.drops, faults |-> budget.faults]
    BY CloudSyncAssumption DEF BudgetOK
  <2>2. budget.faults - Cardinality(bad) \in 0..MaxFaults
    BY <1>1, <1>3, <2>1
  <2>3. budget' = [drops |-> budget.drops, faults |-> budget.faults - Cardinality(bad)]
    BY <1>1, <2>1
  <2> QED BY <2>1, <2>2, <2>3
<1>5. ASSUME NEW e \in Devices
      PROVE  /\ cursor'[e] <= n /\ base'[e] <= n /\ session'[e].blocked <= n
             /\ held'[e] \cup failed'[e] \subseteq 1..n
  <2>1. CASE e = d
    <3>1. session'[d].blocked = block
      BY <1>1, <1>2, SessionSet DEF Shape
    <3>2. cursor'[d] = c /\ held'[d] = held[d] \cup (seqs \ bad)
          /\ failed'[d] = (failed[d] \cup bad) \ (held[d] \cup (seqs \ bad))
      BY <1>1 DEF Shape
    <3> QED BY <1>1, <1>2, <2>1, <3>1, <3>2 DEF DiskWithin
  <2>2. CASE e # d
    BY <1>1, <2>2 DEF DiskWithin, Shape
  <2> QED BY <2>1, <2>2
<1> QED BY <1>4, <1>5 DEF DiskWithin, BudgetOK

(* The steps of a device.                                                  *)
LEMMA WithinDevice ==
  ASSUME LogInv, WithinLog, NEW d \in Devices, UNCHANGED <<log, job>>,
         AppendEvent(d) \/ NotifyAppended(d) \/ Connect(d) \/ Device(d)
  PROVE  WithinLog'
<1>0. PICK n \in Nat : n = Len(log)
  BY DEF LogInv, Shape
<1>1. /\ Shape /\ session \in [Devices -> Sessions]
      /\ up \in [Devices -> Seq(UpFrames)] /\ down \in [Devices -> Seq(DownFrames)]
      /\ \A e \in Devices : cursor[e] \in Nat /\ ckpt[e] \in Marks
      /\ base \in [Devices -> Nat]
  BY DEF LogInv, Shape
<1>2. AllPoint(up, n) /\ AllPoint(down, n) /\ JobsPoint(job, n) /\ DiskWithin(n) /\ BudgetOK
  BY <1>0 DEF WithinLog
<1>3. ASSUME AllPoint(up', n), AllPoint(down', n), DiskWithin(n)', BudgetOK'
      PROVE  WithinLog'
  <2>1. Len(log') = n /\ JobsPoint(job', n)
    BY <1>0, <1>2
  <2> QED BY <1>3, <2>1 DEF WithinLog, DiskWithin
<1>4. ASSUME UNCHANGED <<cursor, held, failed>>,
             \A e \in Devices : session'[e].blocked = session[e].blocked,
             \A e \in Devices : base'[e] \in {base[e], cursor[e]}
      PROVE  DiskWithin(n)'
  BY <1>2, <1>4 DEF DiskWithin
<1>5. CASE AppendEvent(d)
  BY <1>2, <1>3, <1>4, <1>5 DEF AppendEvent, history, BudgetOK
<1>6. CASE NotifyAppended(d)
  <2>1. /\ up' = [up EXCEPT ![d] = @ \o Outbox(d, ckpt[d])]
        /\ UNCHANGED <<cursor, held, session, down, base, failed, budget>>
    BY <1>6 DEF NotifyAppended, disk, history
  <2>2. AllPoint(up', n)
    BY <1>1, <1>2, <2>1, OutboxShape, OutboxPoints, PointsJoined
  <2> QED BY <1>2, <1>3, <1>4, <2>1, <2>2 DEF BudgetOK
<1>7. CASE Connect(d)
  <2>1. /\ session' = [session EXCEPT ![d].stage = "hello"]
        /\ up' = [up EXCEPT ![d] = <<[kind |-> "hello"]>>]
        /\ UNCHANGED <<cursor, held, down, base, failed, budget>>
    BY <1>7 DEF Connect, disk, history
  <2>2. \A e \in Devices : session'[e].blocked = session[e].blocked
    BY <1>1, <2>1, SessionSet DEF Stages
  <2>3. AllPoint(up', n)
    <3> SUFFICES ASSUME NEW e \in Devices, NEW i \in 1..Len(up'[e]) PROVE Points(up'[e][i], n)
      BY DEF AllPoint
    <3>1. CASE e = d
      <4>1. up'[e][i] = [kind |-> "hello"]
        BY <1>1, <2>1, <3>1
      <4> QED BY <4>1, PointsNowhere
    <3>2. CASE e # d
      BY <1>1, <1>2, <2>1, <3>2 DEF AllPoint
    <3> QED BY <3>1, <3>2
  <2> QED BY <1>2, <1>3, <1>4, <2>1, <2>2, <2>3 DEF BudgetOK
<1>8. CASE OnHelloAck(d)
  <2> DEFINE A == Outbox(d, ckpt[d])
             B == CatchupFrom(cursor[d])
             mid == [up EXCEPT ![d] = @ \o A]
  <2>1. /\ session' = [session EXCEPT ![d].stage = "open"]
        /\ down[d] # <<>> /\ down' = [down EXCEPT ![d] = Tail(@)]
        /\ up' = [up EXCEPT ![d] = @ \o A \o B]
        /\ base' = [base EXCEPT ![d] = cursor[d]]
        /\ UNCHANGED <<cursor, held, failed, budget>>
    BY <1>8 DEF OnHelloAck, Receives, disk
  <2>2. A \in Seq(UpFrames) /\ B \in Seq(UpFrames)
    BY <1>1, OutboxShape, CatchupShape
  <2>3. /\ \A i \in 1..Len(A) : Points(A[i], n)
        /\ \A i \in 1..Len(B) : Points(B[i], n)
    BY <1>2, OutboxPoints, CatchupPoints DEF DiskWithin
  <2>4. \A e \in Devices : session'[e].blocked = session[e].blocked
    BY <1>1, <2>1, SessionSet DEF Stages
  <2>5. \A e \in Devices : base'[e] \in {base[e], cursor[e]}
    BY <1>1, <2>1
  <2> HIDE DEF A, B
  <2>6. mid \in [Devices -> Seq(UpFrames)] /\ AllPoint(mid, n)
    <3>1. up[d] \o A \in Seq(UpFrames)
      BY <1>1, <2>2, ConcatAt
    <3> QED BY <1>1, <1>2, <2>2, <2>3, <3>1, PointsJoined
  <2>7. up' = [mid EXCEPT ![d] = @ \o B]
    BY <1>1, <2>1
  <2> HIDE DEF mid
  <2>8. AllPoint(up', n)
    BY <2>2, <2>3, <2>6, <2>7, PointsJoined
  <2>9. AllPoint(down', n)
    BY <1>1, <1>2, <2>1, PointsTaken
  <2> QED BY <1>2, <1>3, <1>4, <2>1, <2>4, <2>5, <2>8, <2>9 DEF BudgetOK
<1>9. CASE OnPushAck(d)
  <2> DEFINE mark == Head(down[d]).mark
             A == Outbox(d, Checkpoint(d, mark))
  <2>1. /\ down[d] # <<>> /\ Head(down[d]).kind = "push_ack"
        /\ down' = [down EXCEPT ![d] = Tail(@)]
        /\ session' = session \/ session' = [session EXCEPT ![d].lastAck = mark]
        /\ up' = up \/ up' = [up EXCEPT ![d] = @ \o A]
        /\ UNCHANGED <<cursor, held, base, failed, budget>>
    <3>1. CASE AckCounts(d, mark)
      <4>1. up' = [up EXCEPT ![d] = IF session[d].stage = "open" THEN @ \o A ELSE @]
        BY <1>9, <3>1 DEF OnPushAck
      <4>2. up' = up \/ up' = [up EXCEPT ![d] = @ \o A]
        BY <1>1, <4>1
      <4> QED BY <1>9, <3>1, <4>2 DEF OnPushAck, Receives, history
    <3>2. CASE ~AckCounts(d, mark)
      BY <1>9, <3>2 DEF OnPushAck, Receives, history
    <3> QED BY <3>1, <3>2
  <2>2. mark \in Nat
    <3>1. Head(down[d]) \in DownFrames
      BY <1>1, <2>1, TailAt
    <3> QED BY <2>1, <3>1, DownFields
  <2>3. A \in Seq(UpFrames) /\ \A i \in 1..Len(A) : Points(A[i], n)
    <3>1. Checkpoint(d, mark) \in Marks
      BY <1>1, <2>2 DEF Checkpoint, Marks
    <3> QED BY <1>1, <3>1, OutboxShape, OutboxPoints
  <2> HIDE DEF mark, A
  <2>4. \A e \in Devices : session'[e].blocked = session[e].blocked
    <3>1. CASE session' = [session EXCEPT ![d].lastAck = mark]
      <4>1. mark \in Marks
        BY <2>2 DEF Marks
      <4>2. /\ session'[d].blocked = session[d].blocked
            /\ \A e \in Devices : e # d => session'[e] = session[e]
        BY <1>1, <3>1, <4>1, SessionSet
      <4> QED BY <4>2
    <3> QED BY <2>1, <3>1
  <2>5. AllPoint(down', n)
    BY <1>1, <1>2, <2>1, PointsTaken
  <2>6. AllPoint(up', n)
    <3>1. CASE up' = [up EXCEPT ![d] = @ \o A]
      BY <1>1, <1>2, <2>3, <3>1, PointsJoined
    <3> QED BY <1>2, <2>1, <3>1
  <2> QED BY <1>2, <1>3, <1>4, <2>1, <2>4, <2>5, <2>6 DEF BudgetOK
<1>10. CASE OnEventBatch(d) \/ OnCatchupPage(d)
  <2> DEFINE f == Head(down[d])
  <2>1. /\ down[d] # <<>> /\ f.kind \in {"events", "page"}
        /\ down' = [down EXCEPT ![d] = Tail(@)] /\ UNCHANGED base
        /\ \E bad \in SUBSET f.seqs : Apply(d, f.seqs, bad)
        /\ up' = up \/ (f.kind = "page" /\ up' = [up EXCEPT ![d] = @ \o CatchupFrom(f.next)])
    <3>1. CASE OnEventBatch(d)
      BY <3>1 DEF OnEventBatch, Receives
    <3>2. CASE OnCatchupPage(d)
      <4>1. up' = [up EXCEPT ![d] = IF f.complete THEN @ ELSE @ \o CatchupFrom(f.next)]
        BY <3>2 DEF OnCatchupPage
      <4>2. up' = up \/ up' = [up EXCEPT ![d] = @ \o CatchupFrom(f.next)]
        BY <1>1, <4>1
      <4> QED BY <3>2, <4>2 DEF OnCatchupPage, Receives
    <3> QED BY <1>10, <3>1, <3>2
  <2>2. /\ f \in DownFrames /\ Points(f, n) /\ f.seqs \subseteq 1..n
    <3>1. /\ DownSpeaks(down, joined, settled, n)
      BY <1>0 DEF LogInv, Told
    <3>2. f \in DownFrames /\ Speaks(f, d, joined, settled, n)
      BY <1>1, <2>1, <3>1, DownTaken
    <3>3. Points(f, n)
      BY <1>1, <1>2, <2>1, PointsTaken
    <3> QED BY <2>1, <3>2, <3>3 DEF Speaks
  <2> HIDE DEF f
  <2>3. PICK bad : Apply(d, f.seqs, bad)
    BY <2>1
  <2>4. DiskWithin(n)' /\ BudgetOK'
    BY <1>1, <1>2, <2>1, <2>2, <2>3, AppliedWithin
  <2>5. AllPoint(down', n)
    BY <1>1, <1>2, <2>1, PointsTaken
  <2>6. AllPoint(up', n)
    <3>1. CASE f.kind = "page" /\ up' = [up EXCEPT ![d] = @ \o CatchupFrom(f.next)]
      <4>1. f.next \in Nat /\ f.next <= n
        BY <2>2, <3>1, DownFields DEF Points
      <4> QED BY <1>1, <1>2, <3>1, <4>1, CatchupShape, CatchupPoints, PointsJoined
    <3> QED BY <1>2, <2>1, <3>1
  <2> QED BY <1>3, <2>4, <2>5, <2>6
<1> QED BY <1>5, <1>6, <1>7, <1>8, <1>9, <1>10 DEF Device

LEMMA JobPoints ==
  ASSUME NEW n, JobsPoint(job, n), job \in [Devices -> Jobs], NEW d \in Devices,
         NEW f, Points(f, n), job' = [job EXCEPT ![d] = f]
  PROVE  JobsPoint(job', n)
BY DEF JobsPoint

LEMMA PointsDelivered ==
  ASSUME Shape, NEW n, AllPoint(down, n), NEW seqs \in SUBSET Nat, Deliver(seqs)
  PROVE  AllPoint(down', n)
<1> DEFINE f == [kind |-> "events", seqs |-> seqs]
<1>1. f \in DownFrames /\ Points(f, n)
  BY FramesMade, PointsNowhere
<1>2. down' = [p \in Devices |-> IF p \in joined THEN Append(down[p], f) ELSE down[p]]
  BY DEF Deliver
<1> HIDE DEF f
<1>3. ASSUME NEW e \in Devices, NEW i \in 1..Len(down'[e]) PROVE Points(down'[e][i], n)
  <2>1. CASE down'[e] = Append(down[e], f)
    <3>1. down[e] \in Seq(DownFrames)
      BY DEF Shape
    <3>2. (i \in 1..Len(down[e]) /\ down'[e][i] = down[e][i]) \/ down'[e][i] = f
      BY <1>1, <1>3, <2>1, <3>1, AppendAt
    <3> QED BY <1>1, <3>2 DEF AllPoint
  <2>2. CASE down'[e] = down[e]
    BY <1>3, <2>2 DEF AllPoint
  <2> QED BY <1>2, <2>1, <2>2
<1> QED BY <1>3 DEF AllPoint

(* The steps of the gateway's handlers, while the log grows or not.        *)
LEMMA WithinGateway ==
  ASSUME LogInv, WithinLog, LogInv', Len(log) <= Len(log'),
         UNCHANGED <<cursor, held, session, base, failed, budget>>,
         \A m \in Nat : AllPoint(up, m) => AllPoint(up', m),
         \A m \in Nat : m = Len(log') /\ AllPoint(down, m) /\ JobsPoint(job, m) =>
                          AllPoint(down', m) /\ JobsPoint(job', m)
  PROVE  WithinLog'
<1>1. PICK n \in Nat : n = Len(log)
  BY DEF LogInv, Shape
<1>2. PICK m \in Nat : m = Len(log')
  BY DEF LogInv, Shape
<1>3. AllPoint(up, m) /\ AllPoint(down, m) /\ JobsPoint(job, m) /\ DiskWithin(m)
  <2>1. AllPoint(up, n) /\ AllPoint(down, n) /\ JobsPoint(job, n) /\ DiskWithin(n) /\ n <= m /\ Shape
    BY <1>1, <1>2 DEF WithinLog, LogInv
  <2> QED BY <2>1, PointsGrow
<1>4. AllPoint(up', m) /\ AllPoint(down', m) /\ JobsPoint(job', m)
  BY <1>2, <1>3
<1>5. DiskWithin(m)'
  BY <1>3 DEF DiskWithin
<1> QED BY <1>2, <1>4, <1>5 DEF WithinLog, DiskWithin, BudgetOK

LEMMA PushFields ==
  ASSUME LogInv, NEW d \in Devices, up[d] # <<>>
  PROVE  /\ Head(up[d]) \in UpFrames
         /\ \A m \in Nat : AllPoint(up, m) => AllPoint([up EXCEPT ![d] = Tail(@)], m) /\ Points(Head(up[d]), m)
<1>1. up \in [Devices -> Seq(UpFrames)]
  BY DEF LogInv, Shape
<1>2. Head(up[d]) \in UpFrames
  BY <1>1, TailAt
<1>3. \A m \in Nat : AllPoint(up, m) => AllPoint([up EXCEPT ![d] = Tail(@)], m) /\ Points(Head(up[d]), m)
  BY <1>1, PointsTaken
<1> QED BY <1>2, <1>3

LEMMA WithinHandler ==
  ASSUME LogInv, WithinLog, LogInv', NEW d \in Devices, Handler(d)
  PROVE  WithinLog'
<1>1. /\ Shape /\ Len(log) \in Nat /\ job \in [Devices -> Jobs]
      /\ down \in [Devices -> Seq(DownFrames)] /\ log \in Seq(Events)
  BY DEF LogInv, Shape
<1>2. UNCHANGED <<cursor, held, session, base, failed, budget>>
  BY DEF Handler, Hello, HelloAck, Commit, SendAck, FanOut, ReadPage, SendPage, disk, history
<1>3. \A n : Points(Idle, n)
  BY PointsNowhere DEF Idle
<1>4. CASE Hello(d)
  <2>1. /\ up[d] # <<>> /\ up' = [up EXCEPT ![d] = Tail(@)] /\ UNCHANGED <<log, down>>
        /\ job' = [job EXCEPT ![d] = [kind |-> "hello"]]
    BY <1>4 DEF Hello, Serves
  <2>2. \A n : Points([kind |-> "hello"], n)
    BY PointsNowhere
  <2>3. \A m \in Nat : AllPoint(up, m) => AllPoint(up', m)
    BY <2>1, PushFields
  <2>4. \A m \in Nat : JobsPoint(job, m) => JobsPoint(job', m)
    BY <1>1, <2>1, <2>2, JobPoints
  <2>5. \A m \in Nat : m = Len(log') /\ AllPoint(down, m) /\ JobsPoint(job, m) =>
                         AllPoint(down', m) /\ JobsPoint(job', m)
    BY <2>1, <2>3, <2>4
  <2>6. Len(log) <= Len(log')
    BY <1>1, <2>1
  <2> QED BY <1>1, <1>2, <2>3, <2>5, <2>6, WithinGateway
<1>5. CASE HelloAck(d)
  <2>1. /\ down' = [down EXCEPT ![d] = Append(@, [kind |-> "hello_ack"])]
        /\ job' = [job EXCEPT ![d] = Idle] /\ UNCHANGED <<log, up>>
    BY <1>5 DEF HelloAck
  <2>2. \A n : Points([kind |-> "hello_ack"], n)
    BY PointsNowhere
  <2>3. \A m \in Nat : AllPoint(down, m) => AllPoint(down', m)
    BY <1>1, <2>1, <2>2, FramesMade, PointsSent
  <2>4. \A m \in Nat : JobsPoint(job, m) => JobsPoint(job', m)
    BY <1>1, <1>3, <2>1, JobPoints
  <2>5. \A m \in Nat : AllPoint(up, m) => AllPoint(up', m)
    BY <2>1, <2>3
  <2>6. \A m \in Nat : m = Len(log') /\ AllPoint(down, m) /\ JobsPoint(job, m) =>
                         AllPoint(down', m) /\ JobsPoint(job', m)
    BY <2>1, <2>3, <2>4
  <2>7. Len(log) <= Len(log')
    BY <1>1, <2>1
  <2> QED BY <1>1, <1>2, <2>5, <2>6, <2>7, WithinGateway
<1>6. CASE Commit(d)
  <2> DEFINE p == Head(up[d])
             f == [kind |-> "ack", seqs |-> NewSeqs(d, p.lo, p.hi), mark |-> SettledAfter(d, p.lo, p.hi)]
  <2>1. /\ up[d] # <<>> /\ p.kind = "push" /\ up' = [up EXCEPT ![d] = Tail(@)] /\ UNCHANGED down
        /\ log' = log \o Merged(d, p.lo, p.hi)
        /\ job' = [job EXCEPT ![d] = f]
    BY <1>6 DEF Commit, Serves
  <2>2. p.lo \in Nat /\ p.hi \in Nat
    <3>1. p \in UpFrames
      BY <2>1, PushFields
    <3> QED BY <2>1, <3>1, UpFields
  <2>3. Merged(d, p.lo, p.hi) \in Seq(Events)
    BY <1>1, <2>2, MergedFacts
  <2>4. Len(log) <= Len(log')
    BY <1>1, <2>1, <2>3, ConcatAt
  <2>5. \A n : Points(f, n)
    BY PointsNowhere
  <2>6. \A m \in Nat : AllPoint(up, m) => AllPoint(up', m)
    BY <2>1, PushFields
  <2> HIDE DEF f
  <2>7. \A m \in Nat : JobsPoint(job, m) => JobsPoint(job', m)
    BY <1>1, <2>1, <2>5, JobPoints
  <2> QED BY <1>1, <1>2, <2>1, <2>4, <2>6, <2>7, WithinGateway
<1>7. CASE SendAck(d)
  <2> DEFINE f == [kind |-> "push_ack", mark |-> job[d].mark]
             j == IF job[d].seqs = {} THEN Idle ELSE [kind |-> "fan", seqs |-> job[d].seqs]
  <2>1. /\ job[d].kind = "ack" /\ job' = [job EXCEPT ![d] = j] /\ UNCHANGED <<log, up>>
        /\ down' = [down EXCEPT ![d] = IF job[d].mark < 0 THEN @ ELSE Append(@, f)]
    BY <1>7 DEF SendAck
  <2>2. job[d].mark \in Marks
    BY <1>1, <2>1, JobFields
  <2>3. \A n : Points(j, n)
    BY <1>3, PointsNowhere
  <2>4. \A n : Points(f, n)
    BY PointsNowhere
  <2>5. down' = down \/ (f \in DownFrames /\ down' = [down EXCEPT ![d] = Append(@, f)])
    <3>1. CASE job[d].mark < 0
      BY <1>1, <2>1, <3>1
    <3>2. CASE ~(job[d].mark < 0)
      <4>1. job[d].mark \in Nat
        BY <2>2, <3>2 DEF Marks
      <4> QED BY <1>1, <2>1, <3>2, <4>1, FramesMade
    <3> QED BY <3>1, <3>2
  <2> HIDE DEF f, j
  <2>6. \A m \in Nat : AllPoint(down, m) => AllPoint(down', m)
    <3>1. CASE f \in DownFrames /\ down' = [down EXCEPT ![d] = Append(@, f)]
      BY <1>1, <2>4, <3>1, PointsSent
    <3> QED BY <2>5, <3>1
  <2>7. \A m \in Nat : JobsPoint(job, m) => JobsPoint(job', m)
    BY <1>1, <2>1, <2>3, JobPoints
  <2>8. \A m \in Nat : AllPoint(up, m) => AllPoint(up', m)
    BY <2>1, <2>6
  <2>9. \A m \in Nat : m = Len(log') /\ AllPoint(down, m) /\ JobsPoint(job, m) =>
                         AllPoint(down', m) /\ JobsPoint(job', m)
    BY <2>1, <2>6, <2>7
  <2>10. Len(log) <= Len(log')
    BY <1>1, <2>1
  <2> QED BY <1>1, <1>2, <2>8, <2>9, <2>10, WithinGateway
<1>8. CASE FanOut(d)
  <2>1. /\ job[d].kind = "fan" /\ Deliver(job[d].seqs) /\ job' = [job EXCEPT ![d] = Idle]
        /\ UNCHANGED <<log, up>>
    BY <1>8 DEF FanOut
  <2>2. job[d].seqs \in SUBSET Nat
    BY <1>1, <2>1, JobFields
  <2>3. \A m \in Nat : AllPoint(down, m) => AllPoint(down', m)
    BY <1>1, <2>1, <2>2, PointsDelivered
  <2>4. \A m \in Nat : JobsPoint(job, m) => JobsPoint(job', m)
    BY <1>1, <1>3, <2>1, JobPoints
  <2>5. \A m \in Nat : AllPoint(up, m) => AllPoint(up', m)
    BY <2>1, <2>3
  <2>6. \A m \in Nat : m = Len(log') /\ AllPoint(down, m) /\ JobsPoint(job, m) =>
                         AllPoint(down', m) /\ JobsPoint(job', m)
    BY <2>1, <2>3, <2>4
  <2>7. Len(log) <= Len(log')
    BY <1>1, <2>1
  <2> QED BY <1>1, <1>2, <2>5, <2>6, <2>7, WithinGateway
<1>9. CASE ReadPage(d)
  <2> DEFINE from == Head(up[d]).from
             last == Least(from + Page, Len(log))
             next == IF last > from THEN last ELSE from
             f == [kind |-> "page", seqs |-> (from + 1)..last, complete |-> Len(log) <= from + Page,
                   next |-> next]
  <2>1. /\ up[d] # <<>> /\ Head(up[d]).kind = "catchup" /\ up' = [up EXCEPT ![d] = Tail(@)]
        /\ UNCHANGED <<log, down>> /\ job' = [job EXCEPT ![d] = f]
    BY <1>9 DEF ReadPage, Serves
  <2>2. from \in Nat /\ from <= Len(log)
    <3>1. Head(up[d]) \in UpFrames /\ AllPoint(up, Len(log))
      BY <2>1, PushFields DEF WithinLog
    <3>2. Points(Head(up[d]), Len(log))
      BY <1>1, <2>1, <3>1, PushFields
    <3> QED BY <2>1, <3>1, <3>2, UpFields DEF Points
  <2>3. next <= Len(log)
    <3> HIDE DEF from
    <3> QED BY <1>1, <2>2, CloudSyncAssumption DEF Least
  <2>4. f.kind = "page" /\ f.next = next
    OBVIOUS
  <2> HIDE DEF f, next, last, from
  <2>5. \A m \in Nat : m = Len(log) => Points(f, m)
    BY <2>3, <2>4 DEF Points
  <2>6. \A m \in Nat : AllPoint(up, m) => AllPoint(up', m)
    BY <2>1, PushFields
  <2>7. \A m \in Nat : m = Len(log') /\ JobsPoint(job, m) => JobsPoint(job', m)
    BY <1>1, <2>1, <2>5, JobPoints
  <2>8. \A m \in Nat : m = Len(log') /\ AllPoint(down, m) /\ JobsPoint(job, m) =>
                         AllPoint(down', m) /\ JobsPoint(job', m)
    BY <2>1, <2>6, <2>7
  <2>9. Len(log) <= Len(log')
    BY <1>1, <2>1
  <2> QED BY <1>1, <1>2, <2>6, <2>8, <2>9, WithinGateway
<1>10. CASE SendPage(d)
  <2>1. /\ job[d].kind = "page" /\ down' = [down EXCEPT ![d] = Append(@, job[d])]
        /\ job' = [job EXCEPT ![d] = Idle] /\ UNCHANGED <<log, up>>
    BY <1>10 DEF SendPage
  <2>2. job[d] \in DownFrames
    BY <1>1, <2>1, JobFields
  <2>3. \A m \in Nat : AllPoint(down, m) /\ JobsPoint(job, m) => AllPoint(down', m)
    BY <1>1, <2>1, <2>2, PointsSent DEF JobsPoint
  <2>4. \A m \in Nat : JobsPoint(job, m) => JobsPoint(job', m)
    BY <1>1, <1>3, <2>1, JobPoints
  <2>5. \A m \in Nat : AllPoint(up, m) => AllPoint(up', m)
    BY <2>1, <2>3
  <2>6. \A m \in Nat : m = Len(log') /\ AllPoint(down, m) /\ JobsPoint(job, m) =>
                         AllPoint(down', m) /\ JobsPoint(job', m)
    BY <2>1, <2>3, <2>4
  <2>7. Len(log) <= Len(log')
    BY <1>1, <2>1
  <2> QED BY <1>1, <1>2, <2>5, <2>6, <2>7, WithinGateway
<1> QED BY <1>4, <1>5, <1>6, <1>7, <1>8, <1>9, <1>10 DEF Handler

LEMMA WithinStray ==
  ASSUME LogInv, WithinLog, LogInv', NEW s \in stray, StrayCommit(s) \/ StrayFanOut(s)
  PROVE  WithinLog'
<1>1. /\ Shape /\ Len(log) \in Nat /\ log \in Seq(Events) /\ s \in Strays
  BY DEF LogInv, Shape
<1>2. UNCHANGED <<up, job, cursor, held, session, base, failed, budget>>
  BY DEF StrayCommit, StrayFanOut, disk, history
<1>3. CASE StrayCommit(s)
  <2>1. /\ s.kind = "push" /\ log' = log \o Merged(s.dev, s.lo, s.hi) /\ UNCHANGED down
    BY <1>3 DEF StrayCommit
  <2>2. Merged(s.dev, s.lo, s.hi) \in Seq(Events)
    BY <1>1, <2>1, StrayFields, MergedFacts
  <2>3. Len(log) <= Len(log')
    BY <1>1, <2>1, <2>2, ConcatAt
  <2> QED BY <1>1, <1>2, <2>1, <2>3, WithinGateway
<1>4. CASE StrayFanOut(s)
  <2>1. s.kind = "fan" /\ Deliver(s.seqs) /\ UNCHANGED log
    BY <1>4 DEF StrayFanOut
  <2>2. s.seqs \in SUBSET Nat
    BY <1>1, <2>1, StrayFields
  <2>3. \A m \in Nat : AllPoint(down, m) => AllPoint(down', m)
    BY <1>1, <2>1, <2>2, PointsDelivered
  <2> QED BY <1>1, <1>2, <2>1, <2>3, WithinGateway
<1> QED BY <1>3, <1>4

LEMMA WithinFailure ==
  ASSUME LogInv, WithinLog, Failure
  PROVE  WithinLog'
<1>0. PICK n \in Nat : n = Len(log)
  BY DEF LogInv, Shape
<1>1. /\ session \in [Devices -> Sessions] /\ down \in [Devices -> Seq(DownFrames)]
      /\ held \in [Devices -> SUBSET Nat] /\ failed \in [Devices -> SUBSET Nat]
  BY DEF LogInv, Shape
<1>2. AllPoint(up, n) /\ AllPoint(down, n) /\ JobsPoint(job, n) /\ DiskWithin(n) /\ BudgetOK
  BY <1>0 DEF WithinLog
<1>3. ASSUME NEW D \in SUBSET Devices, Break(D), UNCHANGED <<log, cursor, base>>,
             \A e \in Devices : session'[e].blocked \in {session[e].blocked, 0},
             \A e \in Devices : held'[e] \cup failed'[e] \subseteq 1..n
      PROVE  WithinLog'
  <2>1. /\ job' = [e \in Devices |-> IF e \in D THEN Idle ELSE job[e]]
        /\ up' = [e \in Devices |-> IF e \in D THEN <<>> ELSE up[e]]
        /\ down' = [e \in Devices |-> IF e \in D THEN <<>> ELSE down[e]]
        /\ budget.drops > 0 /\ budget' = [budget EXCEPT !.drops = @ - 1]
    BY <1>3 DEF Break
  <2>2. AllPoint(up', n) /\ AllPoint(down', n)
    BY <1>2, <2>1 DEF AllPoint
  <2>3. JobsPoint(job', n)
    BY <1>2, <2>1, PointsNowhere DEF JobsPoint, Idle
  <2>4. DiskWithin(n)'
    BY <1>2, <1>3 DEF DiskWithin
  <2>5. BudgetOK'
    <3>1. /\ budget.faults \in 0..MaxFaults /\ budget.drops \in 0..MaxDrops /\ MaxDrops \in Nat
          /\ budget = [drops |-> budget.drops, faults |-> budget.faults]
      BY <1>2, CloudSyncAssumption DEF BudgetOK
    <3>2. budget' = [drops |-> budget.drops - 1, faults |-> budget.faults]
      BY <2>1, <3>1
    <3>3. budget.drops - 1 \in 0..MaxDrops
      BY <2>1, <3>1
    <3> QED BY <3>1, <3>2, <3>3 DEF BudgetOK
  <2>6. Len(log') = n
    BY <1>0, <1>3
  <2> QED BY <2>2, <2>3, <2>4, <2>5, <2>6 DEF WithinLog, DiskWithin
<1>4. ASSUME NEW d \in Devices, Disconnect(d) \/ Restart(d) \/ RestartAfterIngest(d)
      PROVE  WithinLog'
  <2>1. /\ Break({d}) /\ UNCHANGED <<log, cursor, base>>
        /\ session' = [session EXCEPT ![d].stage = "down"] \/ session' = [session EXCEPT ![d] = Fresh]
    BY <1>4 DEF Disconnect, Restart, RestartAfterIngest, disk
  <2>2. \A e \in Devices : session'[e].blocked \in {session[e].blocked, 0}
    <3>1. CASE session' = [session EXCEPT ![d].stage = "down"]
      BY <1>1, <3>1, SessionSet DEF Stages
    <3>2. CASE session' = [session EXCEPT ![d] = Fresh]
      BY <1>1, <3>2, FreshIs
    <3> QED BY <2>1, <3>1, <3>2
  <2>3. \A e \in Devices : held'[e] \cup failed'[e] \subseteq 1..n
    <3>1. CASE RestartAfterIngest(d)
      <4>1. /\ down[d] # <<>> /\ Head(down[d]).kind \in {"events", "page"}
            /\ held' = [held EXCEPT ![d] = @ \cup Head(down[d]).seqs]
            /\ failed' = [failed EXCEPT ![d] = @ \ Head(down[d]).seqs]
        BY <3>1 DEF RestartAfterIngest, Receives
      <4>2. Head(down[d]).seqs \subseteq 1..n
        <5>1. DownSpeaks(down, joined, settled, n)
          BY <1>0 DEF LogInv, Told
        <5>2. Speaks(Head(down[d]), d, joined, settled, n)
          BY <1>1, <4>1, <5>1, DownTaken
        <5> QED BY <4>1, <5>2 DEF Speaks
      <4> QED BY <1>1, <1>2, <4>1, <4>2 DEF DiskWithin
    <3>2. CASE Disconnect(d) \/ Restart(d)
      BY <1>2, <3>2 DEF Disconnect, Restart, disk, DiskWithin
    <3> QED BY <1>4, <3>1, <3>2
  <2> QED BY <1>3, <2>1, <2>2, <2>3
<1>5. CASE GatewayRestart
  <2>1. /\ Break(Devices) /\ UNCHANGED <<log, cursor, held, base, failed>>
        /\ session' = [d \in Devices |-> [session[d] EXCEPT !.stage = "down"]]
    BY <1>5 DEF GatewayRestart, disk
  <2>2. \A e \in Devices : session'[e].blocked = session[e].blocked
    BY <1>1, <2>1 DEF Sessions
  <2> QED BY <1>2, <1>3, <2>1, <2>2 DEF DiskWithin
<1> QED BY <1>4, <1>5 DEF Failure

LEMMA NextWithin == IInv /\ IInv' /\ WithinLog /\ [Next]_vars => WithinLog'
<1> SUFFICES ASSUME IInv, IInv', WithinLog, [Next]_vars PROVE WithinLog'
  OBVIOUS
<1>1. LogInv /\ LogInv'
  BY DEF IInv
<1>2. ASSUME NEW d \in Devices, AppendEvent(d) \/ NotifyAppended(d) \/ Connect(d) \/ Device(d)
      PROVE  WithinLog'
  <2>1. UNCHANGED <<log, job>>
    BY <1>2 DEF AppendEvent, NotifyAppended, Connect, Device, OnHelloAck, OnPushAck, OnEventBatch,
                OnCatchupPage, gateway
  <2> QED BY <1>1, <1>2, <2>1, WithinDevice
<1>3. ASSUME NEW d \in Devices, Handler(d) PROVE WithinLog'
  BY <1>1, <1>3, WithinHandler
<1>4. CASE Stray
  BY <1>1, <1>4, WithinStray DEF Stray
<1>5. CASE Failure
  BY <1>1, <1>5, WithinFailure
<1>6. CASE UNCHANGED vars
  BY <1>6 DEF vars, WithinLog, AllPoint, JobsPoint, DiskWithin, BudgetOK
<1> QED BY <1>2, <1>3, <1>4, <1>5, <1>6 DEF Next

(* Every table, frame and handler keeps its type, and no cursor, blockage, *)
(* page or catch-up request passes the end of the gateway's log            *)
(* (handleCatchup, applyEvents).                                           *)
THEOREM TypeCorrect == Spec => []TypeOK
<1>1. Init => WithinLog
  <2> SUFFICES ASSUME Init PROVE WithinLog
    OBVIOUS
  <2>1. AllPoint(up, Len(log)) /\ AllPoint(down, Len(log))
    BY DEF Init, AllPoint
  <2>2. JobsPoint(job, Len(log))
    BY PointsNowhere DEF Init, JobsPoint, Idle
  <2>3. DiskWithin(Len(log))
    BY FreshIs DEF Init, DiskWithin
  <2>4. BudgetOK
    BY CloudSyncAssumption DEF Init, BudgetOK
  <2> QED BY <2>1, <2>2, <2>3, <2>4 DEF WithinLog
<1>2. IInv /\ WithinLog => TypeOK
  <2> SUFFICES ASSUME IInv, WithinLog PROVE TypeOK
    OBVIOUS
  <2>1. Shape /\ DiskWithin(Len(log)) /\ BudgetOK /\ Len(log) \in Nat
    BY DEF IInv, LogInv, WithinLog, Shape
  <2>2. \A d \in Devices : job[d].kind \in {"none", "hello", "ack", "fan", "page"}
    BY <2>1, JobFields DEF Shape
  <2>3. \A s \in stray : s.kind \in {"push", "fan"}
    BY <2>1, StrayFields DEF Shape
  <2>4. ASSUME NEW d \in Devices
        PROVE  /\ \A i \in DOMAIN up[d] : up[d][i].kind \in {"hello", "push", "catchup"}
               /\ \A i \in DOMAIN down[d] :
                    down[d][i].kind \in {"hello_ack", "push_ack", "events", "page"}
    BY <2>1, UpFields, DownFields DEF Shape
  <2>5. /\ cursor \in [Devices -> 0..Len(log)] /\ base \in [Devices -> 0..Len(log)]
        /\ held \in [Devices -> SUBSET Seqs] /\ failed \in [Devices -> SUBSET Seqs]
    BY <2>1 DEF Shape, DiskWithin, Seqs
  <2>6. session \in [Devices -> [stage : {"down", "hello", "open"},
                                 lastAck : Nat \cup {-1}, blocked : 0..Len(log)]]
    BY <2>1 DEF Shape, DiskWithin, Sessions, Stages, Marks
  <2>7. /\ log \in Seq([author : Devices, slot : Nat]) /\ settled \in [Devices -> Nat \cup {-1}]
        /\ joined \subseteq Devices /\ DOMAIN job = Devices
        /\ own \in [Devices -> Nat] /\ ckpt \in [Devices -> Nat \cup {-1}]
    BY <2>1 DEF Shape, Events, Marks
  <2> QED BY <2>1, <2>2, <2>3, <2>4, <2>5, <2>6, <2>7 DEF TypeOK, BudgetOK
<1> QED BY <1>1, <1>2, NextWithin, Inductive, PTL DEF Spec

=============================================================================
