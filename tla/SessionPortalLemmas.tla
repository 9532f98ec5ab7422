------------------------ MODULE SessionPortalLemmas -------------------------
(***************************************************************************)
(* Lemmas for SessionPortalProofs: where the rings' operators put things,  *)
(* that the types are kept, and what recorders and stream have to do with  *)
(* each other.                                                             *)
(***************************************************************************)
EXTENDS SessionPortal, FiniteSetTheorems, SequenceTheorems, TLAPS

(* A cast is recorded once, on its day: O_EXCL keeps the name taken for as *)
(* long as that day lasts, and only casts of past days are pruned.         *)
Recorded(c) ==
  /\ disk[c] # "none" => rec[c] # "none"
  /\ rec[c] # "none" => c.day <= today
  /\ rec[c] # "none" /\ c.day = today => disk[c] # "none"
  /\ rec[c] = "closed" => disk[c] # "growing"

(* A recording that has been announced is finished.                        *)
Finished(c) == c \in Cast => rec[c] = "done" /\ disk[c] # "growing"

(* What the stream's messages say of casts is so.                          *)
Truthful(m) == m.cast # None => m.cast.session = m.session /\ Finished(m.cast)

(* No two messages have the same time, and a stamp that has been given out *)
(* and not published is nobody else's.                                     *)
DistinctTimes ==
  /\ \A i, j \in DOMAIN stream : stream[i].at = stream[j].at => i = j
  /\ \A c \in Cast : rec[c] = "closed" =>
       stamp[c] \in 1..clock /\ \A i \in DOMAIN stream : stream[i].at # stamp[c]
  /\ \A c, d \in Cast :
       rec[c] = "closed" /\ rec[d] = "closed" /\ stamp[c] = stamp[d] => c = d

StreamInv ==
  /\ \A c \in Cast : Recorded(c)
  /\ \A i \in DOMAIN stream : Truthful(stream[i])
  /\ DistinctTimes

-----------------------------------------------------------------------------
(* The rings.                                                              *)

(* Every nonempty set of numbers has a least.                              *)
LEMMA LeastNumber ==
  ASSUME NEW T \in SUBSET Nat, T # {}
  PROVE  \E x \in T : \A y \in T : x <= y
<1>1. IsWellFoundedOn({p \in Nat \X Nat : p[1] < p[2]}, Nat)
  BY NatLessThanWellFounded DEF OpToRel
<1>2. PICK x \in T : \A y \in T : ~(<<y, x>> \in {p \in Nat \X Nat : p[1] < p[2]})
  BY <1>1, WFMin, Zenon
<1>3. ASSUME NEW y \in T PROVE x <= y
  <2>1. x \in Nat /\ y \in Nat
    OBVIOUS
  <2>2. ~(y < x)
    BY <1>2, <2>1, Zenon
  <2> QED
    BY <2>1, <2>2
<1> QED
  BY <1>3

(* FirstN cuts a list and changes nothing of what is left.                 *)
LEMMA FirstNIsPrefix ==
  ASSUME NEW S, NEW s \in Seq(S), NEW n \in Nat
  PROVE  /\ FirstN(n, s) \in Seq(S)
         /\ Len(FirstN(n, s)) = IF Len(s) <= n THEN Len(s) ELSE n
         /\ \A i \in 1..Len(FirstN(n, s)) : FirstN(n, s)[i] = s[i]
<1>1. CASE Len(s) <= n
  BY <1>1 DEF FirstN
<1>2. CASE ~(Len(s) <= n)
  <2>1. \A i \in 1..n : s[i] \in S
    BY <1>2
  <2>2. /\ SubSeq(s, 1, n) \in Seq(S)
        /\ Len(SubSeq(s, 1, n)) = IF 1 <= n THEN n - 1 + 1 ELSE 0
        /\ \A i \in 1..(n - 1 + 1) : SubSeq(s, 1, n)[i] = s[1 + i - 1]
    BY <2>1, SubSeqProperties
  <2>3. FirstN(n, s) = SubSeq(s, 1, n)
    BY <1>2 DEF FirstN
  <2> QED
    BY <1>2, <2>2, <2>3
<1> QED
  BY <1>1, <1>2

(* Prepend moves every entry one down.                                     *)
LEMMA PrependShifts ==
  ASSUME NEW S, NEW ring \in Seq(S), NEW m \in S
  PROVE  /\ Prepend(m, ring) \in Seq(S)
         /\ Len(Prepend(m, ring)) = Len(ring) + 1
         /\ Prepend(m, ring)[1] = m
         /\ \A i \in 1..Len(ring) : Prepend(m, ring)[i + 1] = ring[i]
<1>1. <<m>> \in Seq(S) /\ Len(<<m>>) = 1 /\ <<m>>[1] = m
  OBVIOUS
<1>2. /\ <<m>> \o ring \in Seq(S)
      /\ Len(<<m>> \o ring) = Len(<<m>>) + Len(ring)
      /\ \A i \in 1..(Len(<<m>>) + Len(ring)) :
           (<<m>> \o ring)[i] = IF i <= Len(<<m>>) THEN <<m>>[i] ELSE ring[i - Len(<<m>>)]
  BY <1>1, ConcatProperties
<1> QED
  BY <1>1, <1>2 DEF Prepend

(* AuditInsert puts a message at some place, with newer ones before it and *)
(* one that is not newer, if any, behind it.                               *)
LEMMA AuditInsertPlaces ==
  ASSUME NEW ring \in Seq(Message), NEW m \in Message
  PROVE  /\ AuditInsert(m, ring) \in Seq(Message)
         /\ Len(AuditInsert(m, ring)) = Len(ring) + 1
         /\ \E p \in 1..(Len(ring) + 1) :
              /\ \A i \in 1..(p - 1) : ring[i].at > m.at
              /\ p <= Len(ring) => ring[p].at <= m.at
              /\ \A i \in 1..(p - 1) : AuditInsert(m, ring)[i] = ring[i]
              /\ AuditInsert(m, ring)[p] = m
              /\ \A i \in p..Len(ring) : AuditInsert(m, ring)[i + 1] = ring[i]
<1> DEFINE Fits(p) == /\ \A i \in 1..(p - 1) : ring[i].at > m.at
                      /\ p <= Len(ring) => ring[p].at <= m.at
           p == CHOOSE q \in 1..(Len(ring) + 1) : Fits(q)
           T == {i \in 1..(Len(ring) + 1) : i <= Len(ring) => ring[i].at <= m.at}
<1>1. Len(ring) \in Nat /\ m.at \in Nat /\ \A i \in 1..Len(ring) : ring[i].at \in Nat
  <2>1. \A x \in Message : x.at \in Nat
    BY DEF Message
  <2>2. Len(ring) \in Nat /\ \A i \in 1..Len(ring) : ring[i] \in Message
    OBVIOUS
  <2> QED
    BY <2>1, <2>2
<1>2. \E q \in 1..(Len(ring) + 1) : Fits(q)
  <2>1. T \in SUBSET Nat /\ Len(ring) + 1 \in T
    BY <1>1
  <2>2. PICK q \in T : \A y \in T : q <= y
    BY <2>1, LeastNumber, Zenon
  <2>3. ASSUME NEW i \in 1..(q - 1) PROVE ring[i].at > m.at
    <3>1. i \in 1..Len(ring) /\ ~(q <= i)
      BY <1>1, <2>2
    <3>2. ~(ring[i].at <= m.at)
      BY <2>2, <3>1
    <3> QED
      BY <1>1, <3>1, <3>2
  <2> QED
    BY <2>2, <2>3
<1>3. p \in 1..(Len(ring) + 1) /\ Fits(p)
  BY <1>2, Zenon
<1> HIDE DEF p
<1> DEFINE u == SubSeq(ring, 1, p - 1)
           v == SubSeq(ring, p, Len(ring))
<1>4. AuditInsert(m, ring) = u \o <<m>> \o v
  BY Zenon DEF AuditInsert, p
<1>5. /\ u \in Seq(Message) /\ Len(u) = p - 1
      /\ \A i \in 1..(p - 1) : u[i] = ring[i]
  BY <1>1, <1>3, SubSeqProperties
<1>6. /\ v \in Seq(Message) /\ Len(v) = Len(ring) - p + 1
      /\ \A i \in 1..(Len(ring) - p + 1) : v[i] = ring[p + i - 1]
  BY <1>1, <1>3, SubSeqProperties
<1> HIDE DEF u, v
<1>7. <<m>> \in Seq(Message) /\ Len(<<m>>) = 1 /\ <<m>>[1] = m
  OBVIOUS
<1> DEFINE w == u \o <<m>>
<1>8. /\ w \in Seq(Message) /\ Len(w) = p
      /\ \A i \in 1..p : w[i] = IF i <= p - 1 THEN u[i] ELSE <<m>>[i - (p - 1)]
  BY <1>3, <1>5, <1>7, ConcatProperties
<1> HIDE DEF w
<1>9. /\ w \o v \in Seq(Message) /\ Len(w \o v) = Len(ring) + 1
      /\ \A i \in 1..(Len(ring) + 1) : (w \o v)[i] = IF i <= p THEN w[i] ELSE v[i - p]
  <2>1. /\ w \o v \in Seq(Message) /\ Len(w \o v) = Len(w) + Len(v)
        /\ \A i \in 1..(Len(w) + Len(v)) :
             (w \o v)[i] = IF i <= Len(w) THEN w[i] ELSE v[i - Len(w)]
    BY <1>6, <1>8, ConcatProperties
  <2>2. Len(w) = p /\ Len(w) + Len(v) = Len(ring) + 1
    BY <1>1, <1>3, <1>6, <1>8
  <2> QED
    BY <2>1, <2>2
<1>10. AuditInsert(m, ring) = w \o v
  BY <1>4 DEF w
<1>11. /\ \A i \in 1..(p - 1) : (w \o v)[i] = ring[i]
       /\ (w \o v)[p] = m
  BY <1>1, <1>3, <1>5, <1>7, <1>8, <1>9
<1>12. ASSUME NEW i \in p..Len(ring) PROVE (w \o v)[i + 1] = ring[i]
  <2>1. /\ i + 1 \in 1..(Len(ring) + 1) /\ ~(i + 1 <= p)
        /\ (i + 1) - p \in 1..(Len(ring) - p + 1) /\ p + ((i + 1) - p) - 1 = i
    BY <1>1, <1>3
  <2>2. (w \o v)[i + 1] = v[(i + 1) - p]
    BY <1>9, <2>1
  <2>3. v[(i + 1) - p] = ring[p + ((i + 1) - p) - 1]
    BY <1>6, <2>1
  <2> QED
    BY <2>1, <2>2, <2>3
<1> QED
  BY <1>3, <1>9, <1>10, <1>11, <1>12, Zenon

(* The page in order: a message with a time of its own is put where its    *)
(* time belongs, and the ring that results is in order again.              *)
Descending(s) == \A i, j \in 1..Len(s) : i < j => s[i].at > s[j].at

LEMMA InsertInOrder ==
  ASSUME NEW ring \in Seq(Message), NEW m \in Message, Descending(ring),
         \A i \in 1..Len(ring) : ring[i].at # m.at
  PROVE  /\ Descending(AuditInsert(m, ring))
         /\ \E p \in 1..(Len(ring) + 1) :
              /\ p <= Len(ring) => ring[p].at < m.at
              /\ \A i \in 1..(p - 1) : AuditInsert(m, ring)[i] = ring[i]
              /\ AuditInsert(m, ring)[p] = m
              /\ \A i \in p..Len(ring) : AuditInsert(m, ring)[i + 1] = ring[i]
<1> DEFINE new == AuditInsert(m, ring)
<1>1. new \in Seq(Message) /\ Len(new) = Len(ring) + 1
  BY AuditInsertPlaces
<1>2. PICK p \in 1..(Len(ring) + 1) :
        /\ \A i \in 1..(p - 1) : ring[i].at > m.at
        /\ p <= Len(ring) => ring[p].at <= m.at
        /\ \A i \in 1..(p - 1) : new[i] = ring[i]
        /\ new[p] = m
        /\ \A i \in p..Len(ring) : new[i + 1] = ring[i]
  BY AuditInsertPlaces, Zenon
<1> HIDE DEF new
<1>3. Len(ring) \in Nat /\ m.at \in Nat /\ \A i \in 1..Len(ring) : ring[i].at \in Nat
  <2>1. \A x \in Message : x.at \in Nat
    BY DEF Message
  <2>2. Len(ring) \in Nat /\ \A i \in 1..Len(ring) : ring[i] \in Message
    OBVIOUS
  <2> QED
    BY <2>1, <2>2
<1>4. p <= Len(ring) => ring[p].at < m.at
  <2> SUFFICES ASSUME p <= Len(ring) PROVE ring[p].at < m.at
    OBVIOUS
  <2>1. p \in 1..Len(ring)
    BY <1>3
  <2> QED
    BY <1>2, <1>3, <2>1
<1>5. ASSUME NEW i \in p..Len(ring) PROVE ring[i].at < m.at
  <2>1. p \in 1..Len(ring) /\ i \in 1..Len(ring) /\ p <= i
    BY <1>3
  <2>2. CASE i = p
    BY <1>4, <2>1, <2>2
  <2>3. CASE p < i
    <3>1. ring[p].at > ring[i].at
      BY <2>1, <2>3 DEF Descending
    <3> QED
      BY <1>3, <1>4, <2>1, <3>1
  <2> QED
    BY <1>3, <2>1, <2>2, <2>3
<1>6. ASSUME NEW i \in 1..Len(new), NEW j \in 1..Len(new), i < j
      PROVE  new[i].at > new[j].at
  <2>1. i \in 1..(Len(ring) + 1) /\ j \in 1..(Len(ring) + 1)
    BY <1>1
  <2>2. CASE j < p
    <3>1. i \in 1..(p - 1) /\ j \in 1..(p - 1) /\ i \in 1..Len(ring) /\ j \in 1..Len(ring)
      BY <1>3, <1>6, <2>1, <2>2
    <3> QED
      BY <1>2, <1>6, <3>1 DEF Descending
  <2>3. CASE j = p
    <3>1. i \in 1..(p - 1)
      BY <1>6, <2>1, <2>3
    <3> QED
      BY <1>2, <2>3, <3>1
  <2>4. CASE j > p
    <3>1. j - 1 \in p..Len(ring) /\ (j - 1) + 1 = j /\ j - 1 \in 1..Len(ring)
      BY <1>3, <2>1, <2>4
    <3>2. new[j] = ring[j - 1] /\ ring[j - 1].at < m.at
      BY <1>2, <1>5, <3>1
    <3>3. CASE i < p
      <4>1. i \in 1..(p - 1) /\ i \in 1..Len(ring)
        BY <1>3, <2>1, <3>3
      <4>2. new[i].at > m.at /\ new[i].at \in Nat
        BY <1>2, <1>3, <4>1
      <4>3. ring[j - 1].at \in Nat /\ m.at \in Nat
        BY <1>3, <3>1
      <4> QED
        BY <3>2, <4>2, <4>3, SMTT(20)
    <3>4. CASE i = p
      BY <1>2, <1>3, <3>1, <3>2, <3>4
    <3>5. CASE i > p
      <4>1. i - 1 \in p..Len(ring) /\ (i - 1) + 1 = i /\ i - 1 \in 1..Len(ring)
            /\ i - 1 < j - 1
        BY <1>3, <1>6, <2>1, <3>5
      <4>2. new[i] = ring[i - 1]
        BY <1>2, <4>1
      <4> QED
        BY <3>1, <3>2, <4>1, <4>2 DEF Descending
    <3> QED
      BY <2>1, <3>3, <3>4, <3>5
  <2> QED
    BY <2>1, <2>2, <2>3, <2>4
<1> QED
  BY <1>2, <1>4, <1>6 DEF new, Descending

(* A full ring drops its oldest message, and what a ring once dropped is   *)
(* older than all of it.                                                   *)
Shown(s, x) == \E i \in 1..Len(s) : s[i] = x

Outdated(s, x) == Len(s) = MaxEvents /\ \A i \in 1..Len(s) : s[i].at > x.at

LEMMA InsertKeepsNewest ==
  ASSUME NEW ring \in Seq(Message), NEW m \in Message, Descending(ring),
         Len(ring) <= MaxEvents, \A i \in 1..Len(ring) : ring[i].at # m.at
  PROVE  LET cut == FirstN(MaxEvents, AuditInsert(m, ring))
         IN  /\ Descending(cut)
             /\ Shown(cut, m) \/ Outdated(cut, m)
             /\ \A x \in Message : Shown(ring, x) \/ Outdated(ring, x) =>
                                   Shown(cut, x) \/ Outdated(cut, x)
<1> DEFINE new == AuditInsert(m, ring)
           cut == FirstN(MaxEvents, new)
<1>1. new \in Seq(Message) /\ Len(new) = Len(ring) + 1
  BY AuditInsertPlaces
<1>2. Descending(new)
  BY InsertInOrder
<1>3. PICK p \in 1..(Len(ring) + 1) :
        /\ p <= Len(ring) => ring[p].at < m.at
        /\ \A i \in 1..(p - 1) : new[i] = ring[i]
        /\ new[p] = m
        /\ \A i \in p..Len(ring) : new[i + 1] = ring[i]
  BY InsertInOrder
<1> HIDE DEF new
<1>4. MaxEvents \in Nat /\ Len(ring) \in Nat
  BY PortalAssumption
<1>5. /\ Len(cut) = IF Len(new) <= MaxEvents THEN Len(new) ELSE MaxEvents
      /\ \A i \in 1..Len(cut) : cut[i] = new[i]
  BY <1>1, <1>4, FirstNIsPrefix
<1> HIDE DEF cut
<1>6. Descending(cut)
  <2>1. \A i \in 1..Len(cut) : i \in 1..Len(new)
    BY <1>1, <1>4, <1>5
  <2> QED
    BY <1>2, <1>5, <2>1 DEF Descending
<1>7. ASSUME NEW q \in 1..Len(new) PROVE Shown(cut, new[q]) \/ Outdated(cut, new[q])
  <2>1. CASE q \in 1..Len(cut)
    BY <1>5, <2>1 DEF Shown
  <2>2. CASE q \notin 1..Len(cut)
    <3>1. Len(cut) = MaxEvents /\ \A i \in 1..Len(cut) : i \in 1..Len(new) /\ i < q
      BY <1>1, <1>4, <1>5, <2>2
    <3> QED
      BY <1>2, <1>5, <3>1 DEF Outdated, Descending
  <2> QED
    BY <2>1, <2>2
<1>8. Shown(cut, m) \/ Outdated(cut, m)
  BY <1>1, <1>3, <1>7
<1>9. ASSUME NEW x \in Message, Shown(ring, x) PROVE Shown(cut, x) \/ Outdated(cut, x)
  <2>1. PICK i \in 1..Len(ring) : ring[i] = x
    BY <1>9 DEF Shown
  <2>2. CASE i < p
    BY <1>1, <1>3, <1>4, <1>7, <2>1, <2>2
  <2>3. CASE i >= p
    <3>1. i \in p..Len(ring) /\ i + 1 \in 1..Len(new)
      BY <1>1, <1>4, <2>1, <2>3
    <3> QED
      BY <1>3, <1>7, <2>1, <3>1
  <2> QED
    BY <2>1, <2>2, <2>3
<1>10. ASSUME NEW x \in Message, Outdated(ring, x) PROVE Outdated(cut, x)
  <2>1. Len(ring) = MaxEvents /\ \A i \in 1..Len(ring) : ring[i].at > x.at
    BY <1>10 DEF Outdated
  <2>2. Len(cut) = MaxEvents
    BY <1>1, <1>4, <1>5, <2>1
  <2>3. ASSUME NEW i \in 1..Len(cut) PROVE cut[i].at > x.at
    <3>1. i \in 1..Len(ring) /\ cut[i] = new[i]
      BY <1>5, <2>1, <2>2
    <3>2. CASE i < p
      BY <1>3, <2>1, <3>1, <3>2
    <3>3. CASE i = p
      <4>1. ring[p].at < m.at /\ ring[p].at > x.at
        BY <1>3, <1>4, <2>1, <3>1, <3>3
      <4>2. ring[p].at \in Nat /\ m.at \in Nat /\ x.at \in Nat
        <5>1. \A y \in Message : y.at \in Nat
          BY DEF Message
        <5>2. ring[p] \in Message
          BY <3>1, <3>3
        <5> QED
          BY <5>1, <5>2
      <4> QED
        BY <1>3, <3>1, <3>3, <4>1, <4>2
    <3>4. CASE i > p
      <4>1. i - 1 \in p..Len(ring) /\ (i - 1) + 1 = i /\ i - 1 \in 1..Len(ring)
        BY <1>4, <3>1, <3>4
      <4>2. new[i] = ring[i - 1]
        BY <1>3, <4>1
      <4> QED
        BY <2>1, <3>1, <4>1, <4>2
    <3> QED
      BY <3>1, <3>2, <3>3, <3>4
  <2> QED
    BY <2>2, <2>3 DEF Outdated
<1> QED
  BY <1>6, <1>8, <1>9, <1>10 DEF cut, new

-----------------------------------------------------------------------------
(* The types.                                                              *)

(* An append adds one message and moves none.                              *)
LEMMA AppendGrows ==
  ASSUME stream \in Seq(Message), NEW m \in Message, stream' = Append(stream, m)
  PROVE  /\ stream' \in Seq(Message)
         /\ Len(stream) \in Nat /\ Len(stream') = Len(stream) + 1
         /\ DOMAIN stream = 1..Len(stream) /\ DOMAIN stream' = 1..(Len(stream) + 1)
         /\ \A i \in 1..Len(stream) : stream'[i] = stream[i]
         /\ stream'[Len(stream) + 1] = m
BY AppendProperties, LenProperties

(* What is appended, by whom.                                              *)
Appended(m) ==
  /\ m \in Message /\ m.at \in 1..clock'
  /\ stream' = Append(stream, m)

LEMMA EmitAppends ==
  ASSUME TypeOK, NEW c \in Cast, emitCompleted(c), rec[c] = "closed" => stamp[c] \in 1..clock
  PROVE  \/ stream' = stream
         \/ \E m : Appended(m) /\ m.cast = c /\ m.session = c.session /\ m.at = stamp[c]
<1> DEFINE m == [action |-> "recording.completed", session |-> c.session,
                 cast |-> c, at |-> stamp[c]]
<1>1. m \in Message
  BY DEF TypeOK, Message, Session
<1>2. stream' = stream \/ stream' = Append(stream, m)
  BY DEF emitCompleted
<1>3. m.at \in 1..clock'
  BY DEF emitCompleted
<1> QED
  BY <1>1, <1>2, <1>3 DEF Appended

LEMMA NoiseAppends ==
  ASSUME TypeOK, Noise
  PROVE  \E m : Appended(m) /\ m.at = clock + 1
                /\ (m.cast # None => m.cast \in Foreign /\ m.cast.session = m.session)
                /\ (m.action = "recording.completed" => m.cast # None)
<1>1. clock + 1 \in Nat /\ clock' = clock + 1 /\ clock + 1 \in 1..clock'
  <2>1. clock \in Nat
    BY DEF TypeOK
  <2>2. clock' = clock + 1
    BY DEF Noise
  <2> QED
    BY <2>1, <2>2
<1>2. ASSUME NEW id \in Session,
             stream' = Append(stream, [action |-> "session.opened", session |-> id,
                                       cast |-> None, at |-> clock + 1])
      PROVE  \E m : Appended(m) /\ m.at = clock + 1 /\ m.cast = None
                    /\ m.action # "recording.completed"
  <2> DEFINE m == [action |-> "session.opened", session |-> id, cast |-> None,
                   at |-> clock + 1]
  <2>1. m \in Message /\ m.at = clock + 1 /\ m.cast = None /\ m.action # "recording.completed"
    BY <1>1 DEF Message
  <2> QED
    BY <1>1, <1>2, <2>1 DEF Appended
<1>3. ASSUME NEW c \in Foreign,
             stream' = Append(stream, [action |-> "recording.completed",
                                       session |-> c.session, cast |-> c, at |-> clock + 1])
      PROVE  \E m : Appended(m) /\ m.at = clock + 1 /\ m.cast \in Foreign
                    /\ m.cast.session = m.session
  <2> DEFINE m == [action |-> "recording.completed", session |-> c.session, cast |-> c,
                   at |-> clock + 1]
  <2>1. m \in Message /\ m.at = clock + 1 /\ m.cast = c /\ m.session = c.session
    BY <1>1 DEF Message, Session
  <2> QED
    BY <1>1, <1>3, <2>1 DEF Appended
<1>4. ASSUME stream' = Append(stream, [action |-> "", session |-> None, cast |-> None,
                                       at |-> clock + 1])
      PROVE  \E m : Appended(m) /\ m.at = clock + 1 /\ m.cast = None
                    /\ m.action # "recording.completed"
  <2> DEFINE m == [action |-> "", session |-> None, cast |-> None, at |-> clock + 1]
  <2>1. m \in Message /\ m.at = clock + 1 /\ m.cast = None /\ m.action # "recording.completed"
    BY <1>1 DEF Message
  <2> QED
    BY <1>1, <1>4, <2>1 DEF Appended
<1>5. None \notin Foreign
  BY PortalAssumption
<1> QED
  BY <1>2, <1>3, <1>4, <1>5 DEF Noise

(* Every step keeps the types.  (That a closed cast's stamp is a time is   *)
(* part of DistinctTimes.)                                                 *)
ConfTypes ==
  set \in Setting /\ today \in 1..MaxDay /\ restarts \in 0..MaxRestart

RecTypes ==
  /\ clock \in Nat /\ noise \in 0..MaxNoise
  /\ rec \in [Cast -> {"none", "open", "closed", "done"}] /\ stamp \in [Cast -> Nat]
  /\ disk \in [Cast -> {"none", "growing", "final"}]

StreamTypes ==
  stream \in Seq(Message) /\ \A i \in DOMAIN stream : stream[i].at \in 1..clock

TailTypes ==
  /\ from \in 0..Len(stream)
  /\ read \in [sessions : from..Len(stream), events : from..Len(stream)]
  /\ sessions \in Seq(Message) /\ Len(sessions) <= MaxSessions
  /\ events \in Seq(Message) /\ Len(events) <= MaxEvents

LEMMA TypeParts ==
  /\ TypeOK <=> ConfTypes /\ RecTypes /\ StreamTypes /\ TailTypes /\ req \in Request
  /\ TypeOK' <=> ConfTypes' /\ RecTypes' /\ StreamTypes' /\ TailTypes' /\ req' \in Request
BY DEF TypeOK, ConfTypes, RecTypes, StreamTypes, TailTypes

(* The part of the state that a step leaves alone keeps its type.          *)
LEMMA TypeFrame ==
  /\ ConfTypes /\ UNCHANGED confVars => ConfTypes'
  /\ RecTypes /\ UNCHANGED <<clock, noise, rec, stamp, disk>> => RecTypes'
  /\ StreamTypes /\ UNCHANGED <<stream, clock>> => StreamTypes'
  /\ TailTypes /\ UNCHANGED <<stream, tailVars>> => TailTypes'
<1>1. ConfTypes /\ UNCHANGED confVars => ConfTypes'
  BY DEF ConfTypes, confVars
<1>2. RecTypes /\ UNCHANGED <<clock, noise, rec, stamp, disk>> => RecTypes'
  BY DEF RecTypes
<1>3. StreamTypes /\ UNCHANGED <<stream, clock>> => StreamTypes'
  BY DEF StreamTypes
<1>4. TailTypes /\ UNCHANGED <<stream, tailVars>> => TailTypes'
  BY DEF TailTypes, tailVars
<1> QED
  BY <1>1, <1>2, <1>3, <1>4

(* An append leaves the readers where they are.                            *)
LEMMA AppendTypes ==
  ASSUME TypeOK, clock' \in Nat, clock <= clock', NEW m, Appended(m), UNCHANGED tailVars
  PROVE  StreamTypes' /\ TailTypes'
<1>1. StreamTypes /\ TailTypes /\ clock \in Nat
  BY TypeParts DEF RecTypes
<1>2. /\ stream' \in Seq(Message) /\ Len(stream) \in Nat
      /\ Len(stream') = Len(stream) + 1 /\ DOMAIN stream = 1..Len(stream)
      /\ DOMAIN stream' = 1..(Len(stream) + 1)
      /\ \A i \in 1..Len(stream) : stream'[i] = stream[i]
      /\ stream'[Len(stream) + 1] = m
  BY <1>1, AppendGrows DEF StreamTypes, Appended
<1>3. ASSUME NEW i \in DOMAIN stream' PROVE stream'[i].at \in 1..clock'
  <2>1. CASE i \in 1..Len(stream)
    <3>1. stream[i].at \in 1..clock
      BY <1>1, <1>2, <2>1 DEF StreamTypes
    <3>2. stream'[i].at \in 1..clock
      BY <1>2, <2>1, <3>1
    <3> QED
      BY <1>1, <3>2
  <2>2. CASE i = Len(stream) + 1
    BY <1>2, <2>2 DEF Appended
  <2> QED
    BY <1>2, <2>1, <2>2
<1>4. TailTypes'
  BY <1>1, <1>2 DEF TailTypes, tailVars
<1> QED
  BY <1>2, <1>3, <1>4 DEF StreamTypes

(* The steps of a request change some of its fields.                       *)
LEMMA RequestUpdates ==
  ASSUME NEW r \in Request
  PROVE  /\ \A p \in Stage, n \in Status : [r EXCEPT !.pc = p, !.status = n] \in Request
         /\ \A p \in Stage : [r EXCEPT !.pc = p] \in Request
         /\ \A p \in Stage, c \in Cast \cup Foreign \cup {None} :
              [r EXCEPT !.pc = p, !.cast = c] \in Request
         /\ \A p \in Stage, b \in BOOLEAN : [r EXCEPT !.pc = p, !.final = b] \in Request
         /\ \A b \in BOOLEAN : [r EXCEPT !.kept = b] \in Request
<1>1. ASSUME NEW q \in Request, NEW p \in Stage PROVE [q EXCEPT !.pc = p] \in Request
  BY SMT DEF Request
<1>2. ASSUME NEW q \in Request, NEW n \in Status PROVE [q EXCEPT !.status = n] \in Request
  BY SMT DEF Request
<1>3. ASSUME NEW q \in Request, NEW c \in Cast \cup Foreign \cup {None}
      PROVE  [q EXCEPT !.cast = c] \in Request
  BY SMT DEF Request
<1>4. ASSUME NEW q \in Request, NEW b \in BOOLEAN PROVE [q EXCEPT !.final = b] \in Request
  BY SMT DEF Request
<1>5. ASSUME NEW q \in Request, NEW b \in BOOLEAN PROVE [q EXCEPT !.kept = b] \in Request
  BY SMT DEF Request
<1>6. ASSUME NEW p, NEW v
      PROVE  /\ [r EXCEPT !.pc = p, !.status = v] = [[r EXCEPT !.pc = p] EXCEPT !.status = v]
             /\ [r EXCEPT !.pc = p, !.cast = v] = [[r EXCEPT !.pc = p] EXCEPT !.cast = v]
             /\ [r EXCEPT !.pc = p, !.final = v] = [[r EXCEPT !.pc = p] EXCEPT !.final = v]
  OBVIOUS
<1> QED
  BY <1>1, <1>2, <1>3, <1>4, <1>5, <1>6, Zenon

LEMMA FailureIsRequest ==
  ASSUME req \in Request, Fails
  PROVE  req' \in Request
<1>1. ASSUME NEW q \in Request, NEW b \in BOOLEAN PROVE [q EXCEPT !.failed = b] \in Request
  BY SMT DEF Request
<1>2. PICK n \in Status, b \in BOOLEAN : n = 500 /\ b = TRUE
  <2>1. 500 \in Status /\ TRUE \in BOOLEAN
    BY DEF Status
  <2> QED
    BY <2>1, Zenon
<1> DEFINE q == [req EXCEPT !.pc = "done", !.status = n]
<1>3. q \in Request
  <2>1. "done" \in Stage
    BY DEF Stage
  <2> QED
    BY <2>1, RequestUpdates, Zenon
<1>4. req' = [q EXCEPT !.failed = b]
  BY <1>2 DEF Fails
<1> HIDE DEF q
<1> QED
  BY <1>1, <1>3, <1>4

LEMMA IdleIsRequest == Idle \in Request
BY PortalAssumption DEF Idle, Request, Stage, Status

(* A row that is listed is one of the list, with the session's id.         *)
LEMMA RowIsListed ==
  ASSUME sessions \in Seq(Message), NEW id, Listed(id)
  PROVE  Row(id) \in DOMAIN sessions /\ sessions[Row(id)].session = id
<1> DEFINE T == {i \in DOMAIN sessions : sessions[i].session = id}
           First(i) == /\ sessions[i].session = id
                       /\ \A j \in 1..(i - 1) : sessions[j].session # id
<1>1. DOMAIN sessions = 1..Len(sessions) /\ Len(sessions) \in Nat
  BY LenProperties
<1>2. T \in SUBSET Nat /\ T # {}
  BY <1>1 DEF Listed
<1>3. PICK i \in T : \A j \in T : i <= j
  BY <1>2, LeastNumber, Zenon
<1>4. First(i)
  BY <1>1, <1>3
<1>5. i \in DOMAIN sessions /\ (\E k \in DOMAIN sessions : First(k))
  BY <1>3, <1>4
<1> DEFINE k == CHOOSE k \in DOMAIN sessions : First(k)
<1>6. k \in DOMAIN sessions /\ First(k)
  BY <1>5
<1>7. Row(id) = k
  BY DEF Row
<1> QED
  BY <1>6, <1>7

(* The rings have been read no further than the stream goes.               *)
LEMMA ReadTypes ==
  ASSUME TypeOK
  PROVE  /\ Len(stream) \in Nat /\ from \in Nat /\ DOMAIN stream = 1..Len(stream)
         /\ read.sessions \in Nat /\ from <= read.sessions /\ read.sessions <= Len(stream)
         /\ read.events \in Nat /\ from <= read.events /\ read.events <= Len(stream)
         /\ read = [sessions |-> read.sessions, events |-> read.events]
<1>1. /\ stream \in Seq(Message) /\ from \in 0..Len(stream)
      /\ read \in [sessions : from..Len(stream), events : from..Len(stream)]
  BY DEF TypeOK
<1>2. Len(stream) \in Nat /\ DOMAIN stream = 1..Len(stream)
  BY <1>1
<1> QED
  BY <1>1, <1>2

(* A ring that is cut keeps its type.                                      *)
LEMMA RingTypes ==
  ASSUME TypeOK, NEW m \in Message
  PROVE  /\ FirstN(MaxSessions, Prepend(m, sessions)) \in Seq(Message)
         /\ Len(FirstN(MaxSessions, Prepend(m, sessions))) <= MaxSessions
         /\ FirstN(MaxEvents, AuditInsert(m, events)) \in Seq(Message)
         /\ Len(FirstN(MaxEvents, AuditInsert(m, events))) <= MaxEvents
<1>1. sessions \in Seq(Message) /\ events \in Seq(Message)
  BY DEF TypeOK
<1>2. MaxSessions \in Nat /\ MaxEvents \in Nat
  BY PortalAssumption
<1>3. Prepend(m, sessions) \in Seq(Message) /\ AuditInsert(m, events) \in Seq(Message)
  BY <1>1, PrependShifts, AuditInsertPlaces
<1>4. \A s \in Seq(Message), n \in Nat : FirstN(n, s) \in Seq(Message) /\ Len(FirstN(n, s)) <= n
  <2> SUFFICES ASSUME NEW s \in Seq(Message), NEW n \in Nat
               PROVE  FirstN(n, s) \in Seq(Message) /\ Len(FirstN(n, s)) <= n
    OBVIOUS
  <2>1. /\ FirstN(n, s) \in Seq(Message)
        /\ Len(FirstN(n, s)) = IF Len(s) <= n THEN Len(s) ELSE n
    BY FirstNIsPrefix
  <2> QED
    BY <2>1
<1> QED
  BY <1>2, <1>3, <1>4

LEMMA RecordingTypes ==
  ASSUME TypeOK, DistinctTimes, NEW c \in Cast,
         OpenCast(c) \/ CloseCast(c) \/ emitCompleted(c) \/ Prune(c)
  PROVE  TypeOK'
<1>1. ConfTypes /\ RecTypes /\ StreamTypes /\ TailTypes /\ req \in Request
  BY TypeParts
<1>2. ConfTypes'
  BY <1>1, TypeFrame DEF OpenCast, CloseCast, emitCompleted, Prune
<1>3. req' \in Request
  <2>1. CASE UNCHANGED req
    BY <1>1, <2>1
  <2>2. CASE req' = [req EXCEPT !.kept = FALSE]
    BY <1>1, <2>2, RequestUpdates, Zenon
  <2> QED
    BY <2>1, <2>2 DEF OpenCast, CloseCast, emitCompleted, Prune
<1>4. RecTypes'
  <2>1. CASE OpenCast(c)
    BY <1>1, <2>1 DEF RecTypes, OpenCast
  <2>2. CASE CloseCast(c)
    <3>1. clock + 1 \in Nat
      BY <1>1 DEF RecTypes
    <3> QED
      BY <1>1, <2>2, <3>1 DEF RecTypes, CloseCast
  <2>3. CASE emitCompleted(c)
    BY <1>1, <2>3 DEF RecTypes, emitCompleted
  <2>4. CASE Prune(c)
    BY <1>1, <2>4 DEF RecTypes, Prune
  <2> QED
    BY <2>1, <2>2, <2>3, <2>4
<1>5. clock' \in Nat /\ clock <= clock'
  BY <1>1 DEF RecTypes, OpenCast, CloseCast, emitCompleted, Prune
<1>6. CASE UNCHANGED stream
  <2>1. UNCHANGED <<stream, tailVars>>
    BY <1>6 DEF OpenCast, CloseCast, emitCompleted, Prune
  <2>2. TailTypes'
    BY <1>1, <2>1, TypeFrame
  <2>3. StreamTypes'
    <3>1. \A i \in DOMAIN stream : stream[i].at \in 1..clock'
      BY <1>1, <1>5 DEF StreamTypes, RecTypes
    <3> QED
      BY <1>1, <1>6, <3>1 DEF StreamTypes
  <2> QED
    BY <1>2, <1>3, <1>4, <2>2, <2>3, TypeParts
<1>7. ASSUME NEW m, Appended(m) PROVE TypeOK'
  <2>1. UNCHANGED tailVars
    BY DEF OpenCast, CloseCast, emitCompleted, Prune
  <2>2. StreamTypes' /\ TailTypes'
    BY <1>5, <1>7, <2>1, AppendTypes
  <2> QED
    BY <1>2, <1>3, <1>4, <2>2, TypeParts
<1>8. CASE emitCompleted(c)
  <2>1. rec[c] = "closed" => stamp[c] \in 1..clock
    BY DEF DistinctTimes
  <2> QED
    BY <1>6, <1>7, <1>8, <2>1, EmitAppends
<1> QED
  BY <1>6, <1>8 DEF OpenCast, CloseCast, Prune

LEMMA ReadingTypes ==
  ASSUME TypeOK, SessionsRead \/ EventsRead
  PROVE  TypeOK'
<1>1. ConfTypes /\ RecTypes /\ StreamTypes /\ TailTypes /\ req \in Request
  BY TypeParts
<1>2. UNCHANGED <<recVars, from, confVars, req>>
  BY DEF SessionsRead, EventsRead
<1>3. ConfTypes' /\ RecTypes' /\ StreamTypes'
  BY <1>1, <1>2, TypeFrame DEF recVars
<1>4. Len(stream) \in Nat /\ \A i \in 1..Len(stream) : stream[i] \in Message
  BY <1>1 DEF StreamTypes
<1>5. /\ from \in 0..Len(stream) /\ read.sessions \in from..Len(stream)
      /\ read.events \in from..Len(stream)
  BY <1>1 DEF TailTypes
<1>6. CASE SessionsRead
  <2>1. read.sessions + 1 \in 1..Len(stream) /\ read.sessions + 1 \in from..Len(stream)
    BY <1>4, <1>5, <1>6 DEF SessionsRead
  <2>2. read' \in [sessions : from..Len(stream), events : from..Len(stream)]
    BY <1>1, <1>6, <2>1 DEF SessionsRead, TailTypes
  <2>3. sessions' \in Seq(Message) /\ Len(sessions') <= MaxSessions
    <3>1. stream[read.sessions + 1] \in Message
      BY <1>4, <2>1
    <3> QED
      BY <1>1, <1>6, <3>1, RingTypes DEF SessionsRead, TailTypes
  <2>4. TailTypes'
    BY <1>1, <1>2, <1>6, <2>2, <2>3 DEF SessionsRead, TailTypes, recVars
  <2> QED
    BY <1>1, <1>2, <1>3, <2>4, TypeParts
<1>7. CASE EventsRead
  <2>1. read.events + 1 \in 1..Len(stream) /\ read.events + 1 \in from..Len(stream)
    BY <1>4, <1>5, <1>7 DEF EventsRead
  <2>2. read' \in [sessions : from..Len(stream), events : from..Len(stream)]
    BY <1>1, <1>7, <2>1 DEF EventsRead, TailTypes
  <2>3. events' \in Seq(Message) /\ Len(events') <= MaxEvents
    <3>1. stream[read.events + 1] \in Message
      BY <1>4, <2>1
    <3> QED
      BY <1>1, <1>7, <3>1, RingTypes DEF EventsRead, TailTypes
  <2>4. TailTypes'
    BY <1>1, <1>2, <1>7, <2>2, <2>3 DEF EventsRead, TailTypes, recVars
  <2> QED
    BY <1>1, <1>2, <1>3, <2>4, TypeParts
<1> QED
  BY <1>6, <1>7

LEMMA ViewingTypes ==
  ASSUME TypeOK, Viewing
  PROVE  TypeOK' /\ UNCHANGED <<recVars, tailVars, confVars>>
<1>1. ConfTypes /\ RecTypes /\ StreamTypes /\ TailTypes /\ req \in Request
  BY TypeParts
<1>2. UNCHANGED <<recVars, tailVars, confVars>>
  BY DEF Viewing, Detail, CastLookup, Resolve, Stat, Open, Leave
<1>3. ConfTypes' /\ RecTypes' /\ StreamTypes' /\ TailTypes'
  BY <1>1, <1>2, TypeFrame DEF recVars
<1> SUFFICES req' \in Request
  BY <1>2, <1>3, TypeParts
<1>4. ASSUME NEW n \in Status, Answer(n) PROVE req' \in Request
  <2>1. "done" \in Stage
    BY DEF Stage
  <2> QED
    BY <1>1, <1>4, <2>1, RequestUpdates, Zenon DEF Answer
<1>5. {200, 403, 404, 500, 503} \subseteq Status
  BY DEF Status
<1>f. ASSUME Fails PROVE req' \in Request
  BY <1>1, <1>f, FailureIsRequest
<1>6. ASSUME NEW id \in Session, Detail(id) PROVE req' \in Request
  <2> DEFINE n == IF ~nats THEN 503 ELSE IF Listed(id) THEN 200 ELSE 404
             b == nats /\ castDir # None /\ Playable(id)
             w == IF Listed(id) THEN Row(id) ELSE 0
  <2>1. nats \in BOOLEAN
    BY <1>1, PortalAssumption DEF ConfTypes, nats
  <2>2. n \in Status /\ "detail" \in Stage
    BY DEF Status, Stage
  <2>3. b \in BOOLEAN /\ Kept(id) \in BOOLEAN
    BY DEF Kept
  <2>4. w \in Nat
    <3>1. DOMAIN sessions \subseteq Nat
      BY <1>1 DEF TailTypes
    <3>2. Listed(id) => Row(id) \in DOMAIN sessions
      BY <1>1, RowIsListed DEF TailTypes
    <3> QED
      BY <3>1, <3>2
  <2>5. restarts \in 0..MaxRestart /\ read.sessions \in Nat
    BY <1>1, ReadTypes DEF ConfTypes
  <2>6. req' = [pc |-> "detail", id |-> id, player |-> b, cast |-> None, final |-> FALSE,
                status |-> n, kept |-> Kept(id), since |-> restarts,
                seen |-> read.sessions, row |-> w, failed |-> FALSE]
    BY <1>6, Zenon DEF Detail, Page
  <2> HIDE DEF n, b, w
  <2> QED
    BY <2>2, <2>3, <2>4, <2>5, <2>6 DEF Request
<1>7. CASE CastLookup
  <2>1. CASE Answer(503) \/ Answer(404)
    BY <1>4, <1>5, <2>1
  <2>2. CASE /\ Playable(req.id)
             /\ req' = [req EXCEPT !.pc = "resolve", !.cast = sessions[Row(req.id)].cast]
    <3>1. Row(req.id) \in DOMAIN sessions
      BY <1>1, <2>2, RowIsListed DEF Playable, TailTypes
    <3>2. sessions[Row(req.id)] \in Message
      BY <1>1, <3>1 DEF TailTypes
    <3>3. sessions[Row(req.id)].cast \in Cast \cup Foreign \cup {None}
      BY <3>1, <3>2 DEF Message
    <3>4. "resolve" \in Stage
      BY DEF Stage
    <3> QED
      BY <1>1, <2>2, <3>3, <3>4, RequestUpdates, Zenon
  <2> QED
    BY <1>7, <2>1, <2>2 DEF CastLookup
<1>8. CASE Resolve
  <2>1. "stat" \in Stage
    BY DEF Stage
  <2>2. CASE Answer(404) \/ Answer(403)
    BY <1>4, <1>5, <2>2
  <2>3. CASE req' = [req EXCEPT !.pc = "stat"]
    BY <1>1, <2>1, <2>3, RequestUpdates, Zenon
  <2> QED
    BY <1>8, <1>f, <2>2, <2>3, Zenon DEF Resolve
<1>9. CASE Stat
  <2>1. "open" \in Stage /\ (disk[req.cast] = "final") \in BOOLEAN
    BY DEF Stage
  <2>2. CASE Answer(404)
    BY <1>4, <1>5, <2>2
  <2>3. CASE req' = [req EXCEPT !.pc = "open", !.final = disk[req.cast] = "final"]
    BY <1>1, <2>1, <2>3, RequestUpdates, Zenon
  <2> QED
    BY <1>9, <1>f, <2>2, <2>3, Zenon DEF Stat
<1>10. CASE Open
  BY <1>4, <1>5, <1>f, <1>10 DEF Open
<1>11. CASE Leave
  BY <1>11, IdleIsRequest DEF Leave
<1> QED
  BY <1>6, <1>7, <1>8, <1>9, <1>10, <1>11 DEF Viewing

LEMMA TypeStep ==
  ASSUME TypeOK, DistinctTimes, [Next]_vars
  PROVE  TypeOK'
<1>1. ConfTypes /\ RecTypes /\ StreamTypes /\ TailTypes /\ req \in Request
  BY TypeParts
<1>2. CASE UNCHANGED vars
  BY <1>1, <1>2, TypeFrame, TypeParts DEF vars, recVars
<1>3. CASE Recording
  BY <1>3, RecordingTypes DEF Recording
<1>4. CASE Noise
  <2>1. PICK m : Appended(m)
    BY <1>4, NoiseAppends
  <2>2. clock \in Nat /\ clock' \in Nat /\ clock <= clock'
    <3>1. clock \in Nat
      BY <1>1 DEF RecTypes
    <3>2. clock' = clock + 1
      BY <1>4 DEF Noise
    <3> QED
      BY <3>1, <3>2
  <2>3. StreamTypes' /\ TailTypes'
    BY <1>4, <2>1, <2>2, AppendTypes DEF Noise
  <2>4. ConfTypes' /\ req' \in Request
    BY <1>1, <1>4, TypeFrame DEF Noise
  <2>5. noise' \in 0..MaxNoise
    <3>1. noise \in 0..MaxNoise /\ MaxNoise \in Nat
      BY <1>1, PortalAssumption DEF RecTypes
    <3>2. noise < MaxNoise /\ noise' = noise + 1
      BY <1>4 DEF Noise
    <3> QED
      BY <3>1, <3>2
  <2>6. RecTypes'
    BY <1>1, <1>4, <2>2, <2>5 DEF Noise, RecTypes
  <2> QED
    BY <2>3, <2>4, <2>6, TypeParts
<1>5. CASE NextDay
  <2>1. RecTypes' /\ StreamTypes' /\ TailTypes' /\ req' \in Request
    BY <1>1, <1>5, TypeFrame DEF NextDay, recVars
  <2>2. ConfTypes'
    BY <1>1, <1>5, PortalAssumption DEF NextDay, ConfTypes
  <2> QED
    BY <2>1, <2>2, TypeParts
<1>6. CASE Restart
  <2>1. StreamTypes' /\ req' \in Request
    BY <1>1, <1>6, TypeFrame, IdleIsRequest DEF Restart
  <2>2. ConfTypes'
    BY <1>1, <1>6, PortalAssumption DEF Restart, ConfTypes
  <2>3. RecTypes'
    BY <1>1, <1>6 DEF Restart, RecTypes
  <2>4. Len(stream) \in Nat /\ stream' = stream /\ from' \in 0..Len(stream)
    BY <1>1, <1>6 DEF Restart, StreamTypes
  <2>5. read' \in [sessions : from'..Len(stream'), events : from'..Len(stream')]
    BY <1>6, <2>4 DEF Restart
  <2>6. /\ sessions' \in Seq(Message) /\ Len(sessions') <= MaxSessions
        /\ events' \in Seq(Message) /\ Len(events') <= MaxEvents
    BY <1>6, PortalAssumption DEF Restart
  <2>7. TailTypes'
    BY <2>4, <2>5, <2>6 DEF TailTypes
  <2> QED
    BY <2>1, <2>2, <2>3, <2>7, TypeParts
<1> QED
  BY <1>2, <1>3, <1>4, <1>5, <1>6, ReadingTypes, ViewingTypes DEF Next

-----------------------------------------------------------------------------
(* The recorder and the stream.                                            *)

(* The steps that change neither the recorders nor their files.            *)
LEMMA RecorderFrame ==
  ASSUME Noise \/ SessionsRead \/ EventsRead \/ Viewing \/ NextDay \/ UNCHANGED vars
  PROVE  UNCHANGED <<rec, disk, stamp, set>>
BY DEF Noise, SessionsRead, EventsRead, Viewing, NextDay, vars, recVars, confVars, Detail,
       CastLookup, Resolve, Stat, Open, Leave

LEMMA RecordedStep ==
  ASSUME TypeOK, NEW d \in Cast, Recorded(d), [Next]_vars
  PROVE  Recorded(d)'
<1>1. /\ rec \in [Cast -> {"none", "open", "closed", "done"}]
      /\ disk \in [Cast -> {"none", "growing", "final"}]
      /\ today \in Nat
  BY PortalAssumption DEF TypeOK
<1>2. d.day \in Nat
  BY PortalAssumption
<1>3. CASE Recording
  <2>1. PICK c \in Cast : OpenCast(c) \/ CloseCast(c) \/ emitCompleted(c) \/ Prune(c)
    BY <1>3 DEF Recording
  <2>2. today' = today
    BY <2>1 DEF OpenCast, CloseCast, emitCompleted, Prune, confVars
  <2>3. CASE OpenCast(c)
    BY <1>1, <1>2, <2>2, <2>3 DEF OpenCast, Recorded
  <2>4. CASE CloseCast(c)
    BY <1>1, <1>2, <2>2, <2>4 DEF CloseCast, Recorded
  <2>5. CASE emitCompleted(c)
    BY <1>1, <1>2, <2>2, <2>5 DEF emitCompleted, Recorded
  <2>6. CASE Prune(c)
    BY <1>1, <1>2, <2>2, <2>6 DEF Prune, Recorded
  <2> QED
    BY <2>1, <2>3, <2>4, <2>5, <2>6
<1>4. CASE NextDay
  BY <1>1, <1>2, <1>4 DEF NextDay, recVars, Recorded
<1>5. CASE Restart
  BY <1>1, <1>2, <1>5 DEF Restart, Recorded
<1>6. CASE Noise \/ SessionsRead \/ EventsRead \/ Viewing \/ UNCHANGED vars
  <2>1. today' = today
    BY <1>6 DEF Noise, SessionsRead, EventsRead, Viewing, vars, confVars, Detail,
                CastLookup, Resolve, Stat, Open, Leave
  <2> QED
    BY <1>6, <2>1, RecorderFrame DEF Recorded
<1> QED
  BY <1>3, <1>4, <1>5, <1>6 DEF Next

(* What is finished stays so: its name cannot be taken again on its day.   *)
LEMMA FinishedStays ==
  ASSUME TypeOK, NEW d, d \in Cast => Recorded(d), Finished(d), [Next]_vars
  PROVE  Finished(d)'
<1> SUFFICES ASSUME d \in Cast PROVE rec'[d] = "done" /\ disk'[d] # "growing"
  BY DEF Finished
<1>1. /\ rec \in [Cast -> {"none", "open", "closed", "done"}]
      /\ disk \in [Cast -> {"none", "growing", "final"}]
  BY DEF TypeOK
<1>2. rec[d] = "done" /\ disk[d] # "growing"
  BY DEF Finished
<1>3. CASE Recording
  <2>1. PICK c \in Cast : OpenCast(c) \/ CloseCast(c) \/ emitCompleted(c) \/ Prune(c)
    BY <1>3 DEF Recording
  <2>2. CASE OpenCast(c)
    BY <1>1, <1>2, <2>2 DEF OpenCast, Recorded
  <2>3. CASE CloseCast(c)
    BY <1>1, <1>2, <2>3 DEF CloseCast
  <2>4. CASE emitCompleted(c)
    BY <1>1, <1>2, <2>4 DEF emitCompleted
  <2>5. CASE Prune(c)
    BY <1>1, <1>2, <2>5 DEF Prune
  <2> QED
    BY <2>1, <2>2, <2>3, <2>4, <2>5
<1>4. CASE Restart
  BY <1>1, <1>2, <1>4 DEF Restart
<1>5. CASE Noise \/ SessionsRead \/ EventsRead \/ Viewing \/ NextDay \/ UNCHANGED vars
  BY <1>2, <1>5, RecorderFrame
<1> QED
  BY <1>3, <1>4, <1>5 DEF Next

(* A step leaves the stream as it is, or one recorder or another publisher *)
(* appends a message.                                                      *)
LEMMA StreamSteps ==
  ASSUME [Next]_vars
  PROVE  stream' = stream \/ Noise \/ \E c \in Cast : emitCompleted(c)
BY DEF Next, Recording, OpenCast, CloseCast, Prune, SessionsRead, EventsRead, Viewing,
       NextDay, Restart, vars, recVars, Detail, CastLookup, Resolve, Stat, Open, Leave

(* What a message said stays true, and what is appended is true.           *)
LEMMA TruthStays ==
  ASSUME TypeOK, StreamInv, NEW m, Truthful(m), [Next]_vars
  PROVE  Truthful(m)'
BY FinishedStays DEF StreamInv, Truthful

LEMMA AppendedIsTruthful ==
  ASSUME TypeOK, StreamInv, [Next]_vars, stream' # stream
  PROVE  \E m : Appended(m) /\ Truthful(m)'
<1>1. CASE Noise
  <2>1. PICK m : Appended(m) /\ (m.cast # None => m.cast \in Foreign
                                                  /\ m.cast.session = m.session)
    BY <1>1, NoiseAppends
  <2>2. Truthful(m)'
    BY <2>1, PortalAssumption DEF Truthful, Finished
  <2> QED
    BY <2>1, <2>2
<1>2. ASSUME NEW c \in Cast, emitCompleted(c) PROVE \E m : Appended(m) /\ Truthful(m)'
  <2>1. rec[c] = "closed" => stamp[c] \in 1..clock
    BY DEF StreamInv, DistinctTimes
  <2>2. PICK m : Appended(m) /\ m.cast = c /\ m.session = c.session
    BY <1>2, <2>1, EmitAppends
  <2>3. rec[c] = "closed" /\ disk[c] # "growing"
    BY <1>2 DEF emitCompleted, StreamInv, Recorded
  <2>4. rec'[c] = "done" /\ disk' = disk
    BY <1>2 DEF emitCompleted, TypeOK
  <2> QED
    BY <2>2, <2>3, <2>4 DEF Truthful, Finished
<1> QED
  BY <1>1, <1>2, StreamSteps

LEMMA TruthfulStep ==
  ASSUME TypeOK, StreamInv, [Next]_vars
  PROVE  \A i \in DOMAIN stream' : \A m : m = stream'[i] => Truthful(m)'
<1> SUFFICES ASSUME NEW i \in DOMAIN stream', NEW m, m = stream'[i]
             PROVE  Truthful(m)'
  OBVIOUS
<1>1. ASSUME i \in DOMAIN stream, m = stream[i] PROVE Truthful(m)'
  <2>1. Truthful(stream[i])
    BY <1>1 DEF StreamInv
  <2>2. Truthful(m)
    BY <1>1, <2>1 DEF Truthful, Finished
  <2> QED
    BY <2>2, TruthStays
<1>2. CASE stream' = stream
  BY <1>1, <1>2
<1>3. CASE stream' # stream
  <2>1. PICK n : Appended(n) /\ Truthful(n)'
    BY <1>3, AppendedIsTruthful
  <2>2. /\ Len(stream) \in Nat /\ DOMAIN stream = 1..Len(stream)
        /\ DOMAIN stream' = 1..(Len(stream) + 1)
        /\ \A k \in 1..Len(stream) : stream'[k] = stream[k]
        /\ stream'[Len(stream) + 1] = n
    BY <2>1, AppendGrows DEF Appended, TypeOK
  <2>3. CASE i \in 1..Len(stream)
    BY <1>1, <2>2, <2>3
  <2>4. CASE i = Len(stream) + 1
    <3>1. m = n
      BY <2>2, <2>4
    <3> QED
      BY <2>1, <3>1
  <2> QED
    BY <2>2, <2>3, <2>4
<1> QED
  BY <1>2, <1>3

(* A step that publishes nothing and closes no cast gives out no time.     *)
LEMMA TimesStay ==
  ASSUME TypeOK, DistinctTimes, UNCHANGED <<stream, clock, stamp>>,
         \A c \in Cast : rec'[c] = "closed" => rec[c] = "closed"
  PROVE  DistinctTimes'
BY DEF DistinctTimes

LEMMA CloseTimes ==
  ASSUME TypeOK, DistinctTimes, NEW c \in Cast, CloseCast(c)
  PROVE  DistinctTimes'
<1>1. /\ clock \in Nat /\ clock' = clock + 1 /\ stream' = stream
      /\ rec \in [Cast -> {"none", "open", "closed", "done"}] /\ stamp \in [Cast -> Nat]
      /\ rec' = [rec EXCEPT ![c] = "closed"] /\ stamp' = [stamp EXCEPT ![c] = clock + 1]
  BY DEF TypeOK, CloseCast
<1>2. stamp'[c] = clock + 1
  BY <1>1
<1>3. \A d \in Cast : d # c => rec'[d] = rec[d] /\ stamp'[d] = stamp[d]
  BY <1>1
<1>4. \A i \in DOMAIN stream : stream[i].at \in 1..clock
  BY DEF TypeOK
<1>5. \A d \in Cast : rec[d] = "closed" =>
        stamp[d] \in 1..clock /\ \A i \in DOMAIN stream : stream[i].at # stamp[d]
  BY DEF DistinctTimes
<1>6. ASSUME NEW d \in Cast, rec'[d] = "closed"
      PROVE  stamp'[d] \in 1..clock' /\ \A i \in DOMAIN stream' : stream'[i].at # stamp'[d]
  <2>1. CASE d = c
    BY <1>1, <1>2, <1>4, <2>1
  <2>2. CASE d # c
    BY <1>1, <1>3, <1>5, <1>6, <2>2
  <2> QED
    BY <2>1, <2>2
<1>7. ASSUME NEW d \in Cast, NEW e \in Cast, rec'[d] = "closed", rec'[e] = "closed",
             stamp'[d] = stamp'[e]
      PROVE  d = e
  <2>1. \A b \in Cast : b # c /\ rec'[b] = "closed" => stamp'[b] # clock + 1
    BY <1>1, <1>3, <1>5
  <2>2. CASE d # c /\ e # c
    BY <1>3, <1>7, <2>2 DEF DistinctTimes
  <2> QED
    BY <1>2, <1>7, <2>1, <2>2
<1> QED
  BY <1>1, <1>6, <1>7 DEF DistinctTimes

(* A message at a time of its own is appended, and no cast has that time.  *)
LEMMA AppendTimes ==
  ASSUME TypeOK, DistinctTimes, NEW m, Appended(m), clock' \in Nat, clock <= clock',
         \A i \in DOMAIN stream : stream[i].at # m.at,
         \A c \in Cast : rec'[c] = "closed" =>
           rec[c] = "closed" /\ stamp'[c] = stamp[c] /\ stamp[c] # m.at
  PROVE  DistinctTimes'
<1>1. /\ Len(stream) \in Nat /\ DOMAIN stream = 1..Len(stream)
      /\ DOMAIN stream' = 1..(Len(stream) + 1)
      /\ \A k \in 1..Len(stream) : stream'[k] = stream[k]
      /\ stream'[Len(stream) + 1] = m
  BY AppendGrows DEF Appended, TypeOK
<1>2. clock \in Nat
  BY DEF TypeOK
<1>3. ASSUME NEW i \in DOMAIN stream', NEW j \in DOMAIN stream', stream'[i].at = stream'[j].at
      PROVE  i = j
  <2>1. CASE i \in DOMAIN stream /\ j \in DOMAIN stream
    BY <1>1, <1>3, <2>1 DEF DistinctTimes
  <2>2. CASE i \in DOMAIN stream /\ j = Len(stream) + 1
    BY <1>1, <1>3, <2>2
  <2>3. CASE i = Len(stream) + 1 /\ j \in DOMAIN stream
    BY <1>1, <1>3, <2>3
  <2> QED
    BY <1>1, <2>1, <2>2, <2>3
<1>4. ASSUME NEW c \in Cast, rec'[c] = "closed"
      PROVE  stamp'[c] \in 1..clock' /\ \A i \in DOMAIN stream' : stream'[i].at # stamp'[c]
  <2>1. stamp[c] \in 1..clock /\ \A i \in DOMAIN stream : stream[i].at # stamp[c]
    BY <1>4 DEF DistinctTimes
  <2>2. stamp'[c] = stamp[c] /\ stamp[c] # m.at
    BY <1>4
  <2>3. ASSUME NEW i \in DOMAIN stream' PROVE stream'[i].at # stamp'[c]
    BY <1>1, <2>1, <2>2
  <2> QED
    BY <1>2, <2>1, <2>2, <2>3
<1>5. ASSUME NEW c \in Cast, NEW d \in Cast, rec'[c] = "closed", rec'[d] = "closed",
             stamp'[c] = stamp'[d]
      PROVE  c = d
  BY <1>5 DEF DistinctTimes
<1> QED
  BY <1>3, <1>4, <1>5 DEF DistinctTimes

LEMMA TimesStep ==
  ASSUME TypeOK, DistinctTimes, [Next]_vars
  PROVE  DistinctTimes'
<1>1. /\ rec \in [Cast -> {"none", "open", "closed", "done"}]
      /\ clock \in Nat /\ \A i \in DOMAIN stream : stream[i].at \in 1..clock
  BY DEF TypeOK
<1>2. \A c \in Cast : rec[c] = "closed" =>
        stamp[c] \in 1..clock /\ \A i \in DOMAIN stream : stream[i].at # stamp[c]
  BY DEF DistinctTimes
<1>3. CASE Recording
  <2>1. PICK c \in Cast : OpenCast(c) \/ CloseCast(c) \/ emitCompleted(c) \/ Prune(c)
    BY <1>3 DEF Recording
  <2>2. CASE OpenCast(c)
    <3>1. \A d \in Cast : rec'[d] = "closed" => rec[d] = "closed"
      BY <1>1, <2>2 DEF OpenCast
    <3> QED
      BY <2>2, <3>1, TimesStay DEF OpenCast
  <2>3. CASE CloseCast(c)
    BY <2>3, CloseTimes
  <2>4. CASE emitCompleted(c)
    <3>1. /\ rec[c] = "closed" /\ stamp' = stamp /\ clock' = clock
          /\ \A d \in Cast : rec'[d] = "closed" => rec[d] = "closed" /\ d # c
      BY <1>1, <2>4 DEF emitCompleted
    <3>2. CASE stream' = stream
      BY <3>1, <3>2, TimesStay
    <3>3. CASE stream' # stream
      <4>1. PICK m : Appended(m) /\ m.at = stamp[c]
        BY <1>2, <2>4, <3>3, EmitAppends
      <4>2. \A d \in Cast : rec'[d] = "closed" => stamp[d] # m.at
        BY <3>1, <4>1 DEF DistinctTimes
      <4>3. \A i \in DOMAIN stream : stream[i].at # m.at
        BY <1>2, <3>1, <4>1
      <4> QED
        BY <1>1, <3>1, <4>1, <4>2, <4>3, AppendTimes
    <3> QED
      BY <3>2, <3>3
  <2>5. CASE Prune(c)
    BY <2>5, TimesStay DEF Prune
  <2> QED
    BY <2>1, <2>2, <2>3, <2>4, <2>5
<1>4. CASE Noise
  <2>1. PICK m : Appended(m) /\ m.at = clock + 1
    BY <1>4, NoiseAppends
  <2>2. clock' = clock + 1 /\ rec' = rec /\ stamp' = stamp
    BY <1>4 DEF Noise
  <2>3. \A i \in DOMAIN stream : stream[i].at # m.at
    BY <1>1, <2>1
  <2>4. \A c \in Cast : rec'[c] = "closed" => stamp[c] # m.at
    BY <1>1, <1>2, <2>1, <2>2
  <2>5. clock' \in Nat /\ clock <= clock'
    BY <1>1, <2>2
  <2> QED
    BY <2>1, <2>2, <2>3, <2>4, <2>5, AppendTimes
<1>5. CASE Restart
  <2>1. \A d \in Cast : rec'[d] = "closed" => rec[d] = "closed"
    BY <1>1, <1>5 DEF Restart
  <2> QED
    BY <1>5, <2>1, TimesStay DEF Restart
<1>6. CASE SessionsRead \/ EventsRead \/ Viewing \/ NextDay \/ UNCHANGED vars
  <2>1. UNCHANGED recVars
    BY <1>6 DEF SessionsRead, EventsRead, Viewing, NextDay, vars, Detail, CastLookup,
                Resolve, Stat, Open, Leave
  <2> QED
    BY <2>1, TimesStay DEF recVars
<1> QED
  BY <1>3, <1>4, <1>5, <1>6 DEF Next

(* What the recorders have done, what the stream says of it, and when.     *)
LEMMA StreamStep ==
  ASSUME TypeOK, StreamInv, [Next]_vars
  PROVE  StreamInv'
<1>1. ASSUME NEW c \in Cast PROVE Recorded(c)'
  BY RecordedStep DEF StreamInv
<1>2. ASSUME NEW i \in DOMAIN stream', NEW m, m = stream'[i] PROVE Truthful(m)'
  BY <1>2, TruthfulStep
<1>3. DistinctTimes'
  BY TimesStep DEF StreamInv
<1>4. (\A i \in DOMAIN stream : Truthful(stream[i]))'
  BY <1>2 DEF Truthful, Finished
<1> QED
  BY <1>1, <1>3, <1>4 DEF StreamInv
=============================================================================
