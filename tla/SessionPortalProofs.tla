------------------------ MODULE SessionPortalProofs -------------------------
(***************************************************************************)
(* Proofs about the replay of recordings for any sets of casts, settings   *)
(* and foreign recordings and any caps of the rings: the types, that what  *)
(* is replayed is finished, that an offered player plays, and what the two *)
(* lists show.                                                             *)
(***************************************************************************)
EXTENDS SessionPortalLemmas

(* The rings hold messages that were read.                                 *)
RingInv ==
  /\ \A i \in DOMAIN sessions : \E k \in (from + 1)..read.sessions : sessions[i] = stream[k]
  /\ \A i \in DOMAIN events : \E k \in (from + 1)..read.events : events[i] = stream[k]

(* The list has the recordings that were read, in the order of the stream, *)
(* the last first, until the ring is full.                                 *)
ListInOrder ==
  \A i \in Completed(from + 1, read.sessions) :
    LET n == Cardinality(Completed(i + 1, read.sessions))
    IN  n < MaxSessions => n < Len(sessions) /\ sessions[n + 1] = stream[i]

(* A recording.completed names a cast, and so does every row of the list.  *)
CastsNamed ==
  /\ \A i \in DOMAIN stream : stream[i].action = "recording.completed" => stream[i].cast # None
  /\ \A i \in DOMAIN sessions : sessions[i].cast # None

(* What a request knows at each of its steps.                              *)
RequestInv ==
  /\ req.since <= restarts
  /\ req.kept => Kept(req.id)
  /\ req.cast # None => req.cast.session = req.id /\ Finished(req.cast)
  /\ req.pc \in {"idle", "detail"} => req.cast = None
  /\ req.pc \in {"resolve", "stat", "open"} => req.cast # None
  /\ req.pc \in {"stat", "open"} => req.cast \in Cast /\ req.cast.dir = castDir
  /\ req.pc = "open" => req.final
  /\ req.player /\ ~Restarted => nats /\ castDir # None
  /\ ReplayIsFinal /\ PlayerPlays

(* The row a page showed has moved down the list by one place for every    *)
(* recording read since, and perhaps off it.                               *)
Place == req.row + Cardinality(Completed(req.seen + 1, read.sessions))

PageInv ==
  req.pc = "detail" /\ req.player /\ ~Restarted =>
    /\ req.row \in Nat \ {0} /\ req.seen <= read.sessions
    /\ Place > MaxSessions \/ (Place \in DOMAIN sessions /\ sessions[Place].session = req.id)

PortalInv ==
  /\ TypeOK /\ StreamInv /\ RingInv /\ RequestInv
  /\ CastsNamed /\ ListInOrder /\ PageInv /\ AuditShowsNewest

-----------------------------------------------------------------------------
(* The trackers.                                                           *)

(* The stream only grows.                                                  *)
LEMMA StreamGrows ==
  ASSUME TypeOK, StreamInv, [Next]_vars
  PROVE  /\ Len(stream) \in Nat /\ Len(stream') \in Nat /\ Len(stream) <= Len(stream')
         /\ \A k \in 1..Len(stream) : stream'[k] = stream[k]
<1>1. Len(stream) \in Nat
  BY DEF TypeOK
<1>2. CASE stream' # stream
  <2>1. PICK m : Appended(m)
    BY <1>2, AppendedIsTruthful
  <2> QED
    BY <1>1, <2>1, AppendGrows DEF Appended, TypeOK
<1> QED
  BY <1>1, <1>2

(* Only the readers and a restart touch the rings.                         *)
LEMMA TailSteps ==
  ASSUME [Next]_vars
  PROVE  SessionsRead \/ EventsRead \/ Restart \/ UNCHANGED tailVars
<1>1. CASE Recording
  BY <1>1 DEF Recording, OpenCast, CloseCast, emitCompleted, Prune
<1>2. CASE Viewing
  BY <1>2 DEF Viewing, Detail, CastLookup, Resolve, Stat, Open, Leave
<1> QED
  BY <1>1, <1>2 DEF Next, Noise, NextDay, vars

(* What one reader's step does to its position.                            *)
LEMMA ReaderMoves ==
  ASSUME TypeOK
  PROVE  /\ SessionsRead => /\ read'.sessions = read.sessions + 1
                            /\ read.sessions + 1 \in 1..Len(stream)
                            /\ read'.events = read.events
                            /\ UNCHANGED <<stream, from, events>>
         /\ EventsRead => /\ read'.events = read.events + 1
                          /\ read.events + 1 \in 1..Len(stream)
                          /\ read'.sessions = read.sessions
                          /\ UNCHANGED <<stream, from, sessions>>
<1>1. /\ read = [sessions |-> read.sessions, events |-> read.events]
      /\ read.sessions \in Nat /\ read.events \in Nat /\ Len(stream) \in Nat
  BY ReadTypes
<1>2. ASSUME SessionsRead
      PROVE  /\ read'.sessions = read.sessions + 1 /\ read.sessions + 1 \in 1..Len(stream)
             /\ read'.events = read.events /\ UNCHANGED <<stream, from, events>>
  BY <1>1, <1>2 DEF SessionsRead, recVars
<1>3. ASSUME EventsRead
      PROVE  /\ read'.events = read.events + 1 /\ read.events + 1 \in 1..Len(stream)
             /\ read'.sessions = read.sessions /\ UNCHANGED <<stream, from, sessions>>
  BY <1>1, <1>3 DEF EventsRead, recVars
<1> QED
  BY <1>2, <1>3

(* What a ring holds after a reader's step it held before, or it is what   *)
(* was read.                                                               *)
LEMMA PrependSources ==
  ASSUME NEW ring \in Seq(Message), NEW m \in Message, NEW n \in Nat,
         NEW i \in DOMAIN FirstN(n, Prepend(m, ring))
  PROVE  \/ FirstN(n, Prepend(m, ring))[i] = m
         \/ \E j \in DOMAIN ring : FirstN(n, Prepend(m, ring))[i] = ring[j]
<1> DEFINE new == Prepend(m, ring)
<1>1. /\ new \in Seq(Message) /\ Len(new) = Len(ring) + 1 /\ new[1] = m
      /\ \A k \in 1..Len(ring) : new[k + 1] = ring[k]
  BY PrependShifts
<1> HIDE DEF new
<1>2. /\ FirstN(n, new) \in Seq(Message)
      /\ Len(FirstN(n, new)) = IF Len(new) <= n THEN Len(new) ELSE n
      /\ \A k \in 1..Len(FirstN(n, new)) : FirstN(n, new)[k] = new[k]
  BY <1>1, FirstNIsPrefix
<1>3. Len(ring) \in Nat /\ DOMAIN ring = 1..Len(ring)
  OBVIOUS
<1>4. i \in 1..(Len(ring) + 1) /\ FirstN(n, new)[i] = new[i]
  BY <1>1, <1>2, <1>3 DEF new
<1>5. CASE i = 1
  BY <1>1, <1>4, <1>5 DEF new
<1>6. CASE i # 1
  <2>1. i - 1 \in 1..Len(ring) /\ (i - 1) + 1 = i
    BY <1>3, <1>4, <1>6
  <2>2. new[i] = ring[i - 1]
    BY <1>1, <2>1
  <2> QED
    BY <1>3, <1>4, <2>1, <2>2 DEF new
<1> QED
  BY <1>5, <1>6

LEMMA AuditInsertSources ==
  ASSUME NEW ring \in Seq(Message), NEW m \in Message, NEW n \in Nat,
         NEW i \in DOMAIN FirstN(n, AuditInsert(m, ring))
  PROVE  \/ FirstN(n, AuditInsert(m, ring))[i] = m
         \/ \E j \in DOMAIN ring : FirstN(n, AuditInsert(m, ring))[i] = ring[j]
<1> DEFINE new == AuditInsert(m, ring)
<1>1. new \in Seq(Message) /\ Len(new) = Len(ring) + 1
  BY AuditInsertPlaces
<1>2. PICK p \in 1..(Len(ring) + 1) :
        /\ \A k \in 1..(p - 1) : new[k] = ring[k]
        /\ new[p] = m
        /\ \A k \in p..Len(ring) : new[k + 1] = ring[k]
  BY AuditInsertPlaces, Zenon
<1> HIDE DEF new
<1>3. /\ FirstN(n, new) \in Seq(Message)
      /\ Len(FirstN(n, new)) = IF Len(new) <= n THEN Len(new) ELSE n
      /\ \A k \in 1..Len(FirstN(n, new)) : FirstN(n, new)[k] = new[k]
  BY <1>1, FirstNIsPrefix
<1>4. Len(ring) \in Nat /\ DOMAIN ring = 1..Len(ring)
  OBVIOUS
<1>5. i \in 1..(Len(ring) + 1) /\ FirstN(n, new)[i] = new[i]
  BY <1>1, <1>3, <1>4 DEF new
<1>6. CASE i < p
  BY <1>2, <1>4, <1>5, <1>6 DEF new
<1>7. CASE i = p
  BY <1>2, <1>5, <1>7 DEF new
<1>8. CASE i > p
  <2>1. i - 1 \in p..Len(ring) /\ (i - 1) + 1 = i
    BY <1>4, <1>5, <1>8
  <2>2. new[i] = ring[i - 1] /\ i - 1 \in DOMAIN ring
    BY <1>2, <1>4, <2>1
  <2> QED
    BY <1>5, <2>2 DEF new
<1> QED
  BY <1>5, <1>6, <1>7, <1>8

LEMMA RingStep ==
  ASSUME TypeOK, StreamInv, RingInv, [Next]_vars
  PROVE  RingInv'
<1>1. /\ stream \in Seq(Message) /\ sessions \in Seq(Message) /\ events \in Seq(Message)
      /\ MaxSessions \in Nat /\ MaxEvents \in Nat
  BY PortalAssumption DEF TypeOK
<1>2. /\ Len(stream) \in Nat /\ from \in Nat
      /\ read.sessions \in Nat /\ from <= read.sessions /\ read.sessions <= Len(stream)
      /\ read.events \in Nat /\ from <= read.events /\ read.events <= Len(stream)
  BY ReadTypes
<1>3. \A k \in 1..Len(stream) : stream'[k] = stream[k]
  BY StreamGrows
<1>4. \A k \in 1..Len(stream) : stream[k] \in Message
  BY <1>1
<1>5. ASSUME UNCHANGED <<from, sessions>>, read'.sessions = read.sessions,
             NEW i \in DOMAIN sessions'
      PROVE  \E k \in (from' + 1)..read'.sessions : sessions'[i] = stream'[k]
  <2>1. PICK k \in (from + 1)..read.sessions : sessions[i] = stream[k]
    BY <1>5 DEF RingInv
  <2>2. k \in 1..Len(stream)
    BY <1>2, <2>1
  <2> QED
    BY <1>3, <1>5, <2>1, <2>2
<1>6. ASSUME UNCHANGED <<from, events>>, read'.events = read.events,
             NEW i \in DOMAIN events'
      PROVE  \E k \in (from' + 1)..read'.events : events'[i] = stream'[k]
  <2>1. PICK k \in (from + 1)..read.events : events[i] = stream[k]
    BY <1>6 DEF RingInv
  <2>2. k \in 1..Len(stream)
    BY <1>2, <2>1
  <2> QED
    BY <1>3, <1>6, <2>1, <2>2
<1>7. CASE SessionsRead
  <2> DEFINE m == stream[read.sessions + 1]
  <2>1. /\ read'.sessions = read.sessions + 1 /\ read.sessions + 1 \in 1..Len(stream)
        /\ read'.events = read.events /\ UNCHANGED <<stream, from, events>>
    BY <1>7, ReaderMoves
  <2>2. m \in Message
    BY <1>4, <2>1
  <2>3. sessions' = FirstN(MaxSessions, Prepend(m, sessions)) \/ sessions' = sessions
    BY <1>7 DEF SessionsRead
  <2> HIDE DEF m
  <2>4. ASSUME NEW i \in DOMAIN sessions'
        PROVE  \E k \in (from' + 1)..read'.sessions : sessions'[i] = stream'[k]
    <3>1. sessions'[i] = m \/ \E j \in DOMAIN sessions : sessions'[i] = sessions[j]
      BY <1>1, <2>2, <2>3, PrependSources
    <3>2. CASE sessions'[i] = m
      <4>1. read.sessions + 1 \in (from' + 1)..read'.sessions
        BY <1>2, <2>1
      <4> QED
        BY <2>1, <3>2, <4>1 DEF m
    <3>3. ASSUME NEW j \in DOMAIN sessions, sessions'[i] = sessions[j]
          PROVE  \E k \in (from' + 1)..read'.sessions : sessions'[i] = stream'[k]
      <4>1. PICK k \in (from + 1)..read.sessions : sessions[j] = stream[k]
        BY DEF RingInv
      <4>2. k \in (from' + 1)..read'.sessions
        BY <1>2, <2>1, <4>1
      <4> QED
        BY <2>1, <3>3, <4>1, <4>2
    <3> QED
      BY <3>1, <3>2, <3>3
  <2> QED
    BY <1>6, <2>1, <2>4 DEF RingInv
<1>8. CASE EventsRead
  <2> DEFINE m == stream[read.events + 1]
  <2>1. /\ read'.events = read.events + 1 /\ read.events + 1 \in 1..Len(stream)
        /\ read'.sessions = read.sessions /\ UNCHANGED <<stream, from, sessions>>
    BY <1>8, ReaderMoves
  <2>2. m \in Message
    BY <1>4, <2>1
  <2>3. events' = FirstN(MaxEvents, AuditInsert(m, events)) \/ events' = events
    BY <1>8 DEF EventsRead
  <2> HIDE DEF m
  <2>4. ASSUME NEW i \in DOMAIN events'
        PROVE  \E k \in (from' + 1)..read'.events : events'[i] = stream'[k]
    <3>1. events'[i] = m \/ \E j \in DOMAIN events : events'[i] = events[j]
      BY <1>1, <2>2, <2>3, AuditInsertSources
    <3>2. CASE events'[i] = m
      <4>1. read.events + 1 \in (from' + 1)..read'.events
        BY <1>2, <2>1
      <4> QED
        BY <2>1, <3>2, <4>1 DEF m
    <3>3. ASSUME NEW j \in DOMAIN events, events'[i] = events[j]
          PROVE  \E k \in (from' + 1)..read'.events : events'[i] = stream'[k]
      <4>1. PICK k \in (from + 1)..read.events : events[j] = stream[k]
        BY DEF RingInv
      <4>2. k \in (from' + 1)..read'.events
        BY <1>2, <2>1, <4>1
      <4> QED
        BY <2>1, <3>3, <4>1, <4>2
    <3> QED
      BY <3>1, <3>2, <3>3
  <2> QED
    BY <1>5, <2>1, <2>4 DEF RingInv
<1>9. CASE Restart
  BY <1>9 DEF Restart, RingInv
<1>10. CASE UNCHANGED tailVars
  BY <1>5, <1>6, <1>10 DEF tailVars, RingInv
<1> QED
  BY <1>7, <1>8, <1>9, <1>10, TailSteps

(* The recordings of a stretch of the stream: they can be counted; they    *)
(* stay when messages are appended; and one more message read adds one, or *)
(* none.                                                                   *)
LEMMA CompletedFinite ==
  ASSUME NEW a \in Nat, NEW b \in Nat
  PROVE  IsFiniteSet(Completed(a, b)) /\ Cardinality(Completed(a, b)) \in Nat
<1>1. IsFiniteSet(a..b) /\ Completed(a, b) \subseteq a..b
  BY FS_Interval DEF Completed
<1> QED
  BY <1>1, FS_Subset, FS_CardinalityType

LEMMA CompletedStays ==
  ASSUME TypeOK, StreamInv, [Next]_vars, read'.sessions = read.sessions, NEW a \in Nat \ {0}
  PROVE  Completed(a, read.sessions)' = Completed(a, read.sessions)
<1>1. \A k \in a..read.sessions : k \in 1..Len(stream)
  BY ReadTypes
<1>2. \A k \in 1..Len(stream) : stream'[k] = stream[k]
  BY StreamGrows
<1> QED
  BY <1>1, <1>2 DEF Completed

LEMMA CompletedRead ==
  ASSUME TypeOK, SessionsRead, NEW a \in Nat, a <= read.sessions + 1
  PROVE  Cardinality(Completed(a, read.sessions)') =
           IF decodeSession(stream[read.sessions + 1])
           THEN Cardinality(Completed(a, read.sessions)) + 1
           ELSE Cardinality(Completed(a, read.sessions))
<1>1. read.sessions \in Nat /\ read'.sessions = read.sessions + 1 /\ stream' = stream
  BY ReadTypes, ReaderMoves
<1>2. PICK r \in Nat : r = read.sessions
  BY <1>1
<1>3. Completed(a, read.sessions)' = Completed(a, r + 1)
  BY <1>1, <1>2 DEF Completed
<1>4. IsFiniteSet(Completed(a, r))
  BY CompletedFinite
<1>5. CASE decodeSession(stream[r + 1])
  <2>1. Completed(a, r + 1) = Completed(a, r) \cup {r + 1} /\ r + 1 \notin Completed(a, r)
    BY <1>2, <1>5 DEF Completed, decodeSession
  <2> QED
    BY <1>2, <1>3, <1>4, <1>5, <2>1, FS_AddElement
<1>6. CASE ~decodeSession(stream[r + 1])
  <2>1. Completed(a, r + 1) = Completed(a, r)
    BY <1>2, <1>6 DEF Completed, decodeSession
  <2> QED
    BY <1>2, <1>3, <1>6, <2>1
<1> QED
  BY <1>5, <1>6

(* A recording that is read pushes every other one place down the list.    *)
LEMMA ListRead ==
  ASSUME TypeOK, ListInOrder, SessionsRead
  PROVE  ListInOrder'
<1> DEFINE r == read.sessions
           m == stream[r + 1]
<1>1. /\ stream \in Seq(Message) /\ sessions \in Seq(Message) /\ MaxSessions \in Nat \ {0}
  BY PortalAssumption DEF TypeOK
<1>2. r \in Nat /\ from \in Nat /\ from <= r
  BY ReadTypes
<1>3. read'.sessions = r + 1 /\ r + 1 \in 1..Len(stream) /\ stream' = stream /\ from' = from
  BY ReaderMoves
<1>4. m \in Message
  BY <1>1, <1>3
<1>5. sessions' = IF m.action = "recording.completed"
                  THEN FirstN(MaxSessions, Prepend(m, sessions)) ELSE sessions
  BY DEF SessionsRead, decodeSession
<1> HIDE DEF m, r
<1> SUFFICES ASSUME NEW i \in Completed(from + 1, r + 1),
                    Cardinality(Completed(i + 1, r + 1)) < MaxSessions
             PROVE  /\ Cardinality(Completed(i + 1, r + 1)) < Len(sessions')
                    /\ sessions'[Cardinality(Completed(i + 1, r + 1)) + 1] = stream[i]
  BY <1>3 DEF ListInOrder, Completed
<1>6. i \in Nat /\ from + 1 <= i /\ i <= r + 1 /\ stream[i].action = "recording.completed"
  BY <1>2 DEF Completed
<1> DEFINE old == Completed(i + 1, r)
<1>7. ASSUME i <= r
      PROVE  /\ Cardinality(old) \in Nat
             /\ Cardinality(old) < MaxSessions =>
                  Cardinality(old) < Len(sessions) /\ sessions[Cardinality(old) + 1] = stream[i]
  <2>1. IsFiniteSet(old)
    <3>1. IsFiniteSet((i + 1)..r)
      BY <1>2, <1>6, FS_Interval
    <3> QED
      BY <3>1, FS_Subset, Zenon DEF Completed
  <2>2. i \in Completed(from + 1, r)
    BY <1>2, <1>6, <1>7 DEF Completed
  <2> QED
    BY <2>1, <2>2, FS_CardinalityType DEF ListInOrder, r
<1>8. CASE m.action # "recording.completed"
  <2>1. i <= r
    BY <1>2, <1>6, <1>8 DEF m
  <2>2. Completed(i + 1, r + 1) = old
    BY <1>2, <1>6, <1>8, <2>1 DEF Completed, m
  <2> QED
    BY <1>5, <1>7, <1>8, <2>1, <2>2
<1>9. CASE m.action = "recording.completed"
  <2> DEFINE new == Prepend(m, sessions)
  <2>1. /\ new \in Seq(Message) /\ Len(new) = Len(sessions) + 1 /\ new[1] = m
        /\ \A k \in 1..Len(sessions) : new[k + 1] = sessions[k]
    BY <1>1, <1>4, PrependShifts
  <2>2. sessions' = FirstN(MaxSessions, new)
    BY <1>5, <1>9
  <2> HIDE DEF new
  <2>3. /\ Len(sessions') = IF Len(new) <= MaxSessions THEN Len(new) ELSE MaxSessions
        /\ \A k \in 1..Len(sessions') : sessions'[k] = new[k]
    BY <1>1, <2>1, <2>2, FirstNIsPrefix
  <2>4. Len(sessions) \in Nat
    BY <1>1
  <2>5. CASE i = r + 1
    <3>1. Completed(i + 1, r + 1) = {}
      BY <1>2, <2>5 DEF Completed
    <3>2. Cardinality(Completed(i + 1, r + 1)) = 0
      BY <3>1, FS_EmptySet
    <3>3. Len(sessions') > 0 /\ sessions'[1] = m
      BY <1>1, <2>1, <2>3, <2>4
    <3> QED
      BY <2>5, <3>2, <3>3 DEF m
  <2>6. CASE i <= r
    <3>1. Completed(i + 1, r + 1) = old \cup {r + 1} /\ r + 1 \notin old
      BY <1>2, <1>6, <1>9, <2>6 DEF Completed, m
    <3>2. IsFiniteSet(old)
      <4>1. IsFiniteSet((i + 1)..r)
        BY <1>2, <1>6, FS_Interval
      <4> QED
        BY <4>1, FS_Subset, Zenon DEF Completed
    <3> DEFINE n == Cardinality(old)
    <3>3. Cardinality(Completed(i + 1, r + 1)) = n + 1
      BY <3>1, <3>2, FS_AddElement
    <3>4. /\ n \in Nat
          /\ n < MaxSessions => n < Len(sessions) /\ sessions[n + 1] = stream[i]
      BY <1>7, <2>6
    <3> HIDE DEF n
    <3>5. n + 1 < MaxSessions /\ n < Len(sessions) /\ sessions[n + 1] = stream[i]
      BY <1>1, <3>3, <3>4
    <3>6. n + 1 \in 1..Len(sessions) /\ n + 1 < Len(sessions') /\ n + 2 \in 1..Len(sessions')
      BY <1>1, <2>1, <2>3, <2>4, <3>4, <3>5
    <3>7. sessions'[n + 2] = stream[i]
      <4>1. new[(n + 1) + 1] = sessions[n + 1]
        BY <2>1, <3>6
      <4>2. (n + 1) + 1 = n + 2
        BY <3>4
      <4> QED
        BY <2>3, <3>5, <3>6, <4>1, <4>2
    <3>8. (n + 1) + 1 = n + 2
      BY <3>4
    <3> QED
      BY <3>3, <3>6, <3>7, <3>8
  <2> QED
    BY <1>2, <1>6, <2>5, <2>6
<1> QED
  BY <1>8, <1>9

LEMMA ListStep ==
  ASSUME TypeOK, StreamInv, ListInOrder, [Next]_vars
  PROVE  ListInOrder'
<1>1. /\ Len(stream) \in Nat /\ from \in Nat
      /\ read.sessions \in Nat /\ from <= read.sessions /\ read.sessions <= Len(stream)
  BY ReadTypes
<1>2. \A k \in 1..Len(stream) : stream'[k] = stream[k]
  BY StreamGrows
<1>3. ASSUME UNCHANGED <<from, sessions>>, read'.sessions = read.sessions
      PROVE  ListInOrder'
  <2>1. ASSUME NEW a \in Nat \ {0}
        PROVE  Completed(a, read.sessions)' = Completed(a, read.sessions)
    BY <1>3, CompletedStays
  <2>2. (\A i \in Completed(from + 1, read.sessions) :
           LET n == Cardinality(Completed(i + 1, read.sessions))
           IN  n < MaxSessions => n < Len(sessions) /\ sessions[n + 1] = stream[i])'
    <3> SUFFICES ASSUME NEW i \in Completed(from + 1, read.sessions)',
                        Cardinality(Completed(i + 1, read.sessions)') < MaxSessions
                 PROVE  /\ Cardinality(Completed(i + 1, read.sessions)') < Len(sessions')
                        /\ sessions'[Cardinality(Completed(i + 1, read.sessions)') + 1]
                             = stream'[i]
      OBVIOUS
    <3>1. i \in Completed(from + 1, read.sessions)
      BY <1>1, <1>3, <2>1
    <3>2. i \in 1..Len(stream)
      BY <1>1, <3>1 DEF Completed
    <3>3. Completed(i + 1, read.sessions)' = Completed(i + 1, read.sessions)
      BY <2>1, <3>2
    <3>4. stream'[i] = stream[i]
      BY <1>2, <3>2
    <3> QED
      BY <1>3, <3>1, <3>3, <3>4 DEF ListInOrder
  <2> QED
    BY <2>2 DEF ListInOrder
<1>4. CASE SessionsRead
  BY <1>4, ListRead
<1>5. CASE EventsRead
  BY <1>3, <1>5, ReaderMoves
<1>6. CASE Restart
  <2>1. from' \in Nat /\ read'.sessions = from'
    BY <1>1, <1>6 DEF Restart
  <2>2. Completed(from + 1, read.sessions)' = {}
    BY <2>1 DEF Completed
  <2> QED
    BY <2>2 DEF ListInOrder
<1>7. CASE UNCHANGED tailVars
  BY <1>3, <1>7 DEF tailVars
<1> QED
  BY <1>4, <1>5, <1>6, <1>7, TailSteps

LEMMA CastsStep ==
  ASSUME TypeOK, StreamInv, CastsNamed, [Next]_vars
  PROVE  CastsNamed'
<1>1. stream \in Seq(Message) /\ sessions \in Seq(Message) /\ MaxSessions \in Nat
  BY PortalAssumption DEF TypeOK
<1>2. ASSUME NEW m, Appended(m), m.action = "recording.completed" => m.cast # None
      PROVE  \A i \in DOMAIN stream' : stream'[i].action = "recording.completed" =>
                                         stream'[i].cast # None
  <2>1. /\ DOMAIN stream = 1..Len(stream) /\ DOMAIN stream' = 1..(Len(stream) + 1)
        /\ \A i \in 1..Len(stream) : stream'[i] = stream[i]
        /\ stream'[Len(stream) + 1] = m /\ Len(stream) \in Nat
    BY <1>1, <1>2, AppendGrows DEF Appended
  <2>2. \A i \in DOMAIN stream' : i \in DOMAIN stream \/ i = Len(stream) + 1
    BY <2>1
  <2> QED
    BY <1>2, <2>1, <2>2 DEF CastsNamed
<1>3. \A i \in DOMAIN stream' : stream'[i].action = "recording.completed" =>
                                   stream'[i].cast # None
  <2>1. CASE stream' = stream
    BY <2>1 DEF CastsNamed
  <2>2. CASE Noise
    BY <1>2, <2>2, NoiseAppends
  <2>3. ASSUME NEW c \in Cast, emitCompleted(c), stream' # stream
        PROVE  \E m : Appended(m) /\ m.cast # None
    <3>1. rec[c] = "closed" => stamp[c] \in 1..clock
      BY DEF StreamInv, DistinctTimes
    <3>2. None \notin Cast
      BY PortalAssumption
    <3> QED
      BY <2>3, <3>1, <3>2, EmitAppends
  <2> QED
    BY <1>2, <2>1, <2>2, <2>3, StreamSteps
<1>4. \A i \in DOMAIN sessions' : sessions'[i].cast # None
  <2>1. CASE SessionsRead /\ decodeSession(stream[read.sessions + 1])
    <3>1. PICK m : m = stream[read.sessions + 1]
      OBVIOUS
    <3>2. read.sessions + 1 \in DOMAIN stream
      BY <2>1, ReaderMoves, ReadTypes
    <3>3. m \in Message /\ m.cast # None
      BY <1>1, <2>1, <3>1, <3>2 DEF CastsNamed, decodeSession
    <3>4. sessions' = FirstN(MaxSessions, Prepend(m, sessions))
      BY <2>1, <3>1 DEF SessionsRead
    <3>5. \A i \in DOMAIN sessions' :
            sessions'[i] = m \/ \E j \in DOMAIN sessions : sessions'[i] = sessions[j]
      BY <1>1, <3>3, <3>4, PrependSources
    <3> QED
      BY <3>3, <3>5 DEF CastsNamed
  <2>2. CASE Restart
    BY <2>2 DEF Restart
  <2>3. CASE sessions' = sessions
    BY <2>3 DEF CastsNamed
  <2> QED
    BY <2>1, <2>2, <2>3, TailSteps DEF SessionsRead, EventsRead, tailVars
<1> QED
  BY <1>3, <1>4 DEF CastsNamed

LEMMA AuditRead ==
  ASSUME TypeOK, StreamInv, RingInv, AuditShowsNewest, EventsRead
  PROVE  AuditShowsNewest'
<1> DEFINE r == read.events
           m == stream[r + 1]
<1>1. /\ stream \in Seq(Message) /\ events \in Seq(Message) /\ Len(events) <= MaxEvents
      /\ clock \in Nat /\ \A i \in DOMAIN stream : stream[i].at \in 1..clock
      /\ MaxEvents \in Nat
  BY PortalAssumption DEF TypeOK
<1>2. r \in Nat /\ from \in Nat /\ from <= r /\ DOMAIN stream = 1..Len(stream)
  BY ReadTypes
<1>3. read'.events = r + 1 /\ r + 1 \in 1..Len(stream) /\ stream' = stream /\ from' = from
  BY ReaderMoves
<1>4. m \in Message /\ m.at # 0
  BY <1>1, <1>2, <1>3
<1>5. events' = IF m.action # "" THEN FirstN(MaxEvents, AuditInsert(m, events)) ELSE events
  BY <1>4 DEF EventsRead, decodeAuditEvent
<1>6. Descending(events)
  <2>1. DOMAIN events = 1..Len(events)
    BY <1>1
  <2> QED
    BY <2>1 DEF AuditShowsNewest, Descending
<1>7. \A k \in (from + 1)..r : \/ stream[k].action = ""
                               \/ Shown(events, stream[k]) \/ Outdated(events, stream[k])
  <2>1. DOMAIN events = 1..Len(events)
    BY <1>1
  <2> QED
    BY <2>1, Zenon DEF AuditShowsNewest, Shown, Outdated
<1>8. ASSUME NEW i \in 1..Len(events) PROVE events[i].at # m.at
  <2>1. PICK k \in (from + 1)..r : events[i] = stream[k]
    BY <1>1 DEF RingInv
  <2>2. k \in DOMAIN stream /\ r + 1 \in DOMAIN stream /\ k # r + 1
    BY <1>1, <1>2, <1>3, <2>1
  <2> QED
    BY <2>1, <2>2 DEF StreamInv, DistinctTimes
<1> HIDE DEF m, r
<1>9. /\ Descending(events')
      /\ \A k \in (from + 1)..(r + 1) :
           \/ stream[k].action = ""
           \/ Shown(events', stream[k]) \/ Outdated(events', stream[k])
  <2>1. \A k \in (from + 1)..(r + 1) : k \in (from + 1)..r \/ stream[k] = m
    BY <1>2 DEF m
  <2>2. \A k \in (from + 1)..(r + 1) : stream[k] \in Message
    BY <1>1, <1>2, <1>3
  <2>3. CASE m.action = ""
    BY <1>5, <1>6, <1>7, <2>1, <2>3
  <2>4. CASE m.action # ""
    <3>1. events' = FirstN(MaxEvents, AuditInsert(m, events))
      BY <1>5, <2>4
    <3>2. /\ Descending(events')
          /\ Shown(events', m) \/ Outdated(events', m)
          /\ \A x \in Message : Shown(events, x) \/ Outdated(events, x) =>
                                Shown(events', x) \/ Outdated(events', x)
      BY <1>1, <1>4, <1>6, <1>8, <3>1, InsertKeepsNewest
    <3> QED
      BY <1>7, <2>1, <2>2, <3>2
  <2> QED
    BY <2>3, <2>4
<1>10. DOMAIN events' = 1..Len(events')
  <2>1. AuditInsert(m, events) \in Seq(Message)
    BY <1>1, <1>4, AuditInsertPlaces
  <2>2. events' \in Seq(Message)
    BY <1>1, <1>5, <2>1, FirstNIsPrefix
  <2> QED
    BY <2>2
<1> QED
  BY <1>3, <1>9, <1>10 DEF AuditShowsNewest, Descending, Shown, Outdated

LEMMA AuditStep ==
  ASSUME TypeOK, StreamInv, RingInv, AuditShowsNewest, [Next]_vars
  PROVE  AuditShowsNewest'
<1>1. /\ Len(stream) \in Nat /\ from \in Nat
      /\ read.events \in Nat /\ from <= read.events /\ read.events <= Len(stream)
  BY ReadTypes
<1>2. \A k \in 1..Len(stream) : stream'[k] = stream[k]
  BY StreamGrows
<1>3. ASSUME UNCHANGED <<from, events>>, read'.events = read.events
      PROVE  AuditShowsNewest'
  <2>1. \A k \in (from + 1)..read.events : stream'[k] = stream[k]
    BY <1>1, <1>2
  <2>2. (\A i, j \in DOMAIN events : i < j => events[i].at > events[j].at)'
    BY <1>3, Zenon DEF AuditShowsNewest
  <2>3. ASSUME NEW k \in (from' + 1)..read'.events
        PROVE  \/ stream'[k].action = ""
               \/ \E i \in DOMAIN events' : events'[i] = stream'[k]
               \/ /\ Len(events') = MaxEvents
                  /\ \A i \in DOMAIN events' : events'[i].at > stream'[k].at
    <3>1. k \in (from + 1)..read.events /\ stream'[k] = stream[k] /\ events' = events
      BY <1>3, <2>1
    <3> QED
      BY <3>1, Zenon DEF AuditShowsNewest
  <2> QED
    BY <2>2, <2>3, Zenon DEF AuditShowsNewest
<1>4. CASE EventsRead
  BY <1>4, AuditRead
<1>5. CASE SessionsRead
  BY <1>3, <1>5, ReaderMoves
<1>6. CASE Restart
  <2>1. from' \in Nat /\ read'.events = from'
    BY <1>1, <1>6 DEF Restart
  <2>2. (from' + 1)..read'.events = {}
    <3>1. \A n \in Nat : (n + 1)..n = {}
      OBVIOUS
    <3> QED
      BY <2>1, <3>1, Zenon
  <2>3. events' = <<>>
    BY <1>6 DEF Restart
  <2>4. DOMAIN events' = {}
    BY <2>3
  <2> QED
    BY <2>2, <2>4, Zenon DEF AuditShowsNewest
<1>7. CASE UNCHANGED tailVars
  BY <1>3, <1>7 DEF tailVars
<1> QED
  BY <1>4, <1>5, <1>6, <1>7, TailSteps

-----------------------------------------------------------------------------
(* The viewer.                                                             *)

(* The fields of a request after each kind of step.                        *)
LEMMA RequestFields ==
  ASSUME NEW r \in Request, NEW p, NEW v
  PROVE  /\ LET a == [r EXCEPT !.pc = p, !.status = v]
            IN  /\ a.pc = p /\ a.status = v /\ a.id = r.id /\ a.player = r.player
                /\ a.cast = r.cast /\ a.final = r.final /\ a.kept = r.kept
                /\ a.since = r.since /\ a.seen = r.seen /\ a.row = r.row
                /\ a.failed = r.failed
         /\ LET a == [r EXCEPT !.pc = p]
            IN  /\ a.pc = p /\ a.status = r.status /\ a.id = r.id /\ a.player = r.player
                /\ a.cast = r.cast /\ a.final = r.final /\ a.kept = r.kept
                /\ a.since = r.since /\ a.seen = r.seen /\ a.row = r.row
                /\ a.failed = r.failed
         /\ LET a == [r EXCEPT !.pc = p, !.cast = v]
            IN  /\ a.pc = p /\ a.status = r.status /\ a.id = r.id /\ a.player = r.player
                /\ a.cast = v /\ a.final = r.final /\ a.kept = r.kept
                /\ a.since = r.since /\ a.seen = r.seen /\ a.row = r.row
                /\ a.failed = r.failed
         /\ LET a == [r EXCEPT !.pc = p, !.final = v]
            IN  /\ a.pc = p /\ a.status = r.status /\ a.id = r.id /\ a.player = r.player
                /\ a.cast = r.cast /\ a.final = v /\ a.kept = r.kept
                /\ a.since = r.since /\ a.seen = r.seen /\ a.row = r.row
                /\ a.failed = r.failed
         /\ LET a == [r EXCEPT !.kept = v]
            IN  /\ a.pc = r.pc /\ a.status = r.status /\ a.id = r.id /\ a.player = r.player
                /\ a.cast = r.cast /\ a.final = r.final /\ a.kept = v
                /\ a.since = r.since /\ a.seen = r.seen /\ a.row = r.row
                /\ a.failed = r.failed
         /\ LET a == [r EXCEPT !.pc = p, !.status = 500, !.failed = TRUE]
            IN  /\ a.pc = p /\ a.status = 500 /\ a.id = r.id /\ a.player = r.player
                /\ a.cast = r.cast /\ a.final = r.final /\ a.kept = r.kept
                /\ a.since = r.since /\ a.seen = r.seen /\ a.row = r.row
                /\ a.failed = TRUE
BY DEF Request

(* A request nobody has made is fine.                                      *)
LEMMA IdleInv ==
  ASSUME req' = Idle, restarts' \in Nat
  PROVE  RequestInv' /\ PageInv'
<1>1. /\ req'.pc = "idle" /\ req'.cast = None /\ req'.player = FALSE
      /\ req'.kept = FALSE /\ req'.since = 0
  BY DEF Idle
<1>2. req'.since <= restarts'
  BY <1>1
<1> QED
  BY <1>1, <1>2, Zenon DEF RequestInv, ReplayIsFinal, PlayerPlays, PageInv

(* No recording of a session disappears but by Prune.                      *)
LEMMA KeptStays ==
  ASSUME TypeOK, NEW id, Kept(id), [Next]_vars, \A c \in Cast : ~Prune(c), ~Restart
  PROVE  Kept(id)'
<1>1. /\ rec \in [Cast -> {"none", "open", "closed", "done"}]
      /\ disk \in [Cast -> {"none", "growing", "final"}]
  BY DEF TypeOK
<1>2. CASE Recording
  <2>1. PICK c \in Cast : OpenCast(c) \/ CloseCast(c) \/ emitCompleted(c)
    BY <1>2 DEF Recording
  <2>2. CASE OpenCast(c)
    BY <1>1, <2>2 DEF OpenCast, Kept
  <2>3. CASE CloseCast(c)
    BY <1>1, <2>3 DEF CloseCast, Kept
  <2>4. CASE emitCompleted(c)
    BY <1>1, <2>4 DEF emitCompleted, Kept
  <2> QED
    BY <2>1, <2>2, <2>3, <2>4
<1>3. CASE Noise \/ SessionsRead \/ EventsRead \/ Viewing \/ NextDay \/ UNCHANGED vars
  BY <1>3, RecorderFrame DEF Kept
<1> QED
  BY <1>2, <1>3 DEF Next

(* What is off the list is not listed again but by a restart.              *)
LEMMA PushedStays ==
  ASSUME TypeOK, StreamInv, [Next]_vars, ~Restart, PushedOff,
         req'.row = req.row, req'.seen = req.seen
  PROVE  PushedOff'
<1>1. req.row \in Nat /\ req.seen \in Nat /\ read.sessions \in Nat /\ MaxSessions \in Nat
  BY ReadTypes, PortalAssumption DEF TypeOK, Request
<1>2. PICK a \in Nat \ {0} : a = req.seen + 1
  BY <1>1
<1>3. Cardinality(Completed(a, read.sessions)) \in Nat
  BY <1>1, CompletedFinite, Zenon
<1>4. /\ Cardinality(Completed(a, read.sessions)') \in Nat
      /\ Cardinality(Completed(a, read.sessions)) <= Cardinality(Completed(a, read.sessions)')
  <2>1. CASE read'.sessions = read.sessions
    BY <1>3, <2>1, CompletedStays
  <2>2. CASE SessionsRead
    <3>1. stream' = stream /\ read'.sessions = read.sessions + 1
      BY <2>2, ReaderMoves
    <3>2. PICK r \in Nat : r = read.sessions
      BY <1>1
    <3>3. Completed(a, read.sessions)' = Completed(a, r + 1)
      BY <3>1, <3>2 DEF Completed
    <3>4. IsFiniteSet(Completed(a, r + 1)) /\ Cardinality(Completed(a, r + 1)) \in Nat
      BY CompletedFinite
    <3>5. Completed(a, r) \subseteq Completed(a, r + 1)
      BY DEF Completed
    <3> QED
      BY <3>2, <3>3, <3>4, <3>5, FS_Subset
  <2> QED
    BY <2>1, <2>2, TailSteps, ReaderMoves DEF tailVars
<1>5. PushedOff' <=> req.row + Cardinality(Completed(a, read.sessions)') > MaxSessions
  BY <1>2 DEF PushedOff, Completed
<1>6. req.row + Cardinality(Completed(a, read.sessions)) > MaxSessions
  BY <1>2 DEF PushedOff
<1> QED
  BY <1>1, <1>3, <1>4, <1>5, <1>6

(* What the recorders, the readers and the days do behind a request.       *)
LEMMA RequestWaits ==
  ASSUME TypeOK, StreamInv, RequestInv, [Next]_vars, ~Viewing, ~Restart
  PROVE  RequestInv'
<1>1. req \in Request
  BY DEF TypeOK
<1>2. ASSUME NEW c, Finished(c) PROVE Finished(c)'
  BY <1>2, FinishedStays DEF StreamInv
<1>3. set' = set /\ restarts' = restarts
  BY DEF Next, Recording, OpenCast, CloseCast, emitCompleted, Prune, Noise, SessionsRead,
         EventsRead, NextDay, vars, confVars
<1>4. ASSUME NEW c \in Cast, Prune(c) PROVE RequestInv'
  <2>1. req' = [req EXCEPT !.kept = FALSE]
    BY <1>4 DEF Prune
  <2>2. /\ req'.pc = req.pc /\ req'.status = req.status /\ req'.id = req.id
        /\ req'.player = req.player /\ req'.cast = req.cast /\ req'.final = req.final
        /\ req'.kept = FALSE /\ req'.failed = req.failed
        /\ req'.since = req.since /\ req'.seen = req.seen /\ req'.row = req.row
    BY <1>1, <2>1, RequestFields
  <2>3. PICK d : d = req.cast
    OBVIOUS
  <2>4. d # None => d.session = req.id /\ Finished(d)
    BY <2>3 DEF RequestInv, Finished
  <2>5. d # None => Finished(d)'
    BY <1>2, <2>4
  <2>6. (req.cast # None => req.cast.session = req.id /\ Finished(req.cast))'
    BY <2>2, <2>3, <2>4, <2>5 DEF Finished
  <2>7. (PushedOff => PushedOff') /\ (Restarted' <=> Restarted)
    BY <1>3, <2>2, PushedStays DEF Restarted
  <2>8. (ReplayIsFinal /\ PlayerPlays)'
    BY <1>3, <2>2, <2>7 DEF RequestInv, ReplayIsFinal, PlayerPlays, castDir
  <2> QED
    BY <1>3, <2>2, <2>6, <2>7, <2>8 DEF RequestInv, castDir, nats
<1>5. ASSUME \A c \in Cast : ~Prune(c) PROVE RequestInv'
  <2>1. req' = req
    BY <1>5 DEF Next, Recording, OpenCast, CloseCast, emitCompleted, Noise, SessionsRead,
                EventsRead, NextDay, vars
  <2>2. PICK d, e : d = req.cast /\ e = req.id
    OBVIOUS
  <2>3. /\ d # None => d.session = e /\ Finished(d)
        /\ req.kept => Kept(e)
    BY <2>2 DEF RequestInv, Finished, Kept
  <2>4. d # None => Finished(d)'
    BY <1>2, <2>3
  <2>5. req.kept => Kept(e)'
    BY <1>5, <2>3, KeptStays
  <2>6. (req.cast # None => req.cast.session = req.id /\ Finished(req.cast))'
    BY <2>1, <2>2, <2>3, <2>4 DEF Finished
  <2>7. (req.kept => Kept(req.id))'
    BY <2>1, <2>2, <2>5 DEF Kept
  <2>8. (PushedOff => PushedOff') /\ (Restarted' <=> Restarted)
    BY <1>3, <2>1, PushedStays DEF Restarted
  <2>9. (ReplayIsFinal /\ PlayerPlays)'
    BY <1>3, <2>1, <2>8 DEF RequestInv, ReplayIsFinal, PlayerPlays, castDir
  <2> QED
    BY <1>3, <2>1, <2>6, <2>7, <2>8, <2>9 DEF RequestInv, castDir, nats
<1> QED
  BY <1>4, <1>5

(* What the list says of a session it can play.                            *)
LEMMA RowIsTruthful ==
  ASSUME TypeOK, StreamInv, RingInv, NEW id, Playable(id)
  PROVE  /\ sessions[Row(id)].cast # None /\ sessions[Row(id)].cast.session = id
         /\ Finished(sessions[Row(id)].cast)
<1>1. sessions \in Seq(Message)
  BY DEF TypeOK
<1>2. Listed(id) /\ sessions[Row(id)].cast # None
  BY DEF Playable
<1>3. PICK i \in DOMAIN sessions : Row(id) = i /\ sessions[i].session = id
  BY <1>1, <1>2, RowIsListed
<1>4. PICK k \in (from + 1)..read.sessions : sessions[i] = stream[k]
  BY DEF RingInv
<1>5. k \in DOMAIN stream
  BY <1>4, ReadTypes
<1>6. Truthful(stream[k])
  BY <1>5 DEF StreamInv
<1>7. stream[k].cast # None /\ stream[k].session = id /\ sessions[Row(id)].cast = stream[k].cast
  BY <1>2, <1>3, <1>4
<1>8. stream[k].cast.session = id /\ Finished(stream[k].cast)
  BY <1>6, <1>7 DEF Truthful
<1> QED
  BY <1>2, <1>7, <1>8 DEF Finished

(* A cast that was announced and is not there has been pruned.             *)
LEMMA AbsentIsPruned ==
  ASSUME RequestInv, req.cast \in Cast, req.cast # None, disk[req.cast] = "none"
  PROVE  ~req.kept
BY DEF RequestInv, Finished, Kept

LEMMA KeptFrame ==
  ASSUME rec' = rec, disk' = disk, req'.id = req.id, req'.kept = req.kept,
         req.kept => Kept(req.id)
  PROVE  (req.kept => Kept(req.id))'
BY DEF Kept

(* An answer is the end of a request.                                      *)
LEMMA Ended ==
  ASSUME TypeOK, RequestInv, UNCHANGED <<recVars, tailVars, confVars>>, NEW n,
         req'.pc = "done", req'.status = n, req'.id = req.id, req'.player = req.player,
         req'.cast = req.cast, req'.final = req.final, req'.kept = req.kept,
         req'.since = req.since, req'.seen = req.seen, req'.row = req.row,
         n = 200 => req.cast \in Cast /\ req.cast.dir = castDir /\ req.final /\ req.cast # None,
         req.player /\ n # 200 =>
           \/ n = 500 /\ (req'.failed \/ ~req.kept)
           \/ n = 404 /\ req.cast # None /\ (req.cast \in Foreign \/ ~req.kept)
           \/ n = 403 /\ req.cast.dir # castDir
           \/ n = 404 /\ req.cast = None /\ (PushedOff \/ Restarted)
           \/ n = 503 /\ Restarted
  PROVE  RequestInv' /\ PageInv'
<1>1. /\ rec' = rec /\ disk' = disk /\ set' = set /\ restarts' = restarts
      /\ stream' = stream /\ read' = read
  BY DEF recVars, tailVars, confVars
<1>2. (req.kept => Kept(req.id))'
  <2>1. req.kept => Kept(req.id)
    BY DEF RequestInv
  <2> QED
    BY <1>1, <2>1, KeptFrame
<1>3. (req.cast # None => req.cast.session = req.id /\ Finished(req.cast))'
  BY <1>1 DEF RequestInv, Finished
<1>4. ReplayIsFinal'
  <2>1. n = 200 => req.cast.session = req.id
    BY DEF RequestInv
  <2> QED
    BY <1>1, <2>1 DEF ReplayIsFinal, castDir
<1>5. (PushedOff' <=> PushedOff) /\ (Restarted' <=> Restarted)
  BY <1>1 DEF PushedOff, Restarted, Completed
<1>6. PlayerPlays'
  BY <1>1, <1>5 DEF PlayerPlays, castDir
<1>7. (req.player /\ ~Restarted => nats /\ castDir # None)' /\ (req.since <= restarts)'
  BY <1>1, <1>5 DEF RequestInv, castDir, nats
<1> QED
  BY <1>2, <1>3, <1>4, <1>6, <1>7 DEF RequestInv, PageInv

LEMMA Answered ==
  ASSUME TypeOK, RequestInv, UNCHANGED <<recVars, tailVars, confVars>>, NEW n, Answer(n),
         n = 200 => req.cast \in Cast /\ req.cast.dir = castDir /\ req.final /\ req.cast # None,
         req.player /\ n # 200 =>
           \/ n = 500 /\ ~req.kept
           \/ n = 404 /\ req.cast # None /\ (req.cast \in Foreign \/ ~req.kept)
           \/ n = 403 /\ req.cast.dir # castDir
           \/ n = 404 /\ req.cast = None /\ (PushedOff \/ Restarted)
           \/ n = 503 /\ Restarted
  PROVE  RequestInv' /\ PageInv'
<1>1. req \in Request
  BY DEF TypeOK
<1>2. /\ req'.pc = "done" /\ req'.status = n /\ req'.id = req.id
      /\ req'.player = req.player /\ req'.cast = req.cast /\ req'.final = req.final
      /\ req'.kept = req.kept
      /\ req'.since = req.since /\ req'.seen = req.seen /\ req'.row = req.row
  BY <1>1, RequestFields DEF Answer
<1> QED
  BY <1>2, Ended

LEMMA Failed ==
  ASSUME TypeOK, RequestInv, UNCHANGED <<recVars, tailVars, confVars>>, Fails
  PROVE  RequestInv' /\ PageInv'
<1>1. req \in Request
  BY DEF TypeOK
<1>2. /\ req'.pc = "done" /\ req'.status = 500 /\ req'.id = req.id
      /\ req'.player = req.player /\ req'.cast = req.cast /\ req'.final = req.final
      /\ req'.kept = req.kept /\ req'.failed
      /\ req'.since = req.since /\ req'.seen = req.seen /\ req'.row = req.row
  BY <1>1, RequestFields DEF Fails
<1>3. PICK n : n = 500
  OBVIOUS
<1>4. n # 200 /\ req'.status = n
  BY <1>2, <1>3
<1> QED
  BY <1>2, <1>3, <1>4, Ended

(* A step that goes on: nothing has been answered yet.                     *)
LEMMA Proceeds ==
  ASSUME TypeOK, RequestInv, UNCHANGED <<recVars, confVars>>,
         req'.pc \in {"resolve", "stat", "open"}, req'.id = req.id,
         req'.player = req.player, req'.kept = req.kept, req'.since = req.since,
         req'.cast # None, req'.cast.session = req.id, Finished(req'.cast),
         req'.pc \in {"stat", "open"} => req'.cast \in Cast /\ req'.cast.dir = castDir,
         req'.pc = "open" => req'.final
  PROVE  RequestInv' /\ PageInv'
<1>1. rec' = rec /\ disk' = disk /\ set' = set /\ restarts' = restarts
  BY DEF recVars, confVars
<1>2. (req.kept => Kept(req.id))'
  <2>1. req.kept => Kept(req.id)
    BY DEF RequestInv
  <2> QED
    BY <1>1, <2>1, KeptFrame
<1>3. (req.cast # None => req.cast.session = req.id /\ Finished(req.cast))'
  BY <1>1 DEF Finished
<1>4. (ReplayIsFinal /\ PlayerPlays)'
  BY DEF ReplayIsFinal, PlayerPlays
<1>5. (req.player /\ ~Restarted => nats /\ castDir # None)' /\ (req.since <= restarts)'
  BY <1>1 DEF RequestInv, Restarted, castDir, nats
<1>6. (req.pc \in {"stat", "open"} => req.cast \in Cast /\ req.cast.dir = castDir)'
  BY <1>1 DEF castDir
<1> QED
  BY <1>2, <1>3, <1>4, <1>5, <1>6 DEF RequestInv, PageInv

LEMMA RequestViews ==
  ASSUME TypeOK, StreamInv, RingInv, CastsNamed, RequestInv, PageInv, Viewing
  PROVE  RequestInv' /\ PageInv'
<1>1. req \in Request
  BY DEF TypeOK
<1>2. UNCHANGED <<recVars, tailVars, confVars>>
  BY ViewingTypes
<1>3. /\ rec' = rec /\ disk' = disk /\ set' = set /\ restarts' = restarts
      /\ stream' = stream /\ read' = read /\ sessions' = sessions /\ restarts \in Nat
  BY <1>2, PortalAssumption DEF recVars, tailVars, confVars, TypeOK
<1>4. req.cast \in Cast \cup Foreign \cup {None}
  BY <1>1 DEF Request
<1>5. /\ disk \in [Cast -> {"none", "growing", "final"}]
      /\ None \notin Cast \cup Foreign
  BY PortalAssumption DEF TypeOK
<1>6. ASSUME NEW id \in Session, Detail(id) PROVE RequestInv' /\ PageInv'
  <2>1. /\ req'.pc = "detail" /\ req'.id = id /\ req'.cast = None
        /\ req'.player = (nats /\ castDir # None /\ Playable(id)) /\ req'.kept = Kept(id)
        /\ req'.since = restarts /\ req'.seen = read.sessions
        /\ req'.row = IF Listed(id) THEN Row(id) ELSE 0
    BY <1>6 DEF Detail, Page
  <2>2. (req.kept => Kept(req.id))'
    BY <1>3, <2>1, Zenon DEF Kept
  <2>3. (req.player => nats /\ castDir # None)'
    BY <1>3, <2>1, Zenon DEF nats, castDir
  <2>5. (req.since <= restarts)'
    BY <1>3, <2>1
  <2>4. PageInv'
    <3> SUFFICES ASSUME req'.player
                 PROVE  /\ req'.row \in Nat \ {0} /\ req'.seen <= read'.sessions
                        /\ Place' \in DOMAIN sessions' /\ sessions'[Place'].session = req'.id
      BY DEF PageInv
    <3>1. Listed(id) /\ sessions \in Seq(Message) /\ read.sessions \in Nat
      BY <2>1, ReadTypes, Zenon DEF Playable, TypeOK
    <3>2. Row(id) \in DOMAIN sessions /\ sessions[Row(id)].session = id
      BY <3>1, RowIsListed
    <3>3. DOMAIN sessions = 1..Len(sessions) /\ Len(sessions) \in Nat
      BY <3>1
    <3>4. Completed(req.seen + 1, read.sessions)' = {}
      BY <1>3, <2>1, <3>1 DEF Completed
    <3>5. Place' = Row(id) + 0
      BY <2>1, <3>1, <3>4, FS_EmptySet, Zenon DEF Place
    <3> QED
      BY <1>3, <2>1, <3>1, <3>2, <3>3, <3>5
  <2> QED
    BY <2>1, <2>2, <2>3, <2>4, <2>5, Zenon DEF RequestInv, ReplayIsFinal, PlayerPlays
<1>7. CASE CastLookup
  <2>1. req.pc = "detail" /\ req.cast = None
    BY <1>7 DEF CastLookup, RequestInv
  <2>2. CASE (~nats \/ castDir = None) /\ Answer(503)
    <3>1. req.player => Restarted
      BY <2>2 DEF RequestInv
    <3> QED
      BY <1>2, <2>2, <3>1, Answered
  <2>3. CASE ~Playable(req.id) /\ Answer(404)
    <3>1. ~Listed(req.id)
      <4>1. Listed(req.id) => Row(req.id) \in DOMAIN sessions
        BY RowIsListed DEF TypeOK
      <4> QED
        BY <2>3, <4>1 DEF Playable, CastsNamed
    <3>2. req.player => Restarted \/ PushedOff
      BY <2>1, <3>1 DEF PageInv, Place, PushedOff, Listed
    <3> QED
      BY <1>2, <2>1, <2>3, <3>2, Answered
  <2>4. CASE /\ Playable(req.id)
             /\ req' = [req EXCEPT !.pc = "resolve", !.cast = sessions[Row(req.id)].cast]
    <3>1. /\ req'.pc = "resolve" /\ req'.id = req.id /\ req'.player = req.player
          /\ req'.kept = req.kept /\ req'.since = req.since
          /\ req'.cast = sessions[Row(req.id)].cast
      BY <1>1, <2>4, RequestFields
    <3>2. /\ sessions[Row(req.id)].cast # None /\ sessions[Row(req.id)].cast.session = req.id
          /\ Finished(sessions[Row(req.id)].cast)
      BY <2>4, RowIsTruthful
    <3> QED
      BY <1>2, <3>1, <3>2, Proceeds
  <2> QED
    BY <1>7, <2>2, <2>3, <2>4 DEF CastLookup
<1>8. ASSUME req.cast # None, ~Present(req.cast), NEW n \in {404, 500}, Answer(n),
             n = 500 => req.cast \in Cast
      PROVE  RequestInv' /\ PageInv'
  <2>1. CASE req.cast \in Cast
    <3>1. disk[req.cast] = "none"
      BY <1>8, <2>1 DEF Present
    <3>2. ~req.kept
      BY <1>8, <2>1, <3>1, AbsentIsPruned
    <3> QED
      BY <1>2, <1>8, <3>2, Answered
  <2>2. CASE req.cast \in Foreign /\ n = 404
    BY <1>2, <1>8, <2>2, Answered
  <2> QED
    BY <1>4, <1>8, <2>1, <2>2
<1>f. ASSUME Fails PROVE RequestInv' /\ PageInv'
  BY <1>2, <1>f, Failed
<1>9. CASE Resolve
  <2>1. req.pc = "resolve" /\ req.cast # None /\ req.cast.session = req.id
        /\ Finished(req.cast)
    BY <1>9 DEF Resolve, RequestInv
  <2>2. CASE ~Present(req.cast) /\ Answer(404)
    BY <1>8, <2>1, <2>2
  <2>3. CASE req.cast.dir # castDir /\ Answer(403)
    BY <1>2, <2>3, Answered
  <2>4. CASE Present(req.cast) /\ req.cast.dir = castDir /\ req' = [req EXCEPT !.pc = "stat"]
    <3>1. /\ req'.pc = "stat" /\ req'.id = req.id /\ req'.player = req.player
          /\ req'.kept = req.kept /\ req'.since = req.since
          /\ req'.cast = req.cast
      BY <1>1, <2>4, RequestFields
    <3>2. req'.cast \in Cast /\ req'.cast.dir = castDir
      BY <2>4, <3>1 DEF Present
    <3> QED
      BY <1>2, <2>1, <3>1, <3>2, Proceeds
  <2> QED
    BY <1>9, <1>f, <2>2, <2>3, <2>4 DEF Resolve
<1>10. CASE Stat
  <2>1. /\ req.pc = "stat" /\ req.cast # None /\ req.cast.session = req.id
        /\ Finished(req.cast) /\ req.cast \in Cast /\ req.cast.dir = castDir
    BY <1>10 DEF Stat, RequestInv
  <2>2. CASE ~Present(req.cast) /\ Answer(404)
    BY <1>8, <2>1, <2>2
  <2>3. CASE /\ Present(req.cast)
             /\ req' = [req EXCEPT !.pc = "open", !.final = disk[req.cast] = "final"]
    <3>1. /\ req'.pc = "open" /\ req'.id = req.id /\ req'.player = req.player
          /\ req'.kept = req.kept /\ req'.since = req.since
          /\ req'.cast = req.cast
          /\ req'.final = (disk[req.cast] = "final")
      BY <1>1, <2>3, RequestFields
    <3>2. disk[req.cast] = "final"
      BY <1>5, <2>1, <2>3 DEF Present, Finished
    <3> QED
      BY <1>2, <2>1, <3>1, <3>2, Proceeds, Zenon
  <2> QED
    BY <1>10, <1>f, <2>2, <2>3 DEF Stat
<1>11. CASE Open
  <2>1. /\ req.pc = "open" /\ req.cast # None /\ req.cast \in Cast
        /\ req.cast.dir = castDir /\ req.final
    BY <1>11 DEF Open, RequestInv
  <2>2. CASE Present(req.cast) /\ Answer(200)
    BY <1>2, <2>1, <2>2, Answered
  <2>3. CASE ~Present(req.cast) /\ Answer(500)
    BY <1>8, <2>1, <2>3
  <2> QED
    BY <1>11, <1>f, <2>2, <2>3 DEF Open
<1>12. CASE Leave
  BY <1>3, <1>12, IdleInv DEF Leave
<1> QED
  BY <1>6, <1>7, <1>9, <1>10, <1>11, <1>12 DEF Viewing

(* The row of a page moves down the list with every recording read.        *)
LEMMA PageWaits ==
  ASSUME TypeOK, StreamInv, PageInv, [Next]_vars, ~Viewing, ~Restart
  PROVE  PageInv'
<1>1. /\ req'.pc = req.pc /\ req'.player = req.player /\ req'.id = req.id
      /\ req'.since = req.since /\ req'.seen = req.seen /\ req'.row = req.row
      /\ restarts' = restarts
  <2>1. req' = req \/ req' = [req EXCEPT !.kept = FALSE]
    BY DEF Next, Recording, OpenCast, CloseCast, emitCompleted, Prune, Noise, SessionsRead,
           EventsRead, NextDay, vars
  <2>2. restarts' = restarts
    BY DEF Next, Recording, OpenCast, CloseCast, emitCompleted, Prune, Noise, SessionsRead,
           EventsRead, NextDay, vars, confVars
  <2>3. req \in Request
    BY DEF TypeOK
  <2>4. CASE req' = [req EXCEPT !.kept = FALSE]
    BY <2>2, <2>3, <2>4, RequestFields
  <2> QED
    BY <2>1, <2>2, <2>4
<1> SUFFICES ASSUME req.pc = "detail", req.player, ~Restarted
             PROVE  /\ req'.row \in Nat \ {0} /\ req'.seen <= read'.sessions
                    /\ \/ Place' > MaxSessions
                       \/ Place' \in DOMAIN sessions' /\ sessions'[Place'].session = req'.id
  BY <1>1, SMTT(20) DEF PageInv, Restarted
<1>2. /\ req.row \in Nat \ {0} /\ req.seen <= read.sessions
      /\ Place > MaxSessions \/ (Place \in DOMAIN sessions /\ sessions[Place].session = req.id)
  BY DEF PageInv
<1>3. /\ req.seen \in Nat /\ read.sessions \in Nat /\ MaxSessions \in Nat
      /\ sessions \in Seq(Message) /\ Len(sessions) <= MaxSessions
  BY ReadTypes, PortalAssumption DEF TypeOK, Request
<1>4. PICK a \in Nat \ {0} : a = req.seen + 1 /\ a <= read.sessions + 1
  BY <1>2, <1>3
<1>5. /\ Place = req.row + Cardinality(Completed(a, read.sessions))
      /\ Place' = req.row + Cardinality(Completed(a, read.sessions)')
  BY <1>1, <1>4 DEF Place, Completed
<1>n. Cardinality(Completed(a, read.sessions)) \in Nat
  BY <1>3, CompletedFinite, Zenon
<1>6. Place \in Nat \ {0}
  BY <1>2, <1>5, <1>n
<1>7. CASE read'.sessions = read.sessions /\ sessions' = sessions
  <2>1. Place' = Place
    BY <1>5, <1>7, CompletedStays
  <2> QED
    BY <1>1, <1>2, <1>7, <2>1
<1>8. CASE SessionsRead
  <2>1. PICK m : m = stream[read.sessions + 1]
    OBVIOUS
  <2>2. read'.sessions = read.sessions + 1 /\ read.sessions + 1 \in DOMAIN stream
    BY <1>8, ReaderMoves, ReadTypes
  <2>3. m \in Message
    BY <2>1, <2>2 DEF TypeOK
  <2>4. req'.row \in Nat \ {0} /\ req'.seen <= read'.sessions
    BY <1>1, <1>2, <1>3, <2>2
  <2>5. sessions \in Seq(Message) /\ MaxSessions \in Nat
    BY <1>3
  <2>6. CASE decodeSession(m)
    <3>1. Place' = Place + 1
      BY <1>2, <1>4, <1>5, <1>8, <1>n, <2>1, <2>6, CompletedRead
    <3>2. sessions' = FirstN(MaxSessions, Prepend(m, sessions))
      BY <1>8, <2>1, <2>6 DEF SessionsRead
    <3> DEFINE new == Prepend(m, sessions)
    <3>3. /\ new \in Seq(Message) /\ Len(new) = Len(sessions) + 1
          /\ \A k \in 1..Len(sessions) : new[k + 1] = sessions[k]
      BY <2>3, <2>5, PrependShifts
    <3> HIDE DEF new
    <3>4. /\ sessions' \in Seq(Message)
          /\ Len(sessions') = IF Len(new) <= MaxSessions THEN Len(new) ELSE MaxSessions
          /\ \A k \in 1..Len(sessions') : sessions'[k] = new[k]
      <4>1. sessions' = FirstN(MaxSessions, new)
        BY <3>2 DEF new
      <4> QED
        BY <2>5, <3>3, <4>1, FirstNIsPrefix
    <3>5. /\ DOMAIN sessions' = 1..Len(sessions')
          /\ DOMAIN sessions = 1..Len(sessions) /\ Len(sessions) \in Nat
      BY <1>3, <3>4
    <3>6. CASE Place + 1 > MaxSessions
      BY <2>4, <3>1, <3>6
    <3>7. CASE ~(Place + 1 > MaxSessions)
      <4>1. Place \in 1..Len(sessions) /\ sessions[Place].session = req.id
        BY <1>2, <1>3, <1>6, <3>5, <3>7
      <4>2. Place + 1 \in 1..Len(sessions')
        BY <1>3, <1>6, <3>3, <3>4, <3>5, <3>7, <4>1
      <4>3. sessions'[Place + 1] = sessions[Place]
        BY <3>3, <3>4, <4>1, <4>2
      <4> QED
        BY <1>1, <2>4, <3>1, <3>5, <4>1, <4>2, <4>3
    <3> QED
      BY <3>6, <3>7
  <2>7. CASE ~decodeSession(m)
    <3>1. Place' = Place
      BY <1>4, <1>5, <1>8, <2>1, <2>7, CompletedRead
    <3>2. sessions' = sessions
      BY <1>8, <2>1, <2>7 DEF SessionsRead
    <3> QED
      BY <1>1, <1>2, <2>4, <3>1, <3>2
  <2> QED
    BY <2>6, <2>7
<1> QED
  BY <1>7, <1>8, TailSteps, ReaderMoves DEF tailVars

(* A page outlives a restart, and is then no longer held to the list.      *)
LEMMA RequestRestarts ==
  ASSUME TypeOK, StreamInv, RequestInv, Restart
  PROVE  RequestInv' /\ PageInv'
<1>1. /\ restarts' = restarts + 1 /\ disk' = disk /\ restarts \in Nat
      /\ rec' = [c \in Cast |-> IF rec[c] # "none" THEN "done" ELSE rec[c]]
  BY PortalAssumption DEF Restart, TypeOK
<1>2. CASE req.pc # "detail"
  BY <1>1, <1>2, IdleInv DEF Restart
<1>3. CASE req.pc = "detail"
  <2>1. req' = req /\ req.cast = None
    BY <1>3 DEF Restart, RequestInv
  <2>2. req.since \in Nat /\ req.since <= restarts
    BY PortalAssumption DEF TypeOK, Request, RequestInv
  <2>3. Restarted' /\ (req.since <= restarts)'
    BY <1>1, <2>1, <2>2 DEF Restarted
  <2>4. (req.kept => Kept(req.id))'
    BY <1>1, <2>1 DEF RequestInv, Kept
  <2> QED
    BY <1>3, <2>1, <2>3, <2>4, ZenonT(30) DEF RequestInv, PageInv, ReplayIsFinal, PlayerPlays
<1> QED
  BY <1>2, <1>3

-----------------------------------------------------------------------------
(* The replay is in order in every state.                                  *)
LEMMA PortalInit ==
  ASSUME Init
  PROVE  PortalInv
<1>1. TypeOK
  <2>1. /\ 1 \in 1..MaxDay /\ 0 \in 0..MaxRestart /\ 0 \in 0..MaxNoise
        /\ 0 <= MaxSessions /\ 0 <= MaxEvents
    BY PortalAssumption
  <2>2. <<>> \in Seq(Message) /\ Len(<<>>) = 0 /\ DOMAIN <<>> = {}
    OBVIOUS
  <2>3. /\ rec \in [Cast -> {"none", "open", "closed", "done"}] /\ stamp \in [Cast -> Nat]
        /\ disk \in [Cast -> {"none", "growing", "final"}]
    BY DEF Init
  <2>4. req \in Request
    BY IdleIsRequest DEF Init
  <2>5. read \in [sessions : 0..0, events : 0..0] /\ from = 0
    BY DEF Init
  <2> QED
    BY <2>1, <2>2, <2>3, <2>4, <2>5 DEF Init, TypeOK
<1>2. DOMAIN stream = {} /\ DOMAIN sessions = {} /\ DOMAIN events = {}
  BY DEF Init
<1>3. \A c \in Cast : rec[c] = "none" /\ disk[c] = "none"
  BY DEF Init
<1>4. from = 0 /\ read.sessions = 0 /\ read.events = 0
  BY DEF Init
<1>5. StreamInv
  BY <1>2, <1>3 DEF StreamInv, Recorded, DistinctTimes
<1>6. RingInv
  BY <1>2 DEF RingInv
<1>7. RequestInv /\ PageInv
  <2>1. /\ req.pc = "idle" /\ req.cast = None /\ req.player = FALSE /\ req.kept = FALSE
        /\ req.since = 0 /\ restarts = 0
    BY DEF Init, Idle
  <2>2. req.since <= restarts
    BY <2>1
  <2> QED
    BY <2>1, <2>2, Zenon DEF RequestInv, PageInv, ReplayIsFinal, PlayerPlays
<1>8. (0 + 1)..0 = {}
  OBVIOUS
<1>9. ListInOrder
  <2>1. Completed(from + 1, read.sessions) = {}
    BY <1>4, <1>8 DEF Completed
  <2> QED
    BY <2>1 DEF ListInOrder
<1>10. AuditShowsNewest
  <2>1. (from + 1)..read.events = {}
    BY <1>4, <1>8
  <2> QED
    BY <1>2, <2>1, Zenon DEF AuditShowsNewest
<1>11. CastsNamed
  BY <1>2 DEF CastsNamed
<1> QED
  BY <1>1, <1>5, <1>6, <1>7, <1>9, <1>10, <1>11 DEF PortalInv

LEMMA PortalStep ==
  ASSUME PortalInv, [Next]_vars
  PROVE  PortalInv'
<1>1. /\ TypeOK /\ StreamInv /\ RingInv /\ RequestInv /\ PageInv /\ CastsNamed
      /\ ListInOrder /\ AuditShowsNewest /\ DistinctTimes
  BY DEF PortalInv, StreamInv
<1>2. RequestInv' /\ PageInv'
  <2>1. CASE Viewing
    BY <1>1, <2>1, RequestViews
  <2>2. CASE Restart
    BY <1>1, <2>2, RequestRestarts
  <2>3. CASE ~Viewing /\ ~Restart
    BY <1>1, <2>3, RequestWaits, PageWaits
  <2> QED
    BY <2>1, <2>2, <2>3
<1> QED
  BY <1>1, <1>2, TypeStep, StreamStep, RingStep, CastsStep, ListStep, AuditStep DEF PortalInv

(* The recorders, the stream, the rings and the viewer's request stand in  *)
(* these relations in every state.                                         *)
THEOREM PortalInvariant == Spec => []PortalInv
<1>1. Init => PortalInv
  BY PortalInit
<1>2. PortalInv /\ [Next]_vars => PortalInv'
  BY PortalStep
<1> QED
  BY <1>1, <1>2, PTL DEF Spec

(* The variables have their types.                                         *)
THEOREM PortalTyped == Spec => []TypeOK
<1>1. PortalInv => TypeOK
  BY DEF PortalInv
<1> QED
  BY <1>1, PortalInvariant, PTL

(* handleSessionCast sends only a closed recording of the session asked    *)
(* for, of this proxy and inside its cast directory.                       *)
THEOREM ReplaysAreFinal == Spec => []ReplayIsFinal
<1>1. PortalInv => ReplayIsFinal
  BY DEF PortalInv, RequestInv
<1> QED
  BY <1>1, PortalInvariant, PTL

(* A player offered by handleSessionDetail plays, but for the reasons that *)
(* PlayerPlays names: it is 404 for a session that left the list only when *)
(* as many recordings came as it takes to push its row off, or after a     *)
(* restart.                                                                *)
THEOREM PlayersPlay == Spec => []PlayerPlays
<1>1. PortalInv => PlayerPlays
  BY DEF PortalInv, RequestInv
<1> QED
  BY <1>1, PortalInvariant, PTL

(* The session list keeps a recording of this proxy until as many others   *)
(* were announced after it as the ring holds, for any cap of the ring.     *)
THEOREM ListIsLatest == Spec => []ListKeepsLatest
<1>1. PortalInv => ListKeepsLatest
  BY DEF PortalInv, ListInOrder, ListKeepsLatest
<1> QED
  BY <1>1, PortalInvariant, PTL

(* The audit page is in order and misses only what is older than all of    *)
(* it, for any cap of its ring.                                            *)
THEOREM AuditIsNewest == Spec => []AuditShowsNewest
<1>1. PortalInv => AuditShowsNewest
  BY DEF PortalInv
<1> QED
  BY <1>1, PortalInvariant, PTL

(* A recording that was announced is never written again: once the stream  *)
(* has named a cast of this proxy, its recorder is done and its file does  *)
(* not grow.                                                               *)
THEOREM AnnouncedStaysFinal ==
  Spec => [][\A c \in Cast : Finished(c) => Finished(c)']_vars
<1>1. PortalInv /\ [Next]_vars => [\A c \in Cast : Finished(c) => Finished(c)']_vars
  BY FinishedStays DEF PortalInv, StreamInv
<1> QED
  BY <1>1, PortalInvariant, PTL DEF Spec
=============================================================================
