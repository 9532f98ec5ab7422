------------------------- MODULE TunnelAgentProofs -------------------------
(***************************************************************************)
(* Proofs about ssh-tunneld for any number of streams and any backoff: the *)
(* types, that nothing of a session outlives its handler, and the schedule *)
(* of the redials.                                                         *)
(***************************************************************************)
EXTENDS TunnelAgent, FiniteSetTheorems, FunctionTheorems, TLAPS

(* Beside the property itself the induction needs to know that a stream    *)
(* which is not piped has nothing open: that is what makes the wait for    *)
(* the goroutines a wait for their connections.                            *)
AgentInv ==
  /\ TypeOK
  /\ NothingOutlivesHandle
  /\ \A s \in Stream : strm[s] # "pipe" => conn[s] = NoConn

(* nextBackoff stays between the first delay and the cap.                  *)
LEMMA BackoffInRange ==
  ASSUME NEW d \in InitialBackoff..MaxBackoff
  PROVE  nextBackoff(d) \in InitialBackoff..MaxBackoff
BY AgentAssumption DEF nextBackoff

(* The steps of Dialer.Run.                                                *)
LEMMA RunStep == AgentInv /\ Run => AgentInv'
<1> SUFFICES ASSUME AgentInv, Run PROVE AgentInv'
  OBVIOUS
<1> USE AgentAssumption DEF AgentInv, TypeOK, NothingOutlivesHandle, Serving
<1>1. CASE RunReturns \/ DialStart \/ DialFails \/ SleepCancelled
  BY <1>1 DEF RunReturns, DialStart, DialFails, SleepCancelled
<1>2. CASE SleepOver
  <2>1. delay' \in InitialBackoff..MaxBackoff
    BY <1>2, BackoffInRange DEF SleepOver
  <2>2. waits' \in 0..MaxWaits
    BY <1>2 DEF SleepOver
  <2> QED
    BY <1>2, <2>1, <2>2 DEF SleepOver
<1>3. CASE DialOk
  BY <1>3 DEF DialOk
<1> QED
  BY <1>1, <1>2, <1>3 DEF Run

(* The steps of Handle and of runSession's watcher.                        *)
LEMMA HandleStep == AgentInv /\ Handle => AgentInv'
<1> SUFFICES ASSUME AgentInv, Handle PROVE AgentInv'
  OBVIOUS
<1> USE DEF AgentInv, TypeOK, NothingOutlivesHandle, Serving
<1>1. CASE SessionWatch
  BY <1>1 DEF SessionWatch
<1>2. CASE HandleWatch
  BY <1>2 DEF HandleWatch
<1>3. CASE AcceptFails
  BY <1>3 DEF AcceptFails
<1>4. CASE HandleReturns
  <2>1. \A s \in Stream : conn[s] = NoConn
    BY <1>4 DEF HandleReturns
  <2> QED
    BY <1>4, <2>1 DEF HandleReturns
<1> QED
  BY <1>1, <1>2, <1>3, <1>4 DEF Handle

(* The steps of a stream: each belongs to a goroutine under Handle.        *)
LEMMA ServeStep ==
  ASSUME NEW s \in Stream
  PROVE  AgentInv /\ Serve(s) => AgentInv'
<1> SUFFICES ASSUME AgentInv, Serve(s) PROVE AgentInv'
  OBVIOUS
<1> USE DEF AgentInv, TypeOK, NothingOutlivesHandle, Serving
<1>1. Serving
  BY DEF Serve, AcceptStream, LocalDialFails, LocalDialOk, InEnds, InWriteFails,
         OutEnds, OutWriteFails, PipeWatch, PipeReturns
<1>2. CASE AcceptStream(s) \/ LocalDialOk(s)
  BY <1>1, <1>2 DEF AcceptStream, LocalDialOk
<1>3. CASE LocalDialFails(s) \/ PipeReturns(s)
  <2>1. Leave(s) /\ UNCHANGED <<run, delay, ctx, sub, session, waits>>
    BY <1>3 DEF LocalDialFails, PipeReturns
  <2>2. NoConn \in [peer : BOOLEAN, sshd : BOOLEAN, shut : BOOLEAN]
    BY DEF NoConn
  <2>3. Copying \in [in : BOOLEAN, out : BOOLEAN]
    BY DEF Copying
  <2>4. TypeOK'
    BY <2>1, <2>2, <2>3 DEF Leave
  <2>5. \A t \in Stream : strm'[t] # "pipe" => conn'[t] = NoConn
    BY <2>1 DEF Leave
  <2> QED
    BY <1>1, <2>1, <2>4, <2>5
<1>4. ASSUME NEW end \in {"in", "out"},
             strm[s] = "pipe",
             copy' = [copy EXCEPT ![s][end] = FALSE],
             conn' = [conn EXCEPT ![s].shut = TRUE],
             UNCHANGED <<run, delay, ctx, sub, session, strm, waits>>
      PROVE  AgentInv'
  <2>1. copy' \in [Stream -> [in : BOOLEAN, out : BOOLEAN]]
    BY <1>4
  <2>2. conn' \in [Stream -> [peer : BOOLEAN, sshd : BOOLEAN, shut : BOOLEAN]]
    BY <1>4
  <2>3. \A t \in Stream : strm'[t] # "pipe" => conn'[t] = NoConn
    BY <1>4
  <2> QED
    BY <1>1, <1>4, <2>1, <2>2, <2>3
<1>5. CASE InEnds(s) \/ InWriteFails(s) \/ OutEnds(s) \/ OutWriteFails(s)
  BY <1>4, <1>5 DEF InEnds, InWriteFails, OutEnds, OutWriteFails
<1>6. CASE PipeWatch(s)
  BY <1>1, <1>6 DEF PipeWatch
<1> QED
  BY <1>2, <1>3, <1>5, <1>6 DEF Serve

(* The signal, the link, the proxy and sshd.                               *)
LEMMA OutsideStep == AgentInv /\ Outside => AgentInv'
<1> SUFFICES ASSUME AgentInv, Outside PROVE AgentInv'
  OBVIOUS
<1> USE DEF AgentInv, TypeOK, NothingOutlivesHandle, Serving
<1>1. CASE Cancel
  BY <1>1 DEF Cancel
<1>2. CASE SessionDies
  BY <1>2 DEF SessionDies
<1>3. ASSUME NEW s \in Stream, PeerOpens(s) PROVE AgentInv'
  BY <1>3 DEF PeerOpens
<1>4. ASSUME NEW s \in Stream, PeerCloses(s) PROVE AgentInv'
  BY <1>4 DEF PeerCloses
<1>5. ASSUME NEW s \in Stream, SshdCloses(s) PROVE AgentInv'
  BY <1>5 DEF SshdCloses
<1> QED
  BY <1>1, <1>2, <1>3, <1>4, <1>5 DEF Outside

(* The inductive invariant of the agent.                                   *)
THEOREM AgentInvariant == Spec => []AgentInv
<1>1. Init => AgentInv
  <2> SUFFICES ASSUME Init PROVE AgentInv
    OBVIOUS
  <2>1. delay \in InitialBackoff..MaxBackoff /\ waits \in 0..MaxWaits
    BY AgentAssumption DEF Init
  <2>2. NoConn \in [peer : BOOLEAN, sshd : BOOLEAN, shut : BOOLEAN]
    BY DEF NoConn
  <2>3. Copying \in [in : BOOLEAN, out : BOOLEAN]
    BY DEF Copying
  <2> QED
    BY <2>1, <2>2, <2>3 DEF Init, AgentInv, TypeOK, NothingOutlivesHandle, Serving
<1>2. AgentInv /\ [Next]_vars => AgentInv'
  <2>1. AgentInv /\ UNCHANGED vars => AgentInv'
    BY DEF AgentInv, TypeOK, NothingOutlivesHandle, Serving, vars
  <2> QED
    BY <2>1, RunStep, HandleStep, ServeStep, OutsideStep DEF Next, Stopped
<1> QED
  BY <1>1, <1>2, PTL DEF Spec

(* Run's delay stays in range, and every other variable has its type.      *)
THEOREM AgentTypes == Spec => []TypeOK
BY AgentInvariant, PTL DEF AgentInv

(* The property of NothingOutlivesHandle: Run never dials, sleeps or       *)
(* returns with a stream goroutine, a local connection or a session of an  *)
(* earlier dial still alive.                                               *)
THEOREM HandleLeavesNothing == Spec => []NothingOutlivesHandle
BY AgentInvariant, PTL DEF AgentInv

-----------------------------------------------------------------------------
(* 2^(n + 1) is twice 2^n.  The provers know nothing of powers; the library*)
(* counts the subsets of a set by one, and 1..(n + 1) has the subsets of   *)
(* 1..n and each of them with n + 1 added.                                 *)
LEMMA PowerDoubles ==
  ASSUME NEW n \in Nat
  PROVE  2^n \in Nat /\ 2^(n + 1) = 2 * 2^n
<1> DEFINE S == 1..n
           P == SUBSET S
           Q == {A \cup {n + 1} : A \in P}
           f == [A \in P |-> A \cup {n + 1}]
<1>1. /\ IsFiniteSet(S) /\ Cardinality(S) = n
      /\ IsFiniteSet(1..(n + 1)) /\ Cardinality(1..(n + 1)) = n + 1
  BY FS_Interval
<1>2. /\ IsFiniteSet(P) /\ Cardinality(P) = 2^n
      /\ Cardinality(SUBSET (1..(n + 1))) = 2^(n + 1)
  BY <1>1, FS_SUBSET
<1>3. Cardinality(P) \in Nat
  BY <1>2, FS_CardinalityType
<1>4. IsFiniteSet(Q) /\ Cardinality(Q) = Cardinality(P)
  <2>0. n + 1 \notin S
    OBVIOUS
  <2>1. f \in Bijection(P, Q)
    <3> HIDE DEF S
    <3>1. f \in [P -> Q]
      OBVIOUS
    <3>2. \A a, b \in P : f[a] = f[b] => a = b
      BY <2>0
    <3>3. \A t \in Q : \E a \in P : f[a] = t
      OBVIOUS
    <3> HIDE DEF P, Q, f
    <3> QED
      BY <3>1, <3>2, <3>3, Fun_IsBij
  <2>2. ExistsBijection(P, Q)
    BY <2>1 DEF ExistsBijection
  <2> HIDE DEF P, Q
  <2> QED
    BY <1>2, <2>2, FS_Bijection
<1>5. P \cap Q = {}
  <2>0. n + 1 \notin S
    OBVIOUS
  <2> HIDE DEF S
  <2> QED
    BY <2>0
<1>6. P \cup Q = SUBSET (1..(n + 1))
  <2>1. 1..(n + 1) = S \cup {n + 1}
    OBVIOUS
  <2> HIDE DEF S
  <2>2. ASSUME NEW A \in SUBSET (S \cup {n + 1}) PROVE A \in P \cup Q
    <3>1. CASE n + 1 \in A
      <4>1. A \ {n + 1} \in P /\ A = (A \ {n + 1}) \cup {n + 1}
        BY <3>1
      <4> QED
        BY <4>1
    <3> QED
      BY <3>1
  <2> QED
    BY <2>1, <2>2
<1>7. Cardinality(P \cup Q) = Cardinality(P) + Cardinality(Q) - Cardinality(P \cap Q)
  <2> HIDE DEF P, Q
  <2> QED
    BY <1>2, <1>4, FS_Union
<1> HIDE DEF P, Q
<1>8. Cardinality(P \cap Q) = 0
  BY <1>5, FS_EmptySet
<1>9. Cardinality(P \cup Q) = 2 * Cardinality(P)
  BY <1>3, <1>4, <1>7, <1>8
<1> QED
  BY <1>2, <1>3, <1>6, <1>9, Zenon

(* What nextBackoff does to a delay that is already cut to MaxBackoff.     *)
Cut(d) == IF d > MaxBackoff THEN MaxBackoff ELSE d

LEMMA NextOfCut ==
  ASSUME NEW d \in Nat
  PROVE  nextBackoff(Cut(d)) = Cut(2 * d)
BY AgentAssumption DEF nextBackoff, Cut

(* The property BackoffSchedule: however the dials fail and succeed, Run's *)
(* delay is the first delay doubled with every sleep since the last        *)
(* connection and cut to MaxBackoff; in particular it never falls while    *)
(* the proxy stays away, and a connection brings it back to the first.     *)
THEOREM RedialsBackOff == Spec => []BackoffSchedule
<1>1. BackoffSchedule <=> delay = Cut(InitialBackoff * 2^waits)
  BY Zenon DEF BackoffSchedule, Cut
<1>2. Init => BackoffSchedule
  <2>1. 2^0 = 1
    OBVIOUS
  <2>2. InitialBackoff * 1 = Cut(InitialBackoff)
    BY AgentAssumption DEF Cut
  <2>3. InitialBackoff * 1 = InitialBackoff
    BY AgentAssumption
  <2> QED
    BY <1>1, <2>1, <2>2, <2>3, Zenon DEF Init
<1>3. TypeOK /\ BackoffSchedule /\ [Next]_vars => BackoffSchedule'
  <2> SUFFICES ASSUME TypeOK, BackoffSchedule, [Next]_vars PROVE BackoffSchedule'
    OBVIOUS
  <2> DEFINE d == InitialBackoff * 2^waits
  <2>1. waits \in Nat /\ waits <= MaxWaits
    BY AgentAssumption DEF TypeOK
  <2>2. 2^waits \in Nat /\ 2^(waits + 1) = 2 * 2^waits
    BY <2>1, PowerDoubles, Zenon
  <2>3. d \in Nat
    <3>1. \A e \in Nat : InitialBackoff * e \in Nat
      BY AgentAssumption
    <3> QED
      BY <2>2, <3>1, Zenon
  <2>4. InitialBackoff * 2^(waits + 1) = 2 * d
    <3>1. \A e \in Nat : InitialBackoff * (2 * e) = 2 * (InitialBackoff * e)
      BY AgentAssumption
    <3> QED
      BY <2>2, <3>1, Zenon
  <2>5. (delay' = Cut(InitialBackoff * 2^waits')) => BackoffSchedule'
    BY Zenon DEF BackoffSchedule, Cut
  <2>6. CASE SleepOver
    <3>1. delay' = Cut(2 * d)
      BY <1>1, <2>3, <2>6, NextOfCut, Zenon DEF SleepOver
    <3>2. CASE waits < MaxWaits
      BY <2>4, <2>5, <2>6, <3>1, <3>2, Zenon DEF SleepOver
    <3>3. CASE ~(waits < MaxWaits)
      <4>1. waits = MaxWaits
        BY <2>1, <3>3, AgentAssumption
      <4>2. d >= MaxBackoff
        BY <4>1, AgentAssumption, Zenon
      <4> HIDE DEF d
      <4>3. Cut(2 * d) = Cut(d)
        BY <2>3, <4>2, AgentAssumption DEF Cut
      <4> USE DEF d
      <4> QED
        BY <2>5, <2>6, <3>1, <3>3, <4>3, Zenon DEF SleepOver
    <3> QED
      BY <3>2, <3>3
  <2>7. CASE DialOk
    <3>1. delay' = InitialBackoff /\ waits' = 0
      BY <2>7 DEF DialOk
    <3>2. InitialBackoff * 1 = Cut(InitialBackoff) /\ InitialBackoff * 1 = InitialBackoff
      BY AgentAssumption DEF Cut
    <3>3. 2^0 = 1
      OBVIOUS
    <3> QED
      BY <2>5, <3>1, <3>2, <3>3, Zenon
  <2>8. CASE UNCHANGED <<delay, waits>>
    BY <2>8, Zenon DEF BackoffSchedule
  <2>9. SleepOver \/ DialOk \/ UNCHANGED <<delay, waits>>
    <3>1. CASE Run
      BY <3>1 DEF Run, RunReturns, DialStart, DialFails, SleepCancelled
    <3>2. CASE Handle
      BY <3>2 DEF Handle, SessionWatch, HandleWatch, AcceptFails, HandleReturns
    <3>3. ASSUME NEW s \in Stream, Serve(s) PROVE UNCHANGED <<delay, waits>>
      BY <3>3 DEF Serve, AcceptStream, LocalDialFails, LocalDialOk, InEnds,
                  InWriteFails, OutEnds, OutWriteFails, PipeWatch, PipeReturns
    <3>4. CASE Outside
      BY <3>4 DEF Outside, Cancel, SessionDies, PeerOpens, PeerCloses, SshdCloses
    <3> QED
      BY <3>1, <3>2, <3>3, <3>4 DEF Next, Stopped, vars
  <2> QED
    BY <2>6, <2>7, <2>8, <2>9
<1> QED
  BY <1>2, <1>3, AgentTypes, PTL DEF Spec
=============================================================================
