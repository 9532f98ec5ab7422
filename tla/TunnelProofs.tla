---------------------------- MODULE TunnelProofs -----------------------------
(***************************************************************************)
(* Proofs about the tunnel registry, for any sets of sessions, labels,     *)
(* host lists and concurrent Open calls, and then about the tunnel         *)
(* listener working on it, for any sets of connections, certificates and   *)
(* user sessions.                                                          *)
(***************************************************************************)
EXTENDS TunnelListener, TLAPS

-----------------------------------------------------------------------------
(* The registry.                                                           *)


(***************************************************************************)
(* What an Open call knows at each of its steps.  While it has only read   *)
(* the map, the current live owner is among those it has seen.  Once it    *)
(* holds a session outside the lock, either that session still owns the    *)
(* label or the label has been without a live owner since: nobody can take *)
(* a label from a live session, so between two live owners there is an     *)
(* instant with none.                                                      *)
(***************************************************************************)
CallInv(d) ==
  LET s == call[d].session IN
  /\ call[d].pc = "read" => LiveOwner(call[d].host) \in seen[d]
  /\ call[d].pc = "check" =>
       /\ s \in Session
       /\ IF isDead(s) THEN None \in seen[d]
          ELSE /\ s \in seen[d]
               /\ Entry(call[d].host) = s \/ None \in seen[d]
  /\ call[d].pc = "scrub" => isDead(s) /\ None \in seen[d]
  /\ call[d].pc \in {"open", "stream"} => s \in seen[d]
  /\ call[d].pc = "noTunnel" => None \in seen[d]

RegistryInv == TypeOK /\ ClosedIsEmpty /\ \A d \in Dial : CallInv(d)

(* Every way a component may act on the registry, with any host list.      *)
RegistryAction ==
  \/ \E s \in Session : \E given : RegisterOk(s, given) \/ RegisterConflict(s, given)
  \/ \E s \in Session : Unregister(s)
  \/ \E d \in Dial : OpenNext(d)
  \/ CloseBegin
  \/ \E s \in Session : CloseNext(s) \/ Die(s)

-----------------------------------------------------------------------------
(* None is not a dead session, and the empty label has no entry.           *)
LEMMA EntryType ==
  ASSUME TypeOK, NEW h \in Host \cup {Blank}
  PROVE  Entry(h) \in Session \cup {None}
BY RegistryAssumption DEF TypeOK, Entry

(* The validation loop of Register evicts dead sessions only.              *)
LEMMA EvictedAreDead ==
  ASSUME TypeOK, NEW s, NEW given, NEW x \in Evicted(s, given)
  PROVE  isDead(x)
BY DEF Evicted, Conflict, LiveOwner, isDead

(* An eviction of dead sessions changes no live owner.                     *)
LEMMA EvictDead ==
  ASSUME TypeOK, NEW S, \A x \in S : isDead(x), NEW h \in Host,
         tunnels' = Evict(S), dead' = dead
  PROVE  /\ LiveOwner(h)' = LiveOwner(h)
         /\ ~isDead(tunnels[h]) => tunnels'[h] = tunnels[h]
BY RegistryAssumption DEF TypeOK, Evict, LiveOwner, Entry, isDead

(* What a registration does to a label.                                    *)
LEMMA RegisterOkEffect ==
  ASSUME TypeOK, NEW s \in Session, NEW given, RegisterOk(s, given), NEW h \in Host
  PROVE  /\ tunnels'[h] \in {s, tunnels[h], None}
         /\ ~isDead(tunnels[h]) => tunnels'[h] \in {s, tunnels[h]}
         /\ LiveOwner(h) \notin {None, s} => tunnels'[h] = tunnels[h]
         /\ h \in Labels(given) => tunnels'[h] = s
         /\ h \notin Labels(given) => LiveOwner(h)' = LiveOwner(h)
<1>1. tunnels'[h] = IF h \in Labels(given) THEN s ELSE Evict(Evicted(s, given))[h]
  BY DEF RegisterOk
<1>2. dead' = dead
  BY DEF RegisterOk
<1>3. h \in Labels(given) => LiveOwner(h) \in {None, s}
  BY DEF RegisterOk, Conflict
<1>4. tunnels[h] \in Evicted(s, given) => isDead(tunnels[h])
  BY EvictedAreDead
<1>5. Evict(Evicted(s, given))[h] = IF tunnels[h] \in Evicted(s, given) THEN None
                                    ELSE tunnels[h]
  BY DEF Evict
<1>. QED
  BY <1>1, <1>2, <1>3, <1>4, <1>5, RegistryAssumption
     DEF TypeOK, LiveOwner, Entry, isDead

(* A call that returns keeps its host and session.                         *)
LEMMA ReturnType ==
  ASSUME TypeOK, NEW d \in Dial,
         NEW r \in {"scrub", "open", "cancelled", "noTunnel", "stream", "failed"},
         Return(d, r)
  PROVE  call' \in [Dial -> [pc : {"idle", "read", "check", "scrub", "open",
                                  "cancelled", "noTunnel", "stream", "failed"},
                            host : Host \cup {Blank},
                            session : Session \cup {None}]]
BY DEF Return, TypeOK

(* Every step of the registry keeps the types.                             *)
LEMMA TypeStep ==
  ASSUME TypeOK, RegistryAction, Observe
  PROVE  TypeOK'
<1>1. /\ tunnels' \in [Host -> Session \cup {None}]
      /\ closed' \in BOOLEAN
      /\ dead' \subseteq Session
      /\ closing' \subseteq Session
      /\ call' \in [Dial -> [pc : {"idle", "read", "check", "scrub", "open",
                                  "cancelled", "noTunnel", "stream", "failed"},
                            host : Host \cup {Blank},
                            session : Session \cup {None}]]
  <2>1. CASE \E s \in Session : \E given : RegisterOk(s, given)
    <3>. PICK s \in Session : \E given : RegisterOk(s, given)
      BY <2>1
    <3>. PICK given : RegisterOk(s, given)
      OBVIOUS
    <3>1. tunnels' \in [Host -> Session \cup {None}]
      BY DEF RegisterOk, Evict, TypeOK
    <3>. QED
      BY <3>1 DEF RegisterOk, TypeOK
  <2>2. CASE \E s \in Session : \E given : RegisterConflict(s, given)
    <3>. PICK s \in Session : \E given : RegisterConflict(s, given)
      BY <2>2
    <3>. PICK given : RegisterConflict(s, given)
      OBVIOUS
    <3>1. tunnels' \in [Host -> Session \cup {None}]
      BY DEF RegisterConflict, Evict, TypeOK
    <3>. QED
      BY <3>1 DEF RegisterConflict, TypeOK
  <2>3. CASE \E s \in Session : Unregister(s)
    BY <2>3 DEF Unregister, Evict, TypeOK
  <2>4. CASE \E d \in Dial : OpenNext(d)
    <3>. PICK d \in Dial : OpenNext(d)
      BY <2>4
    <3>1. CASE \E host \in Target : OpenBegin(d, host)
      BY <3>1, RegistryAssumption DEF OpenBegin, Normalize, RawHost, TypeOK
    <3>2. CASE OpenCancelled(d)
      BY <3>2, ReturnType DEF OpenCancelled, TypeOK
    <3>3. CASE LookupRead(d)
      <4>1. Entry(call[d].host) \in Session \cup {None}
        BY EntryType DEF TypeOK
      <4>2. CASE Return(d, "noTunnel")
        BY <3>3, <4>2, ReturnType DEF LookupRead, TypeOK
      <4>. QED
        BY <3>3, <4>1, <4>2 DEF LookupRead, TypeOK
    <3>4. CASE LookupCheck(d)
      BY <3>4, ReturnType DEF LookupCheck, TypeOK
    <3>5. CASE LookupScrub(d)
      <4>1. tunnels' \in [Host -> Session \cup {None}]
        BY <3>5 DEF LookupScrub, Evict, TypeOK
      <4>2. Return(d, "noTunnel")
        BY <3>5 DEF LookupScrub
      <4>. QED
        BY <3>5, <4>1, <4>2, ReturnType DEF LookupScrub, TypeOK
    <3>6. CASE OpenStream(d)
      BY <3>6, ReturnType DEF OpenStream, TypeOK
    <3>7. CASE CallDone(d)
      BY <3>7 DEF CallDone, Idle, TypeOK
    <3>. QED
      BY <3>1, <3>2, <3>3, <3>4, <3>5, <3>6, <3>7 DEF OpenNext
  <2>5. CASE CloseBegin
    BY <2>5 DEF CloseBegin, TypeOK
  <2>6. CASE \E s \in Session : CloseNext(s) \/ Die(s)
    BY <2>6 DEF CloseNext, Die, TypeOK
  <2>. QED
    BY <2>1, <2>2, <2>3, <2>4, <2>5, <2>6 DEF RegistryAction
<1>2. ASSUME NEW d \in Dial
      PROVE  LiveOwner(call[d].host)' \in Session \cup {None}
  BY <1>1, RegistryAssumption DEF LiveOwner, Entry
<1>3. seen' \in [Dial -> SUBSET (Session \cup {None})]
  BY <1>2 DEF Observe, TypeOK
<1>. QED
  BY <1>1, <1>3 DEF TypeOK

(***************************************************************************)
(* No session comes back to life, and a live owner's label passes to       *)
(* another session only after having had no owner.                         *)
(***************************************************************************)
LEMMA OwnerStep ==
  ASSUME TypeOK, RegistryAction, NEW h \in Host \cup {Blank}
  PROVE  /\ dead \subseteq dead'
         /\ ~isDead(Entry(h)) => Entry(h)' \in {Entry(h), None} \/ Entry(h) = None
<1>1. CASE \E s \in Session : \E given : RegisterOk(s, given)
  <2>. PICK s \in Session : \E given : RegisterOk(s, given)
    BY <1>1
  <2>. PICK given : RegisterOk(s, given)
    OBVIOUS
  <2>1. dead' = dead
    BY DEF RegisterOk
  <2>2. CASE h = Blank
    BY <2>1, <2>2 DEF Entry
  <2>3. CASE h \in Host /\ h # Blank
    <3>1. LiveOwner(h) \notin {None, s} => tunnels'[h] = tunnels[h]
      BY <2>3, RegisterOkEffect
    <3>2. ~isDead(tunnels[h]) => tunnels'[h] \in {s, tunnels[h]}
      BY <2>3, RegisterOkEffect
    <3>. QED
      BY <2>1, <2>3, <3>1, <3>2 DEF Entry, LiveOwner
  <2>. QED
    BY <2>2, <2>3
<1>2. CASE \E s \in Session : \E given : RegisterConflict(s, given)
  BY <1>2 DEF RegisterConflict, Evict, Entry
<1>3. CASE \E s \in Session : Unregister(s)
  BY <1>3 DEF Unregister, Evict, Entry
<1>4. CASE \E d \in Dial : OpenNext(d)
  BY <1>4 DEF OpenNext, OpenBegin, OpenCancelled, LookupRead, LookupCheck,
              LookupScrub, OpenStream, CallDone, Evict, Entry
<1>5. CASE CloseBegin
  BY <1>5 DEF CloseBegin, Entry
<1>6. CASE \E s \in Session : CloseNext(s) \/ Die(s)
  BY <1>6 DEF CloseNext, Die, Entry
<1>. QED
  BY <1>1, <1>2, <1>3, <1>4, <1>5, <1>6 DEF RegistryAction

(* A step that leaves a call alone keeps what the call knows.              *)
LEMMA CallUnchanged ==
  ASSUME TypeOK, TypeOK', RegistryAction \/ UNCHANGED registryVars, Observe,
         NEW d \in Dial, CallInv(d), call'[d] = call[d]
  PROVE  CallInv(d)'
<1>. DEFINE h == call[d].host
            s == call[d].session
<1>1. h \in Host \cup {Blank} /\ s \in Session \cup {None}
  BY DEF TypeOK
<1>2. /\ dead \subseteq dead'
      /\ ~isDead(Entry(h)) => Entry(h)' \in {Entry(h), None} \/ Entry(h) = None
  <2>1. CASE RegistryAction
    BY <1>1, <2>1, OwnerStep
  <2>2. CASE UNCHANGED registryVars
    BY <2>2 DEF registryVars, Entry
  <2>. QED
    BY <2>1, <2>2
<1>3. h' = h /\ s' = s
  OBVIOUS
<1>4. call[d].pc \in {"read", "check"} => seen'[d] = seen[d] \cup {LiveOwner(h)'}
  BY DEF Observe
<1>5. call[d].pc \in {"scrub", "open", "stream", "noTunnel"} => seen'[d] = seen[d]
  BY DEF Observe
<1>6. LiveOwner(h)' = IF Entry(h)' \in dead' THEN None ELSE Entry(h)'
  BY DEF LiveOwner, isDead
<1>7. CASE call[d].pc = "check"
  <2>1. CASE s \in dead
    BY <1>2, <1>3, <1>4, <1>7, <2>1 DEF CallInv, isDead
  <2>2. CASE s \notin dead
    <3>1. s \in Session /\ s \in seen[d] /\ (Entry(h) = s \/ None \in seen[d])
      BY <1>7, <2>2 DEF CallInv, isDead
    <3>2. Entry(h) = s => Entry(h)' \in {s, None}
      BY <1>2, <2>2, <3>1, RegistryAssumption DEF isDead
    <3>3. Entry(h)' = s \/ None \in seen'[d]
      BY <1>4, <1>6, <1>7, <3>1, <3>2, RegistryAssumption
    <3>4. s \in dead' => None \in seen'[d]
      BY <1>4, <1>6, <1>7, <3>3
    <3>. QED
      BY <1>3, <1>4, <1>7, <3>1, <3>3, <3>4 DEF CallInv, isDead
  <2>. QED
    BY <2>1, <2>2
<1>8. CASE call[d].pc # "check"
  BY <1>2, <1>3, <1>4, <1>5, <1>8 DEF CallInv, isDead
<1>. QED
  BY <1>7, <1>8

(* A step of a call keeps what the call knows.                             *)
LEMMA CallStep ==
  ASSUME TypeOK, TypeOK', NEW d \in Dial, CallInv(d), OpenNext(d), Observe
  PROVE  CallInv(d)'
<1>. DEFINE h == call[d].host
            s == call[d].session
<1>1. h \in Host \cup {Blank} /\ s \in Session \cup {None}
  BY DEF TypeOK
<1>2. seen'[d] = IF call'[d].pc \in {"read", "check"}
                 THEN seen[d] \cup {LiveOwner(call[d].host)'}
                 ELSE IF call'[d].pc = "idle" THEN {} ELSE seen[d]
  BY DEF Observe
<1>3. CASE \E host \in Target : OpenBegin(d, host)
  <2>1. call'[d].pc = "read"
    BY <1>3 DEF OpenBegin, TypeOK
  <2>. QED
    BY <1>2, <2>1 DEF CallInv
<1>4. CASE OpenCancelled(d)
  <2>1. call'[d].pc = "cancelled"
    BY <1>4 DEF OpenCancelled, Return, TypeOK
  <2>. QED
    BY <2>1 DEF CallInv
<1>5. CASE LookupRead(d)
  <2>1. LiveOwner(h) \in seen[d]
    BY <1>5 DEF LookupRead, CallInv
  <2>2. CASE Entry(h) = None
    <3>1. call'[d].pc = "noTunnel"
      BY <1>5, <2>2 DEF LookupRead, Return, TypeOK
    <3>2. None \in seen[d]
      BY <2>1, <2>2 DEF LiveOwner
    <3>. QED
      BY <1>2, <3>1, <3>2 DEF CallInv
  <2>3. CASE Entry(h) # None
    <3>1. /\ call'[d].pc = "check" /\ call'[d].host = h
          /\ call'[d].session = Entry(h)
      BY <1>5, <2>3 DEF LookupRead, Return, TypeOK
    <3>2. Entry(h) \in Session
      BY <1>1, <2>3, EntryType
    <3>3. dead' = dead /\ tunnels' = tunnels
      BY <1>5 DEF LookupRead
    <3>4. Entry(call[d].host)' = Entry(h)
      BY <3>1, <3>3 DEF Entry
    <3>5. IF isDead(Entry(h)) THEN None \in seen[d] ELSE Entry(h) \in seen[d]
      BY <2>1 DEF LiveOwner
    <3>. QED
      BY <1>2, <3>1, <3>2, <3>3, <3>4, <3>5 DEF CallInv, isDead
  <2>. QED
    BY <2>2, <2>3
<1>6. CASE LookupCheck(d)
  <2>1. /\ call'[d].pc = IF isDead(s) THEN "scrub" ELSE "open"
        /\ call'[d].session = s
    BY <1>6 DEF LookupCheck, Return, TypeOK
  <2>2. IF isDead(s) THEN None \in seen[d] ELSE s \in seen[d]
    BY <1>6 DEF LookupCheck, CallInv
  <2>3. dead' = dead
    BY <1>6 DEF LookupCheck
  <2>. QED
    BY <1>2, <2>1, <2>2, <2>3 DEF CallInv, isDead
<1>7. CASE LookupScrub(d)
  <2>1. call'[d].pc = "noTunnel"
    BY <1>7 DEF LookupScrub, Return, TypeOK
  <2>2. None \in seen[d]
    BY <1>7 DEF LookupScrub, CallInv
  <2>. QED
    BY <1>2, <2>1, <2>2 DEF CallInv
<1>8. CASE OpenStream(d)
  <2>1. call'[d].pc \in {"stream", "failed"} /\ call'[d].session = s
    BY <1>8 DEF OpenStream, Return, TypeOK
  <2>2. s \in seen[d]
    BY <1>8 DEF OpenStream, CallInv
  <2>. QED
    BY <1>2, <2>1, <2>2 DEF CallInv
<1>9. CASE CallDone(d)
  <2>1. call'[d].pc = "idle"
    BY <1>9 DEF CallDone, Idle, TypeOK
  <2>. QED
    BY <2>1 DEF CallInv
<1>. QED
  BY <1>3, <1>4, <1>5, <1>6, <1>7, <1>8, <1>9 DEF OpenNext

(* A step of one call leaves the others alone.                             *)
LEMMA OtherCalls ==
  ASSUME TypeOK, NEW e \in Dial, OpenNext(e), NEW d \in Dial, d # e
  PROVE  call'[d] = call[d]
<1>1. \E r : call' = [call EXCEPT ![e] = r]
  <2>1. CASE \E host \in Target : OpenBegin(e, host)
    BY <2>1 DEF OpenBegin
  <2>2. CASE LookupRead(e)
    BY <2>2 DEF LookupRead, Return
  <2>3. CASE CallDone(e)
    BY <2>3 DEF CallDone
  <2>4. CASE OpenCancelled(e) \/ LookupCheck(e) \/ LookupScrub(e) \/ OpenStream(e)
    BY <2>4 DEF OpenCancelled, LookupCheck, LookupScrub, OpenStream, Return
  <2>. QED
    BY <2>1, <2>2, <2>3, <2>4 DEF OpenNext
<1>. QED
  BY <1>1 DEF TypeOK

(* An action on the registry keeps a closed registry empty.                *)
LEMMA ClosedStep ==
  ASSUME TypeOK, ClosedIsEmpty, RegistryAction
  PROVE  ClosedIsEmpty'
<1>1. CASE \E s \in Session : \E given : RegisterOk(s, given) \/ RegisterConflict(s, given)
  BY <1>1 DEF RegisterOk, RegisterConflict, Refused, ClosedIsEmpty
<1>2. CASE \E s \in Session : Unregister(s)
  BY <1>2 DEF Unregister, Evict, ClosedIsEmpty
<1>3. CASE \E d \in Dial : OpenNext(d)
  BY <1>3 DEF OpenNext, OpenBegin, OpenCancelled, LookupRead, LookupCheck,
              LookupScrub, OpenStream, CallDone, Evict, ClosedIsEmpty
<1>4. CASE CloseBegin
  BY <1>4 DEF CloseBegin, ClosedIsEmpty
<1>5. CASE \E s \in Session : CloseNext(s) \/ Die(s)
  BY <1>5 DEF CloseNext, Die, ClosedIsEmpty
<1>. QED
  BY <1>1, <1>2, <1>3, <1>4, <1>5 DEF RegistryAction

(* The invariant holds initially and every step of the registry keeps it.  *)
LEMMA RegistryInvInit == Init => RegistryInv
<1>. SUFFICES ASSUME Init PROVE RegistryInv
  OBVIOUS
<1>1. TypeOK
  BY DEF Init, TypeOK, Idle
<1>2. ClosedIsEmpty
  BY DEF Init, ClosedIsEmpty
<1>3. \A d \in Dial : call[d].pc = "idle"
  BY DEF Init, Idle
<1>. QED
  BY <1>1, <1>2, <1>3 DEF RegistryInv, CallInv

LEMMA RegistryInvStep ==
  ASSUME RegistryInv, RegistryAction \/ UNCHANGED registryVars, Observe
  PROVE  RegistryInv'
<1>1. TypeOK'
  <2>1. CASE RegistryAction
    BY <2>1, TypeStep DEF RegistryInv
  <2>2. CASE UNCHANGED registryVars
    <3>1. ASSUME NEW d \in Dial
          PROVE  LiveOwner(call[d].host)' \in Session \cup {None}
      BY <2>2, EntryType DEF RegistryInv, TypeOK, registryVars, LiveOwner, Entry
    <3>. QED
      BY <2>2, <3>1 DEF Observe, RegistryInv, TypeOK, registryVars
  <2>. QED
    BY <2>1, <2>2
<1>2. ClosedIsEmpty'
  <2>1. CASE RegistryAction
    BY <2>1, ClosedStep DEF RegistryInv
  <2>2. CASE UNCHANGED registryVars
    BY <2>2 DEF RegistryInv, registryVars, ClosedIsEmpty
  <2>. QED
    BY <2>1, <2>2
<1>3. ASSUME NEW d \in Dial
      PROVE  CallInv(d)'
  <2>1. CASE OpenNext(d)
    BY <1>1, <2>1, CallStep DEF RegistryInv
  <2>2. CASE ~OpenNext(d)
    <3>1. call'[d] = call[d]
      <4>1. CASE \E e \in Dial : OpenNext(e)
        BY <2>2, <4>1, OtherCalls DEF RegistryInv
      <4>2. CASE ~\E e \in Dial : OpenNext(e)
        BY <4>2 DEF RegistryAction, registryVars, RegisterOk, RegisterConflict,
                    Unregister, CloseBegin, CloseNext, Die
      <4>. QED
        BY <4>1, <4>2
    <3>. QED
      BY <1>1, <3>1, CallUnchanged DEF RegistryInv
  <2>. QED
    BY <2>1, <2>2
<1>. QED
  BY <1>1, <1>2, <1>3 DEF RegistryInv

LEMMA NextIsRegistryAction ==
  Next => (RegistryAction \/ UNCHANGED registryVars) /\ Observe
BY DEF Next, RegisterNext, RegisterRefused, RegistryAction

(***************************************************************************)
(* The invariant of the registry, from which the theorems below follow.    *)
(***************************************************************************)
THEOREM RegistryInvariant == Spec => []RegistryInv
<1>1. RegistryInv /\ [Next]_vars => RegistryInv'
  <2>1. RegistryInv /\ Next => RegistryInv'
    BY NextIsRegistryAction, RegistryInvStep
  <2>2. RegistryInv /\ UNCHANGED vars => RegistryInv'
    BY DEF vars, RegistryInv, TypeOK, ClosedIsEmpty, CallInv, LiveOwner, Entry, isDead
  <2>. QED
    BY <2>1, <2>2
<1>. QED
  BY <1>1, RegistryInvInit, PTL DEF Spec

(* Type correctness of the registry and of the Open calls.                 *)
THEOREM RegistryTypes == Spec => []TypeOK
<1>1. RegistryInv => TypeOK
  BY DEF RegistryInv
<1>. QED
  BY <1>1, RegistryInvariant, PTL

(***************************************************************************)
(* Open answers for an instant of the call, for any number of concurrent   *)
(* callers, sessions and labels: ErrNoTunnel only if the host was at some  *)
(* instant without a live tunnel, a stream only on the host's live owner.  *)
(***************************************************************************)
THEOREM OpenIsLinearizable == Spec => []OpenLinearizable
<1>1. RegistryInv => OpenLinearizable
  BY DEF RegistryInv, CallInv, OpenLinearizable
<1>. QED
  BY <1>1, RegistryInvariant, PTL

(* A registry that has been closed holds no entry, now or later.           *)
THEOREM ClosedStaysEmpty == Spec => []ClosedIsEmpty
<1>1. RegistryInv => ClosedIsEmpty
  BY DEF RegistryInv
<1>. QED
  BY <1>1, RegistryInvariant, PTL

(* Nobody has sessions to close before Close has taken the lock.           *)
NothingToClose == ~closed => closing = {}

LEMMA OnlyCloseCollects == Spec => []NothingToClose
<1>1. Init => NothingToClose
  BY DEF Init, NothingToClose
<1>2. NothingToClose /\ [Next]_vars => NothingToClose'
  <2> SUFFICES ASSUME NothingToClose, [Next]_vars PROVE NothingToClose'
    OBVIOUS
  <2>1. CASE CloseBegin
    BY <2>1 DEF CloseBegin, NothingToClose
  <2>2. CASE \E s \in Session : CloseNext(s)
    BY <2>2 DEF CloseNext, NothingToClose
  <2>3. CASE UNCHANGED <<closed, closing>>
    BY <2>3 DEF NothingToClose
  <2> QED
    BY <2>1, <2>2, <2>3, NextIsRegistryAction
       DEF RegistryAction, registryVars, vars, RegisterOk, RegisterConflict, Unregister,
           OpenNext, OpenBegin, OpenCancelled, LookupRead, LookupCheck, LookupScrub,
           OpenStream, CallDone, Die
<1> QED
  BY <1>1, <1>2, PTL DEF Spec

(* Close forgets no session that was mapped, nor does any step after it.   *)
THEOREM CloseKeepsAll == Spec => CloseForgetsNone
<1> DEFINE Kept == \A s \in Session :
                     closed' /\ (s \in closing \/ \E h \in Host : tunnels[h] = s) =>
                       s \in closing' \/ isDead(s)'
<1>1. RegistryInv /\ NothingToClose /\ [Next]_vars => [Kept]_vars
  <2> SUFFICES ASSUME RegistryInv, NothingToClose, Next, NEW s \in Session, closed',
                      s \in closing \/ \E h \in Host : tunnels[h] = s
               PROVE  s \in closing' \/ isDead(s)'
    OBVIOUS
  <2>1. CASE CloseBegin
    BY <2>1, RegistryAssumption DEF CloseBegin, NothingToClose
  <2>2. CASE \E t \in Session : CloseNext(t)
    <3>1. closed /\ s \in closing
      BY <2>2, RegistryAssumption DEF CloseNext, RegistryInv, ClosedIsEmpty
    <3> QED
      BY <2>2, <3>1 DEF CloseNext, isDead
  <2>3. CASE UNCHANGED <<closed, closing>>
    BY <2>3, RegistryAssumption DEF RegistryInv, ClosedIsEmpty
  <2> QED
    BY <2>1, <2>2, <2>3, NextIsRegistryAction
       DEF RegistryAction, registryVars, RegisterOk, RegisterConflict, Unregister,
           OpenNext, OpenBegin, OpenCancelled, LookupRead, LookupCheck, LookupScrub,
           OpenStream, CallDone, Die
<1> QED
  BY <1>1, RegistryInvariant, OnlyCloseCollects, PTL DEF Spec, CloseForgetsNone

-----------------------------------------------------------------------------
(* A step that keeps every live owner and the closed flag is a stutter of  *)
(* the directory.                                                          *)
LEMMA DirectoryStutter ==
  ASSUME \A h \in Host : LiveOwner(h)' = LiveOwner(h), closed' = closed
  PROVE  UNCHANGED Directory!vars
BY DEF Directory!vars

(***************************************************************************)
(* A successful registration is a claim of all its labels; the session may *)
(* already be dead, and then nothing changes for the directory.            *)
(***************************************************************************)
LEMMA RegisterOkRefines ==
  ASSUME RegistryInv, NEW s \in Session, NEW given, RegisterOk(s, given)
  PROVE  [Directory!Next]_Directory!vars
<1>. DEFINE L == Labels(given) \cap Host
<1>1. TypeOK /\ dead' = dead /\ closed' = closed /\ ~closed
  BY DEF RegistryInv, RegisterOk, Refused
<1>2. ASSUME NEW h \in L
      PROVE  LiveOwner(h) \in {None, s} /\ tunnels'[h] = s
  BY <1>1, RegisterOkEffect DEF RegisterOk, Conflict
<1>3. ASSUME NEW h \in Host, h \notin L
      PROVE  LiveOwner(h)' = LiveOwner(h)
  BY <1>1, <1>3, RegisterOkEffect
<1>4. CASE isDead(s)
  <2>1. ASSUME NEW h \in L
        PROVE  LiveOwner(h)' = None /\ LiveOwner(h) = None
    BY <1>1, <1>2, <1>4, RegistryAssumption DEF LiveOwner, Entry, isDead
  <2>. QED
    BY <1>1, <1>3, <2>1, DirectoryStutter
<1>5. CASE ~isDead(s)
  <2>1. ASSUME NEW h \in L
        PROVE  LiveOwner(h)' = s
    BY <1>1, <1>2, <1>5, RegistryAssumption DEF LiveOwner, Entry, isDead
  <2>2. Directory!Claim(s, L)
    BY <1>1, <1>2, <1>3, <2>1 DEF Directory!Claim
  <2>. QED
    BY <2>2 DEF Directory!Next
<1>. QED
  BY <1>4, <1>5

(* The end of a session is its departure from the directory.               *)
LEMMA DeathRefines ==
  ASSUME RegistryInv, NEW s \in Session, tunnels' = tunnels, closed' = closed,
         dead' = dead \cup {s}
  PROVE  Directory!Next
<1>1. Directory!Leave(s)
  BY RegistryAssumption DEF Directory!Leave, LiveOwner, Entry, isDead
<1>. QED
  BY <1>1 DEF Directory!Next

(* Every action on the registry is an action of the directory or a stutter *)
LEMMA RegistryRefines ==
  ASSUME RegistryInv, RegistryAction
  PROVE  [Directory!Next]_Directory!vars
<1>0. TypeOK
  BY DEF RegistryInv
<1>1. CASE \E s \in Session : \E given : RegisterOk(s, given)
  BY <1>1, RegisterOkRefines
<1>2. CASE \E s \in Session : \E given : RegisterConflict(s, given)
  <2>. PICK s \in Session : \E given : RegisterConflict(s, given)
    BY <1>2
  <2>. PICK given : RegisterConflict(s, given)
    OBVIOUS
  <2>1. \A h \in Host : LiveOwner(h)' = LiveOwner(h)
    BY <1>0, EvictDead, EvictedAreDead DEF RegisterConflict
  <2>. QED
    BY <2>1, DirectoryStutter DEF RegisterConflict
<1>3. CASE \E s \in Session : Unregister(s)
  <2>. PICK s \in Session : Unregister(s)
    BY <1>3
  <2>1. Directory!Leave(s)
    BY <1>0, RegistryAssumption
       DEF Unregister, Evict, Directory!Leave, LiveOwner, Entry, isDead, TypeOK
  <2>. QED
    BY <2>1 DEF Directory!Next
<1>4. CASE \E d \in Dial : OpenNext(d)
  <2>. PICK d \in Dial : OpenNext(d)
    BY <1>4
  <2>1. CASE LookupScrub(d)
    <3>1. isDead(call[d].session)
      BY <2>1 DEF RegistryInv, CallInv, LookupScrub
    <3>2. \A h \in Host : LiveOwner(h)' = LiveOwner(h)
      BY <1>0, <2>1, <3>1, EvictDead DEF LookupScrub
    <3>. QED
      BY <2>1, <3>2, DirectoryStutter DEF LookupScrub
  <2>2. CASE ~LookupScrub(d)
    <3>1. UNCHANGED <<tunnels, closed, dead>>
      BY <2>2 DEF OpenNext, OpenBegin, OpenCancelled, LookupRead, LookupCheck,
                  OpenStream, CallDone
    <3>. QED
      BY <3>1, DirectoryStutter DEF LiveOwner, Entry, isDead
  <2>. QED
    BY <2>1, <2>2
<1>5. CASE CloseBegin
  <2>1. Directory!Shut
    BY <1>5, RegistryAssumption DEF CloseBegin, Directory!Shut, LiveOwner, Entry
  <2>. QED
    BY <2>1 DEF Directory!Next
<1>6. CASE \E s \in Session : CloseNext(s) \/ Die(s)
  BY <1>6, DeathRefines DEF CloseNext, Die
<1>. QED
  BY <1>1, <1>2, <1>3, <1>4, <1>5, <1>6 DEF RegistryAction

(***************************************************************************)
(* The registry implements the directory of live owners: registration is   *)
(* all or nothing, no live session loses a label to anybody else's action, *)
(* and a closed registry stays empty.                                      *)
(***************************************************************************)
THEOREM RegistryImplementsDirectory == Spec => ImplementsDirectory
<1>1. Init => Directory!Init
  BY RegistryAssumption DEF Init, Directory!Init, LiveOwner, Entry
<1>2. RegistryInv /\ [Next]_vars => [Directory!Next]_Directory!vars
  <2>1. ASSUME RegistryInv, Next
        PROVE  [Directory!Next]_Directory!vars
    <3>1. CASE RegistryAction
      BY <2>1, <3>1, RegistryRefines
    <3>2. CASE UNCHANGED registryVars
      BY <3>2, DirectoryStutter DEF registryVars, LiveOwner, Entry, isDead
    <3>. QED
      BY <2>1, <3>1, <3>2, NextIsRegistryAction
  <2>2. UNCHANGED vars => UNCHANGED Directory!vars
    BY DirectoryStutter DEF vars, LiveOwner, Entry, isDead
  <2>. QED
    BY <2>1, <2>2
<1>. QED
  BY <1>1, <1>2, RegistryInvariant, PTL DEF Spec, ImplementsDirectory, Directory!Spec

-----------------------------------------------------------------------------
(* The listener.                                                           *)


(* Past the handshake a connection's hosts no longer change.               *)
Named(c) == pc[c] \notin {"new", "handshake"}

(***************************************************************************)
(* An Open call that holds a session outside the lock holds one whose      *)
(* certificate names the label the call asked for.                         *)
(***************************************************************************)
CallNamed(d) ==
  LET s == call[d].session IN
  call[d].pc \in {"check", "scrub", "open", "stream"} =>
    s \in Session /\ Named(s) /\ call[d].host \in Labels(hosts[s])

(* serve waits for every handleConn goroutine before it returns.           *)
ReturnedAlone == serve = "returned" => \A c \in Session : pc[c] \in {"new", "done"}

ListenerInv ==
  /\ RegistryInv
  /\ ListenerTypeOK
  /\ ServingOwnsItsHosts
  /\ EntriesHaveHandlers
  /\ \A d \in Dial : CallNamed(d)
  /\ ReturnedAlone

-----------------------------------------------------------------------------
(* The listener acts on the registry only through the registry's actions.  *)
LEMMA ListenerActsOnRegistry ==
  ASSUME ListenerInv, ListenerNext
  PROVE  (RegistryAction \/ UNCHANGED registryVars) /\ Observe
<1>1. ASSUME NEW c \in Session, Handle(c) \/ Accept(c) \/ PeerGone(c)
      PROVE  RegistryAction \/ UNCHANGED registryVars
  <2>1. CASE HandleRegister(c)
    BY <2>1 DEF HandleRegister, RegisterRefused, RegistryAction
  <2>2. CASE HandleUnregister(c)
    BY <2>2 DEF HandleUnregister, RegistryAction
  <2>3. CASE HandleClose(c)
    <3>1. CASE isDead(c)
      BY <2>3, <3>1 DEF HandleClose, isDead, registryVars
    <3>2. CASE ~isDead(c)
      BY <2>3, <3>2 DEF HandleClose, Die, RegistryAction
    <3>. QED
      BY <3>1, <3>2
  <2>4. CASE PeerGone(c)
    BY <2>4 DEF PeerGone, RegistryAction
  <2>5. CASE \/ Accept(c) \/ HandshakeFails(c) \/ HandleWake(c)
             \/ \E cert \in Cert : HandshakeOk(c, cert)
    BY <2>5 DEF Accept, HandshakeFails, HandleWake, HandshakeOk
  <2>. QED
    BY <1>1, <2>1, <2>2, <2>3, <2>4, <2>5 DEF Handle
<1>2. ASSUME NEW d \in Dial, UserOpen(d)
      PROVE  RegistryAction
  BY <1>2 DEF UserOpen, OpenNext, RegistryAction
<1>3. CASE Cancel \/ Unbind \/ AcceptFails \/ ServeReturns
  BY <1>3 DEF Cancel, Unbind, AcceptFails, ServeReturns, ListenerNext
<1>4. CASE MainCloses
  BY <1>4 DEF MainCloses, RegistryAction, ListenerNext
<1>. QED
  BY <1>1, <1>2, <1>3, <1>4 DEF ListenerNext

(***************************************************************************)
(* A step of the goroutine of connection c moves c and no other, and fixes *)
(* c's hosts before c is named.                                            *)
(***************************************************************************)
LEMMA HandlerStep ==
  ASSUME ListenerTypeOK, NEW c \in Session,
         Accept(c) \/ Handle(c) \/ PeerGone(c)
  PROVE  /\ pc' \in [Session -> {"new", "handshake", "register", "serving",
                                 "unregister", "close", "done"}]
         /\ hosts' \in [Session -> {<< >>} \cup {HostFromSPIFFE(x) : x \in Cert}]
         /\ UNCHANGED <<cancelled, bound, serve>>
         /\ \A x \in Session : x # c => pc'[x] = pc[x] /\ hosts'[x] = hosts[x]
         /\ Named(c) => Named(c)' /\ hosts'[c] = hosts[c]
<1>1. CASE Accept(c) \/ HandshakeFails(c) \/ HandleWake(c)
  BY <1>1 DEF Accept, HandshakeFails, HandleWake, GoTo, ListenerTypeOK, Named
<1>2. CASE \E cert \in Cert : HandshakeOk(c, cert)
  BY <1>2 DEF HandshakeOk, GoTo, ListenerTypeOK, Named
<1>3. CASE HandleRegister(c)
  BY <1>3 DEF HandleRegister, GoTo, ListenerTypeOK, Named
<1>4. CASE HandleUnregister(c) \/ HandleClose(c)
  BY <1>4 DEF HandleUnregister, HandleClose, GoTo, ListenerTypeOK, Named
<1>5. CASE PeerGone(c)
  BY <1>5 DEF PeerGone, listenerVars, ListenerTypeOK, Named
<1>. QED
  BY <1>1, <1>2, <1>3, <1>4, <1>5 DEF Handle

(***************************************************************************)
(* The actions on the registry that cost session c no entry while it is    *)
(* alive: everything but its own withdrawal and the close of the registry. *)
(***************************************************************************)
KeepsEntriesOf(c) ==
  \/ \E s \in Session : \E L : RegisterOk(s, L) \/ RegisterConflict(s, L)
  \/ \E s \in Session \ {c} : Unregister(s)
  \/ \E d \in Dial : OpenNext(d)
  \/ \E s \in Session : CloseNext(s) \/ Die(s)
  \/ UNCHANGED registryVars

LEMMA LiveEntryKept ==
  ASSUME RegistryInv, NEW c \in Session, KeepsEntriesOf(c), NEW h \in Host,
         tunnels[h] = c, c \notin dead'
  PROVE  tunnels'[h] = c
<1>0. TypeOK /\ c # None
  BY RegistryAssumption DEF RegistryInv
<1>1. CASE \E s \in Session : \E L : RegisterOk(s, L)
  <2>. PICK s \in Session : \E L : RegisterOk(s, L)
    BY <1>1
  <2>. PICK L : RegisterOk(s, L)
    OBVIOUS
  <2>1. LiveOwner(h) = c /\ ~isDead(tunnels[h])
    BY RegistryAssumption DEF RegisterOk, LiveOwner, Entry, isDead
  <2>2. /\ ~isDead(tunnels[h]) => tunnels'[h] \in {s, tunnels[h]}
        /\ LiveOwner(h) \notin {None, s} => tunnels'[h] = tunnels[h]
    BY <1>0, RegisterOkEffect
  <2>. QED
    BY <1>0, <2>1, <2>2
<1>2. CASE \E s \in Session : \E L : RegisterConflict(s, L)
  BY <1>0, <1>2, EvictDead, EvictedAreDead DEF RegisterConflict, isDead
<1>3. CASE \E s \in Session \ {c} : Unregister(s)
  BY <1>3 DEF Unregister, Evict
<1>4. CASE \E d \in Dial : LookupScrub(d)
  BY <1>0, <1>4, EvictDead DEF LookupScrub, RegistryInv, CallInv, isDead
<1>5. CASE UNCHANGED tunnels
  BY <1>5
<1>. QED
  BY <1>1, <1>2, <1>3, <1>4, <1>5
     DEF KeepsEntriesOf, registryVars, OpenNext, OpenBegin, OpenCancelled,
         LookupRead, LookupCheck, OpenStream, CallDone, CloseNext, Die

(* The steps other than a handler's leave every connection where it is.    *)
LEMMA OtherSteps ==
  ASSUME ListenerTypeOK,
         \/ Cancel \/ Unbind \/ AcceptFails \/ ServeReturns \/ MainCloses
         \/ \E d \in Dial : UserOpen(d)
  PROVE  /\ UNCHANGED <<pc, hosts>>
         /\ cancelled' \in BOOLEAN /\ bound' \in BOOLEAN
         /\ serve' \in {"accepting", "draining", "returned"}
         /\ serve' = "returned" =>
              serve = "returned" \/ \A c \in Session : pc[c] \in {"new", "done"}
BY DEF ListenerTypeOK, Cancel, Unbind, AcceptFails, ServeReturns, MainCloses,
       UserOpen, listenerVars

(* Named connections keep their hosts in every step.                       *)
LEMMA NamesKept ==
  ASSUME ListenerInv, ListenerNext, NEW c \in Session, Named(c)
  PROVE  Named(c)' /\ hosts'[c] = hosts[c]
<1>1. CASE \E x \in Session : Accept(x) \/ Handle(x) \/ PeerGone(x)
  BY <1>1, HandlerStep DEF ListenerInv, Named
<1>2. CASE ~\E x \in Session : Accept(x) \/ Handle(x) \/ PeerGone(x)
  BY <1>2, OtherSteps DEF ListenerInv, ListenerNext, Named
<1>. QED
  BY <1>1, <1>2

LEMMA ListenerTypeStep ==
  ASSUME ListenerInv, ListenerNext
  PROVE  RegistryInv' /\ ListenerTypeOK' /\ ReturnedAlone'
<1>1. RegistryInv'
  BY ListenerActsOnRegistry, RegistryInvStep DEF ListenerInv
<1>2. CASE \E c \in Session : Accept(c) \/ Handle(c) \/ PeerGone(c)
  <2>. PICK c \in Session : Accept(c) \/ Handle(c) \/ PeerGone(c)
    BY <1>2
  <2>1. serve = "returned" => pc'[c] \in {"new", "done"}
    BY DEF ListenerInv, ReturnedAlone, Accept, Handle, PeerGone, HandshakeFails,
           HandshakeOk, HandleRegister, HandleWake, HandleUnregister, HandleClose,
           GoTo, listenerVars
  <2>2. ListenerTypeOK' /\ serve' = serve
    BY <1>1, HandlerStep DEF ListenerInv, ListenerTypeOK, RegistryInv
  <2>. QED
    BY <1>1, <2>1, <2>2, HandlerStep DEF ListenerInv, ReturnedAlone
<1>3. CASE ~\E c \in Session : Accept(c) \/ Handle(c) \/ PeerGone(c)
  BY <1>1, <1>3, OtherSteps
     DEF ListenerNext, ListenerInv, ListenerTypeOK, RegistryInv, ReturnedAlone
<1>. QED
  BY <1>2, <1>3

(* While c is being served nobody withdraws it or closes the registry.     *)
LEMMA ServedIsKept ==
  ASSUME ListenerInv, ListenerNext, NEW c \in Session,
         pc[c] \in {"serving", "unregister"}, pc'[c] \in {"serving", "unregister"}
  PROVE  KeepsEntriesOf(c)
<1>1. ASSUME NEW x \in Session, Accept(x) \/ Handle(x) \/ PeerGone(x)
      PROVE  KeepsEntriesOf(c)
  <2>1. CASE HandleUnregister(x)
    <3>1. x # c
      BY <2>1 DEF HandleUnregister, GoTo, ListenerInv, ListenerTypeOK
    <3>. QED
      BY <2>1, <3>1 DEF HandleUnregister, KeepsEntriesOf
  <2>2. CASE HandleClose(x)
    BY <2>2 DEF HandleClose, Die, isDead, registryVars, KeepsEntriesOf
  <2>3. CASE HandleRegister(x)
    BY <2>3 DEF HandleRegister, RegisterRefused, KeepsEntriesOf
  <2>4. CASE PeerGone(x)
    BY <2>4 DEF PeerGone, KeepsEntriesOf
  <2>5. CASE \/ Accept(x) \/ HandshakeFails(x) \/ HandleWake(x)
             \/ \E cert \in Cert : HandshakeOk(x, cert)
    BY <2>5 DEF Accept, HandshakeFails, HandleWake, HandshakeOk, KeepsEntriesOf
  <2>. QED
    BY <1>1, <2>1, <2>2, <2>3, <2>4, <2>5 DEF Handle
<1>2. ~MainCloses
  BY DEF MainCloses, ListenerInv, ReturnedAlone
<1>3. ASSUME NEW d \in Dial, UserOpen(d)
      PROVE  KeepsEntriesOf(c)
  BY <1>3 DEF UserOpen, OpenNext, KeepsEntriesOf
<1>4. CASE Cancel \/ Unbind \/ AcceptFails \/ ServeReturns
  BY <1>4 DEF Cancel, Unbind, AcceptFails, ServeReturns, KeepsEntriesOf
<1>. QED
  BY <1>1, <1>2, <1>3, <1>4 DEF ListenerNext

(* A tunnel is being served after a step only if it was before, or has     *)
(* just been registered.                                                   *)
LEMMA ServedBefore ==
  ASSUME ListenerInv, ListenerNext, NEW c \in Session, ~HandleRegister(c),
         pc'[c] \in {"serving", "unregister"}
  PROVE  pc[c] \in {"serving", "unregister"} /\ hosts'[c] = hosts[c]
<1>1. pc[c] \in {"serving", "unregister"}
  <2>1. CASE \E x \in Session : Accept(x) \/ Handle(x) \/ PeerGone(x)
    <3>. PICK x \in Session : Accept(x) \/ Handle(x) \/ PeerGone(x)
      BY <2>1
    <3>1. CASE x = c
      BY <3>1 DEF ListenerInv, ListenerTypeOK, Accept, Handle, PeerGone,
                  HandshakeFails, HandshakeOk, HandleWake, HandleUnregister,
                  HandleClose, GoTo, listenerVars
    <3>2. CASE x # c
      BY <3>2, HandlerStep DEF ListenerInv
    <3>. QED
      BY <3>1, <3>2
  <2>2. CASE ~\E x \in Session : Accept(x) \/ Handle(x) \/ PeerGone(x)
    BY <2>2, OtherSteps DEF ListenerInv, ListenerNext
  <2>. QED
    BY <2>1, <2>2
<1>. QED
  BY <1>1, NamesKept DEF Named

(* A serving tunnel keeps answering for its hosts.                         *)
LEMMA ServingStep ==
  ASSUME ListenerInv, ListenerNext
  PROVE  ServingOwnsItsHosts'
<1>. SUFFICES ASSUME NEW c \in Session, pc'[c] \in {"serving", "unregister"},
                     c \notin dead', NEW h \in Host, h \in Labels(hosts'[c])
              PROVE  tunnels'[h] = c
  BY DEF ServingOwnsItsHosts, isDead, Labels, Normalize
<1>0. (RegistryAction \/ UNCHANGED registryVars) /\ RegistryInv /\ TypeOK
  BY ListenerActsOnRegistry DEF ListenerInv, RegistryInv
<1>1. CASE HandleRegister(c)
  <2>1. RegisterOk(c, hosts[c]) /\ hosts'[c] = hosts[c]
    BY <1>1 DEF HandleRegister, GoTo, ListenerInv, ListenerTypeOK
  <2>. QED
    BY <1>0, <2>1, RegisterOkEffect
<1>2. CASE ~HandleRegister(c)
  <2>1. pc[c] \in {"serving", "unregister"} /\ hosts'[c] = hosts[c]
    BY <1>2, ServedBefore
  <2>2. c \notin dead
    BY <1>0, OwnerStep DEF registryVars
  <2>3. tunnels[h] = c
    BY <2>1, <2>2 DEF ListenerInv, ServingOwnsItsHosts, isDead
  <2>. QED
    BY <1>0, <2>1, <2>3, ServedIsKept, LiveEntryKept
<1>. QED
  BY <1>1, <1>2

(* An entry that appears is the registration of a handler's own hosts.     *)
LEMMA EntryOrigin ==
  ASSUME ListenerInv, ListenerNext, NEW h \in Host, NEW c \in Session,
         tunnels'[h] = c, tunnels[h] # c
  PROVE  HandleRegister(c) /\ RegisterOk(c, hosts[c]) /\ h \in Labels(hosts[c])
<1>0. c # None
  BY RegistryAssumption
<1>1. ASSUME NEW x \in Session, HandleRegister(x), RegisterOk(x, hosts[x])
      PROVE  x = c /\ h \in Labels(hosts[c])
  BY <1>0, <1>1 DEF RegisterOk, Evict
<1>2. ASSUME NEW x \in Session, HandleRegister(x), ~RegisterOk(x, hosts[x])
      PROVE  FALSE
  BY <1>0, <1>2 DEF HandleRegister, RegisterConflict, RegisterRefused, Evict,
                    registryVars
<1>3. ASSUME NEW x \in Session, ~HandleRegister(x),
             Accept(x) \/ Handle(x) \/ PeerGone(x)
      PROVE  FALSE
  BY <1>0, <1>3 DEF Accept, Handle, PeerGone, HandshakeOk, HandshakeFails,
                    HandleWake, HandleUnregister, HandleClose, Unregister, Evict,
                    Die, registryVars
<1>4. ASSUME NEW d \in Dial, UserOpen(d)
      PROVE  FALSE
  BY <1>0, <1>4 DEF UserOpen, OpenBegin, OpenCancelled, LookupRead, LookupCheck,
                    LookupScrub, OpenStream, CallDone, Evict
<1>5. ~(Cancel \/ Unbind \/ AcceptFails \/ ServeReturns)
  BY <1>0 DEF Cancel, Unbind, AcceptFails, ServeReturns, registryVars
<1>6. ~MainCloses
  BY <1>0 DEF MainCloses, CloseBegin
<1>. QED
  BY <1>1, <1>2, <1>3, <1>4, <1>5, <1>6 DEF ListenerNext

(* Every entry keeps the handler that will remove it.                      *)
LEMMA EntriesStep ==
  ASSUME ListenerInv, ListenerNext
  PROVE  EntriesHaveHandlers'
<1>. SUFFICES ASSUME NEW h \in Host, NEW c \in Session, tunnels'[h] = c
              PROVE  pc'[c] \in {"serving", "unregister"} /\ h \in Labels(hosts'[c])
  BY DEF EntriesHaveHandlers, Labels, Normalize
<1>0. ListenerTypeOK /\ c # None
  BY RegistryAssumption DEF ListenerInv
<1>1. CASE tunnels[h] # c
  <2>1. HandleRegister(c) /\ RegisterOk(c, hosts[c]) /\ h \in Labels(hosts[c])
    BY <1>1, EntryOrigin
  <2>2. ~RegisterConflict(c, hosts[c]) /\ ~RegisterRefused(hosts[c])
    BY <2>1 DEF RegisterOk, RegisterConflict, RegisterRefused
  <2>3. pc'[c] = "serving" /\ hosts' = hosts
    BY <1>0, <2>1, <2>2 DEF HandleRegister, GoTo, ListenerTypeOK
  <2>. QED
    BY <2>1, <2>3
<1>2. CASE tunnels[h] = c
  <2>1. pc[c] \in {"serving", "unregister"} /\ h \in Labels(hosts[c])
    BY <1>2 DEF ListenerInv, EntriesHaveHandlers
  <2>2. hosts'[c] = hosts[c]
    BY <2>1, NamesKept DEF Named
  <2>3. pc'[c] \in {"serving", "unregister"}
    <3>1. ASSUME Accept(c) \/ Handle(c) \/ PeerGone(c)
          PROVE  pc'[c] \in {"serving", "unregister"}
      BY <1>0, <2>1, <3>1
         DEF ListenerTypeOK, Accept, Handle, PeerGone, HandshakeFails,
             HandshakeOk, HandleRegister, HandleWake, HandleUnregister,
             Unregister, Evict, HandleClose, GoTo, listenerVars
    <3>2. ASSUME NEW x \in Session, x # c, Accept(x) \/ Handle(x) \/ PeerGone(x)
          PROVE  pc'[c] = pc[c]
      BY <1>0, <3>2, HandlerStep
    <3>. QED
      BY <1>0, <2>1, <3>1, <3>2, OtherSteps DEF ListenerNext
  <2>. QED
    BY <2>1, <2>2, <2>3
<1>. QED
  BY <1>1, <1>2

(* A call keeps holding a session that the target's certificate names.     *)
LEMMA CallNamedStep ==
  ASSUME ListenerInv, ListenerNext, NEW d \in Dial
  PROVE  CallNamed(d)'
<1>0. TypeOK /\ call[d].host \in Host \cup {Blank}
  BY DEF ListenerInv, RegistryInv, TypeOK
<1>1. CASE UserOpen(d)
  <2>1. UNCHANGED <<pc, hosts>>
    BY <1>1 DEF UserOpen, listenerVars
  <2>2. CASE LookupRead(d)
    <3>1. CASE Entry(call[d].host) = None
      BY <1>0, <2>2, <3>1 DEF LookupRead, Return, TypeOK, CallNamed
    <3>2. CASE Entry(call[d].host) # None
      <4>1. Entry(call[d].host) \in Session /\ call[d].host \in Host
        BY <1>0, <3>2, EntryType DEF Entry
      <4>2. /\ call'[d].session = Entry(call[d].host)
            /\ call'[d].host = call[d].host
        BY <1>0, <2>2, <3>2 DEF LookupRead, TypeOK
      <4>3. /\ Named(Entry(call[d].host))
            /\ call[d].host \in Labels(hosts[Entry(call[d].host)])
        BY <3>2, <4>1 DEF ListenerInv, EntriesHaveHandlers, Entry, Named
      <4>. QED
        BY <2>1, <4>1, <4>2, <4>3 DEF CallNamed, Named, Labels, Normalize
    <3>. QED
      BY <3>1, <3>2
  <2>3. CASE LookupCheck(d) \/ LookupScrub(d) \/ OpenStream(d)
    <3>1. /\ call'[d].session = call[d].session
          /\ call'[d].host = call[d].host
          /\ call[d].pc \in {"check", "scrub", "open"}
      BY <1>0, <2>3 DEF LookupCheck, LookupScrub, OpenStream, Return, TypeOK
    <3>. QED
      BY <2>1, <3>1 DEF ListenerInv, CallNamed, Named, Labels, Normalize
  <2>4. CASE (\E host \in Target : OpenBegin(d, host)) \/ OpenCancelled(d) \/ CallDone(d)
    BY <1>0, <2>4 DEF OpenBegin, OpenCancelled, CallDone, Return, Idle, TypeOK, CallNamed
  <2>. QED
    BY <1>1, <2>2, <2>3, <2>4 DEF UserOpen
<1>2. CASE ~UserOpen(d)
  <2>1. call'[d] = call[d]
    <3>1. ASSUME NEW e \in Dial, UserOpen(e)
          PROVE  call'[d] = call[d]
      BY <1>0, <1>2, <3>1, OtherCalls DEF UserOpen, OpenNext
    <3>2. ASSUME ~\E e \in Dial : UserOpen(e)
          PROVE  call' = call
      BY <3>2 DEF ListenerNext, Accept, Handle, PeerGone, HandshakeFails,
                  HandshakeOk, HandleRegister, HandleWake, HandleUnregister,
                  HandleClose, RegisterOk, RegisterConflict, RegisterRefused,
                  Unregister, Die, Cancel, Unbind, AcceptFails, ServeReturns,
                  MainCloses, CloseBegin, registryVars
    <3>. QED
      BY <3>1, <3>2
  <2>2. CASE call[d].pc \in {"check", "scrub", "open", "stream"}
    <3>. PICK s \in Session : s = call[d].session
      BY <2>2 DEF ListenerInv, CallNamed
    <3>1. Named(s) /\ call[d].host \in Labels(hosts[s])
      BY <2>2 DEF ListenerInv, CallNamed
    <3>2. Named(s)' /\ hosts'[s] = hosts[s]
      BY <3>1, NamesKept
    <3>. QED
      BY <2>1, <2>2, <3>1, <3>2 DEF CallNamed, Named, Labels, Normalize
  <2>3. CASE call[d].pc \notin {"check", "scrub", "open", "stream"}
    BY <2>1, <2>3 DEF CallNamed
  <2>. QED
    BY <2>2, <2>3
<1>. QED
  BY <1>1, <1>2

-----------------------------------------------------------------------------
(***************************************************************************)
(* The inductive invariant of the listener.  Neither half of the relation  *)
(* between entries and handlers is inductive without the other, and the    *)
(* routing of user sessions needs what a call in flight holds.             *)
(***************************************************************************)
THEOREM ListenerInvariant == ListenerSpec => []ListenerInv
<1>1. ListenerInit => ListenerInv
  <2>. SUFFICES ASSUME ListenerInit PROVE ListenerInv
    OBVIOUS
  <2>1. RegistryInv /\ TypeOK
    BY RegistryInvInit DEF ListenerInit, RegistryInv
  <2>2. ListenerTypeOK
    BY <2>1 DEF ListenerInit, ListenerTypeOK
  <2>. QED
    BY <2>1, <2>2, RegistryAssumption
       DEF ListenerInv, ListenerInit, Init, Idle, ServingOwnsItsHosts,
           EntriesHaveHandlers, CallNamed, ReturnedAlone
<1>2. ListenerInv /\ [ListenerNext]_allVars => ListenerInv'
  <2>1. ListenerInv /\ ListenerNext => ListenerInv'
    BY ListenerTypeStep, ServingStep, EntriesStep, CallNamedStep DEF ListenerInv
  <2>2. ListenerInv /\ UNCHANGED allVars => ListenerInv'
    <3>. SUFFICES ASSUME ListenerInv, UNCHANGED allVars PROVE ListenerInv'
      OBVIOUS
    <3>1. RegistryInv'
      BY DEF allVars, vars, registryVars, ListenerInv, RegistryInv, TypeOK,
             ClosedIsEmpty, CallInv, LiveOwner, Entry, isDead
    <3>2. ListenerTypeOK'
      BY DEF allVars, vars, registryVars, listenerVars, ListenerInv, ListenerTypeOK, TypeOK
    <3>3. ServingOwnsItsHosts' /\ EntriesHaveHandlers'
      BY DEF allVars, vars, registryVars, listenerVars, ListenerInv,
             ServingOwnsItsHosts, EntriesHaveHandlers, isDead
    <3>4. (\A d \in Dial : CallNamed(d))' /\ ReturnedAlone'
      BY DEF allVars, vars, registryVars, listenerVars, ListenerInv, CallNamed, Named,
             ReturnedAlone
    <3>. QED
      BY <3>1, <3>2, <3>3, <3>4 DEF ListenerInv
  <2>. QED
    BY <2>1, <2>2
<1>. QED
  BY <1>1, <1>2, PTL DEF ListenerSpec

(* Every variable of the listener keeps its type.                          *)
THEOREM ListenerTypes == ListenerSpec => []ListenerTypeOK
BY ListenerInvariant, PTL DEF ListenerInv

(***************************************************************************)
(* A tunnel whose handler is serving it and whose session is alive answers *)
(* for every host of its certificate, whatever other agents, reconnects    *)
(* and lookups do at the same time (the deferred Unregister of handleConn  *)
(* against the evictions of Register and Lookup).                          *)
(***************************************************************************)
THEOREM ServingTunnelsOwnTheirHosts == ListenerSpec => []ServingOwnsItsHosts
<1>1. ListenerInv => ServingOwnsItsHosts
  BY DEF ListenerInv
<1>. QED
  BY <1>1, ListenerInvariant, PTL

(***************************************************************************)
(* No entry outlives the handleConn goroutine that will unregister it, and *)
(* none is under a host its owner's certificate does not name.             *)
(***************************************************************************)
THEOREM NoOrphanEntries == ListenerSpec => []EntriesHaveHandlers
<1>1. ListenerInv => EntriesHaveHandlers
  BY DEF ListenerInv
<1>. QED
  BY <1>1, ListenerInvariant, PTL

(***************************************************************************)
(* A stream that Registry.Open returns to a user session leads to an agent *)
(* whose certificate names the host the user asked for.                    *)
(***************************************************************************)
THEOREM StreamsFollowCertificates == ListenerSpec => []RoutedByCertificate
<1>1. ListenerInv => RoutedByCertificate
  BY DEF ListenerInv, CallNamed, RoutedByCertificate
<1>. QED
  BY <1>1, ListenerInvariant, PTL

-----------------------------------------------------------------------------
(* The registry in use.                                                    *)

(***************************************************************************)
(* What Registry.Open answers is what the registry held at some moment of  *)
(* the call also when the calls come from handleConn goroutines, user      *)
(* sessions and the shutdown of the listener.                              *)
(***************************************************************************)
THEOREM ListenerOpensLinearizable == ListenerSpec => []OpenLinearizable
<1>1. ListenerInv => OpenLinearizable
  BY DEF ListenerInv, RegistryInv, CallInv, OpenLinearizable
<1>. QED
  BY <1>1, ListenerInvariant, PTL

(***************************************************************************)
(* When serve has returned, every handleConn has unregistered its tunnel:  *)
(* runServe's deferred registry.Close finds no entry.                      *)
(***************************************************************************)
THEOREM ReturnedServeLeavesNoEntry ==
  ListenerSpec => [](serve = "returned" => \A h \in Host : tunnels[h] = None)
<1>1. ListenerInv => (serve = "returned" => \A h \in Host : tunnels[h] = None)
  <2>. SUFFICES ASSUME ListenerInv, serve = "returned", NEW h \in Host
                PROVE  tunnels[h] = None
    OBVIOUS
  <2>1. tunnels[h] \in Session \cup {None}
    BY DEF ListenerInv, RegistryInv, TypeOK
  <2>2. ASSUME NEW c \in Session PROVE tunnels[h] # c
    BY DEF ListenerInv, ReturnedAlone, EntriesHaveHandlers
  <2>. QED
    BY <2>1, <2>2
<1>. QED
  BY <1>1, ListenerInvariant, PTL

(***************************************************************************)
(* The listener, its tunnels and the users together implement the          *)
(* directory of live owners: every step of theirs is a claim, a departure, *)
(* the closing of the directory or nothing to it.                          *)
(***************************************************************************)
THEOREM ListenerImplementsDirectory == ListenerSpec => ImplementsDirectory
<1>1. ListenerInit => Directory!Init
  BY RegistryAssumption DEF ListenerInit, Init, Directory!Init, LiveOwner, Entry
<1>2. ListenerInv /\ [ListenerNext]_allVars => [Directory!Next]_Directory!vars
  <2>1. ASSUME ListenerInv, ListenerNext
        PROVE  [Directory!Next]_Directory!vars
    <3>1. CASE RegistryAction
      BY <2>1, <3>1, RegistryRefines DEF ListenerInv
    <3>2. CASE UNCHANGED registryVars
      BY <3>2, DirectoryStutter DEF registryVars, LiveOwner, Entry, isDead
    <3>. QED
      BY <2>1, <3>1, <3>2, ListenerActsOnRegistry
  <2>2. UNCHANGED allVars => UNCHANGED Directory!vars
    BY DirectoryStutter DEF allVars, vars, LiveOwner, Entry, isDead
  <2>. QED
    BY <2>1, <2>2
<1>. QED
  BY <1>1, <1>2, ListenerInvariant, PTL DEF ListenerSpec, ImplementsDirectory, Directory!Spec

(***************************************************************************)
(* A connection has hosts from its handshake on, and its handler does not  *)
(* end without having closed the session.                                  *)
(***************************************************************************)
DoneIsClosed ==
  \A c \in Session :
    /\ pc[c] \in {"new", "handshake"} => hosts[c] = << >>
    /\ pc[c] = "done" /\ hosts[c] # << >> => isDead(c)

LEMMA DoneIsClosedStep ==
  ASSUME ListenerTypeOK, DoneIsClosed, [ListenerNext]_allVars
  PROVE  DoneIsClosed'
<1>1. /\ pc \in [Session -> {"new", "handshake", "register", "serving",
                             "unregister", "close", "done"}]
      /\ hosts \in [Session -> {<< >>} \cup {HostFromSPIFFE(c) : c \in Cert}]
  BY DEF ListenerTypeOK
<1>2. ASSUME NEW c \in Session, Accept(c) \/ HandshakeFails(c) \/ HandleWake(c)
      PROVE  DoneIsClosed'
  BY <1>1, <1>2 DEF Accept, HandshakeFails, HandleWake, GoTo, DoneIsClosed, registryVars, isDead
<1>3. ASSUME NEW c \in Session, NEW cert \in Cert, HandshakeOk(c, cert)
      PROVE  DoneIsClosed'
  BY <1>1, <1>3 DEF HandshakeOk, GoTo, DoneIsClosed, registryVars, isDead
<1>4. ASSUME NEW c \in Session, HandleRegister(c) \/ HandleUnregister(c)
      PROVE  DoneIsClosed'
  <2>1. dead' = dead /\ hosts' = hosts
    BY <1>4 DEF HandleRegister, HandleUnregister, RegisterOk, RegisterConflict,
                RegisterRefused, Unregister, registryVars
  <2>2. \E p \in {"serving", "close"} : pc' = [pc EXCEPT ![c] = p]
    BY <1>4 DEF HandleRegister, HandleUnregister, GoTo
  <2>. QED
    BY <1>1, <2>1, <2>2 DEF DoneIsClosed, isDead
<1>5. ASSUME NEW c \in Session, HandleClose(c)
      PROVE  DoneIsClosed'
  BY <1>1, <1>5 DEF HandleClose, GoTo, DoneIsClosed, isDead
<1>6. ASSUME UNCHANGED <<pc, hosts>>, dead \subseteq dead'
      PROVE  DoneIsClosed'
  BY <1>6 DEF DoneIsClosed, isDead
<1>7. ASSUME NEW c \in Session, PeerGone(c)
      PROVE  DoneIsClosed'
  BY <1>6, <1>7 DEF PeerGone, Die, listenerVars
<1>8. ASSUME NEW d \in Dial, UserOpen(d)
      PROVE  DoneIsClosed'
  <2>1. dead' = dead
    BY <1>8 DEF UserOpen, OpenBegin, OpenCancelled, LookupRead, LookupCheck, LookupScrub,
                OpenStream, CallDone
  <2>. QED
    BY <1>6, <1>8, <2>1 DEF UserOpen, listenerVars
<1>9. CASE Cancel \/ Unbind \/ AcceptFails \/ ServeReturns
  BY <1>6, <1>9 DEF Cancel, Unbind, AcceptFails, ServeReturns, registryVars
<1>10. CASE MainCloses
  BY <1>6, <1>10 DEF MainCloses, CloseBegin, listenerVars
<1>11. CASE UNCHANGED allVars
  BY <1>6, <1>11 DEF allVars, vars, listenerVars
<1>. QED
  BY <1>2, <1>3, <1>4, <1>5, <1>7, <1>8, <1>9, <1>10, <1>11 DEF ListenerNext, Handle

(***************************************************************************)
(* The safety half of ShutdownCompletes: serve does not return before      *)
(* every session it created is closed.                                     *)
(***************************************************************************)
THEOREM ReturnedServeClosedAll ==
  ListenerSpec =>
    [](serve = "returned" => \A c \in Session : hosts[c] # << >> => isDead(c))
<1>1. ListenerInit => DoneIsClosed
  BY DEF ListenerInit, DoneIsClosed
<1>2. ListenerInv /\ DoneIsClosed /\ [ListenerNext]_allVars => DoneIsClosed'
  BY DoneIsClosedStep DEF ListenerInv
<1>3. ListenerInv /\ DoneIsClosed =>
        (serve = "returned" => \A c \in Session : hosts[c] # << >> => isDead(c))
  BY DEF ListenerInv, ReturnedAlone, DoneIsClosed
<1>. QED
  BY <1>1, <1>2, <1>3, ListenerInvariant, PTL DEF ListenerSpec
=============================================================================
