------------------------ MODULE RevocationCheckProofs ------------------------
(***************************************************************************)
(* Proofs about the revocation checker, for any certificates, lists and    *)
(* number of concurrent handshakes.                                        *)
(***************************************************************************)
EXTENDS RevocationCheck, SequenceTheorems, WellFoundedInduction, TLAPS

(***************************************************************************)
(* The maps are the index of the last snapshot except during a swap, and   *)
(* then nobody reads them; a reader's history is what that snapshot says.  *)
(***************************************************************************)
MapsInv ==
  /\ poller # "swapping" => bySerial = Serials(loaded) /\ byKeyID = KeyIDs(loaded)
  /\ poller = "swapping" => /\ bySerial = Serials(answer)
                            /\ \A u \in User : ~Reading(u)

ReaderInv(u) ==
  LET c == Presented(u) IN
  /\ Reading(u) => all[u] = Lists(loaded, c) /\ some[u] = Lists(loaded, c)
  /\ check[u].pc = "keyid" => c.serial \notin bySerial
  /\ check[u].pc \notin {"idle", "refused"} => Presentable(check[u].try)
  /\ check[u].pc = "admitted" => ~all[u] /\ Acceptable(check[u].try)
  /\ check[u].pc = "refused" /\ Presentable(check[u].try) /\ Acceptable(check[u].try) =>
       some[u]

CheckInv == TypeOK /\ MapsInv /\ \A u \in User : ReaderInv(u)

-----------------------------------------------------------------------------
(* The maps of a snapshot answer exactly what the snapshot says.           *)
LEMMA IndexIsFaithful ==
  ASSUME NEW S \in SUBSET Listing,
         NEW c, c.serial \in Serial \cup {Zero}, c.keyId \in KeyId \cup {Zero}
  PROVE  /\ Lists(S, c) <=> c.serial \in Serials(S) \/ c.keyId \in KeyIDs(S)
         /\ Lists(S, c) \in BOOLEAN
         /\ Serials(S) \subseteq Serial /\ KeyIDs(S) \subseteq KeyId
BY RevocationAssumption DEF Lists, Serials, KeyIDs

LEMMA CheckInvInit == Init => CheckInv
<1>. SUFFICES ASSUME Init PROVE CheckInv
  OBVIOUS
<1>1. Idle \in [pc : {"idle"}, try : Attempt]
  BY RevocationAssumption DEF Idle
<1>2. TypeOK
  BY <1>1 DEF Init, TypeOK
<1>3. Serials({}) = {} /\ KeyIDs({}) = {}
  BY DEF Serials, KeyIDs
<1>. QED
  BY <1>1, <1>2, <1>3 DEF Init, CheckInv, MapsInv, ReaderInv, Presented, Reading

(* Every step keeps the types.                                             *)
LEMMA CheckTypes ==
  ASSUME TypeOK, Next
  PROVE  TypeOK'
<1>1. CASE \E S \in SUBSET Listing : CertdLists(S)
  BY <1>1 DEF CertdLists, TypeOK, pollVars, history
<1>2. CASE Poll
  <2>1. Serials(answer) \subseteq Serial /\ KeyIDs(answer) \subseteq KeyId
    BY RevocationAssumption, IndexIsFaithful DEF TypeOK
  <2>2. \A u \in User : Lists(answer, Presented(u)) \in BOOLEAN
    BY DEF Lists
  <2>3. CASE SwapKeyID
    <3>1. all' \in [User -> BOOLEAN] /\ some' \in [User -> BOOLEAN]
      BY <2>2, <2>3 DEF SwapKeyID, TypeOK
    <3>. QED
      BY <2>1, <2>3, <3>1 DEF SwapKeyID, TypeOK
  <2>4. CASE SwapSerial
    BY <2>1, <2>4 DEF SwapSerial, TypeOK, history
  <2>5. CASE FetchSend \/ FetchOk \/ FetchFails \/ RefreshFailed \/ Tick \/ RunReturns
    BY <2>5 DEF FetchSend, FetchOk, FetchFails, RefreshFailed, Tick, RunReturns,
                TypeOK, history
  <2>. QED
    BY <1>2, <2>3, <2>4, <2>5 DEF Poll
<1>3. CASE Cancel
  BY <1>3 DEF Cancel, TypeOK, pollVars, history
<1>4. ASSUME NEW u \in User, Handshake(u)
      PROVE  TypeOK'
  <2>1. Lists(loaded, Presented(u)) \in BOOLEAN
    BY DEF Lists
  <2>2. Idle \in [pc : {"idle"}, try : Attempt]
    BY RevocationAssumption DEF Idle
  <2>3. CASE \E a \in Attempt : Present(u, a)
    BY <2>3 DEF Present, TypeOK, pollVars, history
  <2>4. CASE CheckLock(u)
    BY <2>1, <2>4 DEF CheckLock, Goto, TypeOK, pollVars
  <2>5. CASE CheckNil(u)
    BY <2>5 DEF CheckNil, TypeOK, pollVars, history
  <2>6. CASE ReadSerial(u) \/ ReadKeyID(u)
    BY <2>6 DEF ReadSerial, ReadKeyID, Goto, TypeOK, pollVars, history
  <2>7. CASE Leave(u)
    BY <2>2, <2>7 DEF Leave, TypeOK, pollVars
  <2>. QED
    BY <1>4, <2>3, <2>4, <2>5, <2>6, <2>7 DEF Handshake
<1>. QED
  BY <1>1, <1>2, <1>3, <1>4 DEF Next

(* A step of the poller leaves what a handshake has learnt intact: it      *)
(* changes the maps only when nobody reads them.                           *)
LEMMA PollStep ==
  ASSUME CheckInv, Poll
  PROVE  MapsInv' /\ \A u \in User : ReaderInv(u)'
<1>1. CASE SwapSerial
  BY <1>1 DEF SwapSerial, history, CheckInv, MapsInv, ReaderInv, Presented, Reading
<1>2. CASE SwapKeyID
  <2>1. \A u \in User : ~Reading(u) /\ ~Reading(u)'
    BY <1>2 DEF SwapKeyID, CheckInv, MapsInv, Reading
  <2>2. \A u \in User : all'[u] = all[u] /\ some'[u] = some[u]
    BY <1>2, <2>1 DEF SwapKeyID
  <2>3. MapsInv'
    BY <1>2 DEF SwapKeyID, CheckInv, MapsInv
  <2>. QED
    BY <1>2, <2>1, <2>2, <2>3 DEF SwapKeyID, CheckInv, ReaderInv, Presented, Reading
<1>3. CASE FetchSend \/ FetchOk \/ FetchFails \/ RefreshFailed \/ Tick \/ RunReturns
  <2>1. /\ poller # "swapping" /\ poller' # "swapping"
        /\ UNCHANGED <<bySerial, byKeyID, check, loaded, all, some>>
    BY <1>3 DEF FetchSend, FetchOk, FetchFails, RefreshFailed, Tick, RunReturns, history
  <2>. QED
    BY <2>1 DEF CheckInv, MapsInv, ReaderInv, Presented, Reading
<1>. QED
  BY <1>1, <1>2, <1>3 DEF Poll

(* A handshake takes the read lock, reads both maps and decides.           *)
LEMMA HandshakeStep ==
  ASSUME CheckInv, NEW u \in User, Handshake(u)
  PROVE  ReaderInv(u)'
<1>0. /\ check[u].try \in Attempt /\ loaded \in SUBSET Listing
      /\ check \in [User -> [pc : {"idle", "ask", "serial", "keyid", "refused", "admitted"},
                         try : Attempt]]
      /\ all \in [User -> BOOLEAN] /\ some \in [User -> BOOLEAN]
      /\ bySerial \subseteq Serial /\ byKeyID \subseteq KeyId
  BY DEF CheckInv, TypeOK
<1>1. Reading(u) => bySerial = Serials(loaded) /\ byKeyID = KeyIDs(loaded)
  BY DEF CheckInv, MapsInv
<1>2. /\ Lists(loaded, Presented(u)) <=>
           \/ Presented(u).serial \in Serials(loaded)
           \/ Presented(u).keyId \in KeyIDs(loaded)
      /\ Zero \notin Serials(loaded) /\ Zero \notin KeyIDs(loaded)
  BY <1>0, IndexIsFaithful, RevocationAssumption DEF Presented, Serials, KeyIDs
<1>3. CASE \E a \in Attempt : Present(u, a)
  BY <1>0, <1>3 DEF Present, pollVars, history, ReaderInv, Presented, Reading
<1>4. CASE CheckLock(u)
  <2>1. /\ check'[u].pc = "serial" /\ check'[u].try = check[u].try
        /\ all'[u] = Lists(loaded, Presented(u))
        /\ some'[u] = Lists(loaded, Presented(u))
        /\ loaded' = loaded
        /\ Presentable(check[u].try)
    BY <1>0, <1>4 DEF CheckLock, Goto, CheckInv, ReaderInv
  <2>. QED
    BY <2>1 DEF ReaderInv, Presented, Lists
<1>5. CASE CheckNil(u)
  BY <1>5 DEF CheckNil, pollVars, history, CheckInv, ReaderInv, Presented, Reading, Lists
<1>6. CASE ReadSerial(u)
  <2>1. /\ Reading(u) /\ check'[u].try = check[u].try
        /\ check'[u].pc = IF Presented(u).serial \in bySerial \ {Zero} THEN "refused"
                           ELSE "keyid"
        /\ UNCHANGED <<loaded, all, some, bySerial>>
    BY <1>0, <1>6 DEF ReadSerial, Goto, Reading, pollVars, history
  <2>2. /\ all[u] = Lists(loaded, Presented(u)) /\ some[u] = Lists(loaded, Presented(u))
        /\ Presentable(check[u].try)
    BY <2>1 DEF CheckInv, ReaderInv, Reading
  <2>3. CASE Presented(u).serial \in bySerial
    BY <1>1, <1>2, <2>1, <2>2, <2>3 DEF ReaderInv, Presented, Reading
  <2>4. CASE Presented(u).serial \notin bySerial
    BY <2>1, <2>2, <2>4 DEF ReaderInv, Presented, Reading, Lists
  <2>. QED
    BY <2>3, <2>4
<1>7. CASE ReadKeyID(u)
  <2>1. /\ Reading(u) /\ check'[u].try = check[u].try
        /\ check'[u].pc = IF \/ Presented(u).keyId \in byKeyID \ {Zero}
                             \/ ~Acceptable(check[u].try)
                          THEN "refused" ELSE "admitted"
        /\ UNCHANGED <<all, some>>
    BY <1>0, <1>7 DEF ReadKeyID, Goto, Reading, history
  <2>2. /\ all[u] = Lists(loaded, Presented(u))
        /\ some[u] = Lists(loaded, Presented(u))
        /\ Presented(u).serial \notin bySerial
        /\ Presentable(check[u].try)
    BY <1>7, <2>1 DEF CheckInv, ReaderInv, ReadKeyID
  <2>3. CASE Presented(u).keyId \in byKeyID
    BY <1>1, <1>2, <2>1, <2>2, <2>3 DEF ReaderInv, Presented, Reading
  <2>4. CASE Presented(u).keyId \notin byKeyID
    BY <1>1, <1>2, <2>1, <2>2, <2>4 DEF ReaderInv, Presented, Reading
  <2>. QED
    BY <2>3, <2>4
<1>8. CASE Leave(u)
  <2>1. check'[u].pc = "idle"
    BY <1>0, <1>8 DEF Leave, Idle
  <2>. QED
    BY <2>1 DEF ReaderInv, Presented, Reading
<1>. QED
  BY <1>3, <1>4, <1>5, <1>6, <1>7, <1>8 DEF Handshake

(* A handshake changes neither the maps nor what the others have learnt,   *)
(* and starts reading only while no swap is under way.                     *)
LEMMA HandshakeFrame ==
  ASSUME CheckInv, NEW u \in User, Handshake(u)
  PROVE  MapsInv' /\ \A v \in User \ {u} : ReaderInv(v)'
<1>0. TypeOK
  BY DEF CheckInv
<1>1. UNCHANGED <<poller, answer, bySerial, byKeyID, loaded>>
  BY DEF Handshake, Present, CheckLock, CheckNil, ReadSerial, ReadKeyID, Leave,
         pollVars, history
<1>2. ASSUME NEW v \in User \ {u}
      PROVE  check'[v] = check[v] /\ all'[v] = all[v] /\ some'[v] = some[v]
  <2>1. CASE \E a \in Attempt : Present(u, a)
    BY <1>0, <2>1 DEF Present, history, TypeOK
  <2>2. CASE CheckLock(u)
    BY <1>0, <2>2 DEF CheckLock, Goto, TypeOK
  <2>3. CASE CheckNil(u) \/ ReadSerial(u) \/ ReadKeyID(u)
    BY <1>0, <2>3 DEF CheckNil, ReadSerial, ReadKeyID, Goto, history, TypeOK
  <2>4. CASE Leave(u)
    BY <1>0, <2>4 DEF Leave, TypeOK
  <2>. QED
    BY <2>1, <2>2, <2>3, <2>4 DEF Handshake
<1>3. Reading(u)' => poller # "swapping"
  BY <1>0 DEF Handshake, Present, CheckLock, CheckNil, ReadSerial, ReadKeyID,
              Leave, Idle, Goto, Reading, WriterWaits, CheckInv, MapsInv, TypeOK
<1>4. MapsInv'
  BY <1>1, <1>2, <1>3 DEF CheckInv, MapsInv, Reading
<1>5. ASSUME NEW v \in User \ {u}
      PROVE  ReaderInv(v)'
  <2>1. ReaderInv(v)
    BY DEF CheckInv
  <2>2. Lists(loaded, Presented(v))' = Lists(loaded, Presented(v))
    BY <1>1, <1>2 DEF Lists, Presented
  <2>. QED
    BY <1>1, <1>2, <2>1, <2>2 DEF ReaderInv, Presented, Reading
<1>. QED
  BY <1>4, <1>5

(***************************************************************************)
(* The invariant of the checker, from which the theorem below follows.     *)
(***************************************************************************)
THEOREM CheckInvariant == Spec => []CheckInv
<1>1. CheckInv /\ [Next]_vars => CheckInv'
  <2>. SUFFICES ASSUME CheckInv, [Next]_vars PROVE CheckInv'
    OBVIOUS
  <2>1. CASE Poll /\ Next
    BY <2>1, PollStep, CheckTypes DEF CheckInv
  <2>2. ASSUME NEW u \in User, Handshake(u), Next
        PROVE  CheckInv'
    BY <2>2, HandshakeStep, HandshakeFrame, CheckTypes DEF CheckInv
  <2>3. CASE Next /\ (Cancel \/ \E S \in SUBSET Listing : CertdLists(S))
    <3>1. UNCHANGED <<pollVars, check, history>>
      BY <2>3 DEF Cancel, CertdLists
    <3>. QED
      BY <2>3, <3>1, CheckTypes
         DEF CheckInv, MapsInv, ReaderInv, Presented, Reading, Lists, pollVars, history
  <2>4. CASE UNCHANGED vars
    <3>1. TypeOK'
      BY <2>4 DEF vars, pollVars, history, CheckInv, TypeOK
    <3>2. MapsInv'
      BY <2>4 DEF vars, pollVars, history, CheckInv, MapsInv, Reading
    <3>3. ASSUME NEW u \in User PROVE ReaderInv(u)'
      BY <2>4 DEF vars, pollVars, history, CheckInv, ReaderInv, Presented, Reading, Lists
    <3>. QED
      BY <3>1, <3>2, <3>3 DEF CheckInv
  <2>. QED
    BY <2>1, <2>2, <2>3, <2>4 DEF Next
<1>. QED
  BY <1>1, CheckInvInit, PTL DEF Spec

(***************************************************************************)
(* IsRevoked answers for one snapshot of certd's list, with any number of  *)
(* handshakes and refreshes interleaved and fetches failing.               *)
(***************************************************************************)
THEOREM DecisionsMatchSnapshots == Spec => []DecisionMatchesSnapshot
<1>1. CheckInv => DecisionMatchesSnapshot
  BY DEF CheckInv, ReaderInv, Presented, DecisionMatchesSnapshot
<1>. QED
  BY <1>1, CheckInvariant, PTL

(***************************************************************************)
(* The variables of the checker and of the handshakes keep their types.    *)
(***************************************************************************)
THEOREM CheckerTyped == Spec => []TypeOK
BY CheckInvariant, PTL DEF CheckInv

-----------------------------------------------------------------------------
LEMMA LessThanWellFounded == IsWellFoundedOn({p \in Nat \X Nat : p[1] < p[2]}, Nat)
BY NatLessThanWellFounded DEF OpToRel

(* A login name with an "@" has a last one.                                *)
LEMMA LastAtExists ==
  ASSUME NEW login \in Seq(STRING), Ats(login) # {}
  PROVE  /\ LastAt(login) \in Ats(login)
         /\ \A j \in Ats(login) : j <= LastAt(login)
<1>. DEFINE T == {Len(login) - i : i \in Ats(login)}
<1>1. Ats(login) \subseteq 1..Len(login) /\ Len(login) \in Nat
  BY DEF Ats
<1>2. T \subseteq Nat /\ T # {}
  BY <1>1
<1>3. PICK x \in T : \A y \in T : ~(<<y, x>> \in {p \in Nat \X Nat : p[1] < p[2]})
  BY <1>2, LessThanWellFounded, WFMin
<1>4. \A y \in T : x <= y
  <2>. SUFFICES ASSUME NEW y \in T PROVE x <= y
    OBVIOUS
  <2>1. x \in Nat /\ y \in Nat
    BY <1>2
  <2>2. ~(y < x)
    BY <1>3, <2>1
  <2>. QED
    BY <2>1, <2>2
<1>5. PICK i \in Ats(login) : x = Len(login) - i
  OBVIOUS
<1>6. \A j \in Ats(login) : j <= i
  <2>. SUFFICES ASSUME NEW j \in Ats(login) PROVE j <= i
    OBVIOUS
  <2>1. Len(login) - i <= Len(login) - j
    BY <1>4, <1>5
  <2>. QED
    BY <1>1, <2>1
<1>. QED
  BY <1>6 DEF LastAt

(* The two parts of a login name make it up again, and the second part has *)
(* no "@".                                                                 *)
LEMMA ParseTargetSplits ==
  ASSUME NEW login \in Seq(STRING), Ats(login) # {}
  PROVE  LET t == ParseTarget(login)
         IN  /\ t.user \o <<At>> \o t.host = login
             /\ \A i \in DOMAIN t.host : t.host[i] # At
<1>. DEFINE n == LastAt(login)
            u == SubSeq(login, 1, n - 1)
            h == SubSeq(login, n + 1, Len(login))
<1>1. /\ n \in 1..Len(login) /\ login[n] = At
      /\ \A j \in 1..Len(login) : login[j] = At => j <= n
  BY LastAtExists DEF Ats
<1>. HIDE DEF n
<1>0. n \in Nat /\ Len(login) \in Nat
  BY <1>1
<1>2. /\ u \in Seq(STRING) /\ Len(u) = n - 1
      /\ \A i \in 1..(n - 1) : u[i] = login[i]
  BY <1>1
<1>3. /\ h \in Seq(STRING) /\ Len(h) = Len(login) - n
      /\ \A i \in 1..(Len(login) - n) : h[i] = login[n + i]
  BY <1>1
<1>. HIDE DEF u, h
<1>4. \A i \in DOMAIN h : h[i] # At
  BY <1>1, <1>3
<1>5. u \o <<At>> \o h = login
  <2>. DEFINE w == u \o <<At>>
  <2>1. /\ w \in Seq(STRING) /\ Len(w) = n
        /\ \A i \in 1..n : w[i] = login[i]
    BY <1>1, <1>2 DEF At
  <2>. HIDE DEF w
  <2>2. w \o h \in Seq(STRING) /\ Len(w \o h) = Len(login)
    <3>1. w \o h \in Seq(STRING) /\ Len(w \o h) = Len(w) + Len(h)
      BY <1>3, <2>1, ConcatProperties
    <3>2. Len(w \o h) = n + (Len(login) - n)
      BY <1>3, <2>1, <3>1
    <3>. QED
      BY <1>0, <3>1, <3>2
  <2>3. ASSUME NEW i \in 1..Len(login)
        PROVE  (w \o h)[i] = login[i]
    <3>1. CASE i <= n
      BY <1>1, <1>3, <2>1, <3>1
    <3>2. CASE i > n
      <4>1. (w \o h)[i] = h[i - n]
        BY <1>1, <1>3, <2>1, <3>2
      <4>2. h[i - n] = login[n + (i - n)]
        BY <1>1, <1>3, <3>2
      <4>. QED
        BY <1>1, <3>2, <4>1, <4>2
    <3>3. i <= n \/ i > n
      BY <1>0
    <3>. QED
      BY <3>1, <3>2, <3>3
  <2>4. w \o h = login
    BY <2>2, <2>3, SeqEqual
  <2>. QED
    BY <2>4 DEF w
<1>. QED
  BY <1>4, <1>5 DEF ParseTarget, n, u, h

(* The connection's permissions: what the certificate says, but for the    *)
(* attribution, which is the handshake's.                                  *)
LEMMA GrantedExtensions ==
  ASSUME NEW a \in Attempt
  PROVE  /\ Granted(a).ext.remote_user = ParseTarget(a.login).user
         /\ Granted(a).ext.target_host = ParseTarget(a.login).host
         /\ Granted(a).ext.key_id = a.cert.keyId
         /\ "permit-pty" \in DOMAIN Granted(a).ext <=>
              "permit-pty" \in DOMAIN a.cert.perms.ext
         /\ "permit-port-forwarding" \in DOMAIN Granted(a).ext <=>
              "permit-port-forwarding" \in DOMAIN a.cert.perms.ext
<1>1. Granted(a).ext = WriteOver(Attribution(a), a.cert.perms.ext)
  BY RevocationAssumption DEF Granted
<1>2. DOMAIN Attribution(a) = {"key_id", "principals", "serial", "remote_user", "target_host"}
  BY DEF Attribution
<1>3. /\ DOMAIN Granted(a).ext = DOMAIN Attribution(a) \cup DOMAIN a.cert.perms.ext
      /\ \A x \in DOMAIN Attribution(a) : Granted(a).ext[x] = Attribution(a)[x]
  BY <1>1 DEF WriteOver
<1>4. /\ Granted(a).ext.remote_user = Attribution(a).remote_user
      /\ Granted(a).ext.target_host = Attribution(a).target_host
      /\ Granted(a).ext.key_id = Attribution(a).key_id
  BY <1>2, <1>3
<1>. QED
  BY <1>2, <1>3, <1>4 DEF Attribution

(***************************************************************************)
(* Every admitted session goes by the login name the user typed and the    *)
(* certificate vouches for, whatever the name, the certificate's           *)
(* extensions and the handshakes around it.                                *)
(***************************************************************************)
THEOREM SessionsAsCertified == Spec => []SessionIsAsCertified
<1>1. CheckInv => SessionIsAsCertified
  <2>. SUFFICES ASSUME CheckInv, NEW u \in User, check[u].pc = "admitted"
                PROVE  LET session == Granted(check[u].try)
                           user    == session.ext.remote_user
                           host    == session.ext.target_host
                       IN  /\ user \o <<At>> \o host = check[u].try.login
                           /\ \A i \in DOMAIN host : host[i] # At
                           /\ user \in Presented(u).principals
                           /\ session.ext.key_id = Presented(u).keyId
                           /\ PermitsPTY(session) = PermitsPTY(Presented(u).perms)
                           /\ PermitsPortForwarding(session) =
                                PermitsPortForwarding(Presented(u).perms)
    BY DEF SessionIsAsCertified
  <2>1. /\ check[u].try \in Attempt
        /\ Presentable(check[u].try) /\ Acceptable(check[u].try)
    BY DEF CheckInv, TypeOK, ReaderInv
  <2>2. Ats(check[u].try.login) # {} /\ check[u].try.login \in Seq(STRING)
    BY <2>1, RevocationAssumption DEF Presentable, HasTarget
  <2>3. ParseTarget(check[u].try.login).user \in Presented(u).principals
    BY <2>1 DEF Acceptable, CheckCert, Presented
  <2>. DEFINE a == check[u].try
              t == ParseTarget(a.login)
  <2>4. t.user \o <<At>> \o t.host = a.login /\ \A i \in DOMAIN t.host : t.host[i] # At
    BY <2>2, ParseTargetSplits
  <2>5. /\ Granted(a).ext.remote_user = t.user /\ Granted(a).ext.target_host = t.host
        /\ Granted(a).ext.key_id = a.cert.keyId
        /\ PermitsPTY(Granted(a)) = PermitsPTY(a.cert.perms)
        /\ PermitsPortForwarding(Granted(a)) = PermitsPortForwarding(a.cert.perms)
    BY <2>1, GrantedExtensions DEF PermitsPTY, PermitsPortForwarding, hasExtension
  <2>. HIDE DEF t
  <2>. QED
    BY <2>3, <2>4, <2>5 DEF Presented, t
<1>. QED
  BY <1>1, CheckInvariant, PTL
=============================================================================
