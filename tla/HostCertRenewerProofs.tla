----------------------- MODULE HostCertRenewerProofs -----------------------
(***************************************************************************)
(* Proofs about the renewal of host certificates, for any lifetimes,       *)
(* backdating, fraction, floor and backoff.  The properties are one        *)
(* induction: what is on disk depends on where a crash may have left the   *)
(* temporary file, and its freshness on how long Run still waits.          *)
(***************************************************************************)
EXTENDS HostCertRenewer, TLAPS

(* A proper fraction of a positive lifetime, rounded down, is shorter.     *)
LEMMA FractionShorter ==
  ASSUME NEW x \in Nat, x > 0
  PROVE  /\ (x * FracNum) \div FracDen \in Int
         /\ (x * FracNum) \div FracDen < x
<1> DEFINE q == (x * FracNum) \div FracDen
<1>1. /\ FracNum \in Nat /\ FracDen \in Nat /\ 0 < FracNum /\ FracNum < FracDen
  BY RenewerAssumption
<1>2. x * FracNum \in Nat
  BY <1>1
<1>3. q \in Int /\ FracDen * q <= x * FracNum
  BY <1>1, <1>2
<1>4. x * FracNum < x * FracDen
  BY <1>1
<1>5. ASSUME q >= x PROVE FALSE
  <2>1. FracDen * q >= FracDen * x
    BY <1>1, <1>3, <1>5
  <2> QED
    BY <1>1, <1>2, <1>3, <1>4, <2>1
<1> QED
  BY <1>3, <1>5

(* The wait until the next renewal is at least the floor; and it ends      *)
(* before a certificate does that outlasts the floor.                      *)
LEMMA DelayBound ==
  ASSUME NEW c \in Cert, now \in Nat, c.after <= now, c.after <= c.before
  PROVE  /\ nextRenewalDelay(c) \in Nat
         /\ c.before - now > MinRenewInterval => now + nextRenewalDelay(c) < c.before
<1> DEFINE l == c.before - c.after
           r == (l * FracNum) \div FracDen
<1>1. c.after \in Int /\ c.before \in Int /\ l \in Nat
  BY DEF Cert
<1>2. MinRenewInterval \in Nat \ {0} /\ FracNum \in Nat /\ FracDen \in Nat \ {0}
  BY RenewerAssumption
<1>3. r \in Int
  <2>1. l * FracNum \in Int
    BY <1>1, <1>2
  <2> QED
    BY <1>2, <2>1
<1>4. l > 0 => r < l
  BY <1>1, FractionShorter
<1>5. nextRenewalDelay(c) = IF c.after + r - now < MinRenewInterval
                            THEN MinRenewInterval ELSE c.after + r - now
  BY DEF nextRenewalDelay
<1> HIDE DEF r
<1>6. nextRenewalDelay(c) \in Nat
  BY <1>1, <1>2, <1>3, <1>5
<1>7. ASSUME c.before - now > MinRenewInterval
      PROVE  now + nextRenewalDelay(c) < c.before
  BY <1>1, <1>2, <1>3, <1>4, <1>5, <1>7
<1> QED
  BY <1>6, <1>7

-----------------------------------------------------------------------------
(* certd's answer, while SignOnce works with it.                           *)
AnswerInv ==
  /\ pc \in {"create", "write", "rename", "renewed"} =>
       resp \in Cert /\ resp.after <= now /\ resp.after <= resp.before
  /\ pc = "renewed" => path # None /\ path.cert = resp /\ path.at = now

(* The two files.                                                          *)
FilesInv ==
  /\ path # None => path.whole = TRUE
  /\ tmp # "none" => pc \in {"write", "rename"}
  /\ pc = "rename" => tmp = "full"

(* The certificate on disk outlasts what is left of Run's wait.            *)
FreshInv ==
  /\ pc # "sleep" => wait = 0
  /\ pc = "down" => smooth = FALSE
  /\ smooth = TRUE =>
       /\ path # None
       /\ path.cert.before - path.at > MinRenewInterval => now + wait < path.cert.before

(* The inductive invariant of the renewer.                                 *)
RenewerInv == TypeOK /\ AnswerInv /\ FilesInv /\ FreshInv

LEMMA NoPathIsNone ==
  ASSUME TypeOK, path # None
  PROVE  /\ path \in File
         /\ path.cert \in Cert /\ path.at \in Nat
         /\ path.cert.before \in Int
BY RenewerAssumption DEF TypeOK, Cert, File

(* Every step keeps the types.                                             *)
LEMMA TypeStep ==
  ASSUME RenewerInv, Next
  PROVE  TypeOK'
<1>1. /\ now \in 0..MaxTime /\ wait \in Nat /\ MaxTime \in Nat
      /\ MinRenewInterval \in Nat /\ RetryBackoff \in Nat
      /\ Lifetime \subseteq Nat /\ Backdate \subseteq Nat
  BY RenewerAssumption DEF RenewerInv, TypeOK
<1>2. CASE SignFails
  BY <1>1, <1>2 DEF SignFails, Fail, Next, RenewerInv, TypeOK
<1>3. ASSUME NEW l \in Lifetime, NEW b \in Backdate, SignOk(l, b) PROVE TypeOK'
  <2>1. resp' \in Cert
    BY <1>1, <1>3 DEF SignOk, Cert
  <2> QED
    BY <1>3, <2>1 DEF SignOk, Next, RenewerInv, TypeOK
<1>4. CASE CreateTemp \/ WriteTemp
  BY <1>1, <1>4 DEF CreateTemp, WriteTemp, Fail, Next, RenewerInv, TypeOK
<1>5. CASE Rename
  <2>1. resp \in Cert
    BY <1>5 DEF Rename, RenewerInv, AnswerInv
  <2>2. (tmp = "full") \in BOOLEAN
    OBVIOUS
  <2>3. [cert |-> resp, whole |-> tmp = "full", at |-> now] \in File
    BY <1>1, <2>1, <2>2, Zenon DEF File
  <2>4. path' \in File \cup {None}
    BY <1>5, <2>3 DEF Rename, RenewerInv, TypeOK
  <2> QED
    BY <1>1, <1>5, <2>4 DEF Rename, Fail, Next, RenewerInv, TypeOK
<1>6. CASE Renewed
  <2>1. path # None /\ path.cert = resp /\ resp \in Cert
        /\ resp.after <= now /\ resp.after <= resp.before
    BY <1>6 DEF Renewed, RenewerInv, AnswerInv
  <2>2. wait' \in Nat
    BY <1>1, <1>6, <2>1, DelayBound DEF Renewed
  <2> QED
    BY <1>1, <1>6, <2>2 DEF Renewed, Next, RenewerInv, TypeOK
<1>7. CASE WakeUp \/ RunReturns \/ Restart
  <2>1. wait' \in Nat /\ now' = now /\ UNCHANGED <<litter, resp, tmp, path>>
    BY <1>1, <1>7 DEF WakeUp, RunReturns, Restart, Next
  <2>2. pc' \in {"sign", "down"} /\ smooth' \in BOOLEAN
    BY <1>7 DEF WakeUp, RunReturns, Restart, RenewerInv, TypeOK
  <2> QED
    BY <1>1, <2>1, <2>2 DEF RenewerInv, TypeOK
<1>9. CASE Tick
  <2>1. now' \in 0..MaxTime /\ wait' \in Nat
    BY <1>1, <1>9 DEF Tick
  <2> QED
    BY <1>9, <2>1 DEF Tick, Next, RenewerInv, TypeOK
<1>8. CASE Crash
  <2>1. litter' \in BOOLEAN
    BY <1>8 DEF Crash, RenewerInv, TypeOK
  <2> QED
    BY <1>1, <1>8, <2>1 DEF Crash, Next, RenewerInv, TypeOK
<1> QED
  BY <1>2, <1>3, <1>4, <1>5, <1>6, <1>7, <1>8, <1>9 DEF Next

(* Every step keeps what is known of certd's answer and of the files.      *)
LEMMA FilesStep ==
  ASSUME RenewerInv, Next
  PROVE  AnswerInv' /\ FilesInv'
<1>1. /\ now \in 0..MaxTime /\ MaxTime \in Nat
      /\ Lifetime \subseteq Nat /\ Backdate \subseteq Nat
      /\ tmp \in {"none", "part", "full"}
  BY RenewerAssumption DEF RenewerInv, TypeOK
<1>2. AnswerInv /\ FilesInv
  BY DEF RenewerInv
<1>3. CASE SignFails \/ CreateTemp \/ WriteTemp \/ WakeUp \/ RunReturns \/ Crash \/ Restart
  BY <1>2, <1>3 DEF SignFails, CreateTemp, WriteTemp, Fail, WakeUp, RunReturns, Crash,
                    Restart, AnswerInv, FilesInv
<1>4. ASSUME NEW l \in Lifetime, NEW b \in Backdate, SignOk(l, b)
      PROVE  AnswerInv' /\ FilesInv'
  <2>1. resp' \in Cert /\ resp'.after <= now /\ resp'.after <= resp'.before
    BY <1>1, <1>4 DEF SignOk, Cert
  <2> QED
    BY <1>2, <1>4, <2>1 DEF SignOk, AnswerInv, FilesInv
<1>5. CASE Rename
  <2>1. CASE path' = [cert |-> resp, whole |-> tmp = "full", at |-> now]
             /\ tmp' = "none" /\ pc' = "renewed" /\ UNCHANGED <<wait, resp, smooth>>
    <3>1. path'.cert = resp /\ path'.at = now
      BY <2>1
    <3>2. tmp = "full"
      BY <1>2, <1>5 DEF Rename, FilesInv
    <3>3. path' = [cert |-> resp, whole |-> TRUE, at |-> now]
      BY <2>1, <3>2
    <3>4. path' # None
      <4>1. resp \in Cert
        BY <1>2, <1>5 DEF Rename, AnswerInv
      <4>2. path' \in File
        BY <1>1, <3>3, <4>1 DEF File
      <4> QED
        BY <4>2, RenewerAssumption
    <3> QED
      BY <1>2, <1>5, <2>1, <3>1, <3>3, <3>4 DEF Rename, AnswerInv, FilesInv
  <2>2. CASE Fail /\ tmp' = "none" /\ UNCHANGED path
    BY <1>2, <1>5, <2>2 DEF Rename, Fail, AnswerInv, FilesInv
  <2> QED
    BY <1>5, <2>1, <2>2 DEF Rename
<1>6. CASE Renewed
  BY <1>2, <1>6 DEF Renewed, AnswerInv, FilesInv
<1>7. CASE Tick
  BY <1>2, <1>7 DEF Tick, AnswerInv, FilesInv
<1> QED
  BY <1>3, <1>4, <1>5, <1>6, <1>7 DEF Next

(* Every step keeps the certificate on disk ahead of Run's wait.           *)
LEMMA FreshStep ==
  ASSUME RenewerInv, Next
  PROVE  FreshInv'
<1>1. /\ now \in Nat /\ wait \in Nat /\ MinRenewInterval \in Nat \ {0}
  BY RenewerAssumption DEF RenewerInv, TypeOK
<1>2. FreshInv
  BY DEF RenewerInv
<1>3. CASE SignFails \/ (\E l \in Lifetime, b \in Backdate : SignOk(l, b))
           \/ CreateTemp \/ WriteTemp \/ WakeUp \/ RunReturns \/ Crash \/ Restart
  BY <1>2, <1>3 DEF SignFails, SignOk, CreateTemp, WriteTemp, Fail, WakeUp, RunReturns,
                    Crash, Restart, FreshInv
<1>4. CASE Rename
  <2>1. CASE path' = [cert |-> resp, whole |-> tmp = "full", at |-> now]
             /\ tmp' = "none" /\ pc' = "renewed" /\ UNCHANGED <<wait, resp, smooth>>
    <3>1. path'.cert = resp /\ path'.at = now /\ wait = 0 /\ now' = now
      BY <1>2, <1>4, <2>1 DEF Rename, FreshInv
    <3>2. resp \in Cert /\ path' # None
      BY <1>4, FilesStep, <2>1 DEF Rename, RenewerInv, AnswerInv
    <3>3. resp.before \in Int
      BY <3>2 DEF Cert
    <3>4. path'.cert.before - path'.at > MinRenewInterval
            => now' + wait' < path'.cert.before
      BY <1>1, <2>1, <3>1, <3>3
    <3> QED
      BY <2>1, <3>1, <3>2, <3>4 DEF FreshInv
  <2>2. CASE Fail
    BY <1>4, <2>2 DEF Fail, FreshInv
  <2> QED
    BY <1>4, <2>1, <2>2 DEF Rename
<1>5. CASE Renewed
  <2>1. /\ path # None /\ path.cert = resp /\ path.at = now /\ resp \in Cert
        /\ resp.after <= now /\ resp.after <= resp.before
    BY <1>5 DEF Renewed, RenewerInv, AnswerInv
  <2>2. resp.before - now > MinRenewInterval => now + wait' < resp.before
    BY <1>1, <1>5, <2>1, DelayBound DEF Renewed
  <2> QED
    BY <1>2, <1>5, <2>1, <2>2 DEF Renewed, FreshInv
<1>6. CASE Tick
  <2>1. smooth' = smooth /\ path' = path /\ pc' = pc
    BY <1>6 DEF Tick
  <2>2. CASE pc = "down"
    BY <1>2, <1>6, <2>1, <2>2 DEF Tick, FreshInv
  <2>3. CASE pc = "sleep"
    <3>1. now' + wait' = now + wait
      BY <1>1, <1>6, <2>3 DEF Tick
    <3> QED
      BY <1>2, <2>1, <2>3, <3>1 DEF FreshInv
  <2> QED
    BY <1>6, <2>2, <2>3 DEF Tick
<1> QED
  BY <1>3, <1>4, <1>5, <1>6 DEF Next

(* The renewer's invariant holds in every reachable state.                 *)
THEOREM RenewerInvariant == Spec => []RenewerInv
<1>1. Init => RenewerInv
  <2> SUFFICES ASSUME Init PROVE RenewerInv
    OBVIOUS
  <2>1. TypeOK
    <3>1. 0 \in 0..MaxTime
      BY RenewerAssumption
    <3> QED
      BY <3>1 DEF Init, TypeOK
  <2>2. AnswerInv /\ FilesInv /\ FreshInv
    BY DEF Init, AnswerInv, FilesInv, FreshInv
  <2> QED
    BY <2>1, <2>2 DEF RenewerInv
<1>2. RenewerInv /\ [Next]_vars => RenewerInv'
  <2>1. CASE UNCHANGED vars
    BY <2>1 DEF vars, RenewerInv, TypeOK, AnswerInv, FilesInv, FreshInv
  <2> QED
    BY <2>1, TypeStep, FilesStep, FreshStep DEF RenewerInv
<1> QED
  BY <1>1, <1>2, PTL DEF Spec

(* Every variable keeps its type; in particular a wait is never negative.  *)
THEOREM RenewerTypes == Spec => []TypeOK
BY RenewerInvariant, PTL DEF RenewerInv

(* The property FileIsWhole of writeAtomic, with its crashes.              *)
THEOREM FilesWhole == Spec => []FileIsWhole
<1>1. RenewerInv => FileIsWhole
  BY DEF RenewerInv, FilesInv, FileIsWhole
<1> QED
  BY <1>1, RenewerInvariant, PTL

(* The property FreshWhileSigning of Run and nextRenewalDelay.             *)
THEOREM CertificateStaysValid == Spec => []FreshWhileSigning
<1>1. RenewerInv => FreshWhileSigning
  <2> SUFFICES ASSUME RenewerInv, smooth, path.cert.before - path.at > MinRenewInterval
               PROVE  now < path.cert.before
    BY DEF FreshWhileSigning
  <2>1. smooth = TRUE
    BY DEF RenewerInv, TypeOK
  <2>2. path # None /\ now + wait < path.cert.before
    BY <2>1 DEF RenewerInv, FreshInv
  <2>3. now \in Nat /\ wait \in Nat
    BY RenewerAssumption DEF RenewerInv, TypeOK
  <2>4. path.cert.before \in Int
    BY <2>2, NoPathIsNone DEF RenewerInv
  <2> QED
    BY <2>2, <2>3, <2>4
<1> QED
  BY <1>1, RenewerInvariant, PTL
=============================================================================
