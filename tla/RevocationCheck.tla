--------------------------- MODULE RevocationCheck ---------------------------
(***************************************************************************)
(* revcheck.PollingChecker (internal/proxyd/revcheck/revcheck.go) between  *)
(* certd, whose list of revocations it polls, and the handshakes that ask  *)
(* it (publicKeyCallback in internal/proxyd/ssh/server.go), as runServe    *)
(* wires them in cmd/ssh-proxyd/main.go.                                   *)
(*                                                                         *)
(* The two maps are behind a read-write lock.  A handshake reads them one  *)
(* after the other, and a refresh swaps them one after the other, so each  *)
(* access is a step of its own and the lock is part of the model.  As in   *)
(* sync.RWMutex, a writer that waits keeps new readers out.                *)
(***************************************************************************)
EXTENDS CertEnforcer, FiniteSets

CONSTANTS
  Serial, KeyId,  \* the non-zero serials and non-empty key ids
  Zero,           \* serial 0, the empty key id
  Listing,        \* the entries certd may list
  Attempt,        \* the logins users try: a name, a certificate, an address
  User,           \* the goroutines of user connections
  MaxListing      \* the entries that fit in the 16 MB a fetch reads

ASSUME RevocationAssumption ==
  /\ Zero \notin Serial \cup KeyId
  /\ Listing \subseteq [serial : Serial \cup {Zero}, keyId : KeyId \cup {Zero}]
  /\ MaxListing \in Nat
  /\ Attempt # {}
  /\ \A a \in Attempt : /\ a.login \in Seq(STRING)
                         /\ a.cert.serial \in Serial \cup {Zero}
                         /\ a.cert.keyId \in KeyId \cup {Zero}
                         /\ a.cert.perms = [ext    |-> a.cert.perms.ext,
                                            source |-> a.cert.perms.source]

VARIABLES
  feed,       \* what certd lists now
  poller,     \* where Run is; "unset" when CERTD_REVOCATIONS_URL is
  answer,     \* the snapshot in flight
  bySerial,   \* the keys of p.bySerial
  byKeyID,    \* the keys of p.byKeyID
  fetched,    \* lastFetchTime is set
  fetchErr,   \* lastFetchErr is set
  stopping,   \* the root context is done
  crashed,    \* the process has panicked
  check       \* the progress of each handshake, and what was presented

pollVars == <<poller, answer, bySerial, byKeyID, fetched, fetchErr>>

(***************************************************************************)
(* History: the last snapshot certd delivered; and for each handshake      *)
(* whether every, and whether some, snapshot in force while it read the    *)
(* maps lists its certificate.                                             *)
(***************************************************************************)
VARIABLES loaded, all, some

history == <<loaded, all, some>>
vars == <<feed, pollVars, stopping, crashed, check, history>>

-----------------------------------------------------------------------------
(* Mutant: an entry without a serial is indexed under zero.                *)
MutSerials(snap) == {e.serial : e \in snap}

Serials(snap) == {e.serial : e \in snap} \ {Zero}
KeyIDs(snap) == {e.keyId : e \in snap} \ {Zero}

(* What a snapshot says of a certificate, without the maps.                *)
Lists(snap, c) ==
  \E e \in snap : \/ e.serial = c.serial /\ c.serial # Zero
                  \/ e.keyId = c.keyId /\ c.keyId # Zero

(***************************************************************************)
(* What gossh.CertChecker asks of a certificate besides IsUserAuthority    *)
(* and IsRevoked: no critical option it does not know (source-address is   *)
(* the one it does), the principal, the period of validity and the         *)
(* signature.  certd names at least one principal in a certificate.        *)
(***************************************************************************)
CheckCert(c, principal) ==
  c.options \subseteq {"source-address"} /\ principal \in c.principals /\ c.current

(* All that publicKeyCallback asks of an attempt but IsRevoked.            *)
Presentable(a) == HasTarget(a.login) /\ a.cert.trusted

Acceptable(a) ==
  /\ CheckCert(a.cert, ParseTarget(a.login).user)
  /\ SourceAddressOK(a.cert.perms, a.from)

(* What the session goes by; the names are those of perms.Extensions, with *)
(* "_" for "-".                                                            *)
Attribution(a) ==
  [key_id      |-> a.cert.keyId,
   principals  |-> a.cert.principals,
   serial      |-> a.cert.serial,
   remote_user |-> ParseTarget(a.login).user,
   target_host |-> ParseTarget(a.login).host]

WriteOver(new, old) ==
  [n \in DOMAIN new \cup DOMAIN old |-> IF n \in DOMAIN new THEN new[n] ELSE old[n]]

(* Mutant: an extension the certificate already has is left as it is.      *)
MutGranted(a) ==
  [a.cert.perms EXCEPT !.ext = WriteOver(@, Attribution(a))]

(* The Permissions of the connection: the certificate's, with the          *)
(* attribution written over its extensions.                                *)
Granted(a) ==
  [a.cert.perms EXCEPT !.ext = WriteOver(Attribution(a), @)]

Presented(u) == check[u].try.cert

Reading(u) == check[u].pc \in {"serial", "keyid"}
WriterWaits == poller \in {"answered", "failed", "swapping"}

-----------------------------------------------------------------------------
(* certd changes its list.                                                 *)
CertdLists(S) ==
  /\ feed' = S
  /\ UNCHANGED <<pollVars, stopping, crashed, check, history>>

(* fetch: certd is asked; it answers with the list of that moment, which   *)
(* may come back later or never, with an error status, cut off or late.    *)
FetchSend ==
  /\ poller = "due"
  /\ poller' = "asked"
  /\ UNCHANGED <<feed, answer, bySerial, byKeyID, fetched, fetchErr, stopping,
                 crashed, check, history>>

FetchOk ==
  /\ poller = "asked"
  /\ Cardinality(feed) <= MaxListing
  /\ poller' = "answered"
  /\ answer' = feed
  /\ UNCHANGED <<feed, bySerial, byKeyID, fetched, fetchErr, stopping, crashed,
                 check, history>>

FetchFails ==
  /\ poller = "asked"
  /\ poller' = "failed"
  /\ UNCHANGED <<feed, answer, bySerial, byKeyID, fetched, fetchErr, stopping,
                 crashed, check, history>>

(* Mutant: a failed fetch ends the poller.                                 *)
MutRefreshFailed ==
  /\ poller = "failed"
  /\ ~\E u \in User : Reading(u)
  /\ poller' = "stopped"
  /\ fetchErr' = TRUE
  /\ UNCHANGED <<feed, answer, bySerial, byKeyID, fetched, stopping, crashed,
                 check, history>>

(* refresh, after an error: the old maps stay.                             *)
RefreshFailed ==
  /\ poller = "failed"
  /\ ~\E u \in User : Reading(u)
  /\ poller' = "waiting"
  /\ fetchErr' = TRUE
  /\ UNCHANGED <<feed, answer, bySerial, byKeyID, fetched, stopping, crashed,
                 check, history>>

(* refresh, after an answer: the swap under the write lock.                *)
SwapSerial ==
  /\ poller = "answered"
  /\ ~\E u \in User : Reading(u)
  /\ poller' = "swapping"
  /\ bySerial' = Serials(answer)
  /\ UNCHANGED <<feed, answer, byKeyID, fetched, fetchErr, stopping, crashed,
                 check, history>>

SwapKeyID ==
  /\ poller = "swapping"
  /\ poller' = "waiting"
  /\ byKeyID' = KeyIDs(answer)
  /\ fetched' = TRUE
  /\ fetchErr' = FALSE
  /\ loaded' = answer
  /\ all' = [u \in User |-> IF Reading(u) THEN all[u] /\ Lists(answer, Presented(u))
                            ELSE all[u]]
  /\ some' = [u \in User |-> IF Reading(u) THEN some[u] \/ Lists(answer, Presented(u))
                             ELSE some[u]]
  /\ UNCHANGED <<feed, answer, bySerial, stopping, crashed, check>>

Tick ==
  /\ poller = "waiting"
  /\ poller' = "due"
  /\ UNCHANGED <<feed, answer, bySerial, byKeyID, fetched, fetchErr, stopping,
                 crashed, check, history>>

Cancel ==
  /\ ~stopping
  /\ stopping' = TRUE
  /\ UNCHANGED <<feed, pollVars, crashed, check, history>>

RunReturns ==
  /\ stopping /\ poller = "waiting"
  /\ poller' = "stopped"
  /\ UNCHANGED <<feed, answer, bySerial, byKeyID, fetched, fetchErr, stopping,
                 crashed, check, history>>

-----------------------------------------------------------------------------
Idle == [pc |-> "idle", try |-> CHOOSE a \in Attempt : TRUE]

Goto(u, l) == check' = [check EXCEPT ![u].pc = l]

(* publicKeyCallback up to IsRevoked: the login name has a target and the  *)
(* trusted CA signed the certificate.                                      *)
Present(u, a) ==
  /\ check[u].pc = "idle"
  /\ check' = [check EXCEPT ![u] = [pc |-> IF Presentable(a) THEN "ask" ELSE "refused",
                                    try |-> a]]
  /\ UNCHANGED <<feed, pollVars, stopping, crashed, history>>

(* Mutant: IsRevoked reads without the lock.                               *)
MutCheckLock(u) ==
  /\ check[u].pc = "ask"
  /\ poller # "unset"
  /\ Goto(u, "serial")
  /\ all' = [all EXCEPT ![u] = Lists(loaded, Presented(u))]
  /\ some' = [some EXCEPT ![u] = Lists(loaded, Presented(u))]
  /\ UNCHANGED <<feed, pollVars, stopping, crashed, loaded>>

(* IsRevoked takes the read lock.                                          *)
CheckLock(u) ==
  /\ check[u].pc = "ask"
  /\ poller # "unset" /\ ~WriterWaits
  /\ Goto(u, "serial")
  /\ all' = [all EXCEPT ![u] = Lists(loaded, Presented(u))]
  /\ some' = [some EXCEPT ![u] = Lists(loaded, Presented(u))]
  /\ UNCHANGED <<feed, pollVars, stopping, crashed, loaded>>

(* With no URL, runServe stores a nil *PollingChecker in the interface     *)
(* Config.Revocations.  The interface is not nil, so IsRevoked is called,  *)
(* and taking the lock of a nil checker panics in a goroutine that does    *)
(* not recover.                                                            *)
CheckNil(u) ==
  /\ check[u].pc = "ask"
  /\ poller = "unset"
  /\ crashed' = TRUE
  /\ UNCHANGED <<feed, pollVars, stopping, check, history>>

ReadSerial(u) ==
  /\ check[u].pc = "serial"
  /\ Goto(u, IF Presented(u).serial \in bySerial \ {Zero} THEN "refused"
             ELSE "keyid")
  /\ UNCHANGED <<feed, pollVars, stopping, crashed, history>>

(* After IsRevoked: the rest of CheckCert, and the source address.         *)
ReadKeyID(u) ==
  /\ check[u].pc = "keyid"
  /\ Goto(u, IF Presented(u).keyId \in byKeyID \ {Zero} \/ ~Acceptable(check[u].try)
             THEN "refused" ELSE "admitted")
  /\ UNCHANGED <<feed, pollVars, stopping, crashed, history>>

(* The connection ends.                                                    *)
Leave(u) ==
  /\ check[u].pc \in {"refused", "admitted"}
  /\ check' = [check EXCEPT ![u] = Idle]
  /\ all' = [all EXCEPT ![u] = FALSE]
  /\ some' = [some EXCEPT ![u] = FALSE]
  /\ UNCHANGED <<feed, pollVars, stopping, crashed, loaded>>

-----------------------------------------------------------------------------
Init ==
  /\ feed \in SUBSET Listing
  /\ poller \in {"unset", "due"}
  /\ answer = {} /\ bySerial = {} /\ byKeyID = {}
  /\ fetched = FALSE /\ fetchErr = FALSE
  /\ stopping = FALSE /\ crashed = FALSE
  /\ check = [u \in User |-> Idle]
  /\ loaded = {}
  /\ all = [u \in User |-> FALSE]
  /\ some = [u \in User |-> FALSE]

Poll ==
  FetchSend \/ FetchOk \/ FetchFails \/ RefreshFailed \/ SwapSerial \/ SwapKeyID
  \/ Tick \/ RunReturns

Handshake(u) ==
  \/ \E a \in Attempt : Present(u, a)
  \/ CheckLock(u) \/ CheckNil(u) \/ ReadSerial(u) \/ ReadKeyID(u)
  \/ Leave(u)

Next ==
  /\ ~crashed
  /\ \/ \E S \in SUBSET Listing : CertdLists(S)
     \/ Poll
     \/ Cancel
     \/ \E u \in User : Handshake(u)

Spec == Init /\ [][Next]_vars

(***************************************************************************)
(* The poller and the handshakes inside IsRevoked keep running, a fetch    *)
(* ends within its HTTP timeout, the ticker ticks, and certd does not fail *)
(* every time.                                                             *)
(***************************************************************************)
Fairness ==
  /\ WF_vars(~crashed /\ (FetchSend \/ RefreshFailed \/ SwapSerial \/ SwapKeyID))
  /\ WF_vars(~crashed /\ Tick)
  /\ WF_vars(~crashed /\ (FetchOk \/ FetchFails))
  /\ SF_vars(~crashed /\ FetchOk)
  /\ \A u \in User : WF_vars(~crashed /\ (ReadSerial(u) \/ ReadKeyID(u)))

FairSpec == Spec /\ Fairness

-----------------------------------------------------------------------------
(* The types of the checker, the poller and the handshakes.                *)
TypeOK ==
  /\ feed \subseteq Listing /\ answer \subseteq Listing /\ loaded \subseteq Listing
  /\ poller \in {"unset", "due", "asked", "answered", "failed", "swapping",
                 "waiting", "stopped"}
  /\ bySerial \subseteq Serial /\ byKeyID \subseteq KeyId
  /\ fetched \in BOOLEAN /\ fetchErr \in BOOLEAN
  /\ stopping \in BOOLEAN /\ crashed \in BOOLEAN
  /\ check \in [User -> [pc : {"idle", "ask", "serial", "keyid", "refused", "admitted"},
                         try : Attempt]]
  /\ all \in [User -> BOOLEAN] /\ some \in [User -> BOOLEAN]

(***************************************************************************)
(* A handshake's answer is that of one snapshot certd delivered, although  *)
(* it reads two maps while refreshes replace both and fetches fail: a      *)
(* certificate that every snapshot in force during the check lists is not  *)
(* admitted, and an otherwise good one is refused only if some snapshot    *)
(* lists it.                                                               *)
(***************************************************************************)
DecisionMatchesSnapshot ==
  \A u \in User :
    /\ check[u].pc = "admitted" => ~all[u]
    /\ check[u].pc = "refused" /\ Presentable(check[u].try) /\ Acceptable(check[u].try) =>
         some[u]

(***************************************************************************)
(* An admitted session is the one the user asked for and the certificate   *)
(* vouches for: the remote user and the target host it goes by make up the *)
(* login name, however many "@" that has; the remote user is one of the    *)
(* certificate's principals; whatever extensions the certificate brings    *)
(* along take nothing of this away; and what it may do is what the         *)
(* certificate permits.                                                    *)
(***************************************************************************)
SessionIsAsCertified ==
  \A u \in User :
    check[u].pc = "admitted" =>
      LET session == Granted(check[u].try)
          user    == session.ext.remote_user
          host    == session.ext.target_host
      IN  /\ user \o <<At>> \o host = check[u].try.login
          /\ \A i \in DOMAIN host : host[i] # At
          /\ user \in Presented(u).principals /\ session.ext.key_id = Presented(u).keyId
          /\ PermitsPTY(session) = PermitsPTY(Presented(u).perms)
          /\ PermitsPortForwarding(session) = PermitsPortForwarding(Presented(u).perms)

(***************************************************************************)
(* What certd keeps listing is eventually refused for good, whatever       *)
(* fetches fail in between and however busy the readers keep the lock, as  *)
(* long as the list fits in a fetch.  (Between the two assignments of a    *)
(* swap the maps disagree, but the write lock is held.)                    *)
(***************************************************************************)
RevocationTakesEffect ==
  \A c \in {a.cert : a \in Attempt} :
    (/\ poller # "unset"
     /\ []~stopping
     /\ <>[](Lists(feed, c) /\ Cardinality(feed) <= MaxListing))
       => <>[](c.serial \in bySerial \/ c.keyId \in byKeyID \/ poller = "swapping")

(***************************************************************************)
(* What main.go says of an unset CERTD_REVOCATIONS_URL ("IsRevoked         *)
(* short-circuits to false and the existing handshake behaviour is         *)
(* preserved"): no handshake brings the proxy down.                        *)
(***************************************************************************)
UnsetShortCircuits == ~crashed
=============================================================================
