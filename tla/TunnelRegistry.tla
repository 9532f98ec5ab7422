--------------------------- MODULE TunnelRegistry ----------------------------
(***************************************************************************)
(* routing.Registry (internal/proxyd/routing/registry.go): the map from    *)
(* host labels to live yamux sessions, under a read-write lock, with any   *)
(* number of goroutines calling Register, Unregister, Open and Close.      *)
(*                                                                         *)
(* Each critical section is one action.  What runs outside the lock is a   *)
(* step of its own: the liveness test and the clean-up of Lookup, the      *)
(* session.Open after it, and the session closes of Registry.Close.        *)
(* Register tests the liveness of several owners under one lock while they *)
(* may die; because a session never comes back to life, every outcome of   *)
(* that loop is the outcome of one atomic test, at its last read.          *)
(*                                                                         *)
(* A host as a caller writes it is a record: its name, whether it is in    *)
(* mixed case, and whether blanks surround it.                             *)
(***************************************************************************)
EXTENDS Naturals, Sequences

CONSTANTS
  Session,    \* the yamux sessions, one per accepted tunnel connection
  Host,       \* the non-empty names a label can have after folding
  Blank,      \* the empty name
  None,       \* no session
  HostLists,  \* the host lists callers pass to Register
  Target,     \* the hosts users ask for
  Dial        \* the goroutines calling Open, one call each

RawHost == [name : Host \cup {Blank}, mixed : BOOLEAN, padded : BOOLEAN]

ASSUME RegistryAssumption ==
  /\ None \notin Session
  /\ Blank \notin Host
  /\ Target \subseteq RawHost
  /\ \A hosts \in HostLists : hosts \in Seq(RawHost)

VARIABLES
  tunnels,    \* r.tunnels: the session of each label's entry
  closed,     \* r.closed
  dead,       \* the sessions whose IsClosed() is true
  closing,    \* the sessions Close has collected and not yet closed
  call        \* the progress of each Open call

registryVars == <<tunnels, closed, dead, closing, call>>

(***************************************************************************)
(* History of an Open call: the live owners (or None) that its label had   *)
(* at some instant between the call and its return.                        *)
(***************************************************************************)
VARIABLE seen

vars == <<tunnels, closed, dead, closing, call, seen>>

-----------------------------------------------------------------------------
(* normalize: ToLower and TrimSpace keep the name alone.                   *)
Normalize(h) == h.name

isDead(s) == s \in dead

Labels(hosts) == {Normalize(hosts[i]) : i \in DOMAIN hosts}

Evict(S) == [h \in Host |-> IF tunnels[h] \in S THEN None ELSE tunnels[h]]

(* r.tunnels[h]: no entry can have the empty label.                        *)
Entry(h) == IF h = Blank THEN None ELSE tunnels[h]

LiveOwner(h) == IF isDead(Entry(h)) THEN None ELSE Entry(h)

(* Mutant: the last agent to register wins.                                *)
MutConflict(s, h) == FALSE

(* A label that refuses session s: another session holds it and is alive.  *)
Conflict(s, h) == LiveOwner(h) \notin {None, s}

(* Mutant: Register does not look at r.closed.                             *)
MutRefused(hosts) ==
  \/ hosts = << >>
  \/ Blank \in Labels(hosts)

(* The early returns of Register: they leave the map alone.                *)
Refused(hosts) ==
  \/ hosts = << >>
  \/ Blank \in Labels(hosts)
  \/ closed

(* The owners the validation loop evicts before it ends or meets the first *)
(* conflict: other sessions, whose labels and all before raise none.       *)
Evicted(s, hosts) ==
  {Entry(Normalize(hosts[k])) :
     k \in {i \in DOMAIN hosts :
              /\ ~Conflict(s, Normalize(hosts[i]))
              /\ \A j \in 1..(i - 1) : ~Conflict(s, Normalize(hosts[j]))}}
    \ {None, s}

RegisterConflict(s, hosts) ==
  /\ ~Refused(hosts)
  /\ \E h \in Labels(hosts) : Conflict(s, h)
  /\ tunnels' = Evict(Evicted(s, hosts))
  /\ UNCHANGED <<closed, dead, closing, call>>

RegisterOk(s, hosts) ==
  /\ ~Refused(hosts)
  /\ \A h \in Labels(hosts) : ~Conflict(s, h)
  /\ tunnels' = [h \in Host |-> IF h \in Labels(hosts) THEN s
                                ELSE Evict(Evicted(s, hosts))[h]]
  /\ UNCHANGED <<closed, dead, closing, call>>

RegisterRefused(hosts) == Refused(hosts) /\ UNCHANGED registryVars

Unregister(s) ==
  /\ tunnels' = Evict({s})
  /\ UNCHANGED <<closed, dead, closing, call>>

-----------------------------------------------------------------------------
(* Registry.Open: the context test, Lookup, session.Open.                  *)

Idle == [pc |-> "idle", host |-> Blank, session |-> None]

Return(d, result) == call' = [call EXCEPT ![d].pc = result]

OpenBegin(d, host) ==
  /\ call[d] = Idle
  /\ call' = [call EXCEPT ![d] = [pc |-> "read", host |-> Normalize(host),
                                  session |-> None]]
  /\ UNCHANGED <<tunnels, closed, dead, closing>>

(* A context already cancelled is noticed before the lookup.               *)
OpenCancelled(d) ==
  /\ call[d] = Idle
  /\ Return(d, "cancelled")
  /\ UNCHANGED <<tunnels, closed, dead, closing>>

(* Mutant: a host without a tunnel is looked for behind any other.         *)
MutLookupRead(d) ==
  /\ call[d].pc = "read"
  /\ \/ (\A h \in Host : tunnels[h] = None) /\ Return(d, "noTunnel")
     \/ \E h \in Host : /\ tunnels[h] # None
                        /\ call' = [call EXCEPT ![d].pc = "check", ![d].session = tunnels[h]]
  /\ UNCHANGED <<tunnels, closed, dead, closing>>

(* Lookup under the read lock.                                             *)
LookupRead(d) ==
  LET e == Entry(call[d].host) IN
  /\ call[d].pc = "read"
  /\ \/ e = None /\ Return(d, "noTunnel")
     \/ /\ e # None
        /\ call' = [call EXCEPT ![d].pc = "check", ![d].session = e]
  /\ UNCHANGED <<tunnels, closed, dead, closing>>

(* Lookup after the lock is released.                                      *)
LookupCheck(d) ==
  /\ call[d].pc = "check"
  /\ Return(d, IF isDead(call[d].session) THEN "scrub" ELSE "open")
  /\ UNCHANGED <<tunnels, closed, dead, closing>>

LookupScrub(d) ==
  /\ call[d].pc = "scrub"
  /\ tunnels' = Evict({call[d].session})
  /\ Return(d, "noTunnel")
  /\ UNCHANGED <<closed, dead, closing>>

(* Mutant: every failure to open a stream is reported as ErrNoTunnel.      *)
MutOpenStream(d) ==
  /\ call[d].pc = "open"
  /\ \/ ~isDead(call[d].session) /\ Return(d, "stream")
     \/ Return(d, "noTunnel")
  /\ UNCHANGED <<tunnels, closed, dead, closing>>

(* session.Open fails on a dead session, and may fail on a live one.       *)
OpenStream(d) ==
  /\ call[d].pc = "open"
  /\ \/ ~isDead(call[d].session) /\ Return(d, "stream")
     \/ Return(d, "failed")
  /\ UNCHANGED <<tunnels, closed, dead, closing>>

(* The caller is done with the answer: a stream is closed, and the same    *)
(* goroutine may serve another user session.                               *)
CallDone(d) ==
  /\ call[d].pc \in {"cancelled", "noTunnel", "stream", "failed"}
  /\ call' = [call EXCEPT ![d] = Idle]
  /\ UNCHANGED <<tunnels, closed, dead, closing>>

-----------------------------------------------------------------------------
(* Mutant: Close collects the missing sessions of free labels too.         *)
MutCloseBegin ==
  /\ ~closed
  /\ closed' = TRUE
  /\ closing' = {tunnels[h] : h \in Host}
  /\ tunnels' = [h \in Host |-> None]
  /\ UNCHANGED <<dead, call>>

(* Mutant: the map is emptied before the sessions are collected from it.   *)
MutCloseEmptied ==
  /\ ~closed
  /\ closed' = TRUE
  /\ closing' = {}
  /\ tunnels' = [h \in Host |-> None]
  /\ UNCHANGED <<dead, call>>

(* Registry.Close: the locked part, then the session closes.               *)
CloseBegin ==
  /\ ~closed
  /\ closed' = TRUE
  /\ closing' = {tunnels[h] : h \in Host} \ {None}
  /\ tunnels' = [h \in Host |-> None]
  /\ UNCHANGED <<dead, call>>

(* Mutant: Close gives up at a session that is dead already.               *)
MutCloseNext(s) ==
  /\ s \in closing /\ closing \cap dead = {}
  /\ closing' = closing \ {s}
  /\ dead' = dead \cup {s}
  /\ UNCHANGED <<tunnels, closed, call>>

CloseNext(s) ==
  /\ s \in closing
  /\ closing' = closing \ {s}
  /\ dead' = dead \cup {s}
  /\ UNCHANGED <<tunnels, closed, call>>

(* yamux ends a session: peer gone, keepalive lost, session.Close called.  *)
Die(s) ==
  /\ ~isDead(s)
  /\ dead' = dead \cup {s}
  /\ UNCHANGED <<tunnels, closed, closing, call>>

-----------------------------------------------------------------------------
InCall(d) == call[d].pc \in {"read", "check", "scrub", "open"}

(* The history variable follows every step of the registry.                *)
Observe ==
  seen' = [d \in Dial |->
             IF call'[d].pc \in {"read", "check"}
             THEN seen[d] \cup {LiveOwner(call[d].host)'}
             ELSE IF call'[d].pc = "idle" THEN {} ELSE seen[d]]

Init ==
  /\ tunnels = [h \in Host |-> None]
  /\ closed = FALSE
  /\ dead = {}
  /\ closing = {}
  /\ call = [d \in Dial |-> Idle]
  /\ seen = [d \in Dial |-> {}]

RegisterNext ==
  \E s \in Session, hosts \in HostLists :
    \/ RegisterOk(s, hosts)
    \/ RegisterConflict(s, hosts)
    \/ RegisterRefused(hosts)

OpenNext(d) ==
  \/ \E host \in Target : OpenBegin(d, host)
  \/ OpenCancelled(d)
  \/ LookupRead(d)
  \/ LookupCheck(d)
  \/ LookupScrub(d)
  \/ OpenStream(d)
  \/ CallDone(d)

Next ==
  /\ \/ RegisterNext
     \/ \E s \in Session : Unregister(s)
     \/ \E d \in Dial : OpenNext(d)
     \/ CloseBegin
     \/ \E s \in Session : CloseNext(s)
     \/ \E s \in Session : Die(s)
  /\ Observe

(* The goroutine inside Close and the goroutines inside Open keep running. *)
Fairness ==
  /\ WF_vars(\E s \in Session : CloseNext(s) /\ Observe)
  /\ \A d \in Dial : WF_vars(InCall(d) /\ OpenNext(d) /\ Observe)

Spec == Init /\ [][Next]_vars

FairSpec == Spec /\ Fairness

-----------------------------------------------------------------------------
(* The types of the registry's state and of the Open calls.                *)
TypeOK ==
  /\ tunnels \in [Host -> Session \cup {None}]
  /\ closed \in BOOLEAN
  /\ dead \subseteq Session
  /\ closing \subseteq Session
  /\ call \in [Dial -> [pc : {"idle", "read", "check", "scrub", "open",
                             "cancelled", "noTunnel", "stream", "failed"},
                       host : Host \cup {Blank},
                       session : Session \cup {None}]]
  /\ seen \in [Dial -> SUBSET (Session \cup {None})]

(***************************************************************************)
(* Open answers for an instant of the call, although Lookup lets go of the *)
(* lock before it tests the session and cleans up: ErrNoTunnel is returned *)
(* only if at some instant between the call and the answer no live session *)
(* answered for the host, so a target behind a tunnel is never dialled     *)
(* directly while its tunnel is up; and a stream is opened only on a       *)
(* session that was, at such an instant, the host's live owner.            *)
(***************************************************************************)
OpenLinearizable ==
  \A d \in Dial :
    /\ call[d].pc = "noTunnel" => None \in seen[d]
    /\ call[d].pc = "stream" => call[d].session \in seen[d]

(***************************************************************************)
(* Once Close has run no label is mapped, now or later: a Register that    *)
(* was waiting for the lock when Close took it must not add an entry.      *)
(***************************************************************************)
ClosedIsEmpty == closed => \A h \in Host : tunnels[h] = None

(***************************************************************************)
(* Close forgets no session: one that was mapped when it took the lock is  *)
(* in the hands of the closing goroutine, and no later step of anybody     *)
(* takes it from there but its death.                                      *)
(***************************************************************************)
CloseForgetsNone ==
  [][\A s \in Session :
       closed' /\ (s \in closing \/ \E h \in Host : tunnels[h] = s) =>
         s \in closing' \/ isDead(s)']_vars

(***************************************************************************)
(* Every session Close collected is eventually dead, whatever the other    *)
(* callers do meanwhile.                                                   *)
(***************************************************************************)
CloseReachesAll == \A s \in Session : (s \in closing) ~> isDead(s)

(***************************************************************************)
(* The registry implements the directory.  A label's abstract owner is the *)
(* live session of its entry: evictions and clean-ups of dead sessions are *)
(* stuttering steps, so they can never cost a live session a label, and no *)
(* registration takes a label from a live session.                         *)
(***************************************************************************)
Directory == INSTANCE TunnelDirectory
               WITH owner <- [h \in Host |-> LiveOwner(h)], shut <- closed

ImplementsDirectory == Directory!Spec
=============================================================================
