----------------------------- MODULE ProxyServe -----------------------------
(***************************************************************************)
(* The process ssh-proxyd: runServe (cmd/ssh-proxyd/main.go) starts up     *)
(* from the environment, runs the SSH front end (module UserSession), the  *)
(* tunnel listener and the admin portal as one run.Group, with pollers     *)
(* beside it, and unwinds through its deferred calls.                      *)
(*                                                                         *)
(* External: run.Group and run.HTTPServer of the base library, and the     *)
(* signal handler of cli.Setup.  The context of the group is UserSession's *)
(* ctx.  What the tunnel listener does inside is module TunnelListener.    *)
(* The deferred rt.Shutdown, which flushes the log, is left out.           *)
(***************************************************************************)
EXTENDS UserSession, FiniteSets

CONSTANT
  Environment   \* environments to start in: sets of variables that are set

VARIABLES
  env,        \* the environment of this process
  phase,      \* of runServe: "start", "group", "unwind" or "exited"
  step,       \* the call of the start-up that is next
  deferred,   \* the calls of the start-up whose deferred close is pending
  signal,     \* SIGINT or SIGTERM has come
  tunnel,     \* Listener.ListenAndServe: "off", "run", "wait" or "done"
  portal      \* the HTTP server: "off", "run" or "done"

procVars == <<env, phase, step, deferred, signal, tunnel, portal>>
allVars == <<vars, procVars>>

IsSet(v) == v \in env

-----------------------------------------------------------------------------
(* The start-up.  A call of it is made or left out, has what it needs or   *)
(* is refused, may fail all the same, and may leave something to close.    *)
Call(made, able, opens) == [made |-> made, able |-> able, opens |-> opens]

loadHostKey == Call(TRUE, TRUE, "nothing")

loadUserCA == Call(TRUE, IsSet("USER_CA"), "nothing")

loadTargetHostKeyCallback == Call(IsSet("TARGET_KNOWN_HOSTS"), TRUE, "nothing")

loadRecordingSink == Call(IsSet("CAST_DIR"), TRUE, "nothing")

auditSink == Call(TRUE, TRUE, "sink")

CertdWanted == IsSet("CERTD_URL") \/ IsSet("CERTD_REVOCATIONS_URL")

certdReloader ==
  Call(CertdWanted, IsSet("CERTD_MTLS_CERT") /\ IsSet("CERTD_MTLS_KEY"), "nothing")

buildTunnelServerTLS ==
  Call(IsSet("TUNNEL_ADDR"),
       /\ IsSet("TUNNEL_TLS_CERT") /\ IsSet("TUNNEL_TLS_KEY")
       /\ IsSet("TUNNEL_CLIENT_CA") \/ IsSet("WORKLOAD_CA"),
       "nothing")

loadClientSignerFunc == Call(TRUE, IsSet("CERTD_URL") \/ IsSet("CLIENT_KEY"), "nothing")

buildTunnelListener == Call(IsSet("TUNNEL_ADDR"), TRUE, "registry")

buildRevocationChecker == Call(IsSet("CERTD_REVOCATIONS_URL"), CertdWanted, "nothing")

newServer == Call(TRUE, TRUE, "nothing")

Tailing == IsSet("PORTAL_ADDR") /\ IsSet("NATS_URL")

sessionSource == Call(Tailing, TRUE, "session source")

newSessionTracker == Call(Tailing, TRUE, "nothing")

auditSource == Call(Tailing, TRUE, "audit source")

newAuditTracker == Call(Tailing, TRUE, "nothing")

loadPortalCastStore == Call(IsSet("PORTAL_ADDR") /\ IsSet("CAST_DIR"), TRUE, "nothing")

newPortal == Call(IsSet("PORTAL_ADDR"), TRUE, "nothing")

(* rootCtx; its cancel is the last call deferred and so the first made.    *)
rootContext == Call(TRUE, TRUE, "root context")

(* The order of runServe.                                                  *)
Calls ==
  << loadHostKey, loadUserCA, loadTargetHostKeyCallback, loadRecordingSink, auditSink,
     certdReloader, buildTunnelServerTLS, loadClientSignerFunc, buildTunnelListener,
     buildRevocationChecker, newServer, sessionSource, newSessionTracker, auditSource,
     newAuditTracker, loadPortalCastStore, newPortal, rootContext >>

Pending == Calls[step]

(* What is open: its deferred close is pending.                            *)
IsOpen(r) == \E i \in deferred : Calls[i].opens = r

CallLeftOut ==
  /\ phase = "start" /\ step <= Len(Calls)
  /\ ~Pending.made
  /\ step' = step + 1
  /\ UNCHANGED <<vars, env, phase, deferred, signal, tunnel, portal>>

CallReturns ==
  /\ phase = "start" /\ step <= Len(Calls)
  /\ Pending.made /\ Pending.able
  /\ step' = step + 1
  /\ deferred' = IF Pending.opens = "nothing" THEN deferred ELSE deferred \cup {step}
  /\ UNCHANGED <<vars, env, phase, signal, tunnel, portal>>

(* Anything but making a context can go wrong.                             *)
CallFails ==
  /\ phase = "start" /\ step < Len(Calls)
  /\ Pending.made
  /\ phase' = "unwind"
  /\ UNCHANGED <<vars, env, step, deferred, signal, tunnel, portal>>

-----------------------------------------------------------------------------
(* The goroutines of guard.Go.  They run until rootCtx is done and nobody  *)
(* waits for them, so each may still run until the process has exited.     *)
Pollers ==
  (IF IsSet("CERTD_REVOCATIONS_URL") THEN {"revocation-poller"} ELSE {})
  \cup (IF Tailing THEN {"session-tracker", "audit-tracker"} ELSE {})
  \cup (IF CertdWanted THEN {"certd-ca-poller"} ELSE {})

(* What a poller works on, beyond the network and files.                   *)
SourceOf(p) ==
  CASE p = "session-tracker" -> "session source"
    [] p = "audit-tracker"   -> "audit source"
    [] OTHER                 -> "root context"

StartGroup ==
  /\ phase = "start" /\ step > Len(Calls)
  /\ phase' = "group"
  /\ tunnel' = IF IsSet("TUNNEL_ADDR") THEN "run" ELSE "off"
  /\ portal' = IF IsSet("PORTAL_ADDR") THEN "run" ELSE "off"
  /\ ctx' = signal
  /\ UNCHANGED <<listener, serve, conn, queue, asked, open, left, target, trail>>
  /\ UNCHANGED <<env, step, deferred, signal>>

(* The signal cancels rt.Ctx and every context below it.                   *)
Signal ==
  /\ ~signal /\ phase # "exited"
  /\ signal' = TRUE
  /\ ctx' = (ctx \/ phase = "group")
  /\ UNCHANGED <<listener, serve, conn, queue, asked, open, left, target, trail>>
  /\ UNCHANGED <<env, phase, step, deferred, tunnel, portal>>

(* A component that returns makes the group cancel its context.            *)
Returned == serve \in {"done", "failed"} \/ tunnel = "done" \/ portal = "done"

(* Mutant: only the end of the SSH server brings the others down.          *)
MutGroupCancel ==
  /\ phase = "group" /\ serve \in {"done", "failed"}
  /\ Cancel
  /\ UNCHANGED procVars

GroupCancel ==
  /\ phase = "group" /\ Returned
  /\ Cancel
  /\ UNCHANGED procVars

(* Listener.serve leaves its loop on ctx or on an accept error, and waits  *)
(* for its handlers either way; the address may not be free at all.        *)
TunnelStops ==
  /\ phase = "group" /\ tunnel = "run"
  /\ tunnel' = "wait"
  /\ UNCHANGED <<vars, env, phase, step, deferred, signal, portal>>

TunnelReturns ==
  /\ phase = "group" /\ tunnel = "wait"
  /\ tunnel' = "done"
  /\ UNCHANGED <<vars, env, phase, step, deferred, signal, portal>>

(* The HTTP server fails, or is shut down on ctx with a deadline.          *)
PortalReturns ==
  /\ phase = "group" /\ portal = "run"
  /\ portal' = "done"
  /\ UNCHANGED <<vars, env, phase, step, deferred, signal, tunnel>>

(* Mutant: the group returns with its first component.                     *)
MutGroupReturns ==
  /\ phase = "group" /\ ctx /\ Returned
  /\ phase' = "unwind"
  /\ UNCHANGED <<vars, env, step, deferred, signal, tunnel, portal>>

GroupReturns ==
  /\ phase = "group" /\ ctx
  /\ serve \in {"done", "failed"}
  /\ tunnel \in {"off", "done"} /\ portal \in {"off", "done"}
  /\ phase' = "unwind"
  /\ UNCHANGED <<vars, env, step, deferred, signal, tunnel, portal>>

-----------------------------------------------------------------------------
(* The deferred calls, last first, and the end of the process.             *)
Unwind ==
  /\ phase = "unwind"
  /\ \E i \in deferred : /\ \A j \in deferred : j <= i
                         /\ deferred' = deferred \ {i}
  /\ UNCHANGED <<vars, env, phase, step, signal, tunnel, portal>>

Exit ==
  /\ phase = "unwind" /\ deferred = {}
  /\ phase' = "exited"
  /\ UNCHANGED <<vars, env, step, deferred, signal, tunnel, portal>>

(* rootCtx is done: the signal, or the deferred cancel.                    *)
RootDone == signal \/ (phase \in {"unwind", "exited"} /\ ~IsOpen("root context"))

(* The front end runs with the group, and what it has left behind runs on  *)
(* until the process is gone.                                              *)
Up == step > Len(Calls) /\ phase \in {"group", "unwind"} /\ UNCHANGED procVars

(* Without a registry, tunnelTransport leaves it to the direct dial.       *)
UserActs(u) ==
  /\ \/ Accept(u) \/ Dial(u) \/ TargetHandshake(u) \/ Channels(u) \/ ChannelEnds(u)
     \/ OpenChannel(u) \/ Disconnect(u)
  /\ ~IsSet("TUNNEL_ADDR") /\ conn[u] = "tunnel" => conn'[u] \in {"tunnel", "direct"}

FrontEnd == Up /\ (Serve \/ \E u \in User : UserActs(u))

-----------------------------------------------------------------------------
ProxyInit ==
  /\ Init
  /\ env \in Environment
  /\ phase = "start" /\ step = 1 /\ deferred = {}
  /\ signal = FALSE /\ tunnel = "off" /\ portal = "off"

StartUp == CallLeftOut \/ CallReturns \/ CallFails \/ StartGroup

Group == GroupCancel \/ TunnelStops \/ TunnelReturns \/ PortalReturns \/ GroupReturns

ProxyNext ==
  StartUp \/ Signal \/ Group \/ Unwind \/ Exit \/ FrontEnd

ProxySpec == ProxyInit /\ [][ProxyNext]_allVars

(* Goroutines run; the user's handshake, the signer's call to certd and    *)
(* the dials have timeouts.  TargetHandshake has none and gets no          *)
(* fairness, and neither does ChannelEnds: a copy that is blocked in a     *)
(* write keeps its channel even when the user is gone, see                 *)
(* ChannelPipe!PipeEnds.  The other components of the group return once    *)
(* their context is done.                                                  *)
ProxyFairness ==
  /\ WF_allVars(StartUp \/ GroupReturns \/ Unwind \/ Exit)
  /\ WF_allVars(GroupCancel)
  /\ WF_allVars(ctx /\ (TunnelStops \/ TunnelReturns))
  /\ WF_allVars(ctx /\ PortalReturns)
  /\ WF_allVars(Up /\ (CloseListener \/ AcceptClosed \/ ServeReturns))
  /\ \A u \in User : WF_allVars(Up /\ (Dial(u) \/ Channels(u)))

ProxyFairSpec == ProxySpec /\ ProxyFairness

-----------------------------------------------------------------------------
(* Every variable has its type.                                            *)
ProxyTypeOK ==
  /\ TypeOK
  /\ env \in Environment
  /\ phase \in {"start", "group", "unwind", "exited"}
  /\ step \in 1..(Len(Calls) + 1) /\ deferred \subseteq 1..Len(Calls)
  /\ signal \in BOOLEAN
  /\ tunnel \in {"off", "run", "wait", "done"} /\ portal \in {"off", "run", "done"}

(* Nothing is closed under its users.  The audit sink and the registry     *)
(* outlive every session that can still emit or dial, unless an accept     *)
(* error made ListenAndServe leave its sessions behind; the registry       *)
(* outlives the tunnel listener; and a tracker whose source is closed has  *)
(* been told to stop.                                                      *)
ClosedAfterUse ==
  phase # "exited" =>
    /\ (\E u \in User : Running(u)) /\ serve # "failed" =>
         IsOpen("sink") /\ (IsSet("TUNNEL_ADDR") => IsOpen("registry"))
    /\ tunnel \in {"run", "wait"} => IsOpen("registry")
    /\ phase # "start" /\ step > Len(Calls) =>
         \A p \in Pollers : IsOpen(SourceOf(p)) \/ RootDone

(* What a session waits for that no timeout bounds: its user, a target     *)
(* that is silent in the handshake, or a channel that has not ended.       *)
Holds(u) == Running(u) /\ (~left[u] \/ conn[u] = "target" \/ open[u] > 0)

(* The signal, or the end of any one component, brings the whole process   *)
(* down, unless one and the same session holds it from some point on for   *)
(* ever: the SSH server waits for its sessions without a bound.            *)
Exits == (signal \/ Returned) ~> (phase = "exited" \/ \E u \in User : []Holds(u))

(* A user who has gone is let go: the session ends and is audited, unless  *)
(* it is held in the handshake with a silent target or by a channel that   *)
(* never ends, or the process ends.                                        *)
GoneUsersReleased ==
  \A u \in User :
    (Running(u) /\ left[u]) ~>
      (conn[u] \in {"gone", "target"} \/ phase = "exited" \/ [](open[u] > 0))
=============================================================================
