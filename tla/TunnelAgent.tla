---------------------------- MODULE TunnelAgent ----------------------------
(***************************************************************************)
(* ssh-tunneld: tunnel.Dialer.Run (internal/tunneld/tunnel/dialer.go) and  *)
(* the session handler it is given, forward.Forwarder.Handle               *)
(* (internal/tunneld/forward/forwarder.go), with one goroutine for every   *)
(* stream and two copy goroutines under each.                              *)
(*                                                                         *)
(* The proxy, the local sshd and yamux are external.  A yamux stream the   *)
(* agent has closed can still be read until the peer closes it too or the  *)
(* close times out (CloseExpires).  The bytes are left out: SSH runs end   *)
(* to end above them, and every property here is about who is still alive. *)
(***************************************************************************)
EXTENDS Naturals, FiniteSets

CONSTANTS
  Stream,           \* the streams a session can carry at a time
  InitialBackoff,   \* in seconds
  MaxBackoff,
  MaxWaits          \* where the history variable waits stops counting

ASSUME AgentAssumption ==
  /\ InitialBackoff \in Nat \ {0} /\ MaxBackoff \in Nat
  /\ InitialBackoff <= MaxBackoff
  /\ MaxWaits \in Nat /\ InitialBackoff * 2^MaxWaits >= MaxBackoff

VARIABLES
  run,       \* where Run, and Handle below it, is
  delay,     \* Run's delay
  ctx,       \* ctx is cancelled
  sub,       \* subCtx of runSession is cancelled
  session,   \* the yamux session: "none", "up" or "dead"
  strm,      \* where each serveStream goroutine is
  conn,      \* closes: by the stream's peer, by sshd, by closeBoth
  copy,      \* the two copy goroutines of pipe that still run
  waits      \* history: backoffs slept through since a dial succeeded

vars == <<run, delay, ctx, sub, session, strm, conn, copy, waits>>

NoConn == [peer |-> FALSE, sshd |-> FALSE, shut |-> FALSE]

Copying == [in |-> TRUE, out |-> TRUE]

Serving == run \in {"accept", "wait"}

-----------------------------------------------------------------------------
(* Dialer.Run.                                                             *)
nextBackoff(d) == IF 2 * d > MaxBackoff THEN MaxBackoff ELSE 2 * d

RunReturns ==
  /\ run = "top" /\ ctx
  /\ run' = "done"
  /\ UNCHANGED <<delay, ctx, sub, session, strm, conn, copy, waits>>

DialStart ==
  /\ run = "top" /\ ~ctx
  /\ run' = "dial"
  /\ UNCHANGED <<delay, ctx, sub, session, strm, conn, copy, waits>>

(* The proxy is down, refuses the certificate, or ctx or the timeout fires.*)
DialFails ==
  /\ run = "dial"
  /\ run' = "sleep"
  /\ UNCHANGED <<delay, ctx, sub, session, strm, conn, copy, waits>>

(* sleep returns early, with an error, when ctx is cancelled.  Go's select *)
(* takes either branch when the timer has fired as well.                   *)
SleepCancelled ==
  /\ run = "sleep" /\ ctx
  /\ run' = "done"
  /\ UNCHANGED <<delay, ctx, sub, session, strm, conn, copy, waits>>

SleepOver ==
  /\ run = "sleep"
  /\ run' = "top"
  /\ delay' = nextBackoff(delay)
  /\ waits' = IF waits < MaxWaits THEN waits + 1 ELSE waits
  /\ UNCHANGED <<ctx, sub, session, strm, conn, copy>>

(* Mutant: a connection does not reset the delay.                          *)
MutDialOk ==
  /\ run = "dial"
  /\ run' = "accept"
  /\ session' = "up"
  /\ sub' = ctx
  /\ waits' = 0
  /\ UNCHANGED <<delay, ctx, strm, conn, copy>>

DialOk ==
  /\ run = "dial"
  /\ run' = "accept"
  /\ delay' = InitialBackoff
  /\ session' = "up"
  /\ sub' = ctx
  /\ waits' = 0
  /\ UNCHANGED <<ctx, strm, conn, copy>>

(* runSession's own goroutine: the end of the session cancels subCtx.      *)
SessionWatch ==
  /\ Serving /\ session = "dead" /\ ~sub
  /\ sub' = TRUE
  /\ UNCHANGED <<run, delay, ctx, session, strm, conn, copy, waits>>

-----------------------------------------------------------------------------
(* Forwarder.Handle.                                                       *)

(* Mutant: the watcher starts when the accept loop has returned.           *)
MutHandleWatch ==
  /\ run = "wait" /\ sub /\ session = "up"
  /\ session' = "dead"
  /\ UNCHANGED <<run, delay, ctx, sub, strm, conn, copy, waits>>

(* The watcher closes the session on ctx.Done.  It is told to stop when    *)
(* the accept loop returns, but if both are ready it may take either.      *)
HandleWatch ==
  /\ Serving /\ sub /\ session = "up"
  /\ session' = "dead"
  /\ UNCHANGED <<run, delay, ctx, sub, strm, conn, copy, waits>>

AcceptStream(s) ==
  /\ run = "accept" /\ strm[s] = "offered"
  /\ strm' = [strm EXCEPT ![s] = "dial"]
  /\ UNCHANGED <<run, delay, ctx, sub, session, conn, copy, waits>>

(* Mutant: the accept loop tries again when the session has ended.         *)
MutAcceptFails ==
  /\ run = "accept"
  /\ \/ session = "dead" /\ UNCHANGED run
     \/ (\E s \in Stream : strm[s] = "offered") /\ run' = "wait"
  /\ UNCHANGED <<delay, ctx, sub, session, strm, conn, copy, waits>>

(* The session has shut down; or, with the session still up, AcceptStream  *)
(* gives an error of another kind.                                         *)
AcceptFails ==
  /\ run = "accept"
  /\ \/ session = "dead"
     \/ \E s \in Stream : strm[s] = "offered"
  /\ run' = "wait"
  /\ UNCHANGED <<delay, ctx, sub, session, strm, conn, copy, waits>>

(* Mutant: Handle does not wait for its streams.                           *)
MutHandleReturns ==
  /\ run = "wait"
  /\ run' = IF ctx THEN "done" ELSE "top"
  /\ sub' = TRUE
  /\ session' = "none"
  /\ UNCHANGED <<delay, ctx, strm, conn, copy, waits>>

(* Handle's wg.Wait, runSession's cancel, and Run's session.Close; streams *)
(* that were never accepted go with the session.                           *)
HandleReturns ==
  /\ run = "wait"
  /\ \A s \in Stream : strm[s] \in {"none", "offered"}
  /\ run' = IF ctx THEN "done" ELSE "top"
  /\ sub' = TRUE
  /\ session' = "none"
  /\ strm' = [s \in Stream |-> "none"]
  /\ UNCHANGED <<delay, ctx, conn, copy, waits>>

-----------------------------------------------------------------------------
(* serveStream and pipe.                                                   *)

(* Both deferred closes of serveStream are done when it returns.           *)
Leave(s) ==
  /\ strm' = [strm EXCEPT ![s] = "none"]
  /\ conn' = [conn EXCEPT ![s] = NoConn]
  /\ copy' = [copy EXCEPT ![s] = Copying]

(* The local dial: refused, or given up when its timeout or ctx fires.     *)
LocalDialFails(s) ==
  /\ strm[s] = "dial"
  /\ Leave(s)
  /\ UNCHANGED <<run, delay, ctx, sub, session, waits>>

LocalDialOk(s) ==
  /\ strm[s] = "dial"
  /\ strm' = [strm EXCEPT ![s] = "pipe"]
  /\ UNCHANGED <<run, delay, ctx, sub, session, conn, copy, waits>>

(* stream -> local ends with its stream, or on a failed write to a local   *)
(* connection that sshd or closeBoth has closed; then it runs closeBoth.   *)
InEnds(s) ==
  /\ strm[s] = "pipe" /\ copy[s].in
  /\ conn[s].peer \/ session # "up"
  /\ copy' = [copy EXCEPT ![s].in = FALSE]
  /\ conn' = [conn EXCEPT ![s].shut = TRUE]
  /\ UNCHANGED <<run, delay, ctx, sub, session, strm, waits>>

InWriteFails(s) ==
  /\ strm[s] = "pipe" /\ copy[s].in
  /\ conn[s].sshd \/ conn[s].shut
  /\ copy' = [copy EXCEPT ![s].in = FALSE]
  /\ conn' = [conn EXCEPT ![s].shut = TRUE]
  /\ UNCHANGED <<run, delay, ctx, sub, session, strm, waits>>

(* local -> stream ends at sshd's EOF or when closeBoth has closed the     *)
(* connection under it.                                                    *)
OutEnds(s) ==
  /\ strm[s] = "pipe" /\ copy[s].out
  /\ conn[s].sshd \/ conn[s].shut
  /\ copy' = [copy EXCEPT ![s].out = FALSE]
  /\ conn' = [conn EXCEPT ![s].shut = TRUE]
  /\ UNCHANGED <<run, delay, ctx, sub, session, strm, waits>>

(* It also ends when sshd has written and the stream takes no more.        *)
OutWriteFails(s) ==
  /\ strm[s] = "pipe" /\ copy[s].out
  /\ session # "up"
  /\ copy' = [copy EXCEPT ![s].out = FALSE]
  /\ conn' = [conn EXCEPT ![s].shut = TRUE]
  /\ UNCHANGED <<run, delay, ctx, sub, session, strm, waits>>

(* The goroutine of pipe that watches ctx.                                 *)
PipeWatch(s) ==
  /\ strm[s] = "pipe" /\ sub /\ ~conn[s].shut
  /\ conn' = [conn EXCEPT ![s].shut = TRUE]
  /\ UNCHANGED <<run, delay, ctx, sub, session, strm, copy, waits>>

PipeReturns(s) ==
  /\ strm[s] = "pipe" /\ ~copy[s].in /\ ~copy[s].out
  /\ Leave(s)
  /\ UNCHANGED <<run, delay, ctx, sub, session, waits>>

-----------------------------------------------------------------------------
(* The signal to stop; the link, the proxy and sshd.                       *)
Cancel ==
  /\ ~ctx /\ run # "done"
  /\ ctx' = TRUE /\ sub' = TRUE
  /\ UNCHANGED <<run, delay, session, strm, conn, copy, waits>>

SessionDies ==
  /\ session = "up"
  /\ session' = "dead"
  /\ UNCHANGED <<run, delay, ctx, sub, strm, conn, copy, waits>>

PeerOpens(s) ==
  /\ session = "up" /\ strm[s] = "none"
  /\ strm' = [strm EXCEPT ![s] = "offered"]
  /\ UNCHANGED <<run, delay, ctx, sub, session, conn, copy, waits>>

PeerCloses(s) ==
  /\ strm[s] = "pipe" /\ ~conn[s].peer
  /\ conn' = [conn EXCEPT ![s].peer = TRUE]
  /\ UNCHANGED <<run, delay, ctx, sub, session, strm, copy, waits>>

CloseExpires(s) == conn[s].shut /\ PeerCloses(s)

SshdCloses(s) ==
  /\ strm[s] = "pipe" /\ ~conn[s].sshd
  /\ conn' = [conn EXCEPT ![s].sshd = TRUE]
  /\ UNCHANGED <<run, delay, ctx, sub, session, strm, copy, waits>>

-----------------------------------------------------------------------------
Init ==
  /\ run = "top" /\ delay = InitialBackoff
  /\ ctx = FALSE /\ sub = TRUE /\ session = "none"
  /\ strm = [s \in Stream |-> "none"]
  /\ conn = [s \in Stream |-> NoConn]
  /\ copy = [s \in Stream |-> Copying]
  /\ waits = 0

Run == RunReturns \/ DialStart \/ DialFails \/ SleepCancelled \/ SleepOver \/ DialOk

Handle == SessionWatch \/ HandleWatch \/ AcceptFails \/ HandleReturns

Serve(s) ==
  \/ AcceptStream(s) \/ LocalDialFails(s) \/ LocalDialOk(s)
  \/ InEnds(s) \/ InWriteFails(s) \/ OutEnds(s) \/ OutWriteFails(s)
  \/ PipeWatch(s) \/ PipeReturns(s)

Outside ==
  \/ Cancel \/ SessionDies
  \/ \E s \in Stream : PeerOpens(s) \/ PeerCloses(s) \/ SshdCloses(s)

Stopped == run = "done" /\ UNCHANGED vars

Next == Run \/ Handle \/ (\E s \in Stream : Serve(s)) \/ Outside \/ Stopped

Spec == Init /\ [][Next]_vars

(* Every goroutine of the agent that can take a step takes one in the end: *)
(* both dials have timeouts, and so has a closed stream.  A failed write   *)
(* needs someone to write, so the two WriteFails are left out; so are the  *)
(* proxy, the link, sshd and the signal, which owe the agent nothing.      *)
Fairness ==
  /\ WF_vars(Run) /\ WF_vars(SessionWatch)
  /\ WF_vars(run = "accept" /\ HandleWatch)
  /\ WF_vars(session = "dead" /\ AcceptFails) /\ WF_vars(HandleReturns)
  /\ \A s \in Stream :
       /\ WF_vars(AcceptStream(s)) /\ WF_vars(LocalDialFails(s) \/ LocalDialOk(s))
       /\ WF_vars(InEnds(s)) /\ WF_vars(OutEnds(s))
       /\ WF_vars(PipeWatch(s)) /\ WF_vars(PipeReturns(s)) /\ WF_vars(CloseExpires(s))

FairSpec == Spec /\ Fairness

-----------------------------------------------------------------------------
(* Every variable has its type.                                            *)
TypeOK ==
  /\ run \in {"top", "dial", "sleep", "accept", "wait", "done"}
  /\ delay \in InitialBackoff..MaxBackoff /\ waits \in 0..MaxWaits
  /\ ctx \in BOOLEAN /\ sub \in BOOLEAN
  /\ session \in {"none", "up", "dead"}
  /\ strm \in [Stream -> {"none", "offered", "dial", "pipe"}]
  /\ conn \in [Stream -> [peer : BOOLEAN, sshd : BOOLEAN, shut : BOOLEAN]]
  /\ copy \in [Stream -> [in : BOOLEAN, out : BOOLEAN]]

(* Run's delay is InitialBackoff doubled once for every failed dial since  *)
(* the last success, and never above MaxBackoff, even when MaxBackoff is   *)
(* no power of two times the first delay.                                  *)
BackoffSchedule ==
  LET d == InitialBackoff * 2^waits
  IN  delay = IF d > MaxBackoff THEN MaxBackoff ELSE d

(* Nothing of a session outlives Handle: whenever Run is dialling, is      *)
(* sleeping or has returned, no stream goroutine is left, no local         *)
(* connection is open, and no session is.                                  *)
NothingOutlivesHandle ==
  ~Serving => /\ session = "none"
              /\ \A s \in Stream : strm[s] = "none" /\ conn[s] = NoConn

(* A dead session is replaced, however many streams it carried and in      *)
(* whatever state: Run comes back to dialling, unless it is told to stop.  *)
Reconnects == session = "dead" ~> run \in {"dial", "done"}

(* The agent stops when it is told to, wherever it is: dialling, backing   *)
(* off, serving, or waiting for the streams of a session that is still up. *)
Stops == ctx ~> run = "done"
=============================================================================
