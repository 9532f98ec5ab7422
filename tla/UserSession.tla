---------------------------- MODULE UserSession ----------------------------
(***************************************************************************)
(* The SSH front end (internal/proxyd/ssh/server.go): the accept loop of   *)
(* Server.ListenAndServe, a handleConn goroutine for every user with its   *)
(* audit trail, the dial of the target (internal/proxyd/session/dial.go)   *)
(* over the tunnel registry or straight, and the loop that hands channels  *)
(* to the Proxier or rejects them.  What happens inside one proxied        *)
(* channel is module ChannelPipe; what the registry answers is module      *)
(* TunnelRegistry.                                                         *)
(*                                                                         *)
(* External: gossh, which closes the channel queue when the user is gone   *)
(* and still delivers what was queued, certd, and the target.  The audit   *)
(* trail is what emit and the recorder hand to the sink.                   *)
(***************************************************************************)
EXTENDS Naturals, Sequences

CONSTANTS
  User,       \* the connections users make
  MaxChan     \* bound on the channels of a user

ASSUME SessionAssumption == MaxChan \in Nat

VARIABLES
  ctx,        \* ctx of ListenAndServe is cancelled
  listener,   \* "open" or "closed"
  serve,      \* where ListenAndServe is
  conn,       \* where each handleConn is
  queue,      \* channel opens of the user not yet taken
  asked,      \* how many channels the user has opened
  open,       \* handleChannel goroutines running
  left,       \* the user's connection has ended
  target,     \* the connection to the target: "none", "dialed" or "closed"
  trail       \* the audit events of the session, in order

vars == <<ctx, listener, serve, conn, queue, asked, open, left, target, trail>>

Running(u) == conn[u] \notin {"none", "gone"}

GoTo(u, s) == conn' = [conn EXCEPT ![u] = s]

Emit(u, e) == trail' = [trail EXCEPT ![u] = Append(@, e)]

-----------------------------------------------------------------------------
(* ListenAndServe.                                                         *)
Accept(u) ==
  /\ serve = "accept" /\ listener = "open"
  /\ conn[u] = "none"
  /\ GoTo(u, "handshake")
  /\ UNCHANGED <<ctx, listener, serve, queue, asked, open, left, target, trail>>

(* The goroutine that waits for ctx; it ends when ListenAndServe returns.  *)
CloseListener ==
  /\ ctx /\ listener = "open" /\ serve = "accept"
  /\ listener' = "closed"
  /\ UNCHANGED <<ctx, serve, conn, queue, asked, open, left, target, trail>>

AcceptClosed ==
  /\ serve = "accept" /\ listener = "closed"
  /\ serve' = "wait"
  /\ UNCHANGED <<ctx, listener, conn, queue, asked, open, left, target, trail>>

(* Any other accept error returns without the wait.                        *)
AcceptFails ==
  /\ serve = "accept" /\ listener = "open"
  /\ serve' = "failed"
  /\ UNCHANGED <<ctx, listener, conn, queue, asked, open, left, target, trail>>

(* Mutant: the wait for the sessions is missing.                           *)
MutServeReturns ==
  /\ serve = "wait"
  /\ serve' = "done"
  /\ UNCHANGED <<ctx, listener, conn, queue, asked, open, left, target, trail>>

ServeReturns ==
  /\ serve = "wait" /\ \A u \in User : ~Running(u)
  /\ serve' = "done"
  /\ UNCHANGED <<ctx, listener, conn, queue, asked, open, left, target, trail>>

-----------------------------------------------------------------------------
(* handleConn.  The handshake has a deadline.                              *)
HandshakeFails(u) ==
  /\ conn[u] = "handshake"
  /\ GoTo(u, "gone")
  /\ UNCHANGED <<ctx, listener, serve, queue, asked, open, left, target, trail>>

HandshakeOk(u) ==
  /\ conn[u] = "handshake" /\ ~left[u]
  /\ GoTo(u, "signer")
  /\ Emit(u, "session.opened")
  /\ UNCHANGED <<ctx, listener, serve, queue, asked, open, left, target>>

(* No signer, or no target: audited, then every channel is rejected.       *)
Refuse(u) ==
  /\ GoTo(u, "reject")
  /\ Emit(u, "channel.rejected")

SignerFails(u) ==
  /\ conn[u] = "signer"
  /\ Refuse(u)
  /\ UNCHANGED <<ctx, listener, serve, queue, asked, open, left, target>>

SignerOk(u) ==
  /\ conn[u] = "signer"
  /\ GoTo(u, "tunnel")
  /\ UNCHANGED <<ctx, listener, serve, queue, asked, open, left, target, trail>>

(* tunnelTransport: a stream of the tunnel; no tunnel, so a direct dial,   *)
(* also taken when there is no registry; or an error, which is final.      *)
OpenTunnel(u) ==
  /\ conn[u] = "tunnel"
  /\ \/ GoTo(u, "target") /\ target' = [target EXCEPT ![u] = "dialed"] /\ UNCHANGED trail
     \/ GoTo(u, "direct") /\ UNCHANGED <<target, trail>>
     \/ Refuse(u) /\ UNCHANGED target
  /\ UNCHANGED <<ctx, listener, serve, queue, asked, open, left>>

DirectDial(u) ==
  /\ conn[u] = "direct"
  /\ \/ GoTo(u, "target") /\ target' = [target EXCEPT ![u] = "dialed"] /\ UNCHANGED trail
     \/ Refuse(u) /\ UNCHANGED target
  /\ UNCHANGED <<ctx, listener, serve, queue, asked, open, left>>

(* The SSH handshake with the target.  Its failure closes the connection.  *)
TargetHandshake(u) ==
  /\ conn[u] = "target"
  /\ \/ GoTo(u, "proxy") /\ UNCHANGED <<target, trail>>
     \/ Refuse(u) /\ target' = [target EXCEPT ![u] = "closed"]
  /\ UNCHANGED <<ctx, listener, serve, queue, asked, open, left>>

-----------------------------------------------------------------------------
(* Mutant: rejectAll stops draining when the user is gone.                 *)
MutRejectNext(u) ==
  /\ conn[u] = "reject" /\ queue[u] > 0 /\ ~left[u]
  /\ queue' = [queue EXCEPT ![u] = @ - 1]
  /\ UNCHANGED <<ctx, listener, serve, conn, asked, open, left, target, trail>>

(* rejectAll takes the next channel; ctx changes only what it answers.     *)
RejectNext(u) ==
  /\ conn[u] = "reject" /\ queue[u] > 0
  /\ queue' = [queue EXCEPT ![u] = @ - 1]
  /\ UNCHANGED <<ctx, listener, serve, conn, asked, open, left, target, trail>>

(* HandleNewChannels takes the next channel.                               *)
HandleNext(u) ==
  /\ conn[u] = "proxy" /\ queue[u] > 0
  /\ queue' = [queue EXCEPT ![u] = @ - 1]
  /\ open' = [open EXCEPT ![u] = @ + 1]
  /\ UNCHANGED <<ctx, listener, serve, conn, asked, left, target, trail>>

(* Mutant: wg.Done runs twice when a last event is emitted.                *)
MutChannelEnds(u) ==
  /\ open[u] > 0
  /\ \/ open' = [open EXCEPT ![u] = @ - 2] /\ Emit(u, "channel.ended")
     \/ open' = [open EXCEPT ![u] = @ - 1] /\ UNCHANGED trail
  /\ UNCHANGED <<ctx, listener, serve, conn, queue, asked, left, target>>

(* A handleChannel ends, with a last event (recording.completed or         *)
(* port_forward.closed) or without one.                                    *)
ChannelEnds(u) ==
  /\ open[u] > 0
  /\ open' = [open EXCEPT ![u] = @ - 1]
  /\ Emit(u, "channel.ended") \/ UNCHANGED trail
  /\ UNCHANGED <<ctx, listener, serve, conn, queue, asked, left, target>>

(* Mutant: HandleNewChannels does not wait for its channels.               *)
MutConnEndsEarly(u) ==
  /\ conn[u] \in {"reject", "proxy"}
  /\ left[u] /\ queue[u] = 0
  /\ target' = [target EXCEPT ![u] = IF @ = "dialed" THEN "closed" ELSE @]
  /\ Emit(u, "session.closed")
  /\ GoTo(u, "gone")
  /\ UNCHANGED <<ctx, listener, serve, queue, asked, open, left>>

(* Mutant: the deferred target.Close is missing.                           *)
MutConnEndsLeaks(u) ==
  /\ conn[u] \in {"reject", "proxy"}
  /\ left[u] /\ queue[u] = 0 /\ open[u] = 0
  /\ Emit(u, "session.closed")
  /\ GoTo(u, "gone")
  /\ UNCHANGED <<ctx, listener, serve, queue, asked, open, left, target>>

(* The loop ends when the queue is closed and empty and, for the Proxier,  *)
(* after its wg.Wait.  Then the deferred calls: the target is closed,      *)
(* session.closed emitted, the user's connection closed.                   *)
ConnEnds(u) ==
  /\ conn[u] \in {"reject", "proxy"}
  /\ left[u] /\ queue[u] = 0 /\ open[u] = 0
  /\ target' = [target EXCEPT ![u] = IF @ = "dialed" THEN "closed" ELSE @]
  /\ Emit(u, "session.closed")
  /\ GoTo(u, "gone")
  /\ UNCHANGED <<ctx, listener, serve, queue, asked, open, left>>

-----------------------------------------------------------------------------
(* The signal, and the user.                                               *)
Cancel ==
  /\ ~ctx
  /\ ctx' = TRUE
  /\ UNCHANGED <<listener, serve, conn, queue, asked, open, left, target, trail>>

OpenChannel(u) ==
  /\ Running(u) /\ conn[u] # "handshake" /\ ~left[u]
  /\ asked[u] < MaxChan
  /\ asked' = [asked EXCEPT ![u] = @ + 1]
  /\ queue' = [queue EXCEPT ![u] = @ + 1]
  /\ UNCHANGED <<ctx, listener, serve, conn, open, left, target, trail>>

Disconnect(u) ==
  /\ Running(u) /\ ~left[u]
  /\ left' = [left EXCEPT ![u] = TRUE]
  /\ UNCHANGED <<ctx, listener, serve, conn, queue, asked, open, target, trail>>

-----------------------------------------------------------------------------
Init ==
  /\ ctx = FALSE /\ listener = "open" /\ serve = "accept"
  /\ conn = [u \in User |-> "none"]
  /\ queue = [u \in User |-> 0] /\ asked = queue /\ open = queue
  /\ left = [u \in User |-> FALSE]
  /\ target = [u \in User |-> "none"]
  /\ trail = [u \in User |-> <<>>]

Serve == CloseListener \/ AcceptClosed \/ AcceptFails \/ ServeReturns

Dial(u) ==
  \/ HandshakeFails(u) \/ HandshakeOk(u) \/ SignerFails(u) \/ SignerOk(u)
  \/ OpenTunnel(u) \/ DirectDial(u)

Channels(u) == RejectNext(u) \/ HandleNext(u) \/ ConnEnds(u)

Next ==
  \/ Serve \/ Cancel
  \/ \E u \in User : \/ Accept(u) \/ Dial(u) \/ TargetHandshake(u)
                     \/ Channels(u) \/ ChannelEnds(u)
                     \/ OpenChannel(u) \/ Disconnect(u)

Spec == Init /\ [][Next]_vars

-----------------------------------------------------------------------------
(* Every variable has its type.                                            *)
TypeOK ==
  /\ ctx \in BOOLEAN /\ listener \in {"open", "closed"}
  /\ serve \in {"accept", "wait", "failed", "done"}
  /\ conn \in [User -> {"none", "handshake", "signer", "tunnel", "direct", "target",
                        "reject", "proxy", "gone"}]
  /\ queue \in [User -> 0..MaxChan] /\ asked \in [User -> 0..MaxChan]
  /\ open \in [User -> 0..MaxChan]
  /\ left \in [User -> BOOLEAN]
  /\ target \in [User -> {"none", "dialed", "closed"}]
  /\ trail \in [User -> Seq({"session.opened", "channel.rejected", "channel.ended",
                             "session.closed"})]

(* The trail of a session reads in order, whatever its channels do:        *)
(* session.opened is first and is there once; session.closed is last, and  *)
(* is there exactly when handleConn has ended; a session whose dial was    *)
(* rejected has no channel events.                                         *)
TrailWellFormed ==
  \A u \in User :
    LET t == trail[u]
    IN  /\ \A i \in DOMAIN t :
             /\ t[i] = "session.opened" <=> i = 1
             /\ t[i] = "session.closed" => i = Len(t) /\ conn[u] = "gone"
             /\ t[i] = "channel.rejected" => i = 2
             /\ t[i] = "channel.ended" => t[2] # "channel.rejected"
        /\ conn[u] = "gone" /\ t # <<>> => t[Len(t)] = "session.closed"

(* The connection to a target is closed whenever the session does not use  *)
(* it: after a failed target handshake, and after the last channel.        *)
NoTargetLeak ==
  \A u \in User : target[u] = "dialed" <=> conn[u] \in {"target", "proxy"}

(* When ListenAndServe returns nil no session is left behind: the channel  *)
(* goroutines have ended, and so have their audit events.                  *)
ShutdownDrained ==
  serve = "done" => \A u \in User : ~Running(u) /\ open[u] = 0 /\ queue[u] = 0
=============================================================================
