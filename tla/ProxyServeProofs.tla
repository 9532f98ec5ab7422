-------------------------- MODULE ProxyServeProofs --------------------------
(***************************************************************************)
(* Proofs about the SSH front end and the process ssh-proxyd around it,    *)
(* for any number of users, any backlog of channels and any set of         *)
(* environments.  First what module UserSession does alone; then that it   *)
(* behaves so in the process, that all types are kept, and that nothing is *)
(* closed under its users.                                                 *)
(***************************************************************************)
EXTENDS ProxyServe, TLAPS

-----------------------------------------------------------------------------
(* The SSH front end.                                                      *)

(* Where channels can be: none before the handshake or after the end, and  *)
(* goroutines only under the Proxier; a channel is queued, open or past.   *)
Placed(u) ==
  /\ queue[u] + open[u] <= asked[u]
  /\ conn[u] \in {"none", "handshake", "gone"} => queue[u] = 0
  /\ conn[u] # "proxy" => open[u] = 0

(* The inductive invariant.                                                *)
SessionInv ==
  /\ TypeOK /\ NoTargetLeak /\ ShutdownDrained
  /\ \A u \in User : Placed(u)

(* The part of the invariant that speaks of one user.                      *)
UserInv(u) ==
  /\ target[u] = "dialed" <=> conn[u] \in {"target", "proxy"}
  /\ Placed(u)

(* An event appended to a trail leaves it a trail.                         *)
LEMMA EmitType ==
  ASSUME TypeOK, NEW u \in User,
         NEW e \in {"session.opened", "channel.rejected", "channel.ended", "session.closed"},
         Emit(u, e)
  PROVE  trail' \in [User -> Seq({"session.opened", "channel.rejected", "channel.ended",
                                  "session.closed"})]
BY DEF Emit, TypeOK

(* The accept loop, the shutdown and the signal touch no session.          *)
LEMMA ServeStep == SessionInv /\ (Serve \/ Cancel) => SessionInv'
<1> SUFFICES ASSUME SessionInv, Serve \/ Cancel PROVE SessionInv'
  OBVIOUS
<1> USE DEF SessionInv, TypeOK, NoTargetLeak, ShutdownDrained, Placed
<1>1. CASE CloseListener \/ AcceptClosed \/ AcceptFails \/ Cancel
  BY <1>1 DEF CloseListener, AcceptClosed, AcceptFails, Cancel, Running
<1>2. CASE ServeReturns
  BY <1>2 DEF ServeReturns, Running
<1> QED
  BY <1>1, <1>2 DEF Serve

(* A step of one user's session leaves the others and ListenAndServe       *)
(* alone, and it is taken while ListenAndServe accepts or waits.           *)
LEMMA UserStep ==
  ASSUME SessionInv, NEW u \in User, TypeOK', UserInv(u)',
         UNCHANGED <<ctx, listener, serve>>,
         serve # "done",
         \A v \in User \ {u} : /\ conn'[v] = conn[v] /\ queue'[v] = queue[v]
                               /\ asked'[v] = asked[v] /\ open'[v] = open[v]
                               /\ target'[v] = target[v]
  PROVE  SessionInv'
<1>1. NoTargetLeak'
  BY DEF SessionInv, NoTargetLeak, UserInv
<1>2. \A v \in User : Placed(v)'
  BY DEF SessionInv, Placed, UserInv
<1> QED
  BY <1>1, <1>2 DEF SessionInv, ShutdownDrained

(* The dial: handshake, signer, tunnel or direct, and the target's.        *)
LEMMA DialStep ==
  ASSUME SessionInv, NEW u \in User, Accept(u) \/ Dial(u) \/ TargetHandshake(u)
  PROVE  SessionInv'
<1> USE DEF GoTo
<1>1. serve # "done"
  BY DEF SessionInv, TypeOK, ShutdownDrained, Running, Accept, Dial, TargetHandshake,
         HandshakeFails, HandshakeOk, SignerFails, SignerOk, OpenTunnel, DirectDial
<1>2. /\ UNCHANGED <<ctx, listener, serve, queue, asked, open, left>>
      /\ \E s \in {"handshake", "signer", "tunnel", "direct", "target", "reject", "proxy",
                   "gone"} : conn' = [conn EXCEPT ![u] = s]
  BY DEF Accept, Dial, TargetHandshake, HandshakeFails, HandshakeOk, SignerFails,
         SignerOk, OpenTunnel, DirectDial, Refuse
<1>3. target' = target \/ \E t \in {"dialed", "closed"} : target' = [target EXCEPT ![u] = t]
  BY DEF Accept, Dial, TargetHandshake, HandshakeFails, HandshakeOk, SignerFails,
         SignerOk, OpenTunnel, DirectDial, Refuse
<1>4. trail' = trail \/ Emit(u, "session.opened") \/ Emit(u, "channel.rejected")
  BY DEF Accept, Dial, TargetHandshake, HandshakeFails, HandshakeOk, SignerFails,
         SignerOk, OpenTunnel, DirectDial, Refuse
<1>5. TypeOK'
  <2>1. trail' \in [User -> Seq({"session.opened", "channel.rejected", "channel.ended",
                                 "session.closed"})]
    BY <1>4, EmitType DEF SessionInv, TypeOK
  <2>2. conn' \in [User -> {"none", "handshake", "signer", "tunnel", "direct", "target",
                            "reject", "proxy", "gone"}]
    BY <1>2 DEF SessionInv, TypeOK
  <2>3. target' \in [User -> {"none", "dialed", "closed"}]
    BY <1>3 DEF SessionInv, TypeOK
  <2> QED
    BY <1>2, <2>1, <2>2, <2>3 DEF SessionInv, TypeOK
<1>6. UserInv(u)'
  <2> USE <1>2 DEF SessionInv, TypeOK, NoTargetLeak, UserInv, Placed
  <2>1. CASE Accept(u) \/ HandshakeFails(u) \/ HandshakeOk(u) \/ SignerOk(u)
    BY <2>1 DEF Accept, HandshakeFails, HandshakeOk, SignerOk
  <2>2. CASE SignerFails(u)
    BY <2>2 DEF SignerFails, Refuse
  <2>3. CASE OpenTunnel(u) \/ DirectDial(u)
    BY <2>3 DEF OpenTunnel, DirectDial, Refuse
  <2>4. CASE TargetHandshake(u)
    BY <2>4 DEF TargetHandshake, Refuse
  <2> QED
    BY <2>1, <2>2, <2>3, <2>4 DEF Dial
<1>7. \A v \in User \ {u} : /\ conn'[v] = conn[v] /\ queue'[v] = queue[v]
                            /\ asked'[v] = asked[v] /\ open'[v] = open[v]
                            /\ target'[v] = target[v]
  BY <1>2, <1>3 DEF SessionInv, TypeOK
<1> QED
  BY <1>1, <1>2, <1>5, <1>6, <1>7, UserStep

(* The channels: opened by the user, taken, rejected or piped, and the end *)
(* of the session.                                                         *)
LEMMA ChannelStep ==
  ASSUME SessionInv, NEW u \in User,
         Channels(u) \/ ChannelEnds(u) \/ OpenChannel(u) \/ Disconnect(u)
  PROVE  SessionInv'
<1>1. serve # "done"
  <2>1. CASE Channels(u)
    BY <2>1 DEF SessionInv, ShutdownDrained, Running, Channels, RejectNext, HandleNext,
                ConnEnds
  <2>2. CASE ChannelEnds(u)
    <3>1. open[u] # 0
      BY <2>2 DEF ChannelEnds
    <3> QED
      BY <3>1 DEF SessionInv, ShutdownDrained
  <2>3. CASE OpenChannel(u) \/ Disconnect(u)
    BY <2>3 DEF SessionInv, ShutdownDrained, OpenChannel, Disconnect
  <2> QED
    BY <2>1, <2>2, <2>3
<1> USE <1>1 DEF SessionInv, TypeOK, NoTargetLeak, Placed, UserInv
<1>2. CASE RejectNext(u)
  <2>1. queue[u] - 1 \in 0..MaxChan
    BY <1>2, SessionAssumption DEF RejectNext
  <2>2. TypeOK'
    BY <1>2, <2>1 DEF RejectNext
  <2>3. UserInv(u)'
    BY <1>2, SessionAssumption DEF RejectNext
  <2> QED
    BY <1>2, <2>2, <2>3, UserStep DEF RejectNext
<1>3. CASE HandleNext(u)
  <2>1. queue[u] <= asked[u] /\ open[u] + 1 <= MaxChan
    BY <1>3, SessionAssumption DEF HandleNext
  <2>2. queue[u] - 1 \in 0..MaxChan /\ open[u] + 1 \in 0..MaxChan
    BY <1>3, <2>1, SessionAssumption DEF HandleNext
  <2>3. TypeOK'
    BY <1>3, <2>2 DEF HandleNext
  <2>4. UserInv(u)'
    BY <1>3, <2>1, SessionAssumption DEF HandleNext
  <2> QED
    BY <1>3, <2>3, <2>4, UserStep DEF HandleNext
<1>4. CASE ConnEnds(u)
  <2>1. trail' \in [User -> Seq({"session.opened", "channel.rejected", "channel.ended",
                                 "session.closed"})]
    BY <1>4, EmitType DEF ConnEnds
  <2>2. TypeOK' /\ UserInv(u)'
    BY <1>4, <2>1 DEF ConnEnds, GoTo
  <2> QED
    BY <1>4, <2>2, UserStep DEF ConnEnds, GoTo
<1>5. CASE ChannelEnds(u)
  <2>1. trail' \in [User -> Seq({"session.opened", "channel.rejected", "channel.ended",
                                 "session.closed"})]
    BY <1>5, EmitType DEF ChannelEnds
  <2>2. open[u] - 1 \in 0..MaxChan
    BY <1>5, SessionAssumption DEF ChannelEnds
  <2>3. TypeOK'
    BY <1>5, <2>1, <2>2 DEF ChannelEnds
  <2>4. UserInv(u)'
    BY <1>5, SessionAssumption DEF ChannelEnds
  <2> QED
    BY <1>5, <2>3, <2>4, UserStep DEF ChannelEnds
<1>6. CASE OpenChannel(u)
  <2>1. queue[u] + 1 \in 0..MaxChan /\ asked[u] + 1 \in 0..MaxChan
    BY <1>6, SessionAssumption DEF OpenChannel
  <2>2. TypeOK'
    BY <1>6, <2>1 DEF OpenChannel
  <2>3. UserInv(u)'
    BY <1>6, SessionAssumption DEF OpenChannel, Running
  <2> QED
    BY <1>6, <2>2, <2>3, UserStep DEF OpenChannel
<1>7. CASE Disconnect(u)
  <2>1. TypeOK' /\ UserInv(u)'
    BY <1>7 DEF Disconnect
  <2> QED
    BY <1>7, <2>1, UserStep DEF Disconnect
<1> QED
  BY <1>2, <1>3, <1>4, <1>5, <1>6, <1>7 DEF Channels

(* The invariant holds in every state of the front end.                    *)
THEOREM SessionInvariant == Spec => []SessionInv
<1>1. Init => SessionInv
  <2> SUFFICES ASSUME Init PROVE SessionInv
    OBVIOUS
  <2>1. 0 \in 0..MaxChan
    BY SessionAssumption
  <2>2. <<>> \in Seq({"session.opened", "channel.rejected", "channel.ended",
                      "session.closed"})
    OBVIOUS
  <2>3. /\ queue \in [User -> 0..MaxChan] /\ asked \in [User -> 0..MaxChan]
        /\ open \in [User -> 0..MaxChan]
    BY <2>1 DEF Init
  <2>4. trail \in [User -> Seq({"session.opened", "channel.rejected", "channel.ended",
                                "session.closed"})]
    BY <2>2 DEF Init
  <2>5. TypeOK
    BY <2>3, <2>4 DEF Init, TypeOK
  <2>6. ASSUME NEW u \in User PROVE Placed(u)
    <3>1. queue[u] = 0 /\ asked[u] = 0 /\ open[u] = 0
      BY DEF Init
    <3> QED
      BY <3>1 DEF Placed
  <2> QED
    BY <2>5, <2>6 DEF Init, SessionInv, NoTargetLeak, ShutdownDrained
<1>2. SessionInv /\ [Next]_vars => SessionInv'
  <2>1. SessionInv /\ UNCHANGED vars => SessionInv'
    BY DEF SessionInv, TypeOK, NoTargetLeak, ShutdownDrained, Placed, Running, vars
  <2> QED
    BY <2>1, ServeStep, DialStep, ChannelStep DEF Next
<1> QED
  BY <1>1, <1>2, PTL DEF Spec

(* The property NoTargetLeak: handleConn closes what DialTarget opened on  *)
(* every path out of it.                                                   *)
THEOREM TargetsAreClosed == Spec => []NoTargetLeak
BY SessionInvariant, PTL DEF SessionInv

(* The property ShutdownDrained: ListenAndServe returns nil only when no   *)
(* session and none of its channel goroutines is left.                     *)
THEOREM CleanShutdownDrains == Spec => []ShutdownDrained
BY SessionInvariant, PTL DEF SessionInv

(* Every variable of the front end keeps its type.                         *)
THEOREM SessionTyped == Spec => []TypeOK
BY SessionInvariant, PTL DEF SessionInv

-----------------------------------------------------------------------------
(* The trail of a session that has ended: between opening and closing,     *)
(* the rejection of the dial or the events of channels.                    *)
Ended(t) ==
  /\ Len(t) >= 2 /\ t[1] = "session.opened" /\ t[Len(t)] = "session.closed"
  /\ \/ \A i \in 2..(Len(t) - 1) : t[i] = "channel.ended"
     \/ Len(t) = 3 /\ t[2] = "channel.rejected"

(* What a trail holds, by where its handleConn is.                         *)
TrailInv(u) ==
  /\ conn[u] \in {"none", "handshake"} => trail[u] = <<>>
  /\ conn[u] \in {"signer", "tunnel", "direct", "target"} => trail[u] = <<"session.opened">>
  /\ conn[u] = "reject" => /\ Len(trail[u]) = 2 /\ trail[u][1] = "session.opened"
                           /\ trail[u][2] = "channel.rejected"
  /\ conn[u] = "proxy" => /\ Len(trail[u]) >= 1 /\ trail[u][1] = "session.opened"
                          /\ \A i \in 2..Len(trail[u]) : trail[u][i] = "channel.ended"
  /\ conn[u] = "gone" => trail[u] = <<>> \/ Ended(trail[u])

(* What an event appended to a trail makes of it.                          *)
LEMMA EmitEffect ==
  ASSUME TypeOK, NEW u \in User, NEW e, Emit(u, e)
  PROVE  /\ Len(trail'[u]) = Len(trail[u]) + 1
         /\ trail'[u][Len(trail[u]) + 1] = e
         /\ \A i \in 1..Len(trail[u]) : trail'[u][i] = trail[u][i]
         /\ \A v \in User \ {u} : trail'[v] = trail[v]
<1>1. trail[u] \in Seq({"session.opened", "channel.rejected", "channel.ended",
                       "session.closed"})
  BY DEF TypeOK
<1>2. trail'[u] = Append(trail[u], e) /\ \A v \in User \ {u} : trail'[v] = trail[v]
  BY DEF Emit, TypeOK
<1> QED
  BY <1>1, <1>2

(* A trail is as TrailInv says after any step of its own session ...       *)
LEMMA TrailOwnStep ==
  ASSUME SessionInv, NEW u \in User, TrailInv(u),
         Accept(u) \/ Dial(u) \/ TargetHandshake(u) \/ Channels(u) \/ ChannelEnds(u)
         \/ OpenChannel(u) \/ Disconnect(u)
  PROVE  TrailInv(u)'
<1>1. TypeOK /\ conn \in [User -> {"none", "handshake", "signer", "tunnel", "direct",
                                   "target", "reject", "proxy", "gone"}]
  BY DEF SessionInv, TypeOK
<1> USE DEF GoTo
<1>2. CASE RejectNext(u) \/ HandleNext(u) \/ OpenChannel(u) \/ Disconnect(u)
  BY <1>2 DEF RejectNext, HandleNext, OpenChannel, Disconnect, TrailInv
<1>3. CASE Accept(u) \/ HandshakeFails(u) \/ SignerOk(u)
  BY <1>1, <1>3 DEF Accept, HandshakeFails, SignerOk, TrailInv
<1>4. CASE HandshakeOk(u)
  <2>1. conn'[u] = "signer" /\ trail[u] = <<>> /\ Emit(u, "session.opened")
    BY <1>1, <1>4 DEF HandshakeOk, TrailInv
  <2>2. trail'[u] = <<"session.opened">>
    BY <1>1, <2>1 DEF Emit, TypeOK
  <2> QED
    BY <2>1, <2>2 DEF TrailInv
<1>5. ASSUME conn[u] \in {"signer", "tunnel", "direct", "target"}, Refuse(u)
      PROVE  TrailInv(u)'
  <2>1. conn'[u] = "reject" /\ trail[u] = <<"session.opened">>
    BY <1>1, <1>5 DEF Refuse, TrailInv
  <2>2. Emit(u, "channel.rejected")
    BY <1>5 DEF Refuse
  <2>3. /\ Len(trail'[u]) = Len(trail[u]) + 1
        /\ trail'[u][Len(trail[u]) + 1] = "channel.rejected"
        /\ \A i \in 1..Len(trail[u]) : trail'[u][i] = trail[u][i]
    BY <1>1, <2>2, EmitEffect
  <2> QED
    BY <2>1, <2>3 DEF TrailInv
<1>6. ASSUME conn[u] \in {"tunnel", "direct"}, trail' = trail,
             conn' = [conn EXCEPT ![u] = "target"] \/ conn' = [conn EXCEPT ![u] = "direct"]
      PROVE  TrailInv(u)'
  BY <1>1, <1>6 DEF TrailInv
<1>7. CASE SignerFails(u) \/ OpenTunnel(u) \/ DirectDial(u)
  BY <1>5, <1>6, <1>7 DEF SignerFails, OpenTunnel, DirectDial
<1>8. CASE TargetHandshake(u)
  <2>1. CASE Refuse(u)
    BY <1>5, <1>8, <2>1 DEF TargetHandshake
  <2>2. CASE conn' = [conn EXCEPT ![u] = "proxy"] /\ trail' = trail
    <3>1. conn'[u] = "proxy" /\ trail'[u] = <<"session.opened">>
      BY <1>1, <1>8, <2>2 DEF TargetHandshake, TrailInv
    <3> QED
      BY <3>1 DEF TrailInv
  <2> QED
    BY <1>8, <2>1, <2>2 DEF TargetHandshake
<1>9. CASE ChannelEnds(u)
  <2>1. conn[u] = "proxy" /\ conn' = conn
    <3>1. open[u] > 0 /\ conn' = conn
      BY <1>9 DEF ChannelEnds
    <3>2. conn[u] # "proxy" => open[u] = 0
      BY DEF SessionInv, Placed
    <3> QED
      BY <3>1, <3>2
  <2>2. CASE trail' = trail
    BY <2>1, <2>2 DEF TrailInv
  <2>3. CASE Emit(u, "channel.ended")
    <3>1. /\ Len(trail'[u]) = Len(trail[u]) + 1
          /\ trail'[u][Len(trail[u]) + 1] = "channel.ended"
          /\ \A i \in 1..Len(trail[u]) : trail'[u][i] = trail[u][i]
      BY <1>1, <2>3, EmitEffect
    <3>2. Len(trail[u]) \in Nat
      BY <1>1 DEF TypeOK
    <3> QED
      BY <2>1, <3>1, <3>2 DEF TrailInv
  <2> QED
    BY <1>9, <2>2, <2>3 DEF ChannelEnds
<1>10. CASE ConnEnds(u)
  <2>1. conn[u] \in {"reject", "proxy"} /\ conn'[u] = "gone" /\ Emit(u, "session.closed")
    BY <1>1, <1>10 DEF ConnEnds
  <2>2. /\ Len(trail'[u]) = Len(trail[u]) + 1
        /\ trail'[u][Len(trail[u]) + 1] = "session.closed"
        /\ \A i \in 1..Len(trail[u]) : trail'[u][i] = trail[u][i]
    BY <1>1, <2>1, EmitEffect
  <2>3. Len(trail[u]) \in Nat
    BY <1>1 DEF TypeOK
  <2>4. Ended(trail'[u])
    <3>1. CASE conn[u] = "reject"
      BY <2>2, <3>1 DEF TrailInv, Ended
    <3>2. CASE conn[u] = "proxy"
      BY <2>2, <2>3, <3>2 DEF TrailInv, Ended
    <3> QED
      BY <2>1, <3>1, <3>2
  <2> QED
    BY <2>1, <2>4 DEF TrailInv
<1> QED
  BY <1>2, <1>3, <1>4, <1>7, <1>8, <1>9, <1>10 DEF Dial, Channels

(* ... and no other step touches it.                                       *)
LEMMA TrailOtherStep ==
  ASSUME SessionInv, NEW u \in User, TrailInv(u), NEW v \in User \ {u},
         Accept(v) \/ Dial(v) \/ TargetHandshake(v) \/ Channels(v) \/ ChannelEnds(v)
         \/ OpenChannel(v) \/ Disconnect(v)
  PROVE  TrailInv(u)'
<1>1. TypeOK
  BY DEF SessionInv
<1>2. conn'[u] = conn[u]
  BY <1>1 DEF GoTo, Accept, Dial, TargetHandshake, HandshakeFails, HandshakeOk,
              SignerFails, SignerOk, OpenTunnel, DirectDial, Refuse, Channels, RejectNext,
              HandleNext, ConnEnds, ChannelEnds, OpenChannel, Disconnect, TypeOK
<1>3. trail' = trail \/ \E e : Emit(v, e)
  BY DEF Accept, Dial, TargetHandshake, HandshakeFails, HandshakeOk, SignerFails,
         SignerOk, OpenTunnel, DirectDial, Refuse, Channels, RejectNext, HandleNext,
         ConnEnds, ChannelEnds, OpenChannel, Disconnect
<1>4. trail'[u] = trail[u]
  BY <1>1, <1>3 DEF Emit, TypeOK
<1> QED
  BY <1>2, <1>4 DEF TrailInv

(* The property TrailWellFormed, from what a trail holds at each stage.    *)
THEOREM TrailsWellFormed == Spec => []TrailWellFormed
<1>1. Init => \A u \in User : TrailInv(u)
  BY DEF Init, TrailInv
<1>2. SessionInv /\ (\A u \in User : TrailInv(u)) /\ [Next]_vars
        => (\A u \in User : TrailInv(u))'
  <2> SUFFICES ASSUME SessionInv, \A u \in User : TrailInv(u), [Next]_vars, NEW u \in User
               PROVE  TrailInv(u)'
    OBVIOUS
  <2>1. CASE UNCHANGED vars \/ Serve \/ Cancel
    <3>1. conn' = conn /\ trail' = trail
      BY <2>1 DEF vars, Serve, Cancel, CloseListener, AcceptClosed, AcceptFails,
                  ServeReturns
    <3> QED
      BY <3>1 DEF TrailInv, Ended
  <2>2. ASSUME NEW v \in User, Accept(v) \/ Dial(v) \/ TargetHandshake(v) \/ Channels(v)
                               \/ ChannelEnds(v) \/ OpenChannel(v) \/ Disconnect(v)
        PROVE  TrailInv(u)'
    <3>1. CASE v = u
      BY <2>2, <3>1, TrailOwnStep
    <3>2. CASE v # u
      BY <2>2, <3>2, TrailOtherStep
    <3> QED
      BY <3>1, <3>2
  <2> QED
    BY <2>1, <2>2 DEF Next
<1>3. TypeOK /\ (\A u \in User : TrailInv(u)) => TrailWellFormed
  <2> SUFFICES ASSUME TypeOK, NEW u \in User, TrailInv(u)
               PROVE  LET t == trail[u]
                      IN  /\ \A i \in DOMAIN t :
                               /\ t[i] = "session.opened" <=> i = 1
                               /\ t[i] = "session.closed" => i = Len(t) /\ conn[u] = "gone"
                               /\ t[i] = "channel.rejected" => i = 2
                               /\ t[i] = "channel.ended" => t[2] # "channel.rejected"
                          /\ conn[u] = "gone" /\ t # <<>> => t[Len(t)] = "session.closed"
    BY DEF TrailWellFormed
  <2>1. /\ Len(trail[u]) \in Nat /\ DOMAIN trail[u] = 1..Len(trail[u])
        /\ conn[u] \in {"none", "handshake", "signer", "tunnel", "direct", "target",
                        "reject", "proxy", "gone"}
    BY DEF TypeOK
  <2>2. CASE conn[u] = "proxy"
    BY <2>1, <2>2 DEF TrailInv
  <2>3. CASE conn[u] = "gone"
    BY <2>1, <2>3 DEF TrailInv, Ended
  <2>4. CASE conn[u] \notin {"proxy", "gone"}
    BY <2>1, <2>4 DEF TrailInv
  <2> QED
    BY <2>2, <2>3, <2>4
<1> QED
  BY <1>1, <1>2, <1>3, SessionInvariant, SessionTyped, PTL DEF Spec

-----------------------------------------------------------------------------
(* The process.                                                            *)

(* The calls that leave something to close, once they have been made.      *)
Opening == {i \in 1..18 : Calls[i].made /\ Calls[i].opens # "nothing"}

(* Where each of them stands in runServe.                                  *)
LEMMA CallOrder ==
  /\ Len(Calls) = 18
  /\ Calls[5] = auditSink /\ Calls[9] = buildTunnelListener
  /\ Calls[12] = sessionSource /\ Calls[14] = auditSource /\ Calls[18] = rootContext
BY DEF Calls

(* The provers do not split a range by themselves.                         *)
LEMMA EighteenNumbers ==
  ASSUME NEW i \in 1..18
  PROVE  \/ i = 1 \/ i = 2 \/ i = 3 \/ i = 4 \/ i = 5 \/ i = 6 \/ i = 7 \/ i = 8 \/ i = 9
         \/ i = 10 \/ i = 11 \/ i = 12 \/ i = 13 \/ i = 14 \/ i = 15 \/ i = 16 \/ i = 17
         \/ i = 18
OBVIOUS

(* Only one call makes the root context.                                   *)
LEMMA OneRootContext ==
  ASSUME NEW i \in 1..18, Calls[i].opens = "root context"
  PROVE  i = 18
<1>1. /\ Calls[1] = loadHostKey /\ Calls[2] = loadUserCA
      /\ Calls[3] = loadTargetHostKeyCallback /\ Calls[4] = loadRecordingSink
      /\ Calls[5] = auditSink /\ Calls[6] = certdReloader
      /\ Calls[7] = buildTunnelServerTLS /\ Calls[8] = loadClientSignerFunc
      /\ Calls[9] = buildTunnelListener /\ Calls[10] = buildRevocationChecker
      /\ Calls[11] = newServer /\ Calls[12] = sessionSource
      /\ Calls[13] = newSessionTracker /\ Calls[14] = auditSource
      /\ Calls[15] = newAuditTracker /\ Calls[16] = loadPortalCastStore
      /\ Calls[17] = newPortal
  BY DEF Calls
<1>2. /\ loadHostKey.opens = "nothing" /\ loadUserCA.opens = "nothing"
      /\ loadTargetHostKeyCallback.opens = "nothing"
      /\ loadRecordingSink.opens = "nothing" /\ certdReloader.opens = "nothing"
      /\ buildTunnelServerTLS.opens = "nothing"
      /\ loadClientSignerFunc.opens = "nothing"
      /\ buildRevocationChecker.opens = "nothing" /\ newServer.opens = "nothing"
      /\ newSessionTracker.opens = "nothing" /\ newAuditTracker.opens = "nothing"
      /\ loadPortalCastStore.opens = "nothing" /\ newPortal.opens = "nothing"
      /\ auditSink.opens = "sink" /\ buildTunnelListener.opens = "registry"
      /\ sessionSource.opens = "session source" /\ auditSource.opens = "audit source"
  BY DEF loadHostKey, loadUserCA, loadTargetHostKeyCallback, loadRecordingSink,
         certdReloader, buildTunnelServerTLS, loadClientSignerFunc,
         buildRevocationChecker, newServer, newSessionTracker, newAuditTracker,
         loadPortalCastStore, newPortal, auditSink, buildTunnelListener, sessionSource,
         auditSource, Call
<1> QED
  BY <1>1, <1>2, EighteenNumbers

(* The start-up has deferred a close for everything it opened so far, the  *)
(* group runs with all of them pending, and they go in reverse order; the  *)
(* group was left, if it was entered, with all its components.             *)
ProcessInv ==
  /\ phase \in {"start", "group", "unwind", "exited"} /\ step \in 1..19
  /\ signal \in BOOLEAN /\ ctx \in BOOLEAN
  /\ deferred \subseteq Opening
  /\ \A i \in deferred, j \in Opening : j < i => j \in deferred
  /\ phase = "start" => deferred = {i \in Opening : i < step}
  /\ phase = "group" => deferred = Opening /\ step = 19
  /\ phase \in {"unwind", "exited"} /\ step = 19 =>
       serve \in {"done", "failed"} /\ tunnel \in {"off", "done"}
  /\ step # 19 \/ phase = "start" =>
       ctx = FALSE /\ tunnel = "off" /\ conn = [u \in User |-> "none"]
  /\ tunnel # "off" => IsSet("TUNNEL_ADDR")

(* What is open depends on the environment, which never changes.           *)
LEMMA SameCalls == env' = env => Calls' = Calls /\ Opening' = Opening
BY DEF Opening, Calls, loadHostKey, loadUserCA, loadTargetHostKeyCallback,
       loadRecordingSink, auditSink, certdReloader, buildTunnelServerTLS,
       loadClientSignerFunc, buildTunnelListener, buildRevocationChecker, newServer,
       sessionSource, newSessionTracker, auditSource, newAuditTracker,
       loadPortalCastStore, newPortal, rootContext, Call, CertdWanted, Tailing, IsSet

(* The start-up.                                                           *)
LEMMA StartUpStep == ProcessInv /\ StartUp => ProcessInv'
<1> SUFFICES ASSUME ProcessInv, StartUp PROVE ProcessInv'
  OBVIOUS
<1>1. Calls' = Calls /\ Opening' = Opening /\ env' = env
  BY SameCalls DEF StartUp, CallLeftOut, CallReturns, CallFails, StartGroup
<1> USE <1>1, CallOrder DEF ProcessInv, IsSet
<1>2. CASE CallLeftOut
  <2>1. step \notin Opening
    BY <1>2 DEF CallLeftOut, Pending, Opening
  <2>2. {i \in Opening : i < step} = {i \in Opening : i < step'}
    BY <1>2, <2>1 DEF CallLeftOut, Opening
  <2> QED
    BY <1>2, <2>2 DEF CallLeftOut, vars
<1>3. CASE CallReturns
  <2>1. deferred' = {i \in Opening : i < step'}
    BY <1>3 DEF CallReturns, Pending, Opening
  <2>2. \A i \in deferred', j \in Opening : j < i => j \in deferred'
    BY <1>3, <2>1 DEF CallReturns, Opening
  <2> QED
    BY <1>3, <2>1, <2>2 DEF CallReturns, vars
<1>4. CASE CallFails
  BY <1>4 DEF CallFails, vars
<1>5. CASE StartGroup
  <2>1. step = 19
    BY <1>5 DEF StartGroup
  <2>2. deferred = Opening
    BY <1>5, <2>1 DEF StartGroup, Opening
  <2> QED
    BY <1>5, <2>1, <2>2 DEF StartGroup
<1> QED
  BY <1>2, <1>3, <1>4, <1>5 DEF StartUp

(* The signal, the group, and the way out.                                 *)
LEMMA GroupStep == ProcessInv /\ (Signal \/ Group \/ Unwind \/ Exit) => ProcessInv'
<1> SUFFICES ASSUME ProcessInv, Signal \/ Group \/ Unwind \/ Exit PROVE ProcessInv'
  OBVIOUS
<1>1. Calls' = Calls /\ Opening' = Opening /\ env' = env
  BY SameCalls DEF Signal, Group, GroupCancel, TunnelStops, TunnelReturns, PortalReturns,
                   GroupReturns, Unwind, Exit, procVars
<1> USE <1>1 DEF ProcessInv, IsSet
<1>2. CASE Signal
  BY <1>2 DEF Signal
<1>3. CASE GroupCancel
  BY <1>3 DEF GroupCancel, Cancel, procVars
<1>4. CASE TunnelStops \/ TunnelReturns \/ PortalReturns
  BY <1>4 DEF TunnelStops, TunnelReturns, PortalReturns, vars
<1>5. CASE GroupReturns
  BY <1>5 DEF GroupReturns, vars
<1>6. CASE Unwind
  <2>1. PICK i \in deferred : /\ \A j \in deferred : j <= i
                              /\ deferred' = deferred \ {i}
    BY <1>6 DEF Unwind
  <2>2. \A k \in deferred', j \in Opening : j < k => j \in deferred'
    BY <2>1 DEF Opening
  <2> QED
    BY <1>6, <2>1, <2>2 DEF Unwind, vars
<1>7. CASE Exit
  BY <1>7 DEF Exit, vars
<1> QED
  BY <1>2, <1>3, <1>4, <1>5, <1>6, <1>7 DEF Group

(* The front end: it acts only once the group was entered, and after the   *)
(* group ListenAndServe does not move.                                     *)
LEMMA FrontEndStep == ProcessInv /\ FrontEnd => ProcessInv'
<1> SUFFICES ASSUME ProcessInv, FrontEnd PROVE ProcessInv'
  OBVIOUS
<1>1. UNCHANGED procVars /\ step = 19 /\ phase \in {"group", "unwind"}
  BY CallOrder DEF FrontEnd, Up, ProcessInv
<1>2. Calls' = Calls /\ Opening' = Opening /\ env' = env
  BY <1>1, SameCalls DEF procVars
<1>3. ctx' = ctx /\ (serve \in {"done", "failed"} => serve' = serve)
  <2>1. CASE Serve
    BY <2>1 DEF Serve, CloseListener, AcceptClosed, AcceptFails, ServeReturns
  <2>2. ASSUME NEW u \in User, UserActs(u) PROVE ctx' = ctx /\ serve' = serve
    <3>1. CASE Accept(u) \/ TargetHandshake(u) \/ ChannelEnds(u) \/ OpenChannel(u)
               \/ Disconnect(u)
      BY <3>1 DEF Accept, TargetHandshake, ChannelEnds, OpenChannel, Disconnect
    <3>2. CASE Dial(u)
      BY <3>2 DEF Dial, HandshakeFails, HandshakeOk, SignerFails, SignerOk, OpenTunnel,
                  DirectDial
    <3>3. CASE Channels(u)
      BY <3>3 DEF Channels, RejectNext, HandleNext, ConnEnds
    <3> QED
      BY <2>2, <3>1, <3>2, <3>3 DEF UserActs
  <2> QED
    BY <2>1, <2>2 DEF FrontEnd
<1> QED
  BY <1>1, <1>2, <1>3 DEF ProcessInv, procVars, IsSet

(* The invariant of the process.                                           *)
THEOREM ProcessInvariant == ProxySpec => []ProcessInv
<1>1. ProxyInit => ProcessInv
  <2> SUFFICES ASSUME ProxyInit PROVE ProcessInv
    OBVIOUS
  <2>1. {i \in Opening : i < step} = {}
    BY DEF ProxyInit, Opening
  <2>2. deferred = {} /\ step = 1 /\ phase = "start"
    BY DEF ProxyInit
  <2>3. /\ signal \in BOOLEAN /\ ctx \in BOOLEAN /\ ctx = FALSE /\ tunnel = "off"
        /\ conn = [u \in User |-> "none"]
    BY DEF ProxyInit, Init
  <2>4. step \in 1..19 /\ step # 19
    BY <2>2
  <2> HIDE DEF Opening
  <2> QED
    BY <2>1, <2>2, <2>3, <2>4, Zenon DEF ProcessInv
<1>2. ProcessInv /\ [ProxyNext]_allVars => ProcessInv'
  <2>1. ProcessInv /\ UNCHANGED allVars => ProcessInv'
    <3> SUFFICES ASSUME ProcessInv, UNCHANGED allVars PROVE ProcessInv'
      OBVIOUS
    <3>1. Calls' = Calls /\ Opening' = Opening
      BY SameCalls DEF allVars, procVars
    <3> QED
      BY <3>1 DEF ProcessInv, allVars, procVars, vars, IsSet
  <2> QED
    BY <2>1, StartUpStep, GroupStep, FrontEndStep DEF ProxyNext
<1> QED
  BY <1>1, <1>2, PTL DEF ProxySpec

(* The front end in the process behaves as it does alone: every step of    *)
(* the process is a step of UserSession or none at all.                    *)
THEOREM FrontEndInProcess == ProxySpec => Spec
<1>1. ProxyInit => Init
  BY DEF ProxyInit
<1>2. ProcessInv /\ [ProxyNext]_allVars => [Next]_vars
  <2> SUFFICES ASSUME ProcessInv, [ProxyNext]_allVars PROVE [Next]_vars
    OBVIOUS
  <2>1. CASE UNCHANGED allVars
    BY <2>1 DEF allVars
  <2>2. CASE CallLeftOut \/ CallReturns \/ CallFails \/ TunnelStops \/ TunnelReturns
             \/ PortalReturns \/ GroupReturns \/ Unwind \/ Exit
    BY <2>2 DEF CallLeftOut, CallReturns, CallFails, TunnelStops, TunnelReturns,
                PortalReturns, GroupReturns, Unwind, Exit
  <2>3. CASE StartGroup
    <3>1. ctx = FALSE /\ ctx' \in BOOLEAN
      BY <2>3 DEF StartGroup, ProcessInv
    <3>2. Cancel \/ UNCHANGED vars
      BY <2>3, <3>1 DEF StartGroup, Cancel, vars
    <3> QED
      BY <3>2 DEF Next
  <2>4. CASE Signal
    <3>1. Cancel \/ UNCHANGED vars
      BY <2>4 DEF Signal, Cancel, vars, ProcessInv
    <3> QED
      BY <3>1 DEF Next
  <2>5. CASE GroupCancel
    BY <2>5 DEF GroupCancel, Next
  <2>6. CASE FrontEnd
    BY <2>6 DEF FrontEnd, UserActs, Next
  <2> QED
    BY <2>1, <2>2, <2>3, <2>4, <2>5, <2>6 DEF ProxyNext, StartUp, Group
<1> QED
  BY <1>1, <1>2, ProcessInvariant, PTL DEF ProxySpec, Spec

(* The property ProxyTypeOK: the environment stays what it was at the      *)
(* start, and runServe never leaves its 18 calls, defers no other close    *)
(* and drives the components of the group through their own states.        *)
THEOREM ProcessTyped == ProxySpec => []ProxyTypeOK
<1> DEFINE Components == /\ env \in Environment
                         /\ tunnel \in {"off", "run", "wait", "done"}
                         /\ portal \in {"off", "run", "done"}
<1>1. ProxyInit => Components
  BY DEF ProxyInit
<1>2. Components /\ [ProxyNext]_allVars => Components'
  <2> SUFFICES ASSUME Components, [ProxyNext]_allVars PROVE Components'
    OBVIOUS
  <2>1. CASE UNCHANGED allVars \/ FrontEnd
    BY <2>1 DEF allVars, procVars, FrontEnd, Up
  <2>2. CASE StartUp
    BY <2>2 DEF StartUp, CallLeftOut, CallReturns, CallFails, StartGroup
  <2>3. CASE Signal \/ Group
    BY <2>3 DEF Signal, Group, GroupCancel, TunnelStops, TunnelReturns, PortalReturns,
                GroupReturns, procVars
  <2>4. CASE Unwind \/ Exit
    BY <2>4 DEF Unwind, Exit
  <2> QED
    BY <2>1, <2>2, <2>3, <2>4 DEF ProxyNext
<1>3. TypeOK /\ ProcessInv /\ Components => ProxyTypeOK
  <2> SUFFICES ASSUME TypeOK, ProcessInv, Components PROVE ProxyTypeOK
    OBVIOUS
  <2>1. step \in 1..(Len(Calls) + 1) /\ deferred \subseteq 1..Len(Calls)
    BY CallOrder DEF ProcessInv, Opening
  <2> QED
    BY <2>1 DEF ProxyTypeOK, ProcessInv
<1> QED
  BY <1>1, <1>2, <1>3, ProcessInvariant, FrontEndInProcess, SessionTyped, PTL
     DEF ProxySpec

(* The properties of module UserSession hold of the process.               *)
COROLLARY ProcessDrains == ProxySpec => []NoTargetLeak /\ []ShutdownDrained
BY FrontEndInProcess, TargetsAreClosed, CleanShutdownDrains, PTL

(* So does TrailWellFormed: the process neither cuts a trail short nor     *)
(* mixes up its order.                                                     *)
COROLLARY ProcessTrails == ProxySpec => []TrailWellFormed
BY FrontEndInProcess, TrailsWellFormed, PTL

(* The property ClosedAfterUse: the order of the deferred calls and the    *)
(* wait of the group for its components keep everything open as long as    *)
(* somebody works on it.  It needs ShutdownDrained of the front end, which *)
(* is why its sessions are over when the group is.                         *)
THEOREM NothingClosedUnderUse == ProxySpec => []ClosedAfterUse
<1>1. ProcessInv /\ ShutdownDrained => ClosedAfterUse
  <2> SUFFICES ASSUME ProcessInv, ShutdownDrained, phase # "exited" PROVE ClosedAfterUse
    BY DEF ClosedAfterUse
  <2>1. /\ Calls[5] = auditSink /\ Calls[9] = buildTunnelListener
        /\ Calls[12] = sessionSource /\ Calls[14] = auditSource /\ Calls[18] = rootContext
    BY CallOrder
  <2>2. auditSink.made /\ rootContext.made
    BY DEF auditSink, rootContext, Call
  <2>3. /\ auditSink.opens = "sink" /\ rootContext.opens = "root context"
        /\ buildTunnelListener.opens = "registry"
        /\ sessionSource.opens = "session source" /\ auditSource.opens = "audit source"
    BY DEF auditSink, rootContext, buildTunnelListener, sessionSource, auditSource, Call
  <2>4. IsSet("TUNNEL_ADDR") => buildTunnelListener.made
    BY DEF buildTunnelListener, Call
  <2>5. Tailing => sessionSource.made /\ auditSource.made
    BY DEF sessionSource, auditSource, Call
  <2>6. /\ 5 \in Opening /\ 18 \in Opening
        /\ IsSet("TUNNEL_ADDR") => 9 \in Opening
        /\ Tailing => 12 \in Opening /\ 14 \in Opening
    <3>1. Calls[5].made /\ Calls[18].made
      BY <2>1, <2>2, Zenon
    <3>2. IsSet("TUNNEL_ADDR") => Calls[9].made
      BY <2>1, <2>4, Zenon
    <3>3. Tailing => Calls[12].made /\ Calls[14].made
      BY <2>1, <2>5, Zenon
    <3>4. Calls[5].opens # "nothing" /\ Calls[9].opens # "nothing"
          /\ Calls[12].opens # "nothing" /\ Calls[14].opens # "nothing"
          /\ Calls[18].opens # "nothing"
      BY <2>1, <2>3
    <3> QED
      BY <3>1, <3>2, <3>3, <3>4 DEF Opening
  <2>7. phase = "group" => IsOpen("sink") /\ (IsSet("TUNNEL_ADDR") => IsOpen("registry"))
    BY <2>1, <2>3, <2>6 DEF ProcessInv, IsOpen
  <2>8. ASSUME NEW u \in User, Running(u), serve # "failed" PROVE phase = "group"
    BY <2>8 DEF ProcessInv, ShutdownDrained, Running
  <2>9. tunnel \in {"run", "wait"} => phase = "group" /\ IsSet("TUNNEL_ADDR")
    BY DEF ProcessInv
  <2>10. ASSUME phase # "start", step > Len(Calls), NEW p \in Pollers,
               ~IsOpen(SourceOf(p)), ~RootDone
        PROVE  FALSE
    <3>1. step = 19 /\ phase \in {"group", "unwind"}
      BY <2>10, CallOrder DEF ProcessInv
    <3>2. 18 \in deferred
      <4>1. CASE phase = "group"
        BY <2>6, <4>1 DEF ProcessInv
      <4>2. CASE phase = "unwind"
        <5>1. PICK i \in deferred : Calls[i].opens = "root context"
          BY <2>10, <4>2 DEF RootDone, IsOpen
        <5>2. i \in 1..18
          BY <5>1 DEF ProcessInv, Opening
        <5>3. i = 18
          BY <5>1, <5>2, OneRootContext
        <5> QED
          BY <5>3
      <4> QED
        BY <3>1, <4>1, <4>2
    <3>3. deferred = Opening
      <4>1. \A j \in Opening : j = 18 \/ j < 18
        BY DEF Opening
      <4> QED
        BY <3>2, <4>1 DEF ProcessInv
    <3>4. CASE p = "session-tracker"
      <4>1. Tailing
        BY <3>4 DEF Pollers
      <4> QED
        BY <2>1, <2>3, <2>6, <2>10, <3>3, <3>4, <4>1 DEF SourceOf, IsOpen
    <3>5. CASE p = "audit-tracker"
      <4>1. Tailing
        BY <3>5 DEF Pollers
      <4>2. SourceOf(p) = "audit source"
        BY <3>5 DEF SourceOf
      <4> QED
        BY <2>1, <2>3, <2>6, <2>10, <3>3, <4>1, <4>2 DEF IsOpen
    <3>6. CASE p \notin {"session-tracker", "audit-tracker"}
      <4>1. SourceOf(p) = "root context"
        BY <3>6 DEF SourceOf
      <4> QED
        BY <2>1, <2>3, <2>10, <3>2, <4>1 DEF IsOpen
    <3> QED
      BY <3>4, <3>5, <3>6
  <2> QED
    BY <2>7, <2>8, <2>9, <2>10 DEF ClosedAfterUse
<1> QED
  BY <1>1, ProcessInvariant, ProcessDrains, PTL
=============================================================================
