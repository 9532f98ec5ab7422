-------------------------- MODULE ChannelPipeProofs --------------------------
(***************************************************************************)
(* Proofs about the channels of a connection, for any number of channels,  *)
(* chunks and requests.                                                    *)
(***************************************************************************)
EXTENDS ChannelPipe, TLAPS

-----------------------------------------------------------------------------
(* A stream is passed on in order and the target's end is found drained    *)
(* before it is closed on a user who is there.                             *)
CloseInv(c) ==
  /\ user[c].got <= target[c].sent
  /\ copy[c].out = "write" => user[c].got < target[c].sent
  /\ copy[c].out = "done" /\ ~user[c].closed /\ ~shut[c].src =>
       user[c].got = target[c].sent /\ (target[c].eof \/ target[c].closed)
  /\ target[c].exit = "taken" /\ ~user[c].closed /\ ~shut[c].src => user[c].exit
  /\ shut[c].src /\ ~user[c].closed =>
       /\ target[c].closed /\ target[c].exit # "sent"
       /\ user[c].got = target[c].sent
       /\ target[c].exit # "no" => user[c].exit

(* Before a target learns of a PTY the recorder has been started, or there *)
(* is a gap, or the cast could not be created and never will be.           *)
PTYPending(c) ==
  target[c].pty # {} \/ (copy[c].ureq = "forward" /\ Head(reqs[c]) = "pty-req")

Recorded(c, k) == k \in rec[c].cast \/ (k = user[c].got /\ copy[c].out = "tee")

Early == {"none", "new", "accept"}   \* before pipeChannel

RecInv(c) ==
  /\ stage[c] \in Early => ~PTYPending(c)
  /\ rec[c].cast \subseteq 0..user[c].got
  /\ PTYPending(c) /\ rec[c].state = "idle" => rec[c].gap \/ file
  /\ "recording.completed" \in events[c].seen =>
       stage[c] = "gone" /\ copy[c].out = "done"
  /\ (rec[c].state = "open" \/ "recording.completed" \in events[c].seen)
       /\ ~rec[c].gap =>
       \A k \in 1..user[c].got : (\E n \in target[c].pty : k > n) => Recorded(c, k)

(* What a port forward has moved is what has been counted.                 *)
ForwardInv(c) ==
  /\ target[c].got <= user[c].taken
  /\ copy[c].in = "write" => target[c].got < user[c].taken
  /\ "port_forward.opened" \in events[c].seen => stage[c] \in {"pipe", "gone"}
  /\ stage[c] = "gone" /\ "port_forward.opened" \in events[c].seen =>
       /\ "port_forward.closed" \in events[c].seen
       /\ events[c].bytesOut = user[c].got
       /\ events[c].bytesIn >= target[c].got

PipeInv == TypeOK /\ \A c \in Channel : CloseInv(c) /\ RecInv(c) /\ ForwardInv(c)

Step(c) == Peers(c) \/ HandleChannel(c) \/ Pipe(c)

-----------------------------------------------------------------------------
LEMMA PipeInit == Init => PipeInv
<1>. SUFFICES ASSUME Init PROVE PipeInv
  OBVIOUS
<1>1. user \in [Channel -> UserEnd] /\ target \in [Channel -> TargetEnd]
  BY DEF Init, UserEnd, TargetEnd
<1>2. copy \in [Channel -> Copies] /\ rec \in [Channel -> Recorder]
  BY DEF Init, Copies, Recorder
<1>3. events \in [Channel -> [seen : SUBSET Action, bytesIn : Nat, bytesOut : Nat]]
  BY DEF Init
<1>4. TypeOK
  <2>1. /\ stage \in [Channel -> {"none", "new", "accept", "pipe", "gone"}]
        /\ kind \in [Channel -> {"session", "direct-tcpip"}]
        /\ reqs \in [Channel -> Seq(Request)] /\ asked \in [Channel -> Nat]
    BY DEF Init
  <2>2. /\ \A c \in Channel : copy[c].ureq = "run"
        /\ shut \in [Channel -> [src : BOOLEAN, dst : BOOLEAN]]
    BY DEF Init
  <2>. QED
    BY <1>1, <1>2, <1>3, <2>1, <2>2 DEF Init, TypeOK
<1>. QED
  BY <1>4 DEF Init, PipeInv, CloseInv, RecInv, ForwardInv, PTYPending

(* Every step keeps the types.                                             *)
LEMMA PipeTypes ==
  ASSUME TypeOK, NEW c \in Channel, Step(c)
  PROVE  TypeOK'
<1>u. user \in [Channel -> UserEnd]
  BY DEF TypeOK
<1>t. target \in [Channel -> TargetEnd]
  BY DEF TypeOK
<1>p. copy \in [Channel -> Copies]
  BY DEF TypeOK
<1>r. rec \in [Channel -> Recorder]
  BY DEF TypeOK
<1>e. events \in [Channel -> [seen : SUBSET Action, bytesIn : Nat, bytesOut : Nat]]
  BY DEF TypeOK
<1>q. /\ reqs \in [Channel -> Seq(Request)]
      /\ \A d \in Channel : copy[d].ureq = "forward" => reqs[d] # << >>
  BY DEF TypeOK
<1>1. CASE \E k \in Kind : UserOpens(c, k)
  BY <1>1, PipeAssumption DEF UserOpens, TypeOK
<1>2. CASE \E r \in Request : UserAsks(c, r)
  <2>1. PICK r \in Request : UserAsks(c, r)
    BY <1>2
  <2>2. /\ reqs' = [reqs EXCEPT ![c] = Append(@, r)] /\ copy' = copy
        /\ asked \in [Channel -> Nat] /\ asked' = [asked EXCEPT ![c] = @ + 1]
    BY <2>1 DEF UserAsks, TypeOK
  <2>3. /\ reqs' \in [Channel -> Seq(Request)]
        /\ \A d \in Channel : copy'[d].ureq = "forward" => reqs'[d] # << >>
    BY <1>q, <2>2
  <2>4. asked' \in [Channel -> Nat]
    BY <2>2
  <2>. QED
    BY <2>1, <2>3, <2>4 DEF UserAsks, TypeOK
<1>3. CASE UserSends(c) \/ UserEOF(c) \/ UserCloses(c)
  <2>1. \/ user' = [user EXCEPT ![c].sent = @ + 1]
        \/ user' = [user EXCEPT ![c].eof = TRUE]
        \/ user' = [user EXCEPT ![c].closed = TRUE]
    BY <1>3 DEF UserSends, UserEOF, UserCloses
  <2>2. user' \in [Channel -> UserEnd]
    <3>1. CASE user' = [user EXCEPT ![c].sent = @ + 1]
      BY <1>u, <3>1 DEF UserEnd
    <3>2. CASE user' = [user EXCEPT ![c].eof = TRUE]
      BY <1>u, <3>2 DEF UserEnd
    <3>3. CASE user' = [user EXCEPT ![c].closed = TRUE]
      BY <1>u, <3>3 DEF UserEnd
    <3>. QED
      BY <2>1, <3>1, <3>2, <3>3
  <2>. QED
    BY <1>3, <2>2 DEF UserSends, UserEOF, UserCloses, TypeOK
<1>4. CASE TargetSends(c) \/ TargetExits(c) \/ TargetCloses(c)
  <2>1. \/ target' = [target EXCEPT ![c].sent = @ + 1]
        \/ target' = [target EXCEPT ![c].eof = TRUE]
        \/ target' = [target EXCEPT ![c].exit = "sent"]
        \/ target' = [target EXCEPT ![c].closed = TRUE]
    BY <1>4 DEF TargetSends, TargetExits, TargetCloses
  <2>2. target' \in [Channel -> TargetEnd]
    <3>1. CASE target' = [target EXCEPT ![c].sent = @ + 1]
      BY <1>t, <3>1 DEF TargetEnd
    <3>2. CASE target' = [target EXCEPT ![c].eof = TRUE]
      BY <1>t, <3>2 DEF TargetEnd
    <3>3. CASE target' = [target EXCEPT ![c].exit = "sent"]
      BY <1>t, <3>3 DEF TargetEnd
    <3>4. CASE target' = [target EXCEPT ![c].closed = TRUE]
      BY <1>t, <3>4 DEF TargetEnd
    <3>. QED
      BY <2>1, <3>1, <3>2, <3>3, <3>4
  <2>. QED
    BY <1>4, <2>2 DEF TargetSends, TargetExits, TargetCloses, TypeOK
<1>5. CASE ChannelDenied(c) \/ OpenTarget(c) \/ AcceptFails(c)
  <2>1. /\ \E s \in {"accept", "gone"} : stage' = [stage EXCEPT ![c] = s]
        /\ shut' = shut \/ shut' = [shut EXCEPT ![c].dst = TRUE]
    BY <1>5 DEF ChannelDenied, OpenTarget, AcceptFails
  <2>2. stage' \in [Channel -> {"none", "new", "accept", "pipe", "gone"}]
    BY <2>1 DEF TypeOK
  <2>3. shut' \in [Channel -> [src : BOOLEAN, dst : BOOLEAN]]
    <3>1. shut \in [Channel -> [src : BOOLEAN, dst : BOOLEAN]]
      BY DEF TypeOK
    <3>. QED
      BY <2>1, <3>1
  <2>. QED
    BY <1>5, <2>2, <2>3 DEF ChannelDenied, OpenTarget, AcceptFails, TypeOK
<1>6. CASE Accept(c)
  <2>1. \E s \in {"none", "idle"} : rec' = [rec EXCEPT ![c].state = s]
    BY <1>6 DEF Accept
  <2>2. rec' \in [Channel -> Recorder]
    BY <1>r, <2>1 DEF Recorder
  <2>3. \/ events' = events
        \/ events' = [events EXCEPT ![c].seen = @ \cup {"port_forward.opened"}]
    BY <1>6 DEF Accept, PortForwardOpen, Emit
  <2>4. events' \in [Channel -> [seen : SUBSET Action, bytesIn : Nat, bytesOut : Nat]]
    BY <1>e, <2>3 DEF Action
  <2>. QED
    BY <1>6, <2>2, <2>4 DEF Accept, TypeOK
<1>7. CASE OutRead(c)
  <2>1. \E o \in {"write", "done"} : copy' = [copy EXCEPT ![c].out = o]
    BY <1>7 DEF OutRead
  <2>2. copy' \in [Channel -> Copies] /\ \A d \in Channel : copy'[d].ureq = copy[d].ureq
    BY <1>p, <2>1 DEF Copies
  <2>. QED
    BY <1>7, <2>2 DEF OutRead, TypeOK
<1>8. CASE OutWrite(c)
  <2>1. /\ \E o \in {"tee", "done"} : copy' = [copy EXCEPT ![c].out = o]
        /\ user' = user \/ user' = [user EXCEPT ![c].got = @ + 1]
    BY <1>8 DEF OutWrite
  <2>2. copy' \in [Channel -> Copies] /\ \A d \in Channel : copy'[d].ureq = copy[d].ureq
    BY <1>p, <2>1 DEF Copies
  <2>3. user' \in [Channel -> UserEnd]
    BY <1>u, <2>1 DEF UserEnd
  <2>. QED
    BY <1>8, <2>2, <2>3 DEF OutWrite, TypeOK
<1>9. CASE OutRecord(c)
  <2>1. /\ copy' = [copy EXCEPT ![c].out = "read"]
        /\ \/ rec' = rec
           \/ rec' = [rec EXCEPT ![c].cast = @ \cup {user[c].got}]
           \/ rec' = [rec EXCEPT ![c].gap = TRUE]
    BY <1>9 DEF OutRecord, Output, Gap
  <2>2. copy' \in [Channel -> Copies] /\ \A d \in Channel : copy'[d].ureq = copy[d].ureq
    BY <1>p, <2>1 DEF Copies
  <2>3. user[c].got \in Nat
    BY <1>u DEF UserEnd
  <2>4. rec' \in [Channel -> Recorder]
    <3>1. CASE rec' = [rec EXCEPT ![c].cast = @ \cup {user[c].got}]
      BY <1>r, <2>3, <3>1 DEF Recorder
    <3>2. CASE rec' = [rec EXCEPT ![c].gap = TRUE]
      BY <1>r, <2>3, <3>2 DEF Recorder
    <3>. QED
      BY <1>r, <2>1, <3>1, <3>2
  <2>. QED
    BY <1>9, <2>2, <2>4 DEF OutRecord, TypeOK
<1>10. CASE TargetRequest(c)
  <2>1. /\ target' = [target EXCEPT ![c].exit = "taken"]
        /\ \E b \in BOOLEAN : user' = [user EXCEPT ![c].exit = b]
    BY <1>10 DEF TargetRequest, SrcOpen
  <2>2. target' \in [Channel -> TargetEnd]
    BY <1>t, <2>1 DEF TargetEnd
  <2>3. user' \in [Channel -> UserEnd]
    BY <1>u, <2>1 DEF UserEnd
  <2>. QED
    BY <1>10, <2>2, <2>3 DEF TargetRequest, TypeOK
<1>11. CASE InRead(c)
  <2>1. /\ user' = user \/ user' = [user EXCEPT ![c].taken = @ + 1]
        /\ \E i \in {"write", "done"} : copy' = [copy EXCEPT ![c].in = i]
    BY <1>11 DEF InRead
  <2>2. user' \in [Channel -> UserEnd]
    BY <1>u, <2>1 DEF UserEnd
  <2>3. copy' \in [Channel -> Copies] /\ \A d \in Channel : copy'[d].ureq = copy[d].ureq
    BY <1>p, <2>1 DEF Copies
  <2>. QED
    BY <1>11, <2>2, <2>3 DEF InRead, TypeOK
<1>12. CASE InWrite(c)
  <2>1. /\ target' = target \/ target' = [target EXCEPT ![c].got = @ + 1]
        /\ \E i \in {"read", "done"} : copy' = [copy EXCEPT ![c].in = i]
    BY <1>12 DEF InWrite
  <2>2. target' \in [Channel -> TargetEnd]
    BY <1>t, <2>1 DEF TargetEnd
  <2>3. copy' \in [Channel -> Copies] /\ \A d \in Channel : copy'[d].ureq = copy[d].ureq
    BY <1>p, <2>1 DEF Copies
  <2>. QED
    BY <1>12, <2>2, <2>3 DEF InWrite, TypeOK
<1>13. CASE UserRequest(c)
  <2>1. /\ \/ rec' = rec
           \/ rec' = [rec EXCEPT ![c].state = "open"]
           \/ rec' = [rec EXCEPT ![c].gap = TRUE]
           \/ rec' = [rec EXCEPT ![c].cast = @ \cup {0}]
        /\ file' \in {file, TRUE}
    BY <1>13 DEF UserRequest, StartIfNeeded, ParseFails, OpenCast, NewRecorder, Gap,
                   Resize
  <2>2. rec' \in [Channel -> Recorder]
    <3>1. CASE rec' = [rec EXCEPT ![c].state = "open"]
      BY <1>r, <3>1 DEF Recorder
    <3>2. CASE rec' = [rec EXCEPT ![c].gap = TRUE]
      BY <1>r, <3>2 DEF Recorder
    <3>3. CASE rec' = [rec EXCEPT ![c].cast = @ \cup {0}]
      BY <1>r, <3>3 DEF Recorder
    <3>. QED
      BY <1>r, <2>1, <3>1, <3>2, <3>3
  <2>3. /\ reqs' \in [Channel -> Seq(Request)] /\ copy' \in [Channel -> Copies]
        /\ \A d \in Channel : copy'[d].ureq = "forward" => reqs'[d] # << >>
    <3>1. reqs[c] # << >> /\ copy[c].ureq = "run"
      BY <1>13 DEF UserRequest
    <3>2. CASE copy' = copy /\ reqs' = [reqs EXCEPT ![c] = Tail(@)]
      BY <1>p, <1>q, <3>1, <3>2
    <3>3. CASE copy' = [copy EXCEPT ![c].ureq = "forward"] /\ reqs' = reqs
      <4>1. copy' \in [Channel -> Copies] /\ \A d \in Channel \ {c} : copy'[d] = copy[d]
        BY <1>p, <3>3 DEF Copies
      <4>. QED
        BY <1>q, <3>1, <3>3, <4>1
    <3>. QED
      BY <1>13, <3>2, <3>3 DEF UserRequest
  <2>4. \/ events' = events
        \/ events' = [events EXCEPT ![c].seen = @ \cup {"subsystem.opened"}]
    BY <1>13 DEF UserRequest, emitSubsystemOpened, Emit
  <2>5. events' \in [Channel -> [seen : SUBSET Action, bytesIn : Nat, bytesOut : Nat]]
    BY <1>e, <2>4 DEF Action
  <2>. QED
    BY <1>13, <2>1, <2>2, <2>3, <2>5 DEF UserRequest, TypeOK
<1>14. CASE ForwardRequest(c)
  <2>1. /\ reqs' = [reqs EXCEPT ![c] = Tail(@)] /\ reqs[c] # << >>
        /\ copy' = [copy EXCEPT ![c].ureq = "run"]
        /\ target' = target \/ target' = [target EXCEPT ![c].pty = @ \cup {target[c].sent}]
    BY <1>14, <1>q DEF ForwardRequest
  <2>2. /\ copy' \in [Channel -> Copies] /\ copy'[c].ureq = "run"
        /\ \A d \in Channel \ {c} : copy'[d] = copy[d]
    BY <1>p, <2>1 DEF Copies
  <2>3. /\ reqs' \in [Channel -> Seq(Request)]
        /\ \A d \in Channel : copy'[d].ureq = "forward" => reqs'[d] # << >>
    BY <1>q, <2>1, <2>2
  <2>4. target[c].sent \in Nat
    BY <1>t DEF TargetEnd
  <2>5. target' \in [Channel -> TargetEnd]
    <3>1. CASE target' = [target EXCEPT ![c].pty = @ \cup {target[c].sent}]
      BY <1>t, <2>4, <3>1 DEF TargetEnd
    <3>. QED
      BY <1>t, <2>1, <3>1
  <2>. QED
    BY <1>14, <2>2, <2>3, <2>5 DEF ForwardRequest, TypeOK
<1>15. CASE CloseBoth(c)
  BY <1>15 DEF CloseBoth, TypeOK
<1>16. CASE Finish(c)
  <2>1. \E s \in {"none", "closed"} : rec' = [rec EXCEPT ![c].state = s]
    BY <1>16 DEF Finish, RecorderClose
  <2>2. rec' \in [Channel -> Recorder]
    BY <1>r, <2>1 DEF Recorder
  <2>3. \E S \in SUBSET Action :
          events' = [events EXCEPT ![c] = [seen |-> S, bytesIn |-> user[c].taken,
                                           bytesOut |-> user[c].got]]
    BY <1>16, <1>e DEF Finish, emitCompleted, PortForwardClose, Action
  <2>4. user[c].taken \in Nat /\ user[c].got \in Nat
    BY <1>u DEF UserEnd
  <2>5. events' \in [Channel -> [seen : SUBSET Action, bytesIn : Nat, bytesOut : Nat]]
    BY <1>e, <2>3, <2>4
  <2>. QED
    BY <1>16, <2>2, <2>5 DEF Finish, TypeOK
<1>. QED
  BY <1>1, <1>2, <1>3, <1>4, <1>5, <1>6, <1>7, <1>8, <1>9, <1>10, <1>11, <1>12,
     <1>13, <1>14, <1>15, <1>16
     DEF Step, Peers, HandleChannel, Pipe, Out, In, UserRequests

-----------------------------------------------------------------------------
(* A step of one channel leaves the others alone, but for the cast file    *)
(* they share, which never goes away.                                      *)
LEMMA PipeFrame ==
  ASSUME TypeOK, NEW c \in Channel, Step(c)
  PROVE  /\ file => file'
         /\ \A d \in Channel \ {c} :
              /\ stage'[d] = stage[d] /\ user'[d] = user[d] /\ target'[d] = target[d]
              /\ reqs'[d] = reqs[d] /\ copy'[d] = copy[d] /\ shut'[d] = shut[d]
              /\ rec'[d] = rec[d] /\ events'[d] = events[d]
<1>0. /\ DOMAIN stage = Channel /\ DOMAIN user = Channel /\ DOMAIN target = Channel
      /\ DOMAIN reqs = Channel /\ DOMAIN copy = Channel /\ DOMAIN shut = Channel
      /\ DOMAIN rec = Channel /\ DOMAIN events = Channel
  BY DEF TypeOK
<1>1. CASE Peers(c)
  BY <1>0, <1>1 DEF Peers, UserOpens, UserAsks, UserSends, UserEOF, UserCloses,
                    TargetSends, TargetExits, TargetCloses
<1>2. CASE HandleChannel(c)
  BY <1>0, <1>2 DEF HandleChannel, ChannelDenied, OpenTarget, AcceptFails, Accept,
                    PortForwardOpen, Emit
<1>3. CASE Out(c) \/ TargetRequest(c)
  BY <1>0, <1>3 DEF Out, OutRead, OutWrite, OutRecord, Output, Gap, TargetRequest
<1>4. CASE In(c) \/ CloseBoth(c) \/ Finish(c)
  BY <1>0, <1>4 DEF In, InRead, InWrite, CloseBoth, Finish, RecorderClose
<1>5. CASE UserRequest(c)
  <2>1. UNCHANGED <<stage, user, target, shut>>
    BY <1>5 DEF UserRequest
  <2>2. file => file'
    BY <1>5 DEF UserRequest, StartIfNeeded, ParseFails, OpenCast
  <2>3. \A d \in Channel \ {c} : rec'[d] = rec[d]
    BY <1>0, <1>5 DEF UserRequest, StartIfNeeded, ParseFails, NewRecorder, Gap, Resize
  <2>4. \A d \in Channel \ {c} :
          reqs'[d] = reqs[d] /\ copy'[d] = copy[d] /\ events'[d] = events[d]
    BY <1>0, <1>5 DEF UserRequest, emitSubsystemOpened, Emit
  <2>. QED
    BY <2>1, <2>2, <2>3, <2>4
<1>6. CASE ForwardRequest(c)
  BY <1>0, <1>6 DEF ForwardRequest
<1>. QED
  BY <1>1, <1>2, <1>3, <1>4, <1>5, <1>6 DEF Step, Pipe, UserRequests

-----------------------------------------------------------------------------
(* The part of a channel that CloseInv is about.                           *)
CloseView(c) ==
  <<user[c].got, user[c].closed, user[c].exit, target[c].sent, target[c].eof,
    target[c].closed, target[c].exit, copy[c].out, shut[c].src>>

LEMMA CloseStep ==
  ASSUME TypeOK, NEW c \in Channel, CloseInv(c), Step(c)
  PROVE  CloseInv(c)'
<1>u. user \in [Channel -> UserEnd]
  BY DEF TypeOK
<1>t. target \in [Channel -> TargetEnd]
  BY DEF TypeOK
<1>p. copy \in [Channel -> Copies]
  BY DEF TypeOK
<1>s. shut \in [Channel -> [src : BOOLEAN, dst : BOOLEAN]]
  BY DEF TypeOK
<1>n. user[c].got \in Nat /\ target[c].sent \in Nat
  BY <1>u, <1>t DEF UserEnd, TargetEnd
<1>0. ASSUME UNCHANGED CloseView(c)
      PROVE  CloseInv(c)'
  BY <1>0 DEF CloseView, CloseInv
<1>1. CASE \/ \E k \in Kind : UserOpens(c, k)
           \/ \E r \in Request : UserAsks(c, r)
           \/ ChannelDenied(c) \/ OpenTarget(c) \/ Accept(c) \/ Finish(c)
  <2>1. UNCHANGED <<user, target, copy, shut>>
    BY <1>1 DEF UserOpens, UserAsks, ChannelDenied, OpenTarget, Accept, Finish
  <2>. QED
    BY <1>0, <2>1 DEF CloseView
<1>2. CASE AcceptFails(c)
  <2>1. shut'[c].src = shut[c].src /\ UNCHANGED <<user, target, copy>>
    BY <1>s, <1>2 DEF AcceptFails
  <2>. QED
    BY <1>0, <2>1 DEF CloseView
<1>3. CASE UserSends(c) \/ UserEOF(c)
  <2>1. user' = [user EXCEPT ![c].sent = @ + 1] \/ user' = [user EXCEPT ![c].eof = TRUE]
    BY <1>3 DEF UserSends, UserEOF
  <2>2. /\ user'[c].got = user[c].got /\ user'[c].closed = user[c].closed
        /\ user'[c].exit = user[c].exit
    BY <1>u, <2>1 DEF UserEnd
  <2>3. UNCHANGED <<target, copy, shut>>
    BY <1>3 DEF UserSends, UserEOF
  <2>. QED
    BY <1>0, <2>2, <2>3 DEF CloseView
<1>4. CASE UserCloses(c)
  <2>1. /\ user'[c].closed /\ user'[c].got = user[c].got
        /\ UNCHANGED <<target, copy, shut>>
    BY <1>u, <1>4 DEF UserCloses, UserEnd
  <2>. QED
    BY <2>1 DEF CloseInv
<1>5. CASE TargetSends(c)
  <2>1. /\ target' = [target EXCEPT ![c].sent = @ + 1]
        /\ ~target[c].eof /\ ~target[c].closed
        /\ UNCHANGED <<user, copy, shut>>
    BY <1>5 DEF TargetSends
  <2>2. /\ target'[c].eof = target[c].eof /\ target'[c].closed = target[c].closed
        /\ target'[c].exit = target[c].exit
        /\ target'[c].sent = target[c].sent + 1
    BY <1>t, <2>1 DEF TargetEnd
  <2>. QED
    BY <1>n, <2>1, <2>2 DEF CloseInv
<1>6. CASE TargetExits(c) \/ TargetCloses(c)
  <2>1. /\ ~target[c].closed
        /\ \/ target' = [target EXCEPT ![c].eof = TRUE]
           \/ target' = [target EXCEPT ![c].exit = "sent"] /\ target[c].exit = "no"
           \/ target' = [target EXCEPT ![c].closed = TRUE]
        /\ UNCHANGED <<user, copy, shut>>
    BY <1>6 DEF TargetExits, TargetCloses
  <2>2. /\ target'[c].sent = target[c].sent
        /\ target[c].eof => target'[c].eof
        /\ target'[c].exit = target[c].exit \/ target'[c].exit = "sent"
    BY <1>t, <2>1 DEF TargetEnd
  <2>. QED
    BY <2>1, <2>2 DEF CloseInv
<1>7. CASE OutRead(c)
  <2>1. /\ UNCHANGED <<user, target, shut>>
        /\ \/ user[c].got < target[c].sent /\ copy' = [copy EXCEPT ![c].out = "write"]
           \/ /\ user[c].got = target[c].sent /\ (target[c].eof \/ target[c].closed)
              /\ copy' = [copy EXCEPT ![c].out = "done"]
    BY <1>7 DEF OutRead
  <2>2. \/ user[c].got < target[c].sent /\ copy'[c].out = "write"
        \/ /\ user[c].got = target[c].sent /\ (target[c].eof \/ target[c].closed)
           /\ copy'[c].out = "done"
    BY <1>p, <2>1 DEF Copies
  <2>. QED
    BY <1>n, <2>1, <2>2 DEF CloseInv
<1>8. CASE OutWrite(c)
  <2>1. CASE SrcOpen(c)
    <3>1. /\ copy'[c].out = "tee" /\ copy[c].out = "write"
          /\ UNCHANGED <<target, shut>>
          /\ user' = [user EXCEPT ![c].got = @ + 1]
      BY <1>p, <1>8, <2>1 DEF OutWrite, Copies
    <3>2. /\ user'[c].got = user[c].got + 1 /\ user'[c].closed = user[c].closed
          /\ user'[c].exit = user[c].exit
      BY <1>u, <3>1 DEF UserEnd
    <3>. QED
      BY <1>n, <2>1, <3>1, <3>2 DEF CloseInv, SrcOpen
  <2>2. CASE ~SrcOpen(c)
    <3>1. copy'[c].out = "done" /\ UNCHANGED <<user, target, shut>>
      BY <1>p, <1>8, <2>2 DEF OutWrite, Copies
    <3>. QED
      BY <2>2, <3>1 DEF CloseInv, SrcOpen
  <2>. QED
    BY <2>1, <2>2
<1>9. CASE OutRecord(c)
  <2>1. copy'[c].out = "read" /\ UNCHANGED <<user, target, shut>>
    BY <1>p, <1>9 DEF OutRecord, Copies
  <2>. QED
    BY <2>1 DEF CloseInv
<1>10. CASE TargetRequest(c)
  <2>1. /\ target' = [target EXCEPT ![c].exit = "taken"] /\ target[c].exit = "sent"
        /\ user' = [user EXCEPT ![c].exit = SrcOpen(c)]
        /\ UNCHANGED <<copy, shut>>
    BY <1>10 DEF TargetRequest
  <2>2. /\ target'[c].exit = "taken" /\ target'[c].sent = target[c].sent
        /\ target'[c].eof = target[c].eof /\ target'[c].closed = target[c].closed
    BY <1>t, <2>1 DEF TargetEnd
  <2>3. /\ user'[c].exit = SrcOpen(c) /\ user'[c].got = user[c].got
        /\ user'[c].closed = user[c].closed
    BY <1>u, <2>1 DEF UserEnd
  <2>. QED
    BY <2>1, <2>2, <2>3 DEF CloseInv, SrcOpen
<1>11. CASE InRead(c)
  <2>1. /\ user' = user \/ user' = [user EXCEPT ![c].taken = @ + 1]
        /\ \E i \in {"write", "done"} : copy' = [copy EXCEPT ![c].in = i]
        /\ UNCHANGED <<target, shut>>
    BY <1>11 DEF InRead
  <2>2. /\ user'[c].got = user[c].got /\ user'[c].closed = user[c].closed
        /\ user'[c].exit = user[c].exit
    BY <1>u, <2>1 DEF UserEnd
  <2>3. copy'[c].out = copy[c].out
    BY <1>p, <2>1 DEF Copies
  <2>. QED
    BY <1>0, <2>1, <2>2, <2>3 DEF CloseView
<1>12. CASE InWrite(c)
  <2>1. /\ target' = target \/ target' = [target EXCEPT ![c].got = @ + 1]
        /\ \E i \in {"read", "done"} : copy' = [copy EXCEPT ![c].in = i]
        /\ UNCHANGED <<user, shut>>
    BY <1>12 DEF InWrite
  <2>2. /\ target'[c].sent = target[c].sent /\ target'[c].eof = target[c].eof
        /\ target'[c].closed = target[c].closed /\ target'[c].exit = target[c].exit
    BY <1>t, <2>1 DEF TargetEnd
  <2>3. copy'[c].out = copy[c].out
    BY <1>p, <2>1 DEF Copies
  <2>. QED
    BY <1>0, <2>1, <2>2, <2>3 DEF CloseView
<1>13. CASE UserRequest(c)
  <2>1. /\ UNCHANGED <<user, target, shut>>
        /\ copy' = copy \/ copy' = [copy EXCEPT ![c].ureq = "forward"]
    BY <1>13 DEF UserRequest
  <2>2. copy'[c].out = copy[c].out
    BY <1>p, <2>1 DEF Copies
  <2>. QED
    BY <1>0, <2>1, <2>2 DEF CloseView
<1>14. CASE ForwardRequest(c)
  <2>1. /\ UNCHANGED <<user, shut>>
        /\ copy' = [copy EXCEPT ![c].ureq = "run"]
        /\ target' = target \/ target' = [target EXCEPT ![c].pty = @ \cup {target[c].sent}]
    BY <1>14 DEF ForwardRequest
  <2>2. copy'[c].out = copy[c].out
    BY <1>p, <2>1 DEF Copies
  <2>3. /\ target'[c].sent = target[c].sent /\ target'[c].eof = target[c].eof
        /\ target'[c].closed = target[c].closed /\ target'[c].exit = target[c].exit
    BY <1>t, <2>1 DEF TargetEnd
  <2>. QED
    BY <1>0, <2>1, <2>2, <2>3 DEF CloseView
<1>15. CASE CloseBoth(c)
  <2>1. /\ UNCHANGED <<user, target, copy>> /\ shut'[c].src /\ ~shut[c].src
        /\ TargetDone(c) \/ UserDone(c)
    BY <1>s, <1>15 DEF CloseBoth
  <2>2. target[c].exit \in {"no", "sent", "taken"}
    BY <1>t DEF TargetEnd
  <2>. QED
    BY <2>1, <2>2 DEF CloseInv, TargetDone, UserDone
<1>. QED
  BY <1>1, <1>2, <1>3, <1>4, <1>5, <1>6, <1>7, <1>8, <1>9, <1>10, <1>11, <1>12,
     <1>13, <1>14, <1>15
     DEF Step, Peers, HandleChannel, Pipe, Out, In, UserRequests

-----------------------------------------------------------------------------
(* The part of a channel that RecInv is about.                             *)
RecView(c) ==
  <<user[c].got, target[c].pty, copy[c].out, rec[c].cast, rec[c].state, rec[c].gap,
    "recording.completed" \in events[c].seen>>

(* A step that changes neither this nor the request in hand keeps RecInv.  *)
LEMMA RecUnchanged ==
  ASSUME NEW c \in Channel, RecInv(c), UNCHANGED RecView(c), file => file',
         stage[c] = "gone" => stage'[c] = "gone",
         stage'[c] \in Early => stage[c] \in Early,
         PTYPending(c)' => PTYPending(c)
  PROVE  RecInv(c)'
BY DEF RecView, RecInv, Recorded

LEMMA RecStep ==
  ASSUME TypeOK, NEW c \in Channel, CloseInv(c), RecInv(c), Step(c)
  PROVE  RecInv(c)'
<1>u. user \in [Channel -> UserEnd]
  BY DEF TypeOK
<1>t. target \in [Channel -> TargetEnd]
  BY DEF TypeOK
<1>p. copy \in [Channel -> Copies]
  BY DEF TypeOK
<1>r. rec \in [Channel -> Recorder]
  BY DEF TypeOK
<1>e. events \in [Channel -> [seen : SUBSET Action, bytesIn : Nat, bytesOut : Nat]]
  BY DEF TypeOK
<1>g. DOMAIN stage = Channel /\ DOMAIN reqs = Channel
  BY DEF TypeOK
<1>n. user[c].got \in Nat /\ target[c].sent \in Nat
  BY <1>u, <1>t DEF UserEnd, TargetEnd
<1>f. file => file'
  BY PipeFrame
<1>1. CASE \E k \in Kind : UserOpens(c, k)
  <2>1. /\ stage[c] \in Early /\ stage[c] # "gone"
        /\ UNCHANGED <<user, target, copy, rec, events, reqs>>
    BY <1>1 DEF UserOpens, Early
  <2>. QED
    BY <1>f, <2>1, RecUnchanged DEF RecView, PTYPending
<1>2. CASE \E r \in Request : UserAsks(c, r)
  <2>1. PICK r \in Request : UserAsks(c, r)
    BY <1>2
  <2>2. /\ reqs' = [reqs EXCEPT ![c] = Append(@, r)]
        /\ UNCHANGED <<user, target, copy, rec, events, stage>>
    BY <2>1 DEF UserAsks
  <2>3. copy[c].ureq = "forward" => Head(reqs'[c]) = Head(reqs[c])
    BY <1>g, <2>2 DEF TypeOK
  <2>. QED
    BY <1>f, <2>2, <2>3, RecUnchanged DEF RecView, PTYPending
<1>3. CASE UserSends(c) \/ UserEOF(c) \/ UserCloses(c)
  <2>1. /\ \/ user' = [user EXCEPT ![c].sent = @ + 1]
           \/ user' = [user EXCEPT ![c].eof = TRUE]
           \/ user' = [user EXCEPT ![c].closed = TRUE]
        /\ UNCHANGED <<target, copy, rec, events, reqs, stage>>
    BY <1>3 DEF UserSends, UserEOF, UserCloses
  <2>2. user'[c].got = user[c].got
    BY <1>u, <2>1 DEF UserEnd
  <2>. QED
    BY <1>f, <2>1, <2>2, RecUnchanged DEF RecView, PTYPending
<1>4. CASE TargetSends(c) \/ TargetExits(c) \/ TargetCloses(c)
  <2>1. /\ \/ target' = [target EXCEPT ![c].sent = @ + 1]
           \/ target' = [target EXCEPT ![c].eof = TRUE]
           \/ target' = [target EXCEPT ![c].exit = "sent"]
           \/ target' = [target EXCEPT ![c].closed = TRUE]
        /\ UNCHANGED <<user, copy, rec, events, reqs, stage>>
    BY <1>4 DEF TargetSends, TargetExits, TargetCloses
  <2>2. target'[c].pty = target[c].pty
    BY <1>t, <2>1 DEF TargetEnd
  <2>. QED
    BY <1>f, <2>1, <2>2, RecUnchanged DEF RecView, PTYPending
<1>5. CASE ChannelDenied(c) \/ OpenTarget(c) \/ AcceptFails(c)
  <2>1. /\ stage[c] \in Early /\ stage[c] # "gone"
        /\ UNCHANGED <<user, target, copy, rec, events, reqs>>
    BY <1>5 DEF ChannelDenied, OpenTarget, AcceptFails, Early
  <2>. QED
    BY <1>f, <2>1, RecUnchanged DEF RecView, PTYPending
<1>6. CASE Accept(c)
  <2>1. /\ stage[c] # "gone" /\ UNCHANGED <<user, target, copy, reqs>>
        /\ \E s \in {"none", "idle"} : rec' = [rec EXCEPT ![c].state = s]
        /\ \/ events' = events
           \/ events' = [events EXCEPT ![c].seen = @ \cup {"port_forward.opened"}]
    BY <1>6 DEF Accept, PortForwardOpen, Emit
  <2>2. /\ rec'[c].state \in {"none", "idle"} /\ rec'[c].cast = rec[c].cast
    BY <1>r, <2>1 DEF Recorder
  <2>3. "recording.completed" \notin events'[c].seen
    BY <1>e, <2>1 DEF RecInv
  <2>4. ~PTYPending(c)'
    BY <1>6, <2>1 DEF Accept, RecInv, Early, PTYPending
  <2>. QED
    BY <2>1, <2>2, <2>3, <2>4 DEF RecInv
<1>7. CASE OutRead(c)
  <2>1. /\ UNCHANGED <<user, target, rec, events, reqs, stage>>
        /\ copy[c].out = "read"
        /\ \E o \in {"write", "done"} : copy' = [copy EXCEPT ![c].out = o]
        /\ stage[c] = "pipe"
    BY <1>7 DEF OutRead, Piping
  <2>2. copy'[c].out \in {"write", "done"} /\ copy'[c].ureq = copy[c].ureq
    BY <1>p, <2>1 DEF Copies
  <2>. QED
    BY <1>f, <2>1, <2>2 DEF RecInv, Recorded, PTYPending
<1>8. CASE OutWrite(c)
  <2>1. /\ UNCHANGED <<target, rec, events, reqs, stage>>
        /\ copy[c].out = "write" /\ stage[c] = "pipe"
        /\ \/ /\ user' = [user EXCEPT ![c].got = @ + 1]
              /\ copy' = [copy EXCEPT ![c].out = "tee"]
           \/ user' = user /\ copy' = [copy EXCEPT ![c].out = "done"]
    BY <1>8 DEF OutWrite, Piping
  <2>2. /\ copy'[c].ureq = copy[c].ureq
        /\ \/ user'[c].got = user[c].got + 1 /\ copy'[c].out = "tee"
           \/ user'[c].got = user[c].got /\ copy'[c].out = "done"
    BY <1>u, <1>p, <2>1 DEF UserEnd, Copies
  <2>3. "recording.completed" \notin events[c].seen
    BY <2>1 DEF RecInv
  <2>4. PTYPending(c)' => PTYPending(c)
    BY <2>1, <2>2 DEF PTYPending
  <2>5. ASSUME rec[c].state = "open", ~rec[c].gap,
               NEW k \in 1..user'[c].got, NEW m \in target[c].pty, k > m
        PROVE  Recorded(c, k)'
    <3>1. CASE k \in 1..user[c].got
      BY <2>1, <2>5, <3>1 DEF RecInv, Recorded
    <3>2. CASE k \notin 1..user[c].got
      BY <1>n, <2>2, <3>2 DEF Recorded
    <3>. QED
      BY <3>1, <3>2
  <2>6. rec[c].cast \subseteq 0..user'[c].got
    BY <1>n, <2>2 DEF RecInv
  <2>. QED
    BY <1>f, <2>1, <2>3, <2>4, <2>5, <2>6 DEF RecInv
<1>9. CASE OutRecord(c)
  <2>1. /\ UNCHANGED <<user, target, events, reqs, stage>>
        /\ copy[c].out = "tee" /\ stage[c] = "pipe"
        /\ copy' = [copy EXCEPT ![c].out = "read"]
        /\ \/ rec[c].state # "open" /\ rec' = rec
           \/ rec[c].state = "open" /\ rec' = [rec EXCEPT ![c].cast = @ \cup {user[c].got}]
           \/ rec[c].state = "open" /\ rec' = [rec EXCEPT ![c].gap = TRUE]
    BY <1>9 DEF OutRecord, Output, Gap, Piping
  <2>2. copy'[c].ureq = copy[c].ureq /\ copy'[c].out = "read"
    BY <1>p, <2>1 DEF Copies
  <2>3. /\ rec'[c].state = rec[c].state
        /\ \/ rec[c].state # "open" /\ rec'[c] = rec[c]
           \/ /\ rec[c].state = "open" /\ rec'[c].gap = rec[c].gap
              /\ rec'[c].cast = rec[c].cast \cup {user[c].got}
           \/ rec[c].state = "open" /\ rec'[c].gap /\ rec'[c].cast = rec[c].cast
    BY <1>r, <2>1 DEF Recorder
  <2>4. "recording.completed" \notin events[c].seen
    BY <2>1 DEF RecInv
  <2>5. PTYPending(c)' => PTYPending(c)
    BY <2>1, <2>2 DEF PTYPending
  <2>. QED
    BY <1>f, <1>n, <2>1, <2>3, <2>4, <2>5 DEF RecInv, Recorded
<1>10. CASE TargetRequest(c)
  <2>1. /\ target' = [target EXCEPT ![c].exit = "taken"]
        /\ \E b : user' = [user EXCEPT ![c].exit = b]
        /\ UNCHANGED <<copy, rec, events, reqs, stage>>
    BY <1>10 DEF TargetRequest
  <2>2. target'[c].pty = target[c].pty /\ user'[c].got = user[c].got
    BY <1>t, <1>u, <2>1 DEF TargetEnd, UserEnd
  <2>. QED
    BY <1>f, <2>1, <2>2, RecUnchanged DEF RecView, PTYPending
<1>11. CASE InRead(c)
  <2>1. /\ user' = user \/ user' = [user EXCEPT ![c].taken = @ + 1]
        /\ \E i \in {"write", "done"} : copy' = [copy EXCEPT ![c].in = i]
        /\ UNCHANGED <<target, rec, events, reqs, stage>>
    BY <1>11 DEF InRead
  <2>2. user'[c].got = user[c].got
    BY <1>u, <2>1 DEF UserEnd
  <2>3. copy'[c].out = copy[c].out /\ copy'[c].ureq = copy[c].ureq
    BY <1>p, <2>1 DEF Copies
  <2>. QED
    BY <1>f, <2>1, <2>2, <2>3, RecUnchanged DEF RecView, PTYPending
<1>12. CASE InWrite(c)
  <2>1. /\ target' = target \/ target' = [target EXCEPT ![c].got = @ + 1]
        /\ \E i \in {"read", "done"} : copy' = [copy EXCEPT ![c].in = i]
        /\ UNCHANGED <<user, rec, events, reqs, stage>>
    BY <1>12 DEF InWrite
  <2>2. target'[c].pty = target[c].pty
    BY <1>t, <2>1 DEF TargetEnd
  <2>3. copy'[c].out = copy[c].out /\ copy'[c].ureq = copy[c].ureq
    BY <1>p, <2>1 DEF Copies
  <2>. QED
    BY <1>f, <2>1, <2>2, <2>3, RecUnchanged DEF RecView, PTYPending
<1>13. CASE UserRequest(c)
  <2>0. UNCHANGED <<user, target, stage>> /\ stage[c] = "pipe" /\ copy[c].ureq = "run"
    BY <1>13 DEF UserRequest, Piping
  <2>1. "recording.completed" \notin events[c].seen
    BY <2>0 DEF RecInv
  <2>2. "recording.completed" \notin events'[c].seen
    BY <1>13, <1>e, <2>1 DEF UserRequest, emitSubsystemOpened, Emit
  <2>3. /\ copy'[c].out = copy[c].out
        /\ copy'[c].ureq = "forward" => reqs' = reqs
    BY <1>13, <1>p DEF UserRequest, Copies
  <2>4. CASE rec' = rec /\ (Head(reqs[c]) = "pty-req" /\ copy'[c].ureq = "forward" =>
                              rec[c].state # "idle" \/ file)
    BY <1>f, <2>0, <2>1, <2>2, <2>3, <2>4 DEF RecInv, Recorded, PTYPending, Early
  <2>5. CASE rec' = [rec EXCEPT ![c].gap = TRUE]
    <3>1. rec'[c].gap /\ rec'[c].cast = rec[c].cast
      BY <1>r, <2>5 DEF Recorder
    <3>. QED
      BY <2>0, <2>2, <3>1 DEF RecInv, Early
  <2>6. CASE rec' = [rec EXCEPT ![c].state = "open"] /\ rec[c].state = "idle" /\ ~file
    <3>1. /\ rec'[c].state = "open" /\ rec'[c].gap = rec[c].gap
          /\ rec'[c].cast = rec[c].cast
      BY <1>r, <2>6 DEF Recorder
    <3>2. ~rec[c].gap => target[c].pty = {}
      BY <2>6 DEF RecInv, PTYPending
    <3>. QED
      BY <2>0, <2>2, <3>1, <3>2 DEF RecInv, Early
  <2>7. CASE /\ rec' = [rec EXCEPT ![c].cast = @ \cup {0}] /\ rec[c].state = "open"
             /\ Head(reqs[c]) = "window-change"
    <3>1. /\ rec'[c].state = "open" /\ rec'[c].gap = rec[c].gap
          /\ rec'[c].cast = rec[c].cast \cup {0}
      BY <1>r, <2>7 DEF Recorder
    <3>. QED
      BY <1>n, <2>0, <2>2, <2>3, <2>7, <3>1 DEF RecInv, Recorded, Early
  <2>8. copy'[c].ureq = "forward" => permitsRequest(Head(reqs[c]))
    BY <1>13, <2>0 DEF UserRequest
  <2>. QED
    <3>1. CASE ~permitsRequest(Head(reqs[c]))
      BY <1>13, <2>4, <2>8, <3>1 DEF UserRequest
    <3>2. CASE permitsRequest(Head(reqs[c]))
      <4>1. CASE Head(reqs[c]) = "pty-req"
        <5>1. StartIfNeeded(c) \/ ParseFails(c)
          BY <1>13, <3>2, <4>1 DEF UserRequest
        <5>2. CASE StartIfNeeded(c)
          BY <2>4, <2>5, <2>6, <5>2 DEF StartIfNeeded, OpenCast, NewRecorder, Gap
        <5>3. CASE ParseFails(c)
          BY <2>4, <2>5, <5>3 DEF ParseFails, Gap
        <5>. QED
          BY <5>1, <5>2, <5>3
      <4>2. CASE Head(reqs[c]) = "window-change"
        BY <1>13, <2>4, <2>7, <3>2, <4>2 DEF UserRequest, Resize
      <4>3. CASE Head(reqs[c]) \notin {"pty-req", "window-change"}
        BY <1>13, <2>4, <3>2, <4>3 DEF UserRequest
      <4>. QED
        BY <4>1, <4>2, <4>3
    <3>. QED
      BY <3>1, <3>2
<1>14. CASE ForwardRequest(c)
  <2>1. /\ UNCHANGED <<user, rec, events, stage, file>> /\ stage[c] = "pipe"
        /\ copy[c].ureq = "forward"
        /\ copy' = [copy EXCEPT ![c].ureq = "run"]
        /\ \/ target' = target
           \/ /\ Head(reqs[c]) = "pty-req"
              /\ target' = [target EXCEPT ![c].pty = @ \cup {target[c].sent}]
    BY <1>14 DEF ForwardRequest, Piping
  <2>2. copy'[c].out = copy[c].out /\ copy'[c].ureq = "run"
    BY <1>p, <2>1 DEF Copies
  <2>3. \/ target' = target
        \/ /\ Head(reqs[c]) = "pty-req"
           /\ target'[c].pty = target[c].pty \cup {target[c].sent}
    BY <1>t, <2>1 DEF TargetEnd
  <2>4. PTYPending(c)' => PTYPending(c)
    BY <2>1, <2>2, <2>3 DEF PTYPending
  <2>5. \A k \in 1..user[c].got :
          (\E m \in target'[c].pty : k > m) => \E m \in target[c].pty : k > m
    BY <1>n, <2>3 DEF CloseInv
  <2>. QED
    BY <2>1, <2>2, <2>4, <2>5 DEF RecInv, Recorded, Early
<1>15. CASE CloseBoth(c)
  <2>1. UNCHANGED <<user, target, copy, rec, events, reqs, stage>>
    BY <1>15 DEF CloseBoth
  <2>. QED
    BY <1>f, <2>1, RecUnchanged DEF RecView, PTYPending
<1>16. CASE Finish(c)
  <2>1. /\ UNCHANGED <<user, target, copy, reqs>> /\ stage[c] = "pipe"
        /\ stage'[c] = "gone" /\ copy[c].out = "done"
        /\ \E s \in {"none", "closed"} : rec' = [rec EXCEPT ![c].state = s]
    BY <1>16, <1>g DEF Finish, RecorderClose, TargetDone, Piping
  <2>2. /\ rec'[c].state \in {"none", "closed"} /\ rec'[c].gap = rec[c].gap
        /\ rec'[c].cast = rec[c].cast
    BY <1>r, <2>1 DEF Recorder
  <2>3. "recording.completed" \in events'[c].seen => rec[c].state = "open"
    <3>1. "recording.completed" \notin events[c].seen
      BY <2>1 DEF RecInv
    <3>. QED
      BY <1>16, <1>e, <3>1 DEF Finish, emitCompleted, PortForwardClose
  <2>. QED
    BY <2>1, <2>2, <2>3 DEF RecInv, Recorded, Early
<1>. QED
  BY <1>1, <1>2, <1>3, <1>4, <1>5, <1>6, <1>7, <1>8, <1>9, <1>10, <1>11, <1>12,
     <1>13, <1>14, <1>15, <1>16
     DEF Step, Peers, HandleChannel, Pipe, Out, In, UserRequests

-----------------------------------------------------------------------------
(* The part of a channel that ForwardInv is about.                         *)
ForwardView(c) ==
  <<stage[c], user[c].got, user[c].taken, target[c].got, copy[c].in, events[c]>>

LEMMA ForwardStep ==
  ASSUME TypeOK, NEW c \in Channel, RecInv(c), ForwardInv(c), Step(c)
  PROVE  ForwardInv(c)'
<1>u. user \in [Channel -> UserEnd]
  BY DEF TypeOK
<1>t. target \in [Channel -> TargetEnd]
  BY DEF TypeOK
<1>p. copy \in [Channel -> Copies]
  BY DEF TypeOK
<1>e. events \in [Channel -> [seen : SUBSET Action, bytesIn : Nat, bytesOut : Nat]]
  BY DEF TypeOK
<1>g. DOMAIN stage = Channel
  BY DEF TypeOK
<1>n. user[c].taken \in Nat /\ target[c].got \in Nat
  BY <1>u, <1>t DEF UserEnd, TargetEnd
<1>0. ASSUME UNCHANGED ForwardView(c)
      PROVE  ForwardInv(c)'
  BY <1>0 DEF ForwardView, ForwardInv
<1>1. CASE (\E k \in Kind : UserOpens(c, k)) \/ ChannelDenied(c) \/ OpenTarget(c)
           \/ AcceptFails(c)
  <2>1. stage[c] \notin {"pipe", "gone"} /\ UNCHANGED <<user, target, copy, events>>
    BY <1>1 DEF UserOpens, ChannelDenied, OpenTarget, AcceptFails
  <2>. QED
    BY <2>1 DEF ForwardInv
<1>2. CASE \/ \E r \in Request : UserAsks(c, r)
           \/ OutRead(c) \/ OutRecord(c) \/ CloseBoth(c)
  <2>1. /\ UNCHANGED <<stage, user, target, events>>
        /\ copy' = copy \/ \E o : copy' = [copy EXCEPT ![c].out = o]
    BY <1>2 DEF UserAsks, OutRead, OutRecord, CloseBoth
  <2>2. copy'[c].in = copy[c].in
    BY <1>p, <2>1 DEF Copies
  <2>. QED
    BY <1>0, <2>1, <2>2 DEF ForwardView
<1>3. CASE UserSends(c) \/ UserEOF(c) \/ UserCloses(c)
  <2>1. /\ \/ user' = [user EXCEPT ![c].sent = @ + 1]
           \/ user' = [user EXCEPT ![c].eof = TRUE]
           \/ user' = [user EXCEPT ![c].closed = TRUE]
        /\ UNCHANGED <<stage, target, copy, events>>
    BY <1>3 DEF UserSends, UserEOF, UserCloses
  <2>2. user'[c].got = user[c].got /\ user'[c].taken = user[c].taken
    BY <1>u, <2>1 DEF UserEnd
  <2>. QED
    BY <1>0, <2>1, <2>2 DEF ForwardView
<1>4. CASE TargetSends(c) \/ TargetExits(c) \/ TargetCloses(c)
  <2>1. /\ \/ target' = [target EXCEPT ![c].sent = @ + 1]
           \/ target' = [target EXCEPT ![c].eof = TRUE]
           \/ target' = [target EXCEPT ![c].exit = "sent"]
           \/ target' = [target EXCEPT ![c].closed = TRUE]
        /\ UNCHANGED <<stage, user, copy, events>>
    BY <1>4 DEF TargetSends, TargetExits, TargetCloses
  <2>2. target'[c].got = target[c].got
    BY <1>t, <2>1 DEF TargetEnd
  <2>. QED
    BY <1>0, <2>1, <2>2 DEF ForwardView
<1>5. CASE Accept(c)
  <2>1. stage'[c] = "pipe" /\ UNCHANGED <<user, target, copy>>
    BY <1>g, <1>5 DEF Accept
  <2>. QED
    BY <2>1 DEF ForwardInv
<1>6. CASE OutWrite(c) \/ TargetRequest(c)
  <2>1. /\ \/ user' = user
           \/ user' = [user EXCEPT ![c].got = @ + 1]
           \/ \E b : user' = [user EXCEPT ![c].exit = b]
        /\ target' = target \/ target' = [target EXCEPT ![c].exit = "taken"]
        /\ copy' = copy \/ \E o : copy' = [copy EXCEPT ![c].out = o]
        /\ stage[c] = "pipe" /\ UNCHANGED <<stage, events>>
    BY <1>6 DEF OutWrite, TargetRequest, Piping
  <2>2. user'[c].taken = user[c].taken /\ target'[c].got = target[c].got
    BY <1>u, <1>t, <2>1 DEF UserEnd, TargetEnd
  <2>3. copy'[c].in = copy[c].in
    BY <1>p, <2>1 DEF Copies
  <2>. QED
    BY <2>1, <2>2, <2>3 DEF ForwardInv
<1>7. CASE InRead(c) \/ InWrite(c)
  <2>1. /\ stage[c] = "pipe" /\ UNCHANGED <<stage, events>>
        /\ \/ /\ user' = [user EXCEPT ![c].taken = @ + 1] /\ target' = target
              /\ copy' = [copy EXCEPT ![c].in = "write"]
           \/ /\ copy[c].in = "write" /\ user' = user
              /\ target' = [target EXCEPT ![c].got = @ + 1]
              /\ copy' = [copy EXCEPT ![c].in = "read"]
           \/ user' = user /\ target' = target /\ copy' = [copy EXCEPT ![c].in = "done"]
    BY <1>7 DEF InRead, InWrite, Piping
  <2>2. \/ user'[c].taken = user[c].taken + 1 /\ target'[c].got = target[c].got
        \/ /\ copy[c].in = "write" /\ copy'[c].in = "read"
           /\ user'[c].taken = user[c].taken /\ target'[c].got = target[c].got + 1
        \/ /\ copy'[c].in = "done"
           /\ user'[c].taken = user[c].taken /\ target'[c].got = target[c].got
    BY <1>u, <1>t, <1>p, <2>1 DEF UserEnd, TargetEnd, Copies
  <2>. QED
    BY <1>n, <2>1, <2>2 DEF ForwardInv
<1>8. CASE UserRequest(c) \/ ForwardRequest(c)
  <2>1. /\ stage[c] = "pipe" /\ UNCHANGED <<stage, user>>
        /\ \/ target' = target
           \/ target' = [target EXCEPT ![c].pty = @ \cup {target[c].sent}]
        /\ copy' = copy \/ \E q : copy' = [copy EXCEPT ![c].ureq = q]
    BY <1>8 DEF UserRequest, ForwardRequest, Piping
  <2>2. target'[c].got = target[c].got
    BY <1>t, <2>1 DEF TargetEnd
  <2>3. copy'[c].in = copy[c].in
    BY <1>p, <2>1 DEF Copies
  <2>. QED
    BY <2>1, <2>2, <2>3 DEF ForwardInv
<1>9. CASE Finish(c)
  <2>1. /\ stage'[c] = "gone" /\ stage[c] = "pipe" /\ UNCHANGED <<user, target, copy>>
        /\ events'[c] = [seen |-> events[c].seen \cup PortForwardClose(c)
                                    \cup emitCompleted(c),
                         bytesIn |-> user[c].taken, bytesOut |-> user[c].got]
    BY <1>e, <1>g, <1>9 DEF Finish, Piping
  <2>2. "port_forward.opened" \in events'[c].seen => "port_forward.opened" \in events[c].seen
    BY <2>1 DEF PortForwardClose, emitCompleted
  <2>3. "port_forward.opened" \in events[c].seen => "port_forward.closed" \in events'[c].seen
    BY <2>1 DEF PortForwardClose
  <2>. QED
    BY <1>n, <2>1, <2>2, <2>3 DEF ForwardInv
<1>. QED
  BY <1>1, <1>2, <1>3, <1>4, <1>5, <1>6, <1>7, <1>8, <1>9
     DEF Step, Peers, HandleChannel, Pipe, Out, In, UserRequests

(***************************************************************************)
(* The invariant of the channels, from which the theorems below follow.    *)
(***************************************************************************)
THEOREM PipeInvariant == Spec => []PipeInv
<1>1. PipeInv /\ [Next]_vars => PipeInv'
  <2>. SUFFICES ASSUME PipeInv, [Next]_vars PROVE PipeInv'
    OBVIOUS
  <2>1. ASSUME NEW c \in Channel, Step(c)
        PROVE  PipeInv'
    <3>1. TypeOK /\ CloseInv(c) /\ RecInv(c) /\ ForwardInv(c)
      BY DEF PipeInv
    <3>2. TypeOK' /\ CloseInv(c)' /\ RecInv(c)' /\ ForwardInv(c)'
      BY <2>1, <3>1, PipeTypes, CloseStep, RecStep, ForwardStep
    <3>3. ASSUME NEW d \in Channel \ {c}
          PROVE  CloseInv(d)' /\ RecInv(d)' /\ ForwardInv(d)'
      <4>1. /\ file => file'
            /\ stage'[d] = stage[d] /\ user'[d] = user[d] /\ target'[d] = target[d]
            /\ reqs'[d] = reqs[d] /\ copy'[d] = copy[d] /\ shut'[d] = shut[d]
            /\ rec'[d] = rec[d] /\ events'[d] = events[d]
        BY <2>1, <3>1, PipeFrame
      <4>2. CloseInv(d) /\ RecInv(d) /\ ForwardInv(d)
        BY DEF PipeInv
      <4>3. CloseInv(d)'
        BY <4>1, <4>2 DEF CloseInv
      <4>4. RecInv(d)'
        BY <4>1, <4>2 DEF RecInv, Recorded, PTYPending
      <4>5. ForwardInv(d)'
        BY <4>1, <4>2 DEF ForwardInv
      <4>. QED
        BY <4>3, <4>4, <4>5
    <3>. QED
      BY <3>2, <3>3 DEF PipeInv
  <2>2. CASE UNCHANGED vars
    <3>1. TypeOK'
      BY <2>2 DEF vars, PipeInv, TypeOK
    <3>2. ASSUME NEW d \in Channel
          PROVE  CloseInv(d)' /\ RecInv(d)' /\ ForwardInv(d)'
      <4>1. CloseInv(d) /\ RecInv(d) /\ ForwardInv(d)
        BY DEF PipeInv
      <4>2. CloseInv(d)'
        BY <2>2, <4>1 DEF vars, CloseInv
      <4>3. RecInv(d)'
        BY <2>2, <4>1 DEF vars, RecInv, Recorded, PTYPending
      <4>4. ForwardInv(d)'
        BY <2>2, <4>1 DEF vars, ForwardInv
      <4>. QED
        BY <4>2, <4>3, <4>4
    <3>. QED
      BY <3>1, <3>2 DEF PipeInv
  <2>. QED
    BY <2>1, <2>2 DEF Next, Step
<1>. QED
  BY <1>1, PipeInit, PTL DEF Spec

(***************************************************************************)
(* The channels, their goroutines and the recorder keep their types.       *)
(***************************************************************************)
THEOREM PipeTyped == Spec => []TypeOK
BY PipeInvariant, PTL DEF PipeInv

(***************************************************************************)
(* A user who is still there gets all of the target's stdout and its exit  *)
(* status before pipeChannel closes on them, for any number of channels    *)
(* and chunks.                                                             *)
(***************************************************************************)
THEOREM OutputComesFirst == Spec => []OutputBeforeClose
<1>1. PipeInv => OutputBeforeClose
  BY DEF PipeInv, CloseInv, OutputBeforeClose
<1>. QED
  BY <1>1, PipeInvariant, PTL

(***************************************************************************)
(* A completed cast holds every chunk of the PTY session that the user     *)
(* received, and no cast holds anything else, unless the disk failed.      *)
(***************************************************************************)
THEOREM RecordingsFaithful == Spec => []RecordingFaithful
<1>1. PipeInv => RecordingFaithful
  BY DEF PipeInv, RecInv, Recorded, RecordingFaithful
<1>. QED
  BY <1>1, PipeInvariant, PTL

(***************************************************************************)
(* Every port forward that was opened in the audit is closed in it, with   *)
(* the counts of the whole forward.                                        *)
(***************************************************************************)
THEOREM PortForwardsAccounted == Spec => []PortForwardAccounted
<1>1. PipeInv => PortForwardAccounted
  BY DEF PipeInv, ForwardInv, PortForwardAccounted
<1>. QED
  BY <1>1, PipeInvariant, PTL
=============================================================================
