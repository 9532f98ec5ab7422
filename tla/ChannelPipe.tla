----------------------------- MODULE ChannelPipe -----------------------------
(***************************************************************************)
(* session.Proxier (internal/proxyd/session/proxy.go) carrying the         *)
(* channels of one user connection: handleChannel, the goroutines of       *)
(* pipeChannel, the recorder that listens in (recorder.go) and the audit   *)
(* of port forwards (portforward.go) and file transfers (subsystem.go).    *)
(*                                                                         *)
(* The two SSH peers are external.  A stream is counted in chunks: chunk k *)
(* is the k-th the sender wrote.  A channel's request queue and its close  *)
(* follow golang.org/x/crypto/ssh: an EOF ends the peer's data and stderr, *)
(* only a close ends its requests, and a write fails once either side of   *)
(* the channel has sent close.  A write waits for room in the window of    *)
(* its peer, and only the peer's close ends such a wait: the proxy's own   *)
(* close of the channel does not.                                          *)
(***************************************************************************)
EXTENDS CertEnforcer

CONSTANTS
  Channel,   \* the channels the user opens
  Kind,      \* their types, of "session" and "direct-tcpip"
  Request,   \* the types of the requests the user makes on a session
  Conf,      \* the certificate's permissions, with or without a sink
  MaxSent    \* bound on the chunks and requests of a channel's two ends

ASSUME PipeAssumption ==
  /\ \A f \in Conf : f.sink \in BOOLEAN
  /\ Kind \subseteq {"session", "direct-tcpip"}
  /\ MaxSent \in Nat

VARIABLES
  conf,     \* the Proxier's rbac and sink
  stage,    \* where each handleChannel goroutine is
  kind,     \* the channel's type
  user,     \* what the user's end has sent and received
  target,   \* what the target's end has sent and received
  reqs,     \* the user's channel requests not yet taken
  asked,    \* how many requests the user has made
  copy,     \* where the goroutines of pipeChannel are
  shut,     \* the closes the proxy has sent to either end
  rec,      \* the channelRecorder
  file,     \* <session-id>.cast exists
  events    \* the audit events of the channel, with the counts of the last

vars == <<conf, stage, kind, user, target, reqs, asked, copy, shut, rec, file, events>>

-----------------------------------------------------------------------------
SrcOpen(c) == ~shut[c].src /\ ~user[c].closed
TargetOpen(c) == ~shut[c].dst /\ ~target[c].closed

Piping(c) == stage[c] = "pipe"

Emit(c, e) == events' = [events EXCEPT ![c].seen = @ \cup {e}]

(* Three types of request are the certificate's to decide.                 *)
permitsRequest(r) ==
  /\ r = "pty-req" => PermitsPTY(conf.perms)
  /\ r = "x11-req" => PermitsX11Forwarding(conf.perms)
  /\ r = "auth-agent-req@openssh.com" => PermitsAgentForwarding(conf.perms)

(* scp and sftp are one kind of request here.                              *)
detectSubsystem(r) == r = "sftp"

-----------------------------------------------------------------------------
(* The bound is shared by the streams: any mix of them is explored.        *)
MaySend(c) == user[c].sent + target[c].sent + asked[c] < MaxSent

(* The user's end.                                                         *)
UserOpens(c, k) ==
  /\ stage[c] = "none"
  /\ stage' = [stage EXCEPT ![c] = "new"]
  /\ kind' = [kind EXCEPT ![c] = k]
  /\ UNCHANGED <<conf, user, target, reqs, asked, copy, shut, rec, file, events>>

UserSends(c) ==
  /\ Piping(c) /\ ~user[c].eof /\ ~user[c].closed
  /\ MaySend(c)
  /\ user' = [user EXCEPT ![c].sent = @ + 1]
  /\ UNCHANGED <<conf, stage, kind, target, reqs, asked, copy, shut, rec, file, events>>

UserAsks(c, r) ==
  /\ Piping(c) /\ ~user[c].closed /\ kind[c] = "session"
  /\ MaySend(c)
  /\ asked' = [asked EXCEPT ![c] = @ + 1]
  /\ reqs' = [reqs EXCEPT ![c] = Append(@, r)]
  /\ UNCHANGED <<conf, stage, kind, user, target, copy, shut, rec, file, events>>

UserEOF(c) ==
  /\ Piping(c) /\ ~user[c].eof /\ ~user[c].closed
  /\ user' = [user EXCEPT ![c].eof = TRUE]
  /\ UNCHANGED <<conf, stage, kind, target, reqs, asked, copy, shut, rec, file, events>>

UserCloses(c) ==
  /\ stage[c] \in {"new", "accept", "pipe"} /\ ~user[c].closed
  /\ user' = [user EXCEPT ![c].closed = TRUE]
  /\ UNCHANGED <<conf, stage, kind, target, reqs, asked, copy, shut, rec, file, events>>

(* The target's end.                                                       *)
TargetSends(c) ==
  /\ Piping(c) /\ ~target[c].eof /\ ~target[c].closed
  /\ MaySend(c)
  /\ target' = [target EXCEPT ![c].sent = @ + 1]
  /\ UNCHANGED <<conf, stage, kind, user, reqs, asked, copy, shut, rec, file, events>>

TargetExits(c) ==
  /\ Piping(c) /\ ~target[c].closed
  /\ \/ ~target[c].eof /\ target' = [target EXCEPT ![c].eof = TRUE]
     \/ target[c].exit = "no" /\ target' = [target EXCEPT ![c].exit = "sent"]
  /\ UNCHANGED <<conf, stage, kind, user, reqs, asked, copy, shut, rec, file, events>>

TargetCloses(c) ==
  /\ Piping(c) /\ ~target[c].closed
  /\ target' = [target EXCEPT ![c].closed = TRUE]
  /\ UNCHANGED <<conf, stage, kind, user, reqs, asked, copy, shut, rec, file, events>>

-----------------------------------------------------------------------------
(* handleChannel up to pipeChannel.                                        *)
ChannelDenied(c) ==
  /\ stage[c] = "new"
  /\ kind[c] = "direct-tcpip" /\ ~PermitsPortForwarding(conf.perms)
  /\ stage' = [stage EXCEPT ![c] = "gone"]
  /\ UNCHANGED <<conf, kind, user, target, reqs, asked, copy, shut, rec, file, events>>

OpenTarget(c) ==
  /\ stage[c] = "new"
  /\ kind[c] = "direct-tcpip" => PermitsPortForwarding(conf.perms)
  /\ \E s \in {"accept", "gone"} : stage' = [stage EXCEPT ![c] = s]
  /\ UNCHANGED <<conf, kind, user, target, reqs, asked, copy, shut, rec, file, events>>

(* Accept fails when the user has gone; then the target's end is closed.   *)
AcceptFails(c) ==
  /\ stage[c] = "accept" /\ user[c].closed
  /\ stage' = [stage EXCEPT ![c] = "gone"]
  /\ shut' = [shut EXCEPT ![c].dst = TRUE]
  /\ UNCHANGED <<conf, kind, user, target, reqs, asked, copy, rec, file, events>>

PortForwardOpen(c) == Emit(c, "port_forward.opened")

(* A port forward whose extra data does not decode is piped unaudited.     *)
Accept(c) ==
  /\ stage[c] = "accept" /\ ~user[c].closed
  /\ stage' = [stage EXCEPT ![c] = "pipe"]
  /\ rec' = [rec EXCEPT ![c].state = IF kind[c] = "session" /\ conf.sink THEN "idle"
                                     ELSE "none"]
  /\ \/ kind[c] = "direct-tcpip" /\ PortForwardOpen(c)
     \/ UNCHANGED events
  /\ UNCHANGED <<conf, kind, user, target, reqs, asked, copy, shut, file>>

-----------------------------------------------------------------------------
(* target -> user: the data, through the recording tee.                    *)
OutRead(c) ==
  /\ Piping(c) /\ copy[c].out = "read"
  /\ \/ /\ user[c].got < target[c].sent
        /\ copy' = [copy EXCEPT ![c].out = "write"]
     \/ /\ user[c].got = target[c].sent
        /\ target[c].eof \/ target[c].closed
        /\ copy' = [copy EXCEPT ![c].out = "done"]
  /\ UNCHANGED <<conf, stage, kind, user, target, reqs, asked, shut, rec, file, events>>

OutWrite(c) ==
  /\ Piping(c) /\ copy[c].out = "write"
  /\ \/ /\ SrcOpen(c)
        /\ user' = [user EXCEPT ![c].got = @ + 1]
        /\ copy' = [copy EXCEPT ![c].out = "tee"]
     \/ /\ ~SrcOpen(c)
        /\ copy' = [copy EXCEPT ![c].out = "done"]
        /\ UNCHANGED user
  /\ UNCHANGED <<conf, stage, kind, target, reqs, asked, shut, rec, file, events>>

(* Mutant: the tee gives up as soon as the user's end is closed.           *)
MutOutRecord(c) ==
  /\ Piping(c) /\ copy[c].out = "tee"
  /\ copy' = [copy EXCEPT ![c].out = "read"]
  /\ rec' = IF rec[c].state = "open" /\ SrcOpen(c)
            THEN [rec EXCEPT ![c].cast = @ \cup {user[c].got}] ELSE rec
  /\ UNCHANGED <<conf, stage, kind, user, target, reqs, asked, shut, file, events>>

(* History: for a reason the code lives with, the cast misses something.   *)
Gap(c) == rec' = [rec EXCEPT ![c].gap = TRUE]

(* Recorder.Output: a write to the cast that fails is swallowed.           *)
Output(c) ==
  \/ rec' = [rec EXCEPT ![c].cast = @ \cup {user[c].got}]
  \/ Gap(c)

(* writeOutput, after the chunk is on the wire.                            *)
OutRecord(c) ==
  /\ Piping(c) /\ copy[c].out = "tee"
  /\ copy' = [copy EXCEPT ![c].out = "read"]
  /\ \/ rec[c].state = "open" /\ Output(c)
     \/ rec[c].state # "open" /\ UNCHANGED rec
  /\ UNCHANGED <<conf, stage, kind, user, target, reqs, asked, shut, file, events>>

(* target -> user: the requests, exit-status among them.                   *)
TargetRequest(c) ==
  /\ Piping(c) /\ target[c].exit = "sent"
  /\ target' = [target EXCEPT ![c].exit = "taken"]
  /\ user' = [user EXCEPT ![c].exit = SrcOpen(c)]
  /\ UNCHANGED <<conf, stage, kind, reqs, asked, copy, shut, rec, file, events>>

-----------------------------------------------------------------------------
(* user -> target: the data.  A chunk is counted when it is read.          *)
InRead(c) ==
  /\ Piping(c) /\ copy[c].in = "read"
  /\ \/ /\ user[c].taken < user[c].sent
        /\ user' = [user EXCEPT ![c].taken = @ + 1]
        /\ copy' = [copy EXCEPT ![c].in = "write"]
     \/ /\ user[c].taken = user[c].sent
        /\ user[c].eof \/ user[c].closed
        /\ copy' = [copy EXCEPT ![c].in = "done"]
        /\ UNCHANGED user
  /\ UNCHANGED <<conf, stage, kind, target, reqs, asked, shut, rec, file, events>>

InWrite(c) ==
  /\ Piping(c) /\ copy[c].in = "write"
  /\ \/ /\ TargetOpen(c)
        /\ target' = [target EXCEPT ![c].got = @ + 1]
        /\ copy' = [copy EXCEPT ![c].in = "read"]
     \/ /\ ~TargetOpen(c)
        /\ copy' = [copy EXCEPT ![c].in = "done"]
        /\ UNCHANGED target
  /\ UNCHANGED <<conf, stage, kind, user, reqs, asked, shut, rec, file, events>>

(***************************************************************************)
(* LocalDirSink.OpenCast creates <session-id>.cast.  It fails if the file  *)
(* is there, and may fail for the disk.                                    *)
(***************************************************************************)
OpenCast(result) ==
  \/ result = "created" /\ ~file /\ file' = TRUE
  \/ result = "exists" /\ file /\ UNCHANGED file
  \/ result = "disk" /\ UNCHANGED file

(* recording.New writes the header, or fails for the disk.                 *)
NewRecorder(c) ==
  \/ rec' = [rec EXCEPT ![c].state = "open"]
  \/ Gap(c)

(* A failed start is tried again at the next pty-req.                      *)
StartIfNeeded(c) ==
  \/ rec[c].state # "idle" /\ UNCHANGED <<rec, file>>
  \/ /\ rec[c].state = "idle"
     /\ \/ OpenCast("created") /\ NewRecorder(c)
        \/ OpenCast("exists") /\ UNCHANGED rec
        \/ OpenCast("disk") /\ Gap(c)

(* A pty-req that does not decode starts no recorder, and goes on to the   *)
(* target like any other.                                                  *)
ParseFails(c) ==
  /\ IF rec[c].state = "idle" THEN Gap(c) ELSE UNCHANGED rec
  /\ UNCHANGED file

(* A resize is in the cast as chunk 0; one that does not decode is not.    *)
Resize(c) ==
  \/ rec[c].state = "open" /\ rec' = [rec EXCEPT ![c].cast = @ \cup {0}]
  \/ UNCHANGED rec

(* Mutant: the event carries the action of another one.                    *)
MutEmitSubsystemOpened(c) == Emit(c, "session.opened")

emitSubsystemOpened(c) == Emit(c, "subsystem.opened")

(* user -> target: a request is gated, peeked at for the recorder and the  *)
(* audit, and then forwarded.                                              *)
UserRequest(c) ==
  LET r == Head(reqs[c]) IN
  /\ Piping(c) /\ copy[c].ureq = "run" /\ reqs[c] # << >>
  /\ \/ /\ ~permitsRequest(r)
        /\ reqs' = [reqs EXCEPT ![c] = Tail(@)]
        /\ UNCHANGED <<copy, rec, file, events>>
     \/ /\ permitsRequest(r)
        /\ \/ r = "pty-req" /\ (StartIfNeeded(c) \/ ParseFails(c))
           \/ r = "window-change" /\ Resize(c) /\ UNCHANGED file
           \/ r \notin {"pty-req", "window-change"} /\ UNCHANGED <<rec, file>>
        /\ \/ detectSubsystem(r) /\ emitSubsystemOpened(c)
           \/ ~detectSubsystem(r) /\ UNCHANGED events
        /\ copy' = [copy EXCEPT ![c].ureq = "forward"]
        /\ UNCHANGED reqs
  /\ UNCHANGED <<conf, stage, kind, user, target, asked, shut>>

(* A target that gets a pty-req has a PTY from its next chunk on; pty is   *)
(* the set of the last chunks before one.                                  *)
ForwardRequest(c) ==
  /\ Piping(c) /\ copy[c].ureq = "forward"
  /\ reqs' = [reqs EXCEPT ![c] = Tail(@)]
  /\ copy' = [copy EXCEPT ![c].ureq = "run"]
  /\ target' = IF Head(reqs[c]) = "pty-req" /\ TargetOpen(c)
               THEN [target EXCEPT ![c].pty = @ \cup {target[c].sent}]
               ELSE target
  /\ UNCHANGED <<conf, stage, kind, user, asked, shut, rec, file, events>>

-----------------------------------------------------------------------------
(* Mutant: the target's data copy is not waited for.                       *)
MutTargetDone(c) == target[c].exit # "sent" /\ target[c].closed

(***************************************************************************)
(* A direction is done when its data copy has returned and its loop over   *)
(* the requests has: the queue is empty, and closed with the channel.      *)
(***************************************************************************)
TargetDone(c) == copy[c].out = "done" /\ target[c].exit # "sent" /\ target[c].closed
UserDone(c) ==
  /\ copy[c].in = "done"
  /\ copy[c].ureq = "run" /\ reqs[c] = << >> /\ user[c].closed

(* Mutant: closeBoth waits for both directions.                            *)
MutCloseBoth(c) ==
  /\ Piping(c) /\ ~shut[c].src
  /\ TargetDone(c) /\ UserDone(c)
  /\ shut' = [shut EXCEPT ![c] = [src |-> TRUE, dst |-> TRUE]]
  /\ UNCHANGED <<conf, stage, kind, user, target, reqs, asked, copy, rec, file, events>>

(* closeBoth, by the first direction whose data and requests are done.     *)
CloseBoth(c) ==
  /\ Piping(c) /\ ~shut[c].src
  /\ TargetDone(c) \/ UserDone(c)
  /\ shut' = [shut EXCEPT ![c] = [src |-> TRUE, dst |-> TRUE]]
  /\ UNCHANGED <<conf, stage, kind, user, target, reqs, asked, copy, rec, file, events>>

(* channelRecorder.Close, and the event of a recording there has been.     *)
RecorderClose(c) ==
  rec' = [rec EXCEPT ![c].state = IF @ = "none" THEN "none" ELSE "closed"]

emitCompleted(c) == {e \in {"recording.completed"} : rec[c].state = "open"}

PortForwardClose(c) ==
  {e \in {"port_forward.closed"} : "port_forward.opened" \in events[c].seen}

(* Mutant: bytes_out counts what was offered and not what was written.     *)
MutFinish(c) ==
  /\ Piping(c) /\ shut[c].src
  /\ TargetDone(c) /\ UserDone(c)
  /\ stage' = [stage EXCEPT ![c] = "gone"]
  /\ RecorderClose(c)
  /\ events' = [events EXCEPT ![c] =
       [seen |-> @.seen \cup PortForwardClose(c) \cup emitCompleted(c),
        bytesIn |-> user[c].taken, bytesOut |-> target[c].sent]]
  /\ UNCHANGED <<conf, kind, user, target, reqs, asked, copy, shut, file>>

(* pipeChannel returns, and the deferred calls of handleChannel run.  The  *)
(* copies of stderr hold nothing up: once both ends have closed their      *)
(* reads and writes fail, and before that nobody waits for them.           *)
Finish(c) ==
  /\ Piping(c) /\ shut[c].src
  /\ TargetDone(c) /\ UserDone(c)
  /\ stage' = [stage EXCEPT ![c] = "gone"]
  /\ RecorderClose(c)
  /\ events' = [events EXCEPT ![c] =
       [seen |-> @.seen \cup PortForwardClose(c) \cup emitCompleted(c),
        bytesIn |-> user[c].taken, bytesOut |-> user[c].got]]
  /\ UNCHANGED <<conf, kind, user, target, reqs, asked, copy, shut, file>>

-----------------------------------------------------------------------------
Init ==
  /\ conf \in Conf
  /\ stage = [c \in Channel |-> "none"]
  /\ kind = [c \in Channel |-> "session"]
  /\ user = [c \in Channel |-> [sent |-> 0, taken |-> 0, got |-> 0, eof |-> FALSE,
                                closed |-> FALSE, exit |-> FALSE]]
  /\ target = [c \in Channel |-> [sent |-> 0, got |-> 0, eof |-> FALSE,
                                  closed |-> FALSE, exit |-> "no", pty |-> {}]]
  /\ reqs = [c \in Channel |-> << >>]
  /\ asked = [c \in Channel |-> 0]
  /\ copy = [c \in Channel |-> [out |-> "read", in |-> "read", ureq |-> "run"]]
  /\ shut = [c \in Channel |-> [src |-> FALSE, dst |-> FALSE]]
  /\ rec = [c \in Channel |-> [state |-> "none", cast |-> {}, gap |-> FALSE]]
  /\ file = FALSE
  /\ events = [c \in Channel |-> [seen |-> {}, bytesIn |-> 0, bytesOut |-> 0]]

Peers(c) ==
  \/ \E k \in Kind : UserOpens(c, k)
  \/ \E r \in Request : UserAsks(c, r)
  \/ UserSends(c) \/ UserEOF(c) \/ UserCloses(c)
  \/ TargetSends(c) \/ TargetExits(c) \/ TargetCloses(c)

HandleChannel(c) == ChannelDenied(c) \/ OpenTarget(c) \/ AcceptFails(c) \/ Accept(c)

Out(c) == OutRead(c) \/ OutWrite(c) \/ OutRecord(c)
In(c) == InRead(c) \/ InWrite(c)
UserRequests(c) == UserRequest(c) \/ ForwardRequest(c)

Pipe(c) ==
  \/ Out(c) \/ TargetRequest(c)
  \/ In(c) \/ UserRequests(c)
  \/ CloseBoth(c) \/ Finish(c)

Next == \E c \in Channel : Peers(c) \/ HandleChannel(c) \/ Pipe(c)

Spec == Init /\ [][Next]_vars

(***************************************************************************)
(* The goroutines keep running, and an SSH peer answers a request, and     *)
(* answers a close with a close.  Nobody is made to read: a write to a     *)
(* peer waits for room in its window, which may never come, and gets       *)
(* fairness only once that peer has closed.                                *)
(***************************************************************************)
Fairness ==
  \A c \in Channel :
    /\ WF_vars(HandleChannel(c) \/ CloseBoth(c) \/ Finish(c))
    /\ WF_vars(OutRead(c) \/ OutRecord(c) \/ (user[c].closed /\ OutWrite(c)))
    /\ WF_vars(InRead(c) \/ (target[c].closed /\ InWrite(c)))
    /\ WF_vars(TargetRequest(c)) /\ WF_vars(UserRequests(c))
    /\ WF_vars(shut[c].src /\ UserCloses(c))
    /\ WF_vars(shut[c].dst /\ TargetCloses(c))

FairSpec == Spec /\ Fairness

-----------------------------------------------------------------------------
UserEnd == [sent : Nat, taken : Nat, got : Nat, eof : BOOLEAN, closed : BOOLEAN,
            exit : BOOLEAN]
TargetEnd == [sent : Nat, got : Nat, eof : BOOLEAN, closed : BOOLEAN,
              exit : {"no", "sent", "taken"}, pty : SUBSET Nat]
Copies == [out : {"read", "write", "tee", "done"}, in : {"read", "write", "done"},
           ureq : {"run", "forward"}]
Recorder == [state : {"none", "idle", "open", "closed"}, cast : SUBSET Nat,
             gap : BOOLEAN]
Action == {"port_forward.opened", "port_forward.closed", "subsystem.opened",
           "recording.completed"}

(* The types of the channels, their goroutines and the recorder; a request *)
(* that is being forwarded is still the first of the queue.                *)
TypeOK ==
  /\ conf \in Conf
  /\ stage \in [Channel -> {"none", "new", "accept", "pipe", "gone"}]
  /\ kind \in [Channel -> {"session", "direct-tcpip"}]
  /\ user \in [Channel -> UserEnd]
  /\ target \in [Channel -> TargetEnd]
  /\ reqs \in [Channel -> Seq(Request)]
  /\ asked \in [Channel -> Nat]
  /\ copy \in [Channel -> Copies]
  /\ \A c \in Channel : copy[c].ureq = "forward" => reqs[c] # << >>
  /\ shut \in [Channel -> [src : BOOLEAN, dst : BOOLEAN]]
  /\ rec \in [Channel -> Recorder]
  /\ file \in BOOLEAN
  /\ events \in [Channel -> [seen : SUBSET Action, bytesIn : Nat, bytesOut : Nat]]

(***************************************************************************)
(* The proxy never closes on a user who is still there before everything   *)
(* the target wrote to stdout and its exit status have been passed on (the *)
(* grouping that pipeChannel's comment calls important), whichever of its  *)
(* goroutines ends first.                                                  *)
(***************************************************************************)
OutputBeforeClose ==
  \A c \in Channel :
    shut[c].src /\ ~user[c].closed =>
      /\ user[c].got = target[c].sent
      /\ target[c].exit # "no" => user[c].exit

(***************************************************************************)
(* A cast holds only what the user received; and when recording.completed  *)
(* is emitted it holds every chunk of the PTY session that the user has    *)
(* received, unless the disk failed or a pty-req did not decode.  (The     *)
(* recorder starts before the target learns of the PTY and closes after    *)
(* the last copy has returned.)                                            *)
(***************************************************************************)
RecordingFaithful ==
  \A c \in Channel :
    /\ rec[c].cast \subseteq 0..user[c].got
    /\ "recording.completed" \in events[c].seen /\ ~rec[c].gap =>
         \A k \in 1..user[c].got : (\E n \in target[c].pty : k > n) => k \in rec[c].cast

(***************************************************************************)
(* port_forward.opened and .closed come in pairs once the channel is gone, *)
(* and the counts of the second are those of the whole forward: what the   *)
(* user received, and at least what the target did.                        *)
(***************************************************************************)
PortForwardAccounted ==
  \A c \in Channel :
    stage[c] = "gone" /\ "port_forward.opened" \in events[c].seen =>
      /\ "port_forward.closed" \in events[c].seen
      /\ events[c].bytesOut = user[c].got
      /\ events[c].bytesIn >= target[c].got

(* One end has closed, and the copy towards the other waits for the window *)
(* of a peer who is there and does not read.                               *)
Stuck(c) ==
  \/ copy[c].in = "write" /\ user[c].closed /\ ~target[c].closed
  \/ copy[c].out = "write" /\ target[c].closed /\ ~user[c].closed

(***************************************************************************)
(* A channel that either end closes is finished with: all copies end and   *)
(* the deferred events are emitted.  The one exception is a copy that is   *)
(* stuck for ever: closeBoth comes after the copy, so nobody tells the     *)
(* peer it waits for of the close.                                         *)
(***************************************************************************)
PipeEnds ==
  \A c \in Channel :
    (Piping(c) /\ (user[c].closed \/ target[c].closed)) ~>
      (stage[c] = "gone" \/ []Stuck(c))

(***************************************************************************)
(* What ssh.Config says of RecordingSink ("captures every session          *)
(* channel's PTY traffic into an asciinema cast"): with a sink, a working  *)
(* disk and requests that decode, a session whose target has a PTY is      *)
(* recorded.                                                               *)
(***************************************************************************)
EveryPTYRecorded ==
  \A c \in Channel :
    conf.sink /\ target[c].pty # {} /\ (\A d \in Channel : ~rec[d].gap) =>
      rec[c].state = "open" \/ "recording.completed" \in events[c].seen
=============================================================================
