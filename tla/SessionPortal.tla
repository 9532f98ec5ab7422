--------------------------- MODULE SessionPortal ---------------------------
(***************************************************************************)
(* The replay of recordings, end to end: the recorder's file and its       *)
(* recording.completed event (session/recorder.go, recording/sink.go), the *)
(* shared ssh_audit stream, the two trackers of the portal, its pages and  *)
(* its LocalCastStore (internal/proxyd/portal).                            *)
(*                                                                         *)
(* External: the stream, the ring of journal.Tracker, the file system, the *)
(* operator who prunes the casts of past days, and the proxies on other    *)
(* hosts that publish to the same stream.                                  *)
(***************************************************************************)
EXTENDS Integers, Sequences, FiniteSets

CONSTANTS
  Cast,          \* the casts this proxy records: [session, day, dir]
  Foreign,       \* casts of proxies on other hosts
  Setting,       \* settings of this proxy: [dir, nats]
  None,          \* SSH_PROXYD_CAST_DIR unset, or no cast
  MaxSessions, MaxEvents,   \* the caps of the two rings
  MaxDay,        \* bound on the days that pass
  MaxNoise,      \* bound on the stream's other messages
  MaxRestart     \* bound on the restarts of this proxy

ASSUME PortalAssumption ==
  /\ \A c \in Cast : c.day \in 1..MaxDay /\ c.dir # None
  /\ \A v \in Setting : v.nats \in BOOLEAN
  /\ None \notin Cast \cup Foreign /\ Cast \cap Foreign = {}
  /\ MaxSessions \in Nat \ {0} /\ MaxEvents \in Nat \ {0}
  /\ MaxDay \in Nat \ {0} /\ MaxNoise \in Nat /\ MaxRestart \in Nat

VARIABLES
  set,        \* SSH_PROXYD_CAST_DIR, the root of recorder and portal, and whether
              \* there is NATS for the events and the trackers
  today,
  clock,      \* stamps given out
  rec,        \* each cast's recorder: "none", "open", "closed" or "done"
  stamp,      \* OccurredAt of its recording.completed
  disk,       \* its file: "none", "growing" or "final"
  stream,     \* ssh_audit
  noise,      \* how many other messages came
  from,       \* where the trackers began to read the stream
  read,       \* how far each has read
  sessions,   \* the SessionTracker's ring, newest first
  events,     \* the AuditTracker's ring
  req,        \* a viewer's request
  restarts

recVars == <<clock, rec, stamp, disk, stream, noise>>
tailVars == <<from, read, sessions, events>>
confVars == <<set, today, restarts>>
vars == <<recVars, tailVars, confVars, req>>

castDir == set.dir
nats == set.nats
Session == {c.session : c \in Cast \cup Foreign}

-----------------------------------------------------------------------------
(* The recorder.                                                           *)

(* Mutant: the file is opened without O_EXCL, which truncates an old one.  *)
MutOpenCast(c) ==
  /\ c.day = today /\ c.dir = castDir
  /\ rec[c] \in {"none", "done"}
  /\ rec' = [rec EXCEPT ![c] = "open"] /\ disk' = [disk EXCEPT ![c] = "growing"]
  /\ UNCHANGED <<clock, stamp, stream, noise, tailVars, confVars, req>>

(* <root>/<day>/<session>.cast, which must not exist.                      *)
OpenCast(c) ==
  /\ c.day = today /\ c.dir = castDir
  /\ disk[c] = "none"
  /\ rec' = [rec EXCEPT ![c] = "open"] /\ disk' = [disk EXCEPT ![c] = "growing"]
  /\ UNCHANGED <<clock, stamp, stream, noise, tailVars, confVars, req>>

(* Close: the cast, if it is still there, is closed and never grows again, *)
(* and the event is stamped; nobody asks for the file before the event is  *)
(* on the stream, so these are one step.                                   *)
CloseCast(c) ==
  /\ rec[c] = "open"
  /\ disk' = [disk EXCEPT ![c] = IF @ = "growing" THEN "final" ELSE @]
  /\ clock' = clock + 1
  /\ stamp' = [stamp EXCEPT ![c] = clock + 1]
  /\ rec' = [rec EXCEPT ![c] = "closed"]
  /\ UNCHANGED <<stream, noise, tailVars, confVars, req>>

(* Mutant: OccurredAt is left out.                                         *)
MutEmitCompleted(c) ==
  /\ rec[c] = "closed"
  /\ rec' = [rec EXCEPT ![c] = "done"]
  /\ \/ UNCHANGED stream
     \/ /\ nats
        /\ stream' = Append(stream, [action |-> "recording.completed", session |-> c.session,
                                     cast |-> c, at |-> 0])
  /\ UNCHANGED <<clock, stamp, disk, noise, tailVars, confVars, req>>

(* emitCompleted: an append that fails is logged and the event is lost.    *)
emitCompleted(c) ==
  /\ rec[c] = "closed"
  /\ rec' = [rec EXCEPT ![c] = "done"]
  /\ \/ UNCHANGED stream
     \/ /\ nats
        /\ stream' = Append(stream, [action |-> "recording.completed", session |-> c.session,
                                     cast |-> c, at |-> stamp[c]])
  /\ UNCHANGED <<clock, stamp, disk, noise, tailVars, confVars, req>>

(* Other events, other proxies' recordings, messages that do not decode.   *)
Noise ==
  /\ noise < MaxNoise
  /\ noise' = noise + 1 /\ clock' = clock + 1
  /\ \/ \E id \in Session :
          stream' = Append(stream, [action |-> "session.opened", session |-> id,
                                    cast |-> None, at |-> clock + 1])
     \/ \E c \in Foreign :
          stream' = Append(stream, [action |-> "recording.completed", session |-> c.session,
                                    cast |-> c, at |-> clock + 1])
     \/ stream' = Append(stream, [action |-> "", session |-> None, cast |-> None,
                                  at |-> clock + 1])
  /\ UNCHANGED <<rec, stamp, disk, tailVars, confVars, req>>

-----------------------------------------------------------------------------
(* The trackers.                                                           *)
FirstN(n, s) == IF Len(s) <= n THEN s ELSE SubSeq(s, 1, n)

(* Mutant: every action makes a row of the list.                           *)
MutDecodeSession(m) == m.action # ""

decodeSession(m) == m.action = "recording.completed"

decodeAuditEvent(m) == m.action # "" /\ m.at # 0

(* Without a Less the newcomer goes first; with one, in front of the first *)
(* entry that does not come before it.                                     *)
Prepend(m, ring) == <<m>> \o ring

(* Mutant: no Less for the audit ring either.                              *)
MutAuditInsert(m, ring) == <<m>> \o ring

AuditInsert(m, ring) ==
  LET p == CHOOSE p \in 1..(Len(ring) + 1) :
             /\ \A i \in 1..(p - 1) : ring[i].at > m.at
             /\ p <= Len(ring) => ring[p].at <= m.at
  IN  SubSeq(ring, 1, p - 1) \o <<m>> \o SubSeq(ring, p, Len(ring))

SessionsRead ==
  /\ nats /\ read.sessions < Len(stream)
  /\ read' = [read EXCEPT !.sessions = @ + 1]
  /\ LET m == stream[read.sessions + 1]
     IN  sessions' = IF decodeSession(m) THEN FirstN(MaxSessions, Prepend(m, sessions))
                                         ELSE sessions
  /\ UNCHANGED <<recVars, from, events, confVars, req>>

EventsRead ==
  /\ nats /\ read.events < Len(stream)
  /\ read' = [read EXCEPT !.events = @ + 1]
  /\ LET m == stream[read.events + 1]
     IN  events' = IF decodeAuditEvent(m) THEN FirstN(MaxEvents, AuditInsert(m, events))
                                          ELSE events
  /\ UNCHANGED <<recVars, from, sessions, confVars, req>>

-----------------------------------------------------------------------------
(* The pages.                                                              *)

(* A viewer's page and then the player's request.  The last five fields    *)
(* are history, for PlayerPlays: no cast of the session was pruned since   *)
(* the page was made, the restart after which it was made, how far the     *)
(* list had come and the row it showed, and a failure of the file system.  *)
Idle == [pc |-> "idle", id |-> None, status |-> 0, player |-> FALSE, cast |-> None,
         final |-> FALSE,
         kept |-> FALSE, since |-> 0, seen |-> 0, row |-> 0, failed |-> FALSE]

Listed(id) == \E i \in DOMAIN sessions : sessions[i].session = id

(* The first row of the list that has the id.                              *)
Row(id) ==
  CHOOSE i \in DOMAIN sessions : /\ sessions[i].session = id
                                 /\ \A j \in 1..(i - 1) : sessions[j].session # id

Playable(id) == Listed(id) /\ sessions[Row(id)].cast # None

(* No recording of the session has been pruned.                            *)
Kept(id) == \A c \in Cast : c.session = id /\ rec[c] # "none" => disk[c] # "none"

Page(id, player) ==
  [pc |-> "detail", id |-> id, player |-> player, cast |-> None, final |-> FALSE,
   status |-> IF ~nats THEN 503 ELSE IF Listed(id) THEN 200 ELSE 404,
   kept |-> Kept(id), since |-> restarts, seen |-> read.sessions,
   row |-> IF Listed(id) THEN Row(id) ELSE 0, failed |-> FALSE]

(* Mutant: the page embeds the player whether or not there are casts.      *)
MutDetail(id) ==
  /\ req.pc = "idle"
  /\ req' = Page(id, nats /\ Playable(id))
  /\ UNCHANGED <<recVars, tailVars, confVars>>

(* handleSessionDetail.                                                    *)
Detail(id) ==
  /\ req.pc = "idle"
  /\ req' = Page(id, nats /\ castDir # None /\ Playable(id))
  /\ UNCHANGED <<recVars, tailVars, confVars>>

Answer(code) == req' = [req EXCEPT !.pc = "done", !.status = code]

(* handleSessionCast up to the call of the store.                          *)
CastLookup ==
  /\ req.pc = "detail"
  /\ \/ (~nats \/ castDir = None) /\ Answer(503)
     \/ nats /\ castDir # None /\ ~Playable(req.id) /\ Answer(404)
     \/ /\ nats /\ castDir # None /\ Playable(req.id)
        /\ req' = [req EXCEPT !.pc = "resolve", !.cast = sessions[Row(req.id)].cast]
  /\ UNCHANGED <<recVars, tailVars, confVars>>

Present(c) == c \in Cast /\ disk[c] # "none"

(* An error other than "does not exist": no descriptor, no permission.     *)
Fails == req' = [req EXCEPT !.pc = "done", !.status = 500, !.failed = TRUE]

(* LocalCastStore.Open: EvalSymlinks and the root, then Stat, then Open.   *)
Resolve ==
  /\ req.pc = "resolve"
  /\ \/ ~Present(req.cast) /\ Answer(404)
     \/ Present(req.cast) /\ req.cast.dir # castDir /\ Answer(403)
     \/ Present(req.cast) /\ req.cast.dir = castDir /\ req' = [req EXCEPT !.pc = "stat"]
     \/ Fails
  /\ UNCHANGED <<recVars, tailVars, confVars>>

(* The size that will be declared is the size the file has now.            *)
Stat ==
  /\ req.pc = "stat"
  /\ \/ ~Present(req.cast) /\ Answer(404)
     \/ /\ Present(req.cast)
        /\ req' = [req EXCEPT !.pc = "open", !.final = disk[req.cast] = "final"]
     \/ Fails
  /\ UNCHANGED <<recVars, tailVars, confVars>>

(* Here a file that is gone is an error like any other.                    *)
Open ==
  /\ req.pc = "open"
  /\ \/ ~Present(req.cast) /\ Answer(500)
     \/ Present(req.cast) /\ Answer(200)
     \/ Fails
  /\ UNCHANGED <<recVars, tailVars, confVars>>

Leave ==
  /\ req.pc \in {"detail", "done"}
  /\ req' = Idle
  /\ UNCHANGED <<recVars, tailVars, confVars>>

-----------------------------------------------------------------------------
NextDay ==
  /\ today < MaxDay
  /\ today' = today + 1
  /\ UNCHANGED <<recVars, tailVars, set, restarts, req>>

(* A cast still being written may go too: its day is the one it began on.  *)
Prune(c) ==
  /\ c.day < today /\ disk[c] # "none"
  /\ disk' = [disk EXCEPT ![c] = "none"]
  /\ req' = [req EXCEPT !.kept = FALSE]
  /\ UNCHANGED <<clock, rec, stamp, stream, noise, tailVars, confVars>>

(* This proxy dies and comes back, perhaps with other settings.  What its  *)
(* recorders had not published is lost; the trackers begin anew, somewhere *)
(* in the stream.  A page is in the viewer's browser and stays; a request  *)
(* under way is cut off.                                                   *)
Restart ==
  /\ restarts < MaxRestart
  /\ restarts' = restarts + 1
  /\ set' \in Setting
  /\ rec' = [c \in Cast |-> IF rec[c] # "none" THEN "done" ELSE rec[c]]
  /\ from' \in 0..Len(stream) /\ read' = [sessions |-> from', events |-> from']
  /\ sessions' = <<>> /\ events' = <<>>
  /\ req' = IF req.pc = "detail" THEN req ELSE Idle
  /\ UNCHANGED <<clock, stamp, disk, stream, noise, today>>

Init ==
  /\ set \in Setting /\ today = 1 /\ restarts = 0
  /\ clock = 0 /\ noise = 0 /\ stream = <<>>
  /\ rec = [c \in Cast |-> "none"] /\ stamp = [c \in Cast |-> 0]
  /\ disk = [c \in Cast |-> "none"]
  /\ from = 0 /\ read = [sessions |-> 0, events |-> 0]
  /\ sessions = <<>> /\ events = <<>>
  /\ req = Idle

Recording == \E c \in Cast : OpenCast(c) \/ CloseCast(c) \/ emitCompleted(c) \/ Prune(c)

Viewing ==
  (\E id \in Session : Detail(id)) \/ CastLookup \/ Resolve \/ Stat \/ Open \/ Leave

Next == Recording \/ Noise \/ SessionsRead \/ EventsRead \/ Viewing \/ NextDay \/ Restart

Spec == Init /\ [][Next]_vars

-----------------------------------------------------------------------------
Message ==
  [action : {"recording.completed", "session.opened", ""}, session : Session \cup {None},
   cast : Cast \cup Foreign \cup {None}, at : Nat]

Stage == {"idle", "detail", "resolve", "stat", "open", "done"}

Status == {0, 200, 403, 404, 500, 503}

Request ==
  [pc : Stage, id : Session \cup {None}, status : Status, player : BOOLEAN,
   cast : Cast \cup Foreign \cup {None}, final : BOOLEAN,
   kept : BOOLEAN, since : 0..MaxRestart, seen : Nat, row : Nat, failed : BOOLEAN]

(* Every variable has its type.                                            *)
TypeOK ==
  /\ set \in Setting /\ today \in 1..MaxDay
  /\ restarts \in 0..MaxRestart /\ clock \in Nat /\ noise \in 0..MaxNoise
  /\ rec \in [Cast -> {"none", "open", "closed", "done"}] /\ stamp \in [Cast -> Nat]
  /\ disk \in [Cast -> {"none", "growing", "final"}]
  /\ stream \in Seq(Message) /\ \A i \in DOMAIN stream : stream[i].at \in 1..clock
  /\ from \in 0..Len(stream)
  /\ read \in [sessions : from..Len(stream), events : from..Len(stream)]
  /\ sessions \in Seq(Message) /\ Len(sessions) <= MaxSessions
  /\ events \in Seq(Message) /\ Len(events) <= MaxEvents
  /\ req \in Request

(* What handleSessionCast sends is a recording of the session asked for,   *)
(* of this proxy and inside its cast directory, and one that was closed    *)
(* before its size was read: the Content-Length is the length of the body. *)
ReplayIsFinal ==
  req.pc = "done" /\ req.status = 200 =>
    /\ req.cast \in Cast /\ req.cast.session = req.id
    /\ req.cast.dir = castDir
    /\ req.final

(* The recordings among the messages first..last of the stream.            *)
Completed(first, last) == {i \in first..last : stream[i].action = "recording.completed"}

(* Since the page was made this proxy was restarted; or so many recordings *)
(* were announced that the row it showed is off the list.                  *)
Restarted == restarts > req.since
PushedOff == req.row + Cardinality(Completed(req.seen + 1, read.sessions)) > MaxSessions

(* A player offered by handleSessionDetail plays.  When it does not, then  *)
(* since the page was made the file system failed or a cast of the session *)
(* was pruned; or the cast is on another host or in another directory; or  *)
(* newer recordings pushed the session off the list; or the proxy was      *)
(* restarted, with an empty list or without a store.                       *)
PlayerPlays ==
  req.pc = "done" /\ req.player /\ req.status # 200 =>
    \/ req.status = 500 /\ (req.failed \/ ~req.kept)
    \/ req.status = 404 /\ req.cast # None /\ (req.cast \in Foreign \/ ~req.kept)
    \/ req.status = 403 /\ req.cast.dir # castDir
    \/ req.status = 404 /\ req.cast = None /\ (PushedOff \/ Restarted)
    \/ req.status = 503 /\ Restarted

(* A recording of this proxy that its list has taken in stays on the list  *)
(* until MaxSessions recordings, of this proxy or of others on the stream, *)
(* have been announced after it, whatever else the stream carries, and has *)
(* just these before it.  (The order is that of the announcements, which   *)
(* is not always that of completion.)                                      *)
ListKeepsLatest ==
  \A i \in Completed(from + 1, read.sessions) :
    LET n == Cardinality(Completed(i + 1, read.sessions))
    IN  stream[i].cast \in Cast /\ n < MaxSessions =>
          n < Len(sessions) /\ sessions[n + 1] = stream[i]

(* The list has the recordings of this proxy and no others, as             *)
(* OPERATIONS.md says of the admin portal.                                 *)
ListsOwnSessions == \A i \in DOMAIN sessions : sessions[i].cast \in Cast

(* The audit page shows its events by the time they occurred, the newest   *)
(* first, in whatever order they were appended; and an event it has read   *)
(* and does not show is older than all of a full page.                     *)
AuditShowsNewest ==
  /\ \A i, j \in DOMAIN events : i < j => events[i].at > events[j].at
  /\ \A k \in (from + 1)..read.events :
       \/ stream[k].action = ""
       \/ \E i \in DOMAIN events : events[i] = stream[k]
       \/ Len(events) = MaxEvents /\ \A i \in DOMAIN events : events[i].at > stream[k].at
=============================================================================
