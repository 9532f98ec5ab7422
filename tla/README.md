# A TLA+ model of ssh-proxyd and ssh-tunneld

This directory holds TLA+ specifications of the SSH gateway and of its tunnel
agent, TLC configurations that check them on small instances, and TLAPS proofs of
the properties that matter most. Definitions are translated from the Go source and
keep its names; `PROJECT.json` maps each to its lines. Paths below are relative to
the root of the repository.

## The system

`ssh-proxyd` accepts SSH users, checks their certificates (with a revocation list
polled from certd), dials the target host and pipes SSH channels between the two
ends, recording PTY sessions and auditing. A target is dialled over a reverse tunnel
if an agent has one registered for it, and straight otherwise. `ssh-tunneld` runs
beside a target's sshd: it keeps an mTLS connection with a yamux session to the
proxy, forwards each stream to the local sshd, and renews the host certificate.

| Part | State | Operations | Hard behaviour | Module |
|---|---|---|---|---|
| registry (`routing/registry.go`) | label → session, closed | Register, Unregister, Lookup/Open, Close | liveness tested outside the lock, dead owners evicted by whoever meets them, reconnect before clean-up | `TunnelRegistry` |
| tunnel listener (`routing/listener.go`) | one goroutine per connection, accept loop | accept, handshake, register, wait, unregister, shutdown | late Unregister against a reconnect, hanging handshakes, accept errors | `TunnelListener` (on `TunnelRegistry`) |
| revocation checker (`revcheck/revcheck.go`) and `publicKeyCallback` | two maps under a lock, poller, one handshake per user | fetch, swap, IsRevoked, the certificate check | two maps read and swapped one at a time, failing fetches, first fetch, no checker at all, attribution beside the certificate's own extensions | `RevocationCheck`, on `CertEnforcer` |
| SSH server (`ssh/server.go`, `session/dial.go`) | accept loop, one goroutine per user, audit trail | accept, handshake, signer, tunnel or direct dial, channels, shutdown | every stage may fail or hang, the order of deferred calls | `UserSession` |
| channel proxier (`session/proxy.go`) with recorder, port-forward and file-transfer audit | four copies, two request loops, one recorder per channel | open, pipe, tee, start, resize, close | EOF, close, exit status and output in any order, several channels and one cast file | `ChannelPipe` |
| agent (`tunnel/dialer.go`, `forward/forwarder.go`) | dial loop and backoff, one session, streams with three goroutines each | dial, back off, accept stream, dial sshd, pipe, shutdown | session loss, cancel and closes racing each other, who waits for whom | `TunnelAgent` |
| host certificate (`hostcert/renewer.go`) | file, temporary file, timer | sign, write, rename, wait | crash between two steps, backdated and short certificates | `HostCertRenewer` |
| RBAC and target parsing (`rbac/enforcer.go`, `session/route.go`) | none | permissions, source address, `ParseTarget` | several "@" in a name | `CertEnforcer` (operators) |
| `runServe` (`cmd/ssh-proxyd/main.go`) | environment, open resources, components | start-up, group, shutdown, deferred calls | a start-up that fails half-way, closes under running sessions, one component ending the rest | `ProxyServe` (on `UserSession`) |
| portal (`portal/*.go`) | two rings of events, a viewer's request | read the stream, session page, cast request | out-of-order events, a shared stream, casts pruned or still growing, restarts | `SessionPortal` |
| certd client, yamux settings | | | | not modelled: see the end |

The parts meet here. `ListenAndServe` of the SSH server calls `Registry.Open` through
`tunnelTransport`: `TunnelListener` composes registry, listener and these calls.
`UserSession` uses the three outcomes of `Open` that `TunnelRegistry` allows (stream,
no tunnel, error), and a channel of it is one channel of `ChannelPipe`. `PipeEnds`
there says when a channel may go on for ever after its user has left, so `UserSession`
assumes no fairness of the end of a channel. A handshake of `UserSession` is what
`RevocationCheck` looks into, and the permissions it grants are those `ChannelPipe`
asks. `ProxyServe` runs `UserSession` inside the process, with the other components
beside it. `SessionPortal` takes up a recording where `ChannelPipe` ends.

## The modules

**TunnelDirectory** is the abstract promise: every label has at most one live owner,
a claim never takes a label from another live session, a session leaves all its labels
at once, and a shut directory stays empty.

**TunnelRegistry.** `tunnels`, `closed` are the fields of `Registry`; `dead` is
`IsClosed()` of the sessions; `closing` is the local set of `Close`; `call` has the
program counter of every `Open`. A critical section is one action; the liveness test
of `Lookup`, its clean-up, `session.Open` and each close in `Close` are steps outside
the lock. `seen` is a history variable: the live owners the label of a call had since
the call began. Host names are records (name, mixed case, blanks around it), so that
`normalize` and `TrimSpace` do something. The loop in `Register` reads the liveness of
several sessions under one lock. A session never comes back to life, so each of its
outcomes is that of one atomic test at its last read, and it is one action.

**TunnelListener** extends the registry with `pc` (the position of every `handleConn`),
`hosts` (what `HostFromSPIFFE` gave), the accept loop and the context. A connection and
its yamux session are one identity. An agent that reconnects is another identity with
the same certificate. `MainCloses` is the deferred `registry.Close` of `runServe`.

**RevocationCheck.** The lock is modelled by what it forbids: a swap waits for readers,
a waiting writer keeps new readers out (`sync.RWMutex`). `poller = "unset"` is a proxy
without `CERTD_REVOCATIONS_URL`. `check` has the position of each handshake and the
login it tries: a name, a certificate, an address. `Presentable` is what comes before
`IsRevoked`, `Acceptable` what comes after, `Granted` the permissions of the connection.
What gossh checks itself (principal, validity, unknown critical options) is external.
`loaded`, `all`, `some` are history variables.

**CertEnforcer.** Operators on permissions and login names, without state. Permissions
are a record of extensions and source addresses; a login name is the sequence of its
words and "@" signs.

**UserSession.** `conn` is the position of every `handleConn`, `queue` the channel opens
gossh has delivered, `open` the running `handleChannel` goroutines, `trail` the events
given to the audit sink, in order. It has no run of its own: TLC checks it inside
`ProxyServe`.

**ProxyServe.** `Calls` lists the calls of `runServe` in order: whether each is made in
this environment, whether it has what it needs, and what it leaves to close. `step` is
the next one and `deferred` the closes that are pending, made in reverse by `Unwind`.
A call may fail even if it has what it needs. The group's context is `UserSession`'s
`ctx`. `tunnel` and `portal` are the other two components, by their position only. The
goroutines of `guard.Go` have no state: nobody waits for them, so each may run until
the process has exited. `run.Group`, `run.HTTPServer` and the signal are external.

**SessionPortal.** `rec`, `stamp`, `disk` follow each cast from `OpenCast` to its event;
`stream` is `ssh_audit`; `sessions` and `events` are the rings of the two trackers, with
`read` and `from` their places in the stream; `req` is one viewer at the session page
and then in `LocalCastStore.Open`, a step for each look at the file system, any of which
may also fail. Closing a cast and stamping its event are one step, because nobody looks at
the file before its event is on the stream. Appending the event is another, so events can
arrive out of order. An operator removes casts of past days, proxies on other hosts write
to the same stream, and a restart may change the settings. A page the viewer has open
outlives a restart; a request under way does not. A recording carries its day, so one
session can have two. `kept`, `since`, `seen`, `row` and `failed` of a request are history,
for `PlayerPlays`. `journal.Tracker` is external: it keeps the newest, and inserts by
`Less` where there is one.

**ChannelPipe.** Streams are counted in chunks. `copy` has the state of the copying
goroutines: reading and writing are separate steps, since a write may wait for the window
of its peer. `target.pty` has, for every `pty-req` the target got, the last chunk it had
written before: what comes after the least of them was written to a PTY. `rec.cast` is the
set of chunks in the cast, and `rec.gap` a history variable: the disk failed or a `pty-req`
did not decode. One cast file per connection: `<session-id>.cast` (the split by day is in
`SessionPortal`). `conf` is the certificate's permissions and whether there is a sink.
Replies to requests are left out, and so is what is written to stderr: `closeBoth` does not
wait for the two copies of it, and `Finish` finds them ended because both ends have closed.

**TunnelAgent.** `run` is the position of `Dialer.Run` and of `Handle` below it, `sub`
the context of `runSession`, `strm`, `conn`, `copy` the streams. Bytes are left out: SSH
runs end to end above them. `waits` is a history variable counting failed dials.

**HostCertRenewer.** Time is a counter that moves while `Run` waits and while the agent
is down. `tmp` is the temporary file, `path` the certificate file. `RenewFraction` is a
fraction of two integers. `ssh-tunneld` sets no `OnRenewed`, so nothing is called after
the rename.

Every `MC*` module gives the constants of one specification. `Mut*` operators are
mistakes one could make in the code (a dropped guard, a missing wait, a swapped order);
substituted for the definition below them they violate the property they belong to.

## What TLC checks

| Run | States | Shows |
|---|---|---|
| `registry` | 37,842 | `OpenLinearizable`: `Open`'s answer is right for an instant of the call, so a target behind a live tunnel is not dialled straight. `ClosedIsEmpty`; `CloseForgetsNone`: what was mapped when `Close` took the lock stays in its hands until it is dead. `ImplementsDirectory`: refinement of `TunnelDirectory`. `CloseReachesAll` |
| `listener` | 108,510 | `ServingOwnsItsHosts`: a late clean-up takes nothing from the agent that reconnected. `EntriesHaveHandlers`, `RoutedByCertificate`. `ShutdownCompletes` and `DeadEntriesRemoved` under fairness |
| `revocation` | 146,776 | `DecisionMatchesSnapshot`: no verdict mixes two snapshots. `SessionIsAsCertified`: principal, target and permissions of an admitted session are those of the login and certificate presented. `RevocationTakesEffect` under fairness |
| `serve` | 160,720 | `TrailWellFormed`, `NoTargetLeak`, `ShutdownDrained` of the SSH server, and `ClosedAfterUse` of the process: no sink, registry or source is closed under its users. `Exits` and `GoneUsersReleased` under fairness: a process told to stop ends, and a user who has left is let go, unless a session holds them for ever |
| `channel` | 469,240 | `OutputBeforeClose`: stdout and the exit status are not cut off. `RecordingFaithful`: the cast is what the user saw. `PortForwardAccounted`, for both kinds of channel. `PipeEnds` under fairness: a channel closed at either end is finished with, unless a copy is stuck for ever in a write to a peer that does not read |
| `agent` | 80,106 | `BackoffSchedule`, `NothingOutlivesHandle`. `Reconnects` and `Stops` under fairness |
| `host_cert` | 11,518 | `FileIsWhole` through crashes, `FreshWhileSigning` |
| `portal` | 1,541,360 | `ReplayIsFinal`: what is sent is a finished recording of the session asked for. `PlayerPlays`: an offered player fails only if, since the page was made, the file system failed, a cast of the session was pruned, newer recordings pushed it off the list or the proxy was restarted, or if the cast is elsewhere. `ListKeepsLatest`, `AuditShowsNewest`: the rings against the stream |

Every module has one type invariant, checked in the same runs or, for `TunnelAgent`,
proved only.

### Where the code and its comments or documents disagree

Each of these runs checks the documented statement, and TLC finds a behaviour of the
code that breaks it. The quotations are in `PROJECT.json`.

| Run | Statement | What happens |
|---|---|---|
| `listener_drains` | SIGTERM drains in-flight sessions | tunnels are closed under user sessions |
| `revocation_unset` | without a URL `IsRevoked` short-circuits | a nil checker inside a non-nil interface is called and panics |
| `channel_two_ptys` | every session channel's PTY traffic is recorded | the second PTY of a connection finds the cast file there and is not |
| `portal_own_sessions` | each proxy lists only the sessions it recorded | proxies that share a stream list each other's, without being able to play them |

Other comments say more than the code does. The models follow the code, so these
behaviours are in them, but no run checks the comment:

- `routing/listener.go:78` accepts "until ctx is cancelled"; any accept error ends it.
- `revcheck/revcheck.go:146` the proxy "isn't open-by-default" before the first poll;
  handshakes are answered from empty maps until the first fetch is in.
- `session/proxy.go:210` closes after a side has "fully drained"; stderr is not waited for.
- `session/proxy.go:243` "Closes both when the user finishes (e.g., disconnects)"; not while
  a copy waits to write to a target that does not read. `PipeEnds` makes an exception for it.
- `ssh/server.go:416` `rejectAll` "honours ctx"; it waits for a channel or for the user to leave.
- `session/dial.go:64` the target handshake "runs under cfg.Timeout"; nothing bounds it.
  `GoneUsersReleased` makes an exception for it.
- `forward/forwarder.go:105` an accept error is "bubbled so the dialer can reconnect"; if
  the session is still up, the deferred wait for open streams may hold it.
- `cmd/ssh-proxyd/main.go:339` without NATS "the portal renders empty"; its pages answer 503.
- `portal/sessions.go:143` arrival order "already matches recency"; an event is stamped
  before it is appended, so two that race may be listed the other way round.
  `ListKeepsLatest` says the order of the stream.
- `README.md:208` backoff "on session loss"; only a failed dial backs off.
- `README.md:198` "an `OnRenewed` hook notifies sshd"; `ssh-tunneld` sets none, so sshd
  serves the certificate it loaded until somebody else tells it.
- `hostcert/renewer.go:228` a certificate past its renewal point is re-signed
  "immediately"; the floor applies.

### Bounds

- Registry: two labels, three sessions and one `Open` caller give a dead owner, the
  agent that replaces it and a rival. Host lists overlap in both orders, repeat a
  label, are empty or blank. Callers meet only through evictions, which the
  registrations make as well.
- Listener: two connections and a user. A connection can die and be replaced by another
  with the same certificate or one that overlaps it, with the first still cleaning up.
  What is safe is proved without these bounds.
- Revocation: one handshake at a time, one serial and two key ids, entries by serial,
  by key id and with neither; ten logins, among them certificates covered by both
  entries, by one and by none, a name with two "@", one without a host, an address that
  does not match, an extension with the name of an attribution. `MaxListing` is below
  the number of entries, so a list may be too long to fetch. The proofs cover any
  number of concurrent handshakes and any logins.
- Channels: `MaxSent` = 3 chunks and requests in all, in any mix over the two ends. That
  is enough for a `pty-req` with a chunk before and one after it, for two requests and a
  chunk, and for one in flight in either direction at a close. Two channels only matter
  for the shared cast file (`channel_two_ptys`).
- Process: two users with a channel each, so that one session can hold up the other's
  shutdown, in six environments: with tunnels and revocations, with portal and NATS, and
  four in which the start-up must fail at different places. The proofs cover any number
  of users and channels and any environments.
- Portal: two casts of one session on two days in one directory, one recording of
  another host, rings of two, one other message, one restart, with and without NATS,
  the same directory, another and none.
- Agent: three streams; a backoff of 1, 2, 4 and then 5, which is no power of two.
- Host certificate: lifetimes below, at and above the floor, backdated or not, over
  seven units of time, enough for several renewals, a crash and a restart.
- A symmetry set is used in `channel_two_ptys` only, which checks an invariant.

`CHECK_DEADLOCK FALSE` is set where the system may stop: after a shutdown, after all
channels have been used, or after a crash of the process.

### Fairness

Goroutines that can take a step take one in the end (weak fairness of each). Timeouts in
the code become weak fairness of the failing outcome: TLS dial, local dial, HTTP fetch,
the user's handshake, the portal's shutdown. Where the code has no timeout there is no
fairness: the tunnel's TLS handshake before a shutdown, the SSH handshake with the
target, peers, the link, the signal. `RevocationTakesEffect` needs strong fairness of a
good fetch: certd does not fail every time. In `ChannelPipe` each goroutine of the pipe
has weak fairness of its own. A write waits for the window of its peer, and nobody is
made to read, so it is fair only once that peer has closed. Peers answer a request, and
a close with a close, as SSH requires: assumed, not shown. A stream the agent has closed
ends by yamux's own close timeout (`CloseExpires`). `Exits` assumes that the tunnel
listener returns once its context is done (`TunnelListener!ShutdownCompletes` shows it).
The end of a channel has no fairness: `Exits` has an exception for a session that holds
the process for ever, because its user stays, its target's handshake hangs or a channel
of it does not end, and `GoneUsersReleased` for the last two. The code waits for them
without a limit.

### What the models contain and no property is about

- An accept error of the SSH server ends the process without a wait for its sessions. One
  of the tunnel listener ends it once `serve` has waited for its live handlers, which no
  context tells to go.
- A crash between `CreateTemp` and `Rename` leaves a temporary file (`litter`) for ever.
- A crash before a recording's event leaves a cast that the portal never lists.
- A tunnel that dies between lookup and open is a refusal, without a retry.

`session.closed` is emitted with a context that a shutdown has cancelled; whether the
journal then refuses it is decided in an external library. `PROJECT.json` lists the
other hazards with their properties.

## What is proved

TLAPS checks these for every value of the constants that satisfies the named
assumptions in the component's module (distinct special values, types of the inputs,
`InitialBackoff <= MaxBackoff`).

- **TunnelProofs**, first about the registry. `RegistryInv` is the types,
  `ClosedIsEmpty` and `CallInv`, which says what an `Open` call knows at each step.
  `OpenLinearizable` alone is not inductive: a call that holds a session outside the
  lock must know that the session still owns the label, or else that an instant without
  a live owner is in `seen`. The argument is that nobody takes a label from a live
  session, so between two live owners there is an instant with none. From it:
  `OpenIsLinearizable`, `ClosedStaysEmpty`, `CloseKeepsAll`, and
  `RegistryImplementsDirectory`, where evictions and scrubs map to stuttering because
  they remove dead sessions only (`EvictedAreDead`, `EvictDead`). Then about the
  listener on it. `ListenerActsOnRegistry` shows that the listener uses the registry
  through its actions only, so `RegistryInv` carries over. `ListenerInv` adds
  `ServingOwnsItsHosts` and `EntriesHaveHandlers`, which need each other, `CallNamed` (a
  pending call holds a session whose certificate names the label) and that `serve`
  returns alone. From it also what the registry promises in the composition:
  `ListenerOpensLinearizable`, and `ListenerImplementsDirectory`, the refinement of
  `TunnelDirectory` by listener, tunnels and users together. With `DoneIsClosed` (a
  handler does not end with its session open) it gives the safety half of
  `ShutdownCompletes`: when `serve` has returned, every session it created is closed
  (`ReturnedServeClosedAll`) and the registry has no entry
  (`ReturnedServeLeavesNoEntry`).
- **RevocationCheckProofs.** `MapsInv`: the maps index the last snapshot except during a
  swap, and then nobody reads. `ReaderInv`: what a reader has established so far.
  `SessionsAsCertified` rests on lemmas about the last "@" of a name and about writing
  one set of extensions over another.
- **ChannelPipeProofs.** `PipeInv` adds to the types three facts per channel.
  `CloseInv`: the output copy is done, while the user is there, only with all of the
  target's output and its EOF delivered, and the proxy closes on a user only after that
  and the exit status. `RecInv`: before a target learns of a PTY the recorder has been
  started or never will be, and from then on every chunk the user got is in the cast or
  in the tee. `ForwardInv`: the counts of the copies, in which a chunk between read and
  write is taken and not yet received. The three properties follow for any number of
  channels, chunks and requests.
- **TunnelAgentProofs.** The backoff stays in range. A stream that is not piped has
  nothing open, which makes the wait for goroutines a wait for connections.
  `RedialsBackOff` is `BackoffSchedule` for all delays: doubling what is already cut at
  the maximum and cutting it again is cutting the double (`NextOfCut`). The provers do
  not know powers; `PowerDoubles` gets 2^(n+1) = 2 * 2^n from the number of subsets of
  a set.
- **ProxyServeProofs**, first about the front end. `Placed` says where channels can be;
  with it a clean shutdown has nothing queued or running, and a target is open exactly
  while it is used. `TrailInv` gives the trail at each position of `handleConn`, from
  which `TrailWellFormed` follows. Then about the process. `FrontEndInProcess`: the
  process is an implementation of `UserSession`, so its theorems hold of the process
  (`ProcessDrains`, `ProcessTrails`). `ProcessInv` says that the pending closes are
  those of the calls made so far, all of them until the group has returned, and then all
  below the last one made. The root context is deferred last and cancelled first, before
  the sources that the trackers read.
- **HostCertRenewerProofs.** `FractionShorter` and `DelayBound` are the arithmetic: a
  proper fraction of a lifetime is shorter than it, so the wait ends before a
  certificate that outlasts the floor. `FilesInv` follows the temporary file through
  `writeAtomic` and crashes, `FreshInv` bounds what is left of the wait.
- **SessionPortalProofs**, on the lemmas of **SessionPortalLemmas**. None of the four
  properties of the portal is inductive alone; `PortalInv` is what they need together.
  `StreamInv` is about recorders and stream. A cast is recorded once: `O_EXCL` keeps its
  name taken while its day lasts, and only casts of past days are pruned (`Recorded`).
  So what the stream has announced is finished and stays so (`Truthful`,
  `FinishedStays`, and the action property `AnnouncedStaysFinal`). No two messages have
  the same time (`DistinctTimes`), although a stamp is taken before its event is
  appended. `RingInv`: the rings hold only what was read from the stream. `RequestInv`
  is what a request knows at each step: from `ReplayIsFinal` backwards, a size that was
  read is that of a finished file because the row came from the stream; and for
  `PlayerPlays`, a cast that was announced and is not there has been pruned.
  `ListInOrder` is `ListKeepsLatest` for the recordings of all proxies, which is what is
  inductive: reading a recording adds one to the number of later ones of every other and
  moves its row one down (`ListRead`). `PageInv` says the same of the row an open page
  shows: without a restart it is still on the list, one place further down for each
  recording read since (`Place`), or else so many were read that it was pushed off.
  `AuditShowsNewest` is preserved because an insertion into a descending ring gives a
  descending ring (`InsertInOrder`), and cutting it drops what is older than the rest
  (`InsertKeepsNewest`). Lemmas say where `Prepend`, `FirstN` and `AuditInsert` put
  things; the place `AuditInsert` chooses exists by the least-number principle, so no
  induction over sequences is needed.

TLC also checked the inductive invariants, on the instances of the runs. Every safety
property that a passing run checks is proved, and so is the refinement.
Only model-checked is liveness: `CloseReachesAll`, `ShutdownCompletes`,
`DeadEntriesRemoved`, `RevocationTakesEffect`, `Exits`, `GoneUsersReleased`, `PipeEnds`,
`Reconnects`, `Stops`. The prover has neither fairness nor ENABLED.

## What is not modelled

- yamux, gossh, JetStream, certd and the tokyo3-base library are external. The models
  have the outcomes the code here distinguishes.
- `PermitsUserRC` and `ForceCommand` of the RBAC have no caller. Parsing of addresses is
  the net package's; an entry is the set of addresses it covers.
- The portal's landing page, its lists as HTML, templates and basic authentication: output
  without state.
- The certd client and the yamux settings: one round trip that succeeds or fails, and
  constants. The files that hold keys and certificates: calls that may fail.
- In `ssh-tunneld` the start-up and the group of dialer and renewer: it has nothing to
  close and no order to keep, and the two share no state.
- `sanitizeFilename`: the session ids it is given are UUIDs of the proxy's own.
- Jitter, wall-clock time (stamps are counters), log output, JSON.
- Admitted sessions are not re-checked against later revocations; the code does not
  do so and no document says it does.
