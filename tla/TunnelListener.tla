--------------------------- MODULE TunnelListener ----------------------------
(***************************************************************************)
(* routing.Listener (internal/proxyd/routing/listener.go) working on the   *)
(* registry: the accept loop, one handleConn goroutine per inbound tunnel, *)
(* shutdown through the context, and the user sessions that open streams   *)
(* over the registered tunnels (tunnelTransport in                         *)
(* internal/proxyd/ssh/server.go).                                         *)
(*                                                                         *)
(* A tunnel connection and the yamux session it carries have one identity, *)
(* a member of Session.  Connections are interchangeable, so an agent that *)
(* reconnects is a further member presenting the same certificate.         *)
(***************************************************************************)
EXTENDS TunnelRegistry

CONSTANT
  Cert       \* the leaf certificates agents present, as sequences of URIs

(***************************************************************************)
(* A URI of a certificate: whether its scheme is "spiffe" in any case,     *)
(* whether its path begins with "/host/", and the comma-separated parts    *)
(* that follow.                                                            *)
(***************************************************************************)
URI == [spiffe : BOOLEAN, hostPath : BOOLEAN, parts : Seq(RawHost)]

ASSUME CertAssumption == \A c \in Cert : c \in Seq(URI)

VARIABLES
  pc,         \* where each handleConn goroutine is
  hosts,      \* the hosts HostExtractor returned to it
  cancelled,  \* the context of the component group is done
  bound,      \* the TCP listener is open
  serve       \* where Listener.serve is

listenerVars == <<pc, hosts, cancelled, bound, serve>>
allVars == <<vars, listenerVars>>

-----------------------------------------------------------------------------
(* HostFromSPIFFE: the only SPIFFE URI, its parts trimmed, empties skipped *)

TrimSpace(h) == [h EXCEPT !.padded = FALSE]

SPIFFEURIs(cert) == SelectSeq(cert, LAMBDA u : u.spiffe)

HostParts(u) ==
  SelectSeq([i \in DOMAIN u.parts |-> TrimSpace(u.parts[i])],
            LAMBDA h : h.name # Blank)

(* << >> stands for every error of the extractor.                          *)
HostFromSPIFFE(cert) ==
  LET uris == SPIFFEURIs(cert) IN
  IF Len(uris) = 1 /\ Head(uris).hostPath THEN HostParts(Head(uris)) ELSE << >>

-----------------------------------------------------------------------------
GoTo(c, from, to) == pc[c] = from /\ pc' = [pc EXCEPT ![c] = to]

(* The accept loop hands the connection to a goroutine of its own.         *)
Accept(c) ==
  /\ serve = "accepting" /\ bound
  /\ GoTo(c, "new", "handshake")
  /\ UNCHANGED <<registryVars, hosts, cancelled, bound, serve>>

(* Everything that ends handleConn before there is a session: the TLS      *)
(* handshake (bounded by the context only), no peer certificate, no usable *)
(* SPIFFE URI, yamux setup.                                                *)
HandshakeFails(c) ==
  /\ GoTo(c, "handshake", "done")
  /\ UNCHANGED <<registryVars, hosts, cancelled, bound, serve>>

(* Mutant: the parts of the URI are used as they are.                      *)
MutHandshakeOk(c, cert) ==
  /\ HostFromSPIFFE(cert) # << >>
  /\ GoTo(c, "handshake", "register")
  /\ hosts' = [hosts EXCEPT ![c] = Head(SPIFFEURIs(cert)).parts]
  /\ UNCHANGED <<registryVars, cancelled, bound, serve>>

HandshakeOk(c, cert) ==
  /\ HostFromSPIFFE(cert) # << >>
  /\ GoTo(c, "handshake", "register")
  /\ hosts' = [hosts EXCEPT ![c] = HostFromSPIFFE(cert)]
  /\ UNCHANGED <<registryVars, cancelled, bound, serve>>

HandleRegister(c) ==
  /\ \/ /\ RegisterOk(c, hosts[c])
        /\ GoTo(c, "register", "serving")
     \/ /\ RegisterConflict(c, hosts[c]) \/ RegisterRefused(hosts[c])
        /\ GoTo(c, "register", "close")
  /\ UNCHANGED <<hosts, cancelled, bound, serve>>

(* Mutant: the handler waits for the session alone.                        *)
MutWakeOnDeath(c) ==
  /\ isDead(c)
  /\ GoTo(c, "serving", "unregister")
  /\ UNCHANGED <<registryVars, hosts, cancelled, bound, serve>>

(* Mutant: the handler waits for the context alone.                        *)
MutWakeOnCancel(c) ==
  /\ cancelled
  /\ GoTo(c, "serving", "unregister")
  /\ UNCHANGED <<registryVars, hosts, cancelled, bound, serve>>

(* The select on CloseChan and the context.                                *)
HandleWake(c) ==
  /\ isDead(c) \/ cancelled
  /\ GoTo(c, "serving", "unregister")
  /\ UNCHANGED <<registryVars, hosts, cancelled, bound, serve>>

(* Mutant: the entries go by label, whoever owns them by now.              *)
MutUnregisterByLabel(c) ==
  /\ GoTo(c, "unregister", "close")
  /\ tunnels' = [h \in Host |-> IF h \in Labels(hosts[c]) THEN None ELSE tunnels[h]]
  /\ UNCHANGED <<closed, dead, closing, call, hosts, cancelled, bound, serve>>

(* Mutant: the handler leaves without unregistering.                       *)
MutNoUnregister(c) ==
  /\ GoTo(c, "unregister", "close")
  /\ UNCHANGED <<registryVars, hosts, cancelled, bound, serve>>

HandleUnregister(c) ==
  /\ GoTo(c, "unregister", "close")
  /\ Unregister(c)
  /\ UNCHANGED <<hosts, cancelled, bound, serve>>

(* session.Close and the close of the connection; streams die with it.     *)
HandleClose(c) ==
  /\ GoTo(c, "close", "done")
  /\ dead' = dead \cup {c}
  /\ UNCHANGED <<tunnels, closed, closing, call, hosts, cancelled, bound, serve>>

-----------------------------------------------------------------------------
(* Shutdown: SIGTERM, or a component of the group (this one included) that *)
(* returned; then the goroutine that closes the TCP listener.              *)
Cancel ==
  /\ ~cancelled
  /\ cancelled' = TRUE
  /\ UNCHANGED <<registryVars, pc, hosts, bound, serve>>

Unbind ==
  /\ cancelled /\ bound
  /\ bound' = FALSE
  /\ UNCHANGED <<registryVars, pc, hosts, cancelled, serve>>

(* Accept returns an error: the listener is closed, or the system call     *)
(* failed (descriptors exhausted, for one).  Either way the loop ends and  *)
(* serve waits for its goroutines.                                         *)
AcceptFails ==
  /\ serve = "accepting"
  /\ serve' = "draining"
  /\ UNCHANGED <<registryVars, pc, hosts, cancelled, bound>>

ServeReturns ==
  /\ serve = "draining"
  /\ \A c \in Session : pc[c] \in {"new", "done"}
  /\ serve' = "returned"
  /\ UNCHANGED <<registryVars, pc, hosts, cancelled, bound>>

(* runServe's deferred registry.Close, after the components have returned. *)
(* Users may still be in an Open call: the SSH server does not wait for    *)
(* its sessions when it returns on an accept error.                        *)
MainCloses ==
  /\ cancelled /\ serve = "returned"
  /\ CloseBegin
  /\ UNCHANGED listenerVars

-----------------------------------------------------------------------------
(* The peer or the network ends a session that exists.                     *)
PeerGone(c) ==
  /\ pc[c] \in {"register", "serving", "unregister", "close"}
  /\ Die(c)
  /\ UNCHANGED listenerVars

(* A user session opens a stream; Open honours the server's context.       *)
UserOpen(d) ==
  /\ \/ ~cancelled /\ \E host \in Target : OpenBegin(d, host)
     \/ cancelled /\ OpenCancelled(d)
     \/ LookupRead(d)
     \/ LookupCheck(d)
     \/ LookupScrub(d)
     \/ OpenStream(d)
     \/ CallDone(d)
  /\ UNCHANGED listenerVars

ListenerInit ==
  /\ Init
  /\ pc = [c \in Session |-> "new"]
  /\ hosts = [c \in Session |-> << >>]
  /\ cancelled = FALSE
  /\ bound = TRUE
  /\ serve = "accepting"

Handle(c) ==
  \/ \E cert \in Cert : HandshakeOk(c, cert)
  \/ HandshakeFails(c)
  \/ HandleRegister(c)
  \/ HandleWake(c)
  \/ HandleUnregister(c)
  \/ HandleClose(c)

ListenerNext ==
  /\ \/ \E c \in Session : Accept(c) \/ Handle(c) \/ PeerGone(c)
     \/ Cancel
     \/ Unbind
     \/ AcceptFails
     \/ ServeReturns
     \/ MainCloses
     \/ \E d \in Dial : UserOpen(d)
  /\ Observe

ListenerSpec == ListenerInit /\ [][ListenerNext]_allVars

(***************************************************************************)
(* The goroutines of the proxy keep running.  Nothing is assumed of the    *)
(* agents: a TLS handshake may hang until the context ends it, a session   *)
(* may live for ever, and the context may never be cancelled.              *)
(***************************************************************************)
ListenerFairness ==
  /\ \A c \in Session :
       /\ WF_allVars(cancelled /\ HandshakeFails(c) /\ Observe)
       /\ WF_allVars(HandleRegister(c) /\ Observe)
       /\ WF_allVars(HandleWake(c) /\ Observe)
       /\ WF_allVars(HandleUnregister(c) /\ Observe)
       /\ WF_allVars(HandleClose(c) /\ Observe)
  /\ WF_allVars(Unbind /\ Observe)
  /\ WF_allVars(~bound /\ AcceptFails /\ Observe)
  /\ WF_allVars(ServeReturns /\ Observe)

FairListenerSpec == ListenerSpec /\ ListenerFairness

-----------------------------------------------------------------------------
(* The types of the listener's state.                                      *)
ListenerTypeOK ==
  /\ TypeOK
  /\ pc \in [Session -> {"new", "handshake", "register", "serving",
                         "unregister", "close", "done"}]
  /\ hosts \in [Session -> {<< >>} \cup {HostFromSPIFFE(c) : c \in Cert}]
  /\ cancelled \in BOOLEAN
  /\ bound \in BOOLEAN
  /\ serve \in {"accepting", "draining", "returned"}

(***************************************************************************)
(* A tunnel whose handler is serving it and whose session is alive answers *)
(* for every host of its certificate: no other agent's registration, no    *)
(* eviction, no late Unregister of an earlier connection of the same agent *)
(* and no clean-up by a lookup takes one away (the race described in the   *)
(* comment of Register, listener.go's deferred Unregister against a        *)
(* reconnect).                                                             *)
(***************************************************************************)
ServingOwnsItsHosts ==
  \A c \in Session :
    pc[c] \in {"serving", "unregister"} /\ ~isDead(c) =>
      \A h \in Host : h \in Labels(hosts[c]) => tunnels[h] = c

(***************************************************************************)
(* The registry has no entry that nobody will remove: the owner of every   *)
(* entry still has the handler that will unregister it, and the entry is   *)
(* under a host that the owner's certificate names.                        *)
(***************************************************************************)
EntriesHaveHandlers ==
  \A h \in Host : \A c \in Session :
    tunnels[h] = c =>
      pc[c] \in {"serving", "unregister"} /\ h \in Labels(hosts[c])

(***************************************************************************)
(* A user session is routed only over a tunnel whose certificate names the *)
(* target, although the session was looked up several steps, registrations *)
(* and disconnects before the stream is opened on it.                      *)
(***************************************************************************)
RoutedByCertificate ==
  \A d \in Dial :
    call[d].pc = "stream" => call[d].host \in Labels(hosts[call[d].session])

(***************************************************************************)
(* Shutdown completes whatever the agents do: once the context is          *)
(* cancelled serve returns with every session it created closed, also when *)
(* handshakes hang and sessions are idle.                                  *)
(***************************************************************************)
ShutdownCompletes ==
  cancelled ~> /\ serve = "returned"
               /\ \A c \in Session : hosts[c] # << >> => isDead(c)

(***************************************************************************)
(* A dead tunnel's host is released even if no user asks for it and no     *)
(* agent reconnects: the entry does not stay for ever.                     *)
(***************************************************************************)
DeadEntriesRemoved ==
  \A c \in Session : \A h \in Host :
    (tunnels[h] = c /\ isDead(c)) ~> (tunnels[h] # c)

(***************************************************************************)
(* What OPERATIONS.md says of SIGTERM ("drains in-flight sessions before   *)
(* exit"): the proxy does not itself close a live tunnel while a user      *)
(* session has a stream on it.                                             *)
(***************************************************************************)
DrainsInFlight ==
  [][\A c \in Session :
       HandleClose(c) /\ ~isDead(c) =>
         \A d \in Dial : ~(call[d].pc = "stream" /\ call[d].session = c)]_allVars
=============================================================================
