---------------------------- MODULE CertEnforcer ----------------------------
(***************************************************************************)
(* What a user certificate allows: rbac.CertEnforcer                       *)
(* (internal/proxyd/rbac/enforcer.go), and the login name that says where  *)
(* the user wants to go: ParseTarget (internal/proxyd/session/route.go).   *)
(* Operators only; RevocationCheck uses them in the handshake and          *)
(* ChannelPipe in the channels.                                            *)
(*                                                                         *)
(* Permissions are a record: ext, a function from the names of the         *)
(* extensions to their values, and source, the comma-separated entries of  *)
(* the source-address option.  An entry stands for the addresses it covers *)
(* (a network's, or a single one); a blank one and one that does not parse *)
(* cover none.  An option that is absent or empty has no entries, and nil  *)
(* Permissions answer as a record without extensions and entries.          *)
(*                                                                         *)
(* A login name is the sequence of its words and "@" signs.                *)
(***************************************************************************)
EXTENDS Naturals, Sequences

hasExtension(perms, name) == name \in DOMAIN perms.ext

PermitsPTY(perms) == hasExtension(perms, "permit-pty")
PermitsPortForwarding(perms) == hasExtension(perms, "permit-port-forwarding")
PermitsAgentForwarding(perms) == hasExtension(perms, "permit-agent-forwarding")
PermitsX11Forwarding(perms) == hasExtension(perms, "permit-X11-forwarding")

(* An address that remoteIP cannot make out is in no entry.                *)
matchAddress(entry, ip) == ip \in entry

SourceAddressOK(perms, ip) ==
  \/ perms.source = << >>
  \/ \E i \in DOMAIN perms.source : matchAddress(perms.source[i], ip)

-----------------------------------------------------------------------------
At == "@"

Ats(login) == {i \in DOMAIN login : login[i] = At}

(* Where the user part ends: before the last "@".                          *)
LastAt(login) == CHOOSE i \in Ats(login) : \A j \in Ats(login) : j <= i

HasTarget(login) ==
  /\ Ats(login) # {}
  /\ LastAt(login) # 1            \* the remote user is not empty
  /\ LastAt(login) # Len(login)   \* nor is the host

(* Of a login name that has a target.                                      *)
ParseTarget(login) ==
  LET at == LastAt(login)
  IN  [user |-> SubSeq(login, 1, at - 1), host |-> SubSeq(login, at + 1, Len(login))]
=============================================================================
