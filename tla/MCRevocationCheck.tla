-------------------------- MODULE MCRevocationCheck --------------------------
(* The entries revoke a certificate by serial, by key id, or not at all    *)
(* (an entry with neither).                                                *)
EXTENDS RevocationCheck, TLC

CONSTANTS n1, k1, k2   \* a serial and two key ids

Listed(n, k) == [serial |-> n, keyId |-> k]
MCListing == {Listed(n1, Zero), Listed(Zero, k1), Listed(Zero, Zero)}

Alice == <<"alice">>
Corp == <<"alice", At, "CORP">>     \* a principal with an "@" of its own

(* Covered by both entries; by the key id alone, without a serial; by      *)
(* neither, for two principals and from one address only, with an          *)
(* extension that has the name of an attribution.                          *)
Plain(n, k) ==
  [serial |-> n, keyId |-> k, trusted |-> TRUE, current |-> TRUE, options |-> {},
   principals |-> {Alice}, perms |-> [ext |-> "permit-pty" :> "", source |-> << >>]]
Bound ==
  [Plain(Zero, k2) EXCEPT
     !.options = {"source-address"}, !.principals = {Alice, Corp},
     !.perms = [ext |-> "target_host" :> <<"elsewhere">>, source |-> <<{}, {"office"}>>]]

On(user, host, c, from) == [login |-> user \o <<At>> \o host, cert |-> c, from |-> from]

MCAttempt ==
  { On(Alice, <<"db">>, Plain(n1, k1), "office"),
    On(Alice, <<"db">>, Plain(Zero, k1), "unparsable"),
    On(Alice, <<"db">>, Bound, "office"),
    On(Corp, <<"db">>, Bound, "office"),
    On(Alice, <<"db">>, Bound, "unparsable"),
    On(Corp, <<"db">>, Plain(n1, k1), "office"),
    On(Alice, << >>, Bound, "office"),
    [On(Alice, <<"db">>, Plain(n1, k1), "office") EXCEPT !.cert.trusted = FALSE],
    [On(Alice, <<"db">>, Bound, "office") EXCEPT !.cert.current = FALSE],
    [On(Alice, <<"db">>, Plain(Zero, k2), "office") EXCEPT !.cert.options = {"force-command"}] }
=============================================================================
