---------------------------- MODULE MCProxyServe ----------------------------
(* Two users, so that one session can hold up the shutdown of another.     *)
(* The environments: one with the tunnels and the revocations, one with    *)
(* the portal and its stream, and some that lack something.                *)
EXTENDS ProxyServe

Least == {"USER_CA", "CLIENT_KEY"}
Tunnels == {"TUNNEL_ADDR", "TUNNEL_TLS_CERT", "TUNNEL_TLS_KEY", "WORKLOAD_CA"}
Certd == {"CERTD_REVOCATIONS_URL", "CERTD_MTLS_CERT", "CERTD_MTLS_KEY"}
Portal == {"PORTAL_ADDR", "NATS_URL", "CAST_DIR", "TARGET_KNOWN_HOSTS"}

MCEnvironment ==
  { Least \cup Tunnels \cup Certd, Least \cup Portal,
    {}, {"USER_CA"}, {"USER_CA", "CERTD_URL"}, Least \cup {"TUNNEL_ADDR"} }
=============================================================================
