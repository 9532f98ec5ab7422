--------------------------- MODULE MCTunnelAgent ---------------------------
(* Up to three streams; 1 s, 2 s, 4 s, then the cap of 5 s.                *)
EXTENDS TunnelAgent
=============================================================================
