------------------------- MODULE MCHostCertRenewer -------------------------
(* Lifetimes below, at and above the floor; 3/5 is the default fraction.   *)
EXTENDS HostCertRenewer

MCLifetime == {2, 3, 6}
MCBackdate == {0, 3}
=============================================================================
