-------------------------- MODULE MCTunnelListener ---------------------------
(* Agents with overlapping certificates behind one tunnel listener.        *)
EXTENDS TunnelListener

CONSTANTS a, b   \* two host names

Raw(n, m, p) == [name |-> n, mixed |-> m, padded |-> p]
Spiffe(parts) == [spiffe |-> TRUE, hostPath |-> TRUE, parts |-> parts]

(* One host; two hosts in another spelling, with a blank part and a        *)
(* trailing comma, behind a URI of another scheme; and the certificates    *)
(* the extractor refuses: none, two SPIFFE URIs, another path, no host.    *)
MCCert ==
  { <<Spiffe(<<Raw(a, FALSE, FALSE)>>)>>,
    << [spiffe |-> FALSE, hostPath |-> TRUE, parts |-> <<Raw(a, FALSE, FALSE)>>],
       Spiffe(<<Raw(b, TRUE, FALSE), Raw(Blank, FALSE, TRUE), Raw(a, FALSE, TRUE),
                Raw(Blank, FALSE, FALSE)>>)>>,
    << >>,
    <<Spiffe(<<Raw(a, FALSE, FALSE)>>), Spiffe(<<Raw(b, FALSE, FALSE)>>)>>,
    <<[spiffe |-> TRUE, hostPath |-> FALSE, parts |-> <<Raw(b, FALSE, FALSE)>>]>>,
    <<Spiffe(<<Raw(Blank, FALSE, TRUE)>>)>> }

MCTarget == {Raw(a, TRUE, FALSE), Raw(b, FALSE, TRUE)}
=============================================================================
