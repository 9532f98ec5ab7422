---------------------------- MODULE MCChannelPipe ----------------------------
(* The channels of a user connection with a few chunks in each stream.     *)
EXTENDS ChannelPipe, TLC

Permits(names, s) == [perms |-> [ext |-> [n \in names |-> ""], source |-> << >>], sink |-> s]

AllPermitted == {Permits({"permit-pty", "permit-port-forwarding"}, TRUE)}
SomePermitted == AllPermitted \cup {Permits({"permit-X11-forwarding"}, FALSE)}

MCSymmetry == Permutations(Channel)
=============================================================================
