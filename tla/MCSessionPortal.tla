-------------------------- MODULE MCSessionPortal --------------------------
(* One session recorded on two days, and one of another host; rings that   *)
(* overflow; a restart that changes the directory.                         *)
EXTENDS SessionPortal

CONSTANTS s1, s2, d1, d2

MCCast ==
  { [session |-> s1, day |-> 1, dir |-> d1], [session |-> s1, day |-> 2, dir |-> d1] }

MCForeign == { [session |-> s2, day |-> 1, dir |-> d1] }

MCSetting ==
  { [dir |-> d1, nats |-> TRUE], [dir |-> d2, nats |-> TRUE],
    [dir |-> None, nats |-> TRUE], [dir |-> d1, nats |-> FALSE] }
=============================================================================
