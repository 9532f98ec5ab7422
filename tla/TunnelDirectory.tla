--------------------------- MODULE TunnelDirectory ---------------------------
(***************************************************************************)
(* What the tunnel registry promises its users: a directory that gives     *)
(* each host label at most one live owner.                                 *)
(*                                                                         *)
(*  - A session claims labels in one step, and never takes one of them     *)
(*    from another live session.                                           *)
(*  - A session leaves all of its labels at once, when it dies or when its *)
(*    owner withdraws it.  Nobody else's action costs it a label.          *)
(*  - A shut directory is empty and stays empty.                           *)
(*                                                                         *)
(* Whatever else the registry does (evicting dead owners, scrubbing during *)
(* a lookup, rejecting a conflicting registration) must be invisible here. *)
(***************************************************************************)

CONSTANTS Session,  \* the yamux sessions
          Host,     \* the normalised host labels
          None      \* no session

VARIABLES owner,    \* the live session that answers for each label
          shut      \* the directory takes no more claims

vars == <<owner, shut>>

Init ==
  /\ owner = [h \in Host |-> None]
  /\ shut = FALSE

Claim(s, L) ==
  /\ ~shut
  /\ \A h \in L : owner[h] \in {None, s}
  /\ owner' = [h \in Host |-> IF h \in L THEN s ELSE owner[h]]
  /\ UNCHANGED shut

Leave(s) ==
  /\ owner' = [h \in Host |-> IF owner[h] = s THEN None ELSE owner[h]]
  /\ UNCHANGED shut

Shut ==
  /\ owner' = [h \in Host |-> None]
  /\ shut' = TRUE

Next ==
  \/ \E s \in Session : \E L \in SUBSET Host : Claim(s, L)
  \/ \E s \in Session : Leave(s)
  \/ Shut

Spec == Init /\ [][Next]_vars
=============================================================================
