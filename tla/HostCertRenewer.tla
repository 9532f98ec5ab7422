-------------------------- MODULE HostCertRenewer --------------------------
(***************************************************************************)
(* hostcert.Renewer (internal/tunneld/hostcert/renewer.go): Run, SignOnce, *)
(* the schedule of nextRenewalDelay, and writeAtomic step by step with a   *)
(* crash of the agent between any two.                                     *)
(*                                                                         *)
(* certd and the clock are external: certd picks a lifetime and may        *)
(* backdate the certificate.  Time passes while Run sleeps and while the   *)
(* agent is down; the calls themselves take none.                          *)
(***************************************************************************)
EXTENDS Integers

CONSTANTS
  Lifetime,           \* validity periods certd may grant
  Backdate,           \* how far before now validAfter may lie
  FracNum, FracDen,   \* RenewFraction = FracNum / FracDen
  MinRenewInterval,
  RetryBackoff,
  MaxTime,            \* bound on the clock
  None                \* no certificate

Cert == [after : Int, before : Int]
File == [cert : Cert, whole : BOOLEAN, at : 0..MaxTime]

ASSUME RenewerAssumption ==
  /\ Lifetime \subseteq Nat /\ Backdate \subseteq Nat
  /\ FracNum \in Nat /\ FracDen \in Nat /\ 0 < FracNum /\ FracNum < FracDen
  /\ MinRenewInterval \in Nat \ {0} /\ RetryBackoff \in Nat \ {0}
  /\ MaxTime \in Nat /\ None \notin Cert \cup File

VARIABLES
  now,       \* the clock
  pc,        \* where Run is; "down" between a crash and the restart
  wait,      \* what is left of Run's wait
  resp,      \* certd's answer in the current SignOnce
  tmp,       \* the temporary file: "none", "part" or "full"
  litter,    \* a temporary file of an earlier life of the agent is left
  path,      \* what CertOutputPath holds
  smooth     \* history: every attempt since the agent came up worked

vars == <<now, pc, wait, resp, tmp, litter, path, smooth>>

-----------------------------------------------------------------------------
(* Mutant: no floor.                                                       *)
MutNoFloor(c) ==
  LET renewAfter == ((c.before - c.after) * FracNum) \div FracDen
  IN  c.after + renewAfter - now

(* Mutant: the fraction is counted from now and not from validAfter.       *)
MutFromNow(c) ==
  LET renewAfter == ((c.before - c.after) * FracNum) \div FracDen
  IN  IF renewAfter < MinRenewInterval THEN MinRenewInterval ELSE renewAfter

nextRenewalDelay(c) ==
  LET renewAfter == ((c.before - c.after) * FracNum) \div FracDen
      left       == c.after + renewAfter - now
  IN  IF left < MinRenewInterval THEN MinRenewInterval ELSE left

Fail ==
  /\ pc' = "sleep" /\ wait' = RetryBackoff
  /\ resp' = None
  /\ smooth' = FALSE

(* The key cannot be read, certd fails, or its answer is empty.            *)
SignFails ==
  /\ pc = "sign"
  /\ Fail
  /\ UNCHANGED <<now, tmp, litter, path>>

SignOk(l, b) ==
  /\ pc = "sign"
  /\ resp' = [after |-> now - b, before |-> now - b + l]
  /\ pc' = "create"
  /\ UNCHANGED <<now, wait, tmp, litter, path, smooth>>

CreateTemp ==
  /\ pc = "create"
  /\ \/ /\ tmp' = "part" /\ pc' = "write"
        /\ UNCHANGED <<wait, resp, smooth>>
     \/ Fail /\ UNCHANGED tmp
  /\ UNCHANGED <<now, litter, path>>

(* Mutant: no cleanup after a failed write.                                *)
MutWriteTemp ==
  /\ pc = "write"
  /\ \/ /\ tmp' = "full" /\ pc' = "rename"
        /\ UNCHANGED <<wait, resp, smooth>>
     \/ Fail /\ UNCHANGED tmp
  /\ UNCHANGED <<now, litter, path>>

(* Write, Chmod, Sync and Close; when one fails the file is removed.       *)
WriteTemp ==
  /\ pc = "write"
  /\ \/ /\ tmp' = "full" /\ pc' = "rename"
        /\ UNCHANGED <<wait, resp, smooth>>
     \/ Fail /\ tmp' = "none"
  /\ UNCHANGED <<now, litter, path>>

Rename ==
  /\ pc = "rename"
  /\ \/ /\ path' = [cert |-> resp, whole |-> tmp = "full", at |-> now]
        /\ tmp' = "none" /\ pc' = "renewed"
        /\ UNCHANGED <<wait, resp, smooth>>
     \/ Fail /\ tmp' = "none" /\ UNCHANGED path
  /\ UNCHANGED <<now, litter>>

(* The return of SignOnce and the next wait.  ssh-tunneld sets no          *)
(* OnRenewed, so nothing is called in between.                             *)
Renewed ==
  /\ pc = "renewed"
  /\ pc' = "sleep" /\ wait' = nextRenewalDelay(resp)
  /\ resp' = None /\ smooth' = TRUE
  /\ UNCHANGED <<now, tmp, litter, path>>

WakeUp ==
  /\ pc = "sleep" /\ wait = 0
  /\ pc' = "sign"
  /\ UNCHANGED <<now, wait, resp, tmp, litter, path, smooth>>

(* ctx is cancelled during the wait.                                       *)
RunReturns ==
  /\ pc = "sleep"
  /\ pc' = "down" /\ wait' = 0 /\ smooth' = FALSE
  /\ UNCHANGED <<now, resp, tmp, litter, path>>

-----------------------------------------------------------------------------
Tick ==
  /\ now < MaxTime
  /\ \/ pc = "sleep" /\ wait > 0 /\ wait' = wait - 1
     \/ pc = "down" /\ UNCHANGED wait
  /\ now' = now + 1
  /\ UNCHANGED <<pc, resp, tmp, litter, path, smooth>>

Crash ==
  /\ pc # "down"
  /\ pc' = "down"
  /\ litter' = (litter \/ tmp # "none")
  /\ tmp' = "none" /\ resp' = None /\ wait' = 0
  /\ smooth' = FALSE
  /\ UNCHANGED <<now, path>>

(* Run signs at once when the agent starts, whatever is on disk.           *)
Restart ==
  /\ pc = "down"
  /\ pc' = "sign"
  /\ UNCHANGED <<now, wait, resp, tmp, litter, path, smooth>>

Init ==
  /\ now = 0 /\ pc = "sign" /\ wait = 0
  /\ resp = None /\ tmp = "none" /\ litter = FALSE
  /\ path = None /\ smooth = FALSE

Next ==
  \/ SignFails \/ (\E l \in Lifetime, b \in Backdate : SignOk(l, b))
  \/ CreateTemp \/ WriteTemp \/ Rename \/ Renewed \/ WakeUp \/ RunReturns
  \/ Tick \/ Crash \/ Restart

Spec == Init /\ [][Next]_vars

-----------------------------------------------------------------------------
(* Every variable has its type.                                            *)
TypeOK ==
  /\ now \in 0..MaxTime /\ wait \in Nat
  /\ pc \in {"sign", "create", "write", "rename", "renewed", "sleep", "down"}
  /\ resp \in Cert \cup {None}
  /\ path \in File \cup {None}
  /\ tmp \in {"none", "part", "full"}
  /\ litter \in BOOLEAN /\ smooth \in BOOLEAN

(* writeAtomic: sshd never finds half a certificate, and never half of two,*)
(* wherever a write fails or the agent dies; an error leaves no temporary  *)
(* file behind, so one can only be there while it is being written.        *)
FileIsWhole ==
  /\ path # None => path.whole
  /\ tmp # "none" => pc \in {"write", "rename"}

(* While every attempt works, the certificate on disk is always valid,     *)
(* provided certd granted more than the floor between renewals: neither    *)
(* rounding, nor a backdated start, nor the floor lets it run out.         *)
FreshWhileSigning ==
  smooth /\ path.cert.before - path.at > MinRenewInterval => now < path.cert.before
=============================================================================
