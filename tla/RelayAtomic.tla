---------------------------- MODULE RelayAtomic -----------------------------
(***************************************************************************)
(* What the relay helper promises the Panel: an operation id takes effect  *)
(* at most once and in one step, on all the files and the boot setting of  *)
(* the relay service together, or it has no effect at all.                 *)
(***************************************************************************)
EXTENDS RelayRoutes

CONSTANT OpId

VARIABLES
  files,    \* the three files of the relay service
  boot,     \* the service starts at boot
  outcome   \* OpId -> what became of the operation

vars == <<files, boot, outcome>>

Init ==
  /\ files = NoFiles
  /\ boot = FALSE
  /\ outcome = [k \in OpId |-> "open"]

Succeed(k) ==
  /\ outcome[k] = "open"
  /\ \E ch \in Change :
       /\ Applicable(ch, files)
       /\ ~Conflict(Changed(ch, RoutesOf(files)))
       /\ files' = Deployed(ch, files)
       /\ boot' = (ch.action # "uninstall")
  /\ outcome' = [outcome EXCEPT ![k] = "succeeded"]

Fail(k) ==
  /\ outcome[k] = "open"
  /\ outcome' = [outcome EXCEPT ![k] = "failed"]
  /\ UNCHANGED <<files, boot>>

Next == \E k \in OpId : Succeed(k) \/ Fail(k)

Spec == Init /\ [][Next]_vars
=============================================================================
