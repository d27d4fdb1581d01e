-------------------------------- MODULE Relay --------------------------------
(***************************************************************************)
(* The relay helper (internal/relay): one awgctl process per relay RPC     *)
(* edits the nginx configuration, the unit and the routes file of the      *)
(* relay service, under a lock file and a journal with the state before.   *)
(* A step is one file replaced or removed, one systemctl command or one    *)
(* journal record; a crash may fall between any two.                       *)
(***************************************************************************)
EXTENDS RelayRoutes

CONSTANTS
  Proc,            \* awgctl processes that may run at once
  OpId,            \* operation ids the Panel uses
  MaxCrashes,      \* bound: killed processes and reboots
  ServiceRaces     \* nginx may die and come back while a request is executed

ASSUME RelayAssumption ==
  /\ MaxCrashes \in Nat
  /\ ServiceRaces \in BOOLEAN
  /\ None \notin Proc \cup OpId

Snapshot == [files: Files, active: BOOLEAN, enabled: BOOLEAN]
NoSnapshot == [files |-> NoFiles, active |-> FALSE, enabled |-> FALSE]

\* The snapshot of a settled record is never read again and not kept here.
Record == [status: {"none", "pending", "succeeded", "failed"}, before: Snapshot]
Settled(s) == [status |-> s, before |-> NoSnapshot]

Request == [id: OpId, change: Change, fp: Files]
NoRequest == [id |-> None]

VARIABLES
  \* the relay host
  files,     \* nginx.conf, the unit, routes.json
  link,      \* the enablement symlink of the unit
  service,   \* "inactive", "activating" (waiting to be restarted), "active"
  serving,   \* the configuration nginx has loaded
  journal,   \* OpId -> record
  lock,      \* holder of the lock file
  \* memory of each process
  pc, req,
  before,    \* the snapshot it took, or the one it restores
  fixing,    \* the interrupted operation it restores, None for its own
  \* environment
  crashes,
  \* history, read by nothing
  torn       \* an operation recorded as succeeded was left half rolled back

host == <<files, link, service, serving>>
memory == <<req, before, fixing>>
env == <<crashes, torn>>
vars == <<host, journal, lock, pc, memory, env>>

Back == {"back-stop", "back-config", "back-unit", "back-routes", "back-start",
         "back-enable", "back-record"}
Steps == {"idle", "recover", "request", "stop", "config", "unit", "routes",
          "start", "verify", "confirm"} \cup Back

Enabled == link /\ files.unit
Target(p) == Deployed(req[p].change, before[p].files)
Uninstalls(p) == req[p].change.action = "uninstall"
Pending(k) == journal[k].status = "pending"

\* The record a process will settle, and whether it says "succeeded" while the
\* operation is rolled back.
Work(p) == IF fixing[p] = None THEN req[p].id ELSE fixing[p]
Misled(p) == pc[p] \in Back /\ ~Pending(Work(p))

Goto(p, step) == pc' = [pc EXCEPT ![p] = step]

Init ==
  /\ files = NoFiles
  /\ link = FALSE /\ service = "inactive" /\ serving = {}
  /\ journal = [k \in OpId |-> Settled("none")]
  /\ lock = None
  /\ pc = [p \in Proc |-> "idle"]
  /\ req = [p \in Proc |-> NoRequest]
  /\ before = [p \in Proc |-> NoSnapshot]
  /\ fixing = [p \in Proc |-> None]
  /\ crashes = 0 /\ torn = FALSE

\* The process answers and exits; its lock goes with it.
Exit(p) ==
  /\ lock' = IF lock = p THEN None ELSE lock
  /\ Goto(p, "idle")
  /\ req' = [req EXCEPT ![p] = NoRequest]
  /\ before' = [before EXCEPT ![p] = NoSnapshot]
  /\ fixing' = [fixing EXCEPT ![p] = None]

-----------------------------------------------------------------------------
(* A mutation begins: it takes the lock or is refused as RELAY_BUSY, which *)
(* changes nothing, and then settles what a crash left pending.  Its       *)
(* caller knows the fingerprint of the present files or of those before an *)
(* interrupted operation.                                                  *)

\* Mutant of Begin: the lock does not exclude.
BeginUnlocked(p, r) ==
  /\ pc[p] = "idle"
  /\ lock' = p
  /\ req' = [req EXCEPT ![p] = r]
  /\ Goto(p, "recover")
  /\ UNCHANGED <<host, journal, before, fixing, env>>

Begin(p, r) ==
  /\ pc[p] = "idle"
  /\ lock = None
  /\ lock' = p
  /\ req' = [req EXCEPT ![p] = r]
  /\ Goto(p, "recover")
  /\ UNCHANGED <<host, journal, before, fixing, env>>

Call(p) ==
  \E k \in OpId, ch \in Change :
    \E f \in {files} \cup {journal[m].before.files : m \in {n \in OpId : Pending(n)}} :
      Begin(p, [id |-> k, change |-> ch, fp |-> f])

\* Mutant of Recover: the interrupted operation is marked as failed only.
RecoverMarkOnly(p, k) ==
  /\ pc[p] = "recover"
  /\ Pending(k)
  /\ journal' = [journal EXCEPT ![k] = Settled("failed")]
  /\ UNCHANGED <<host, lock, pc, memory, env>>

Recover(p, k) ==
  /\ pc[p] = "recover"
  /\ Pending(k)
  /\ before' = [before EXCEPT ![p] = journal[k].before]
  /\ fixing' = [fixing EXCEPT ![p] = k]
  /\ Goto(p, "back-stop")
  /\ UNCHANGED <<host, journal, lock, req, env>>

Recovered(p) ==
  /\ pc[p] = "recover"
  /\ \A k \in OpId : ~Pending(k)
  /\ Goto(p, "request")
  /\ UNCHANGED <<host, journal, lock, memory, env>>

-----------------------------------------------------------------------------
(* The request itself: a known id is answered from its record; a changed   *)
(* fingerprint, an unknown route, a port in use, a configuration nginx     *)
(* does not accept or a file that cannot be read or written end it.        *)

Captured == [files |-> files, active |-> service = "active", enabled |-> Enabled]

Refuse(p) ==
  /\ pc[p] = "request"
  /\ Exit(p)
  /\ UNCHANGED <<host, journal, env>>

Acceptable(r) ==
  /\ journal[r.id].status = "none"
  /\ files = r.fp
  /\ Applicable(r.change, files)
  /\ ~Conflict(Changed(r.change, RoutesOf(files)))

\* The pending record is written before anything is changed; the write may
\* report an error although the record is there.
Accept(p) ==
  /\ pc[p] = "request"
  /\ Acceptable(req[p])
  /\ journal' = [journal EXCEPT ![req[p].id] =
                   [status |-> "pending", before |-> Captured]]
  /\ \/ /\ before' = [before EXCEPT ![p] = Captured]
        /\ Goto(p, IF Uninstalls(p) THEN "stop" ELSE "config")
        /\ UNCHANGED <<lock, req, fixing>>
     \/ Exit(p)
  /\ UNCHANGED <<host, env>>

-----------------------------------------------------------------------------
(* Apply.  Every step may fail, with or without its effect, and then the   *)
(* snapshot is restored.                                                   *)

\* Mutant of StopService: a state of systemd nothing else knows of.
StopFailed ==
  /\ service' = "failed"
  /\ serving' = {}
  /\ link' \in {link, FALSE}
  /\ UNCHANGED files

\* disable --now; what counts is that the service is not active any more.
StopService ==
  /\ service' = "inactive"
  /\ serving' = {}
  /\ link' \in {link, FALSE}
  /\ UNCHANGED files

Stop(p) ==
  /\ pc[p] = "stop"
  /\ StopService
  /\ Goto(p, "config")
  /\ UNCHANGED <<journal, lock, memory, env>>

WriteConfig(p) ==
  /\ pc[p] = "config"
  /\ files' = [files EXCEPT !.config = Target(p).config]
  /\ Goto(p, "unit")
  /\ UNCHANGED <<link, service, serving, journal, lock, memory, env>>

WriteUnit(p) ==
  /\ pc[p] = "unit"
  /\ files' = [files EXCEPT !.unit = Target(p).unit]
  /\ Goto(p, "routes")
  /\ UNCHANGED <<link, service, serving, journal, lock, memory, env>>

WriteRoutes(p) ==
  /\ pc[p] = "routes"
  /\ files' = [files EXCEPT !.routes = Target(p).routes]
  /\ Goto(p, "start")
  /\ UNCHANGED <<link, service, serving, journal, lock, memory, env>>

\* systemctl start does nothing to a service that is active already.
StartService ==
  /\ link' = TRUE
  /\ service' = "active"
  /\ serving' = IF service = "active" THEN serving ELSE files.config
  /\ UNCHANGED files

ReloadService ==
  /\ service = "active"
  /\ link' = TRUE
  /\ serving' = files.config
  /\ UNCHANGED <<files, service>>

\* Transition(true, wasActive), or daemon-reload after an uninstall.
Start(p) ==
  /\ pc[p] = "start"
  /\ IF Uninstalls(p) THEN UNCHANGED host
     ELSE IF before[p].active THEN ReloadService ELSE StartService
  /\ Goto(p, "verify")
  /\ UNCHANGED <<journal, lock, memory, env>>

\* What status() reports after the change: the files, and for an installed
\* service a worker that listens on every enabled port.
Verified(p) ==
  /\ Installed(files) = ~Uninstalls(p)
  /\ ~Uninstalls(p) =>
       /\ service = "active"
       /\ Ports(Rendered(RoutesOf(files))) \subseteq Ports(serving)

Verify(p) ==
  /\ pc[p] = "verify"
  /\ Goto(p, IF Verified(p) THEN "confirm" ELSE "back-stop")
  /\ UNCHANGED <<host, journal, lock, memory, env>>

\* The success record is renamed into place before its directory is synced: an
\* error of the sync rolls an operation back that is recorded as succeeded.
Confirm(p) ==
  /\ pc[p] = "confirm"
  /\ journal' = [journal EXCEPT ![req[p].id] = Settled("succeeded")]
  /\ \/ Exit(p)
     \/ /\ Goto(p, "back-stop")
        /\ UNCHANGED <<lock, memory>>
  /\ UNCHANGED <<host, env>>

\* A step reports an error.  One that did its work first is that step
\* followed by the error of the next; a start may only have enabled the unit.
ApplyFails(p) ==
  /\ pc[p] \in {"stop", "config", "unit", "routes", "start", "verify", "confirm"}
  /\ \/ pc[p] = "start" /\ ~Uninstalls(p) /\ link' = TRUE
     \/ UNCHANGED link
  /\ Goto(p, "back-stop")
  /\ UNCHANGED <<files, service, serving, journal, lock, memory, env>>

-----------------------------------------------------------------------------
(* rollback(before), of this operation or of an interrupted one.           *)

\* Mutant of BackStop: the files are restored under a running service.
BackNoStop(p) ==
  /\ pc[p] = "back-stop"
  /\ Goto(p, "back-config")
  /\ UNCHANGED <<host, journal, lock, memory, env>>

BackStop(p) ==
  /\ pc[p] = "back-stop"
  /\ StopService
  /\ Goto(p, "back-config")
  /\ UNCHANGED <<journal, lock, memory, env>>

BackConfig(p) ==
  /\ pc[p] = "back-config"
  /\ files' = [files EXCEPT !.config = before[p].files.config]
  /\ Goto(p, "back-unit")
  /\ UNCHANGED <<link, service, serving, journal, lock, memory, env>>

BackUnit(p) ==
  /\ pc[p] = "back-unit"
  /\ files' = [files EXCEPT !.unit = before[p].files.unit]
  /\ Goto(p, "back-routes")
  /\ UNCHANGED <<link, service, serving, journal, lock, memory, env>>

\* Mutant of BackRoutes: the routes file is not restored.
BackNoRoutes(p) ==
  /\ pc[p] = "back-routes"
  /\ Goto(p, "back-start")
  /\ UNCHANGED <<host, journal, lock, memory, env>>

BackRoutes(p) ==
  /\ pc[p] = "back-routes"
  /\ files' = [files EXCEPT !.routes = before[p].files.routes]
  /\ Goto(p, "back-start")
  /\ UNCHANGED <<link, service, serving, journal, lock, memory, env>>

BackStart(p) ==
  /\ pc[p] = "back-start"
  /\ IF Installed(before[p].files) /\ before[p].active
     THEN StartService ELSE UNCHANGED host
  /\ Goto(p, "back-enable")
  /\ UNCHANGED <<journal, lock, memory, env>>

\* SetEnabled(before.Enabled): a unit that is not there is not enabled.
BackEnable(p) ==
  /\ pc[p] = "back-enable"
  /\ IF before[p].enabled THEN link' = TRUE
     ELSE link' = FALSE \/ (~files.unit /\ UNCHANGED link)
  /\ Goto(p, "back-record")
  /\ UNCHANGED <<files, service, serving, journal, lock, memory, env>>

\* A recovery goes on with the next pending record, a failed operation ends.
BackRecord(p) ==
  /\ pc[p] = "back-record"
  /\ \/ /\ fixing[p] # None
        /\ journal' = [journal EXCEPT ![fixing[p]] = Settled("failed")]
        /\ before' = [before EXCEPT ![p] = NoSnapshot]
        /\ fixing' = [fixing EXCEPT ![p] = None]
        /\ Goto(p, "recover")
        /\ UNCHANGED <<lock, req>>
     \/ /\ fixing[p] = None
        /\ journal' = [journal EXCEPT ![req[p].id] = Settled("failed")]
        /\ Exit(p)
  /\ UNCHANGED <<host, env>>

\* RELAY_ROLLBACK_FAILED: a pending record is left for the next mutation to
\* restore; one that says "succeeded" is not looked at again.
GiveUp(p) ==
  /\ pc[p] \in Back
  /\ \/ pc[p] = "back-start" /\ before[p].active /\ link' = TRUE
     \/ UNCHANGED link
  /\ torn' = (torn \/ Misled(p))
  /\ Exit(p)
  /\ UNCHANGED <<files, service, serving, journal, crashes>>

-----------------------------------------------------------------------------
(* The environment.                                                        *)

Crash(p) ==
  /\ pc[p] # "idle"
  /\ crashes < MaxCrashes
  /\ crashes' = crashes + 1
  /\ torn' = (torn \/ Misled(p))
  /\ Exit(p)
  /\ UNCHANGED <<host, journal>>

\* The host boots: systemd starts the unit if it is enabled.
Reboot ==
  /\ crashes < MaxCrashes
  /\ crashes' = crashes + 1
  /\ torn' = (torn \/ \E p \in Proc : Misled(p))
  /\ IF Enabled /\ Installed(files)
     THEN service' = "active" /\ serving' = files.config
     ELSE service' = "inactive" /\ serving' = {}
  /\ lock' = None
  /\ pc' = [p \in Proc |-> "idle"]
  /\ req' = [p \in Proc |-> NoRequest]
  /\ before' = [p \in Proc |-> NoSnapshot]
  /\ fixing' = [p \in Proc |-> None]
  /\ UNCHANGED <<files, link, journal>>

\* nginx dies; Restart=on-failure brings it back after RestartSec.
NginxDies ==
  /\ ServiceRaces \/ lock = None
  /\ service = "active"
  /\ service' = "activating"
  /\ serving' = {}
  /\ UNCHANGED <<files, link, journal, lock, pc, memory, env>>

NginxRestarts ==
  /\ ServiceRaces \/ lock = None
  /\ service = "activating"
  /\ Installed(files)
  /\ service' = "active"
  /\ serving' = files.config
  /\ UNCHANGED <<files, link, journal, lock, pc, memory, env>>

-----------------------------------------------------------------------------
Apply(p) ==
  \/ Stop(p) \/ WriteConfig(p) \/ WriteUnit(p) \/ WriteRoutes(p)
  \/ Start(p) \/ Verify(p) \/ Confirm(p) \/ ApplyFails(p)

Rollback(p) ==
  \/ BackStop(p) \/ BackConfig(p) \/ BackUnit(p) \/ BackRoutes(p)
  \/ BackStart(p) \/ BackEnable(p) \/ BackRecord(p) \/ GiveUp(p)

Next ==
  \/ \E p \in Proc :
       \/ Call(p) \/ Recovered(p) \/ Refuse(p) \/ Accept(p)
       \/ \E k \in OpId : Recover(p, k)
       \/ Apply(p) \/ Rollback(p) \/ Crash(p)
  \/ Reboot \/ NginxDies \/ NginxRestarts

Spec == Init /\ [][Next]_vars

-----------------------------------------------------------------------------
(* Types of the state.                                                     *)
TypeOK ==
  /\ files \in Files
  /\ link \in BOOLEAN
  /\ service \in {"inactive", "activating", "active"}
  /\ serving \in Config
  /\ journal \in [OpId -> Record]
  /\ lock \in Proc \cup {None}
  /\ pc \in [Proc -> Steps]
  /\ req \in [Proc -> Request \cup {NoRequest}]
  /\ before \in [Proc -> Snapshot]
  /\ fixing \in [Proc -> OpId \cup {None}]
  /\ crashes \in 0..MaxCrashes /\ torn \in BOOLEAN

(* What an interrupted operation will be taken back to is known: at most   *)
(* one record is pending, whatever was killed, and however often.          *)
OneAtATime == \A k, m \in OpId : Pending(k) /\ Pending(m) => k = m

(* When nothing is executed or interrupted, an active relay service        *)
(* forwards what its configuration file says and no other port.            *)
ServesItsFile ==
  lock = None /\ (\A k \in OpId : ~Pending(k)) /\ service = "active" =>
    serving = files.config

\* An operation that is executed, rolled back or left to be restored, and what
\* it is rolled back to.
Open(k) == Pending(k) \/ \E p \in Proc : Misled(p) /\ Work(p) = k
Before(k) ==
  IF Pending(k) THEN journal[k].before
  ELSE before[CHOOSE p \in Proc : Misled(p) /\ Work(p) = k]

(* A rolled back operation has left nothing behind: not in the files, not  *)
(* in the service, not in what happens at boot.                            *)
RestoredExactly ==
  [][\A k \in OpId : Open(k) /\ journal'[k].status = "failed" =>
       LET b == Before(k) IN
         /\ files' = b.files
         /\ Enabled' = b.enabled
         /\ (service' = "active") = b.active
         /\ serving' = IF b.active THEN b.files.config ELSE {}]_vars

(* An operation is atomic and takes effect at most once: seen through the  *)
(* journal, where an open operation has not happened, Relay implements     *)
(* RelayAtomic, with one exception: the success record reports an error    *)
(* after its rename and then the rollback is killed or fails, too.         *)
Seen ==
  IF \E k \in OpId : Open(k) THEN Before(CHOOSE k \in OpId : Open(k)) ELSE Captured

Outcome ==
  [k \in OpId |-> IF journal[k].status = "none" \/ Open(k)
                  THEN "open" ELSE journal[k].status]

Atomic == INSTANCE RelayAtomic
            WITH files <- Seen.files, boot <- Seen.enabled, outcome <- Outcome

IsAtomic == Atomic!Init /\ [][torn' \/ UNCHANGED Atomic!vars \/ Atomic!Next]_vars

-----------------------------------------------------------------------------
(***************************************************************************)
(* Why these hold: the inductive invariants of their proofs.               *)
(***************************************************************************)

Applying == {"stop", "config", "unit", "routes", "start", "verify", "confirm"}

(* A process that is not idle holds the lock; one that changes the host has*)
(* the record that says how to undo it; a request finds none pending, and  *)
(* neither does the rollback of what is recorded as succeeded.             *)
Journaled(p) ==
  /\ pc[p] # "idle" => lock = p /\ req[p] \in Request
  /\ pc[p] \in Applying => Pending(Work(p))
  /\ pc[p] \in Applying \cup Back /\ ~Misled(p) => journal[Work(p)].before = before[p]
  /\ pc[p] \notin Back => fixing[p] = None
  /\ pc[p] = "request" \/ Misled(p) => \A k \in OpId : ~Pending(k)
  /\ Misled(p) => fixing[p] = None /\ journal[Work(p)].status = "succeeded"

Feasible(p) ==
  /\ Applicable(req[p].change, before[p].files)
  /\ ~Conflict(Changed(req[p].change, RoutesOf(before[p].files)))

(* How far the files are on the way to the target, or back.                *)
FilesAt(p) ==
  /\ pc[p] \in Applying => Feasible(p)
  /\ pc[p] = "stop" => Uninstalls(p)
  /\ pc[p] \in {"unit", "routes"} => files.config = Target(p).config
  /\ pc[p] = "routes" => files.unit = Target(p).unit
  /\ pc[p] \in {"start", "verify", "confirm"} => files = Target(p)
  /\ pc[p] \in {"verify", "confirm"} /\ ~Uninstalls(p) => link
  /\ pc[p] \in {"back-unit", "back-routes"} => files.config = before[p].files.config
  /\ pc[p] = "back-routes" => files.unit = before[p].files.unit
  /\ pc[p] \in {"back-start", "back-enable", "back-record"} => files = before[p].files
  /\ pc[p] = "back-record" => Enabled = before[p].enabled

BootNeedsUnit ==
  /\ \A k \in OpId : journal[k].before.enabled => journal[k].before.files.unit
  /\ \A p \in Proc : before[p].enabled => before[p].files.unit

JournalInv ==
  /\ TypeOK
  /\ \A p \in Proc : Journaled(p) /\ FilesAt(p)
  /\ OneAtATime
  /\ BootNeedsUnit

(* The service beside the files, as long as nginx does not die under a     *)
(* request.                                                                *)
ServiceAt(p) ==
  /\ pc[p] \in {"config", "unit", "routes", "start", "verify", "confirm"} /\ Uninstalls(p) =>
       service = "inactive"
  /\ pc[p] \in {"config", "unit", "routes", "start"} /\ ~Uninstalls(p) =>
       (service = "active") = before[p].active
  /\ pc[p] \in {"verify", "confirm"} /\ ~Uninstalls(p) =>
       service = "active" /\ serving = files.config
  /\ pc[p] = "confirm" => Installed(files) = ~Uninstalls(p)
  /\ pc[p] \in {"back-config", "back-unit", "back-routes", "back-start"} =>
       service = "inactive" /\ serving = {}
  /\ pc[p] \in {"back-enable", "back-record"} =>
       /\ service = IF before[p].active THEN "active" ELSE "inactive"
       /\ serving = IF before[p].active THEN before[p].files.config ELSE {}

Running ==
  (\A k \in OpId : ~Pending(k)) =>
    /\ service # "inactive" => Installed(files)
    /\ service = "active" => serving = files.config

ActiveWasInstalled ==
  /\ \A k \in OpId : journal[k].before.active => Installed(journal[k].before.files)
  /\ \A p \in Proc : before[p].active => Installed(before[p].files)

ServiceInv ==
  /\ JournalInv
  /\ \A p \in Proc : ServiceAt(p)
  /\ Running
  /\ ActiveWasInstalled
=============================================================================
