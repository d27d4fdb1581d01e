----------------------------- MODULE RelayPanel -----------------------------
(***************************************************************************)
(* The Panel's operations on one relay host: RelayService with the rows of *)
(* RelayRepository and the handlers of relay-routes.ts                     *)
(* (apps/api/src/relay/service.ts, relay/repository.ts,                    *)
(* http/relay-routes.ts), and the host at the other end of the SSH calls,  *)
(* one step per request as RelayAtomic has it (module Relay has the steps  *)
(* inside).                                                                *)
(*                                                                         *)
(* An operation asks the VPN node (apply only), asks the host for the      *)
(* change, asks the host for its status, and commits.  Between the awaits  *)
(* the worker and the Panel's users check the status of the same relay and *)
(* delete its registration.  A request that was given up stays in `sent`:  *)
(* it is executed later, or it is lost and never is.                       *)
(***************************************************************************)
EXTENDS RelayRoutes

CONSTANTS
  OpId,             \* Idempotency-Key values of relay operations
  Actions,          \* the actions the Panel's users ask for
  MaxRegistrations, \* bound: registrations of the host
  MaxChecks,        \* bound: status calls under way at once
  MaxFaults         \* bound: given up calls, failures of the host, restarts

\* The registered relay; None is no row.
RelayRow ==
  [id: 1..MaxRegistrations, fp: Files \cup {None}, fresh: BOOLEAN,
   status: {"pending", "ready", "offline", "uninstalled"}]

\* What an operation changes, the fingerprint it expects and the routes it
\* plans; the operation in the database and in the journal of the host.
Plans == [change: Change, fp: Files, table: Table]
OperationRow == [status: {"pending", "succeeded", "failed", "uncertain"}, plan: Plans]
JournalRow == [hash: Change \X Files, result: Files \cup {None}]

ASSUME RelayPanelAssumption ==
  /\ Actions \subseteq {ch.action : ch \in Change}
  /\ {MaxRegistrations, MaxChecks, MaxFaults} \subseteq Nat
  /\ None \notin OpId /\ None \notin Entry /\ Missing \notin Table
  /\ None \notin Files /\ None \notin RelayRow
  /\ None \notin OperationRow /\ None \notin JournalRow

VARIABLES
  \* the host
  files,     \* the three files; their content is the source fingerprint
  boot,      \* the service starts at boot
  journal,   \* OpId -> operation the host has taken on, or None
  \* the calls
  sent,      \* requests the host has not executed yet
  replies,   \* replies the Panel has still to handle
  \* the Panel's database
  relay,     \* the relay_servers row, or None
  routes,    \* the relay_routes rows
  ops,       \* OpId -> relay_operations row, or None
  \* the memory of the Panel process
  tasks,     \* calls of perform, status and DELETE that wait for an answer
  \* history and bounds
  registered, \* registrations so far
  faults,
  loose      \* a request may be executed that the Panel no longer counts on

host == <<files, boot, journal>>
net == <<sent, replies>>
db == <<relay, routes, ops>>
vars == <<host, net, db, tasks, registered, faults, loose>>

Request == {ch \in Change : ch.action \in Actions /\ (ch.action = "apply" => ch.entry.enabled)}

Fault == faults < MaxFaults /\ faults' = faults + 1

Init ==
  /\ files = NoFiles /\ boot = FALSE
  /\ journal = [k \in OpId |-> None]
  /\ sent = {} /\ replies = {}
  /\ relay = None
  /\ routes = NoRoutes
  /\ ops = [k \in OpId |-> None]
  /\ tasks = {}
  /\ registered = 0 /\ faults = 0
  /\ loose = FALSE

-----------------------------------------------------------------------------
(* A task waits for the reply to its message.  `try` tells a repeated      *)
(* request from the one that was given up.                                 *)

Operation(op, plan, step, again) ==
  [kind |-> "operation", of |-> relay.id, op |-> op, plan |-> plan,
   step |-> step, again |-> again, got |-> None, try |-> faults]
StatusCall(kind, number) ==
  [kind |-> kind, of |-> relay.id, op |-> None, plan |-> None,
   step |-> "look", again |-> FALSE, got |-> None, try |-> number]

Message(h) ==
  [kind |-> h.kind, of |-> h.of, op |-> h.op, step |-> h.step, try |-> h.try,
   request |-> IF h.step = "act" THEN <<h.plan.change, h.plan.fp>> ELSE <<>>]

\* The relay a task is about may have been deleted, or registered again.
Mine(h) == relay # None /\ relay.id = h.of
Running == {h \in tasks : h.kind = "operation" /\ Mine(h)}
Unsettled == {k \in OpId : ops[k] # None /\ ops[k].status \in {"pending", "uncertain"}}

Register ==
  /\ relay = None
  /\ registered < MaxRegistrations
  /\ registered' = registered + 1
  /\ relay' = [id |-> registered', fp |-> None, status |-> "pending", fresh |-> FALSE]
  /\ UNCHANGED <<host, net, routes, ops, tasks, faults, loose>>

(* perform with a new operation id: the rows are read, and for apply the   *)
(* VPN node is asked before the operation is stored.                       *)
Plan(ch) == [change |-> ch, fp |-> relay.fp, table |-> Changed(ch, routes)]

\* A port is reserved by the route of another Instance; a route to disable or
\* remove must be known.
Accepted(ch) ==
  /\ ch.action = "apply" =>
       \A r \in Known(routes) \ {ch.route} : routes[r].port # ch.entry.port
  /\ ch.action \in {"disable", "remove"} => ch.route \in Known(routes)

\* The users make a new id for each request; one of a deleted registration is
\* not used again.
Unused(op) ==
  ops[op] = None /\ journal[op] = None /\ \A m \in sent : m.op # op

Store(op, plan) ==
  ops' = [ops EXCEPT ![op] = [status |-> "pending", plan |-> plan]]

\* Mutant of Mutate: the relay need not have been checked.
MutateUnchecked(op, ch) ==
  /\ relay # None /\ Running = {}
  /\ Unused(op) /\ Unsettled = {}
  /\ ch.action # "apply" /\ Accepted(ch)
  /\ LET h == Operation(op, Plan(ch), "act", FALSE) IN
       /\ Store(op, h.plan)
       /\ sent' = sent \cup {Message(h)}
       /\ tasks' = tasks \cup {h}
  /\ UNCHANGED <<host, replies, relay, routes, registered, faults, loose>>

Mutate(op, ch) ==
  /\ relay # None /\ Running = {}
  /\ Unused(op) /\ Unsettled = {}
  /\ relay.fp # None
  /\ Accepted(ch)
  /\ LET h == Operation(op, Plan(ch), IF ch.action = "apply" THEN "discover" ELSE "act", FALSE) IN
       /\ tasks' = tasks \cup {h}
       /\ IF h.step = "act"
          THEN Store(op, h.plan) /\ sent' = sent \cup {Message(h)}
          ELSE UNCHANGED <<sent, ops>>
  /\ UNCHANGED <<host, replies, relay, routes, registered, faults, loose>>

\* The VPN node has answered.  If it does not confirm the Instance, or the
\* relay was deleted meanwhile, nothing is stored.
Discovered(h, confirmed) ==
  /\ h.step = "discover"
  /\ LET a == [h EXCEPT !.step = "act", !.try = faults] IN
       IF confirmed /\ Mine(h)
       THEN /\ Store(h.op, h.plan)
            /\ sent' = sent \cup {Message(a)}
            /\ tasks' = (tasks \ {h}) \cup {a}
       ELSE /\ tasks' = tasks \ {h}
            /\ UNCHANGED <<sent, ops>>
  /\ UNCHANGED <<host, replies, relay, routes, registered, faults, loose>>

\* Mutant of Reconcile: what is settled is sent again, too.
ReconcileAny(op) ==
  /\ relay # None /\ Running = {} /\ ops[op] # None
  /\ LET h == Operation(op, ops[op].plan, "act", TRUE) IN
       /\ sent' = sent \cup {Message(h)}
       /\ tasks' = tasks \cup {h}
  /\ UNCHANGED <<host, replies, db, registered, faults, loose>>

\* The same operation again, by its own request or by reconcile: what was
\* stored is sent once more, unless it is settled.
Reconcile(op) ==
  /\ relay # None /\ Running = {}
  /\ op \in Unsettled
  /\ LET h == Operation(op, ops[op].plan, "act", TRUE) IN
       /\ sent' = sent \cup {Message(h)}
       /\ tasks' = tasks \cup {h}
  /\ UNCHANGED <<host, replies, db, registered, faults, loose>>

(* The worker and the users' checks; DELETE asks for the status first.     *)
Call(kind) ==
  /\ \E number \in 1..MaxChecks :
       LET h == StatusCall(kind, number) IN
         /\ \A g \in tasks : g.kind = "operation" \/ g.try # number
         /\ sent' = sent \cup {Message(h)}
         /\ tasks' = tasks \cup {h}
  /\ UNCHANGED <<host, replies, db, registered, faults, loose>>

Check == relay # None /\ Call("check")
Delete == relay # None /\ Unsettled = {} /\ Call("delete")

-----------------------------------------------------------------------------
(* The host.  A reply nobody waits for any more is dropped.                *)

Answer(m, kind, got) ==
  /\ sent' = sent \ {m}
  /\ replies' = IF \E h \in tasks : h.step # "discover" /\ Message(h) = m
                THEN replies \cup {[msg |-> m, kind |-> kind, got |-> got]}
                ELSE replies

Hash(m) == m.request

Acceptable(m) ==
  /\ m.request[2] = files
  /\ Applicable(m.request[1], files)
  /\ ~Conflict(Changed(m.request[1], RoutesOf(files)))

Execute(m) ==
  LET ch == m.request[1] IN
    /\ m.step = "act" /\ journal[m.op] = None
    /\ Acceptable(m)
    /\ files' = Deployed(ch, files)
    /\ boot' = (ch.action # "uninstall")
    /\ journal' = [journal EXCEPT ![m.op] = [hash |-> Hash(m), result |-> files']]
    /\ Answer(m, "ok", files')
    /\ UNCHANGED <<db, tasks, registered, faults, loose>>

\* An operation the host has seen is answered from its journal.
Replay(m) ==
  /\ m.step = "act" /\ journal[m.op] # None
  /\ LET j == journal[m.op] IN
       IF j.hash = Hash(m) /\ j.result # None
       THEN Answer(m, "ok", j.result) ELSE Answer(m, "refused", None)
  /\ UNCHANGED <<host, db, tasks, registered, faults, loose>>

\* The change is refused as not applicable, or fails and is rolled back, or ends
\* with an answer that leaves this open (RELAY_STATE_FAILED,
\* RELAY_ROLLBACK_FAILED: rolled back by the next change).  "unrecorded" is
\* RELAY_VALIDATION_FAILED: nginx -t refuses, this time, what could be done, and
\* no record says so.
Refuse(m, kind) ==
  /\ m.step = "act" /\ journal[m.op] = None
  /\ \/ ~Acceptable(m) /\ kind # "unrecorded" /\ UNCHANGED journal
     \/ Acceptable(m) /\ kind # "refused" /\ UNCHANGED journal
     \/ /\ Acceptable(m) /\ kind # "unrecorded"
        /\ journal' = [journal EXCEPT ![m.op] = [hash |-> Hash(m), result |-> None]]
  /\ Answer(m, kind, None)
  /\ IF kind = "doubt" THEN Fault ELSE UNCHANGED faults
  /\ UNCHANGED <<files, boot, db, tasks, registered, loose>>

Report(m) ==
  /\ m.step = "look"
  /\ Answer(m, "ok", files)
  /\ UNCHANGED <<host, db, tasks, registered, faults, loose>>

\* RELAY_BUSY: another request holds the host's lock; RELAY_RECOVERY_REQUIRED: a
\* change was left half made (which takes a failure), and the status is withheld.
Busy(m) ==
  /\ sent \ {m} # {} \/ (m.step = "look" /\ faults > 0)
  /\ Answer(m, "unrecorded", None)
  /\ UNCHANGED <<host, db, tasks, registered, faults, loose>>

-----------------------------------------------------------------------------
(* The answers.                                                            *)

Settle(h, r, next) ==
  /\ tasks' = (tasks \ {h}) \cup next
  /\ replies' = replies \ {r}
  /\ UNCHANGED <<host, registered>>

HealthOf(h, status) ==
  IF Mine(h) THEN [relay EXCEPT !.status = status, !.fresh = TRUE] ELSE relay

(* The host has made the change: its status is asked for, too.             *)
Applied(h, r) ==
  /\ h.step = "act" /\ r.kind = "ok"
  /\ LET l == [h EXCEPT !.step = "look", !.got = r.got] IN
       IF Mine(h)
       THEN Settle(h, r, {l}) /\ sent' = sent \cup {Message(l)}
       ELSE Settle(h, r, {}) /\ UNCHANGED sent
  /\ UNCHANGED <<db, faults, loose>>

Confirmed(h, r) == r.kind = "ok" /\ r.got = h.got /\ RoutesOf(h.got) = h.plan.table

\* The row of a relay with these files.  Whether its service is active is not a
\* part of the host here, and the answer may say either.
RowStatus(f, active) ==
  IF ~Installed(f) THEN "uninstalled" ELSE IF active THEN "ready" ELSE "offline"

\* One transaction: routes, fingerprint and health, operation.
Commit(h, r) ==
  /\ h.kind = "operation" /\ h.step = "look"
  /\ Confirmed(h, r)
  /\ IF Mine(h)
     THEN /\ routes' = h.plan.table
          /\ \E active \in BOOLEAN :
               relay' = [relay EXCEPT !.fp = h.got, !.fresh = TRUE,
                           !.status = RowStatus(h.got, active)]
          /\ ops' = [ops EXCEPT ![h.op].status = "succeeded"]
     ELSE UNCHANGED db
  /\ Settle(h, r, {})
  /\ UNCHANGED <<sent, faults, loose>>

\* A refusal is definite, the unrecorded ones and that of the second call
\* included; an open end and a disagreement are uncertain.
Verdict(r) == IF r.kind \in {"refused", "unrecorded"} THEN "failed" ELSE "uncertain"

Fail(h, r) ==
  /\ h.kind = "operation"
  /\ r.kind = "ok" => h.step = "look" /\ ~Confirmed(h, r)
  /\ relay' = HealthOf(h, "offline")
  /\ ops' = IF Mine(h) THEN [ops EXCEPT ![h.op].status = Verdict(r)] ELSE ops
  /\ loose' = (loose \/ (r.kind = "unrecorded" /\ (h.step = "look" \/ h.again)))
  /\ Settle(h, r, {})
  /\ UNCHANGED <<sent, routes, faults>>

(* status(): the rows are read when the answer is there.                   *)
Matches(r) ==
  routes = RoutesOf(r.got) /\ (relay.fp = None \/ relay.fp = r.got)

\* Mutant of Checked: the fingerprint is taken whatever the routes are.
CheckedAlways(h, r, active) ==
  IF ~Mine(h) THEN relay
  ELSE [relay EXCEPT !.fresh = TRUE, !.status = "ready",
          !.fp = IF r.kind = "ok" THEN r.got ELSE @]

Checked(h, r, active) ==
  IF Mine(h) /\ r.kind = "ok" /\ Matches(r)
  THEN [relay EXCEPT !.fresh = TRUE, !.fp = r.got, !.status = RowStatus(r.got, active)]
  ELSE HealthOf(h, IF r.kind = "ok" /\ ~Installed(r.got) THEN "uninstalled" ELSE "offline")

CompleteCheck(h, r) ==
  /\ h.kind = "check"
  /\ \E active \in BOOLEAN : relay' = Checked(h, r, active)
  /\ Settle(h, r, {})
  /\ UNCHANGED <<sent, routes, ops, faults, loose>>

\* Mutant of Removable: the host is not asked.
RemovableAlways(r) == r.kind = "ok"

Removable(r) == r.kind = "ok" /\ ~Installed(r.got) /\ Known(RoutesOf(r.got)) = {}

CompleteDelete(h, r) ==
  /\ h.kind = "delete"
  /\ IF Mine(h) /\ Removable(r)
     THEN /\ relay' = None
          /\ routes' = NoRoutes
          /\ ops' = [k \in OpId |-> None]
          /\ loose' = (loose \/ Unsettled # {} \/ files # r.got)
     ELSE /\ \E active \in BOOLEAN : relay' = Checked(h, r, active)
          /\ UNCHANGED <<routes, ops, loose>>
  /\ Settle(h, r, {})
  /\ UNCHANGED <<sent, faults>>

\* Mutant of GiveUp: no answer counts as a failure.
GiveUpFailed(h) ==
  /\ h.step # "discover"
  /\ Fault
  /\ tasks' = tasks \ {h}
  /\ replies' = {r \in replies : r.msg # Message(h)}
  /\ relay' = HealthOf(h, "offline")
  /\ ops' = IF h.kind = "operation" /\ Mine(h)
            THEN [ops EXCEPT ![h.op].status = "failed"] ELSE ops
  /\ UNCHANGED <<host, sent, routes, registered, loose>>

(* 30 seconds without an answer, or a broken connection.                   *)
GiveUp(h) ==
  /\ h.step # "discover"
  /\ Fault
  /\ tasks' = tasks \ {h}
  /\ replies' = {r \in replies : r.msg # Message(h)}
  /\ sent' = {m \in sent : m # Message(h) \/ m.step = "act"}
  /\ relay' = HealthOf(h, "offline")
  /\ ops' = IF h.kind = "operation" /\ Mine(h)
            THEN [ops EXCEPT ![h.op].status = "uncertain"] ELSE ops
  /\ UNCHANGED <<host, routes, registered, loose>>

Restart ==
  /\ Fault
  /\ tasks' = {} /\ replies' = {}
  /\ sent' = {m \in sent : m.step = "act"}
  /\ UNCHANGED <<host, db, registered, loose>>

\* Mutant of Endpoint: an operation under way does not matter.
EndpointPending(r) ==
  /\ relay # None /\ relay.status = "ready" /\ relay.fresh
  /\ routes[r] # None /\ routes[r].enabled

(* endpoint(): what the issuance of a connection puts into its result.     *)
Endpoint(r) ==
  /\ relay # None /\ relay.status = "ready" /\ relay.fresh
  /\ Unsettled = {}
  /\ routes[r] # None /\ routes[r].enabled

\* Two minutes go by without a check.
Age ==
  /\ relay # None /\ relay.fresh
  /\ relay' = [relay EXCEPT !.fresh = FALSE]
  /\ UNCHANGED <<host, net, routes, ops, tasks, registered, faults, loose>>

Handle(r) ==
  \E h \in tasks :
    /\ h.step # "discover" /\ r.msg = Message(h)
    /\ Applied(h, r) \/ Commit(h, r) \/ Fail(h, r) \/ CompleteCheck(h, r) \/ CompleteDelete(h, r)

HostStep(m) ==
  \/ Execute(m) \/ Replay(m) \/ Report(m) \/ Busy(m)
  \/ \E kind \in {"refused", "unrecorded", "doubt"} : Refuse(m, kind)

Next ==
  \/ Register \/ Check \/ Delete \/ Restart \/ Age
  \/ \E op \in OpId : Reconcile(op) \/ \E ch \in Request : Mutate(op, ch)
  \/ \E h \in tasks : GiveUp(h) \/ \E confirmed \in BOOLEAN : Discovered(h, confirmed)
  \/ \E m \in sent : HostStep(m)
  \/ \E r \in replies : Handle(r)

Spec == Init /\ [][Next]_vars

-----------------------------------------------------------------------------
\* The types of the variables.
TypeOK ==
  /\ files \in Files /\ boot \in BOOLEAN
  /\ journal \in [OpId -> JournalRow \cup {None}]
  /\ relay # None => relay \in RelayRow
  /\ routes \in Table
  /\ ops \in [OpId -> OperationRow \cup {None}]
  /\ \A h \in tasks :
       /\ h.kind \in {"operation", "check", "delete"} /\ h.of \in 1..MaxRegistrations
       /\ h.kind = "operation" => h.op \in OpId /\ h.plan \in Plans
       /\ h.got \in Files \cup {None}
  /\ \A r \in replies : r.kind \in {"ok", "refused", "unrecorded", "doubt"} /\ r.got \in Files \cup {None}
  /\ registered \in 0..MaxRegistrations /\ faults \in 0..MaxFaults /\ loose \in BOOLEAN

\* The fingerprint a relay row holds and its route rows are those of one state
\* of the host: the user who sees the routes may send that fingerprint.
RowsOfOneState ==
  relay # None /\ relay.fp # None => routes = RoutesOf(relay.fp)

\* When no operation is under way or unsettled, the Panel knows the host's
\* files, whatever was lost, repeated, restarted or registered again.
InStep ==
  relay # None /\ relay.fp # None /\ Unsettled = {} /\ ~loose => relay.fp = files

\* An operation recorded as failed was not made, and no late request makes it.
FailedDidNothing ==
  ~loose => \A k \in OpId :
    ops[k] # None /\ ops[k].status = "failed" =>
      \/ journal[k] = None \/ journal[k].result = None
      \/ journal[k].hash # <<ops[k].plan.change, ops[k].plan.fp>>

\* A deleted registration leaves no relay service behind.
DeletedUninstalled == relay = None /\ ~loose => ~Installed(files)

\* An endpoint that is put into a client's configuration is one the relay host
\* serves.
EndpointServed ==
  ~loose => \A r \in RouteId : Endpoint(r) => <<routes[r].port, r>> \in files.config

\* The record of an operation that succeeded or failed stays as it is until
\* the relay is deleted.
SettledStays ==
  [][\A k \in OpId : ops[k] # None /\ ops[k].status \in {"succeeded", "failed"} =>
       ops'[k] = ops[k] \/ relay' = None]_vars
=============================================================================
