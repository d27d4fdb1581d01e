-------------------------------- MODULE Panel --------------------------------
(***************************************************************************)
(* The Panel's connections on one Instance of one node: the HTTP handlers  *)
(* that issue, suspend, resume, revoke, import and adopt connections, the  *)
(* discovery of the Instance, the polling worker, the SQLite rows they     *)
(* share, and the node at the other end of the SSH calls                   *)
(* (apps/api/src/http/routes.ts, repository.ts, worker.ts, helper/client.ts*)
(* and, for the node, internal/helper/service.go in one step per request;  *)
(* module Helper has those steps).                                         *)
(*                                                                         *)
(* A handler runs alone from one `await` to the next.  Between the two the *)
(* request is on its way, is executed, or its reply is on the way back; a  *)
(* request the Panel has given up may still be executed later; one that is *)
(* lost is one that never is.                                              *)
(* A connection and its peer have one name: each create makes a new key.   *)
(***************************************************************************)
EXTENDS Naturals, FiniteSets

CONSTANTS
  Conn,       \* connections (each with the key of its peer)
  Foreign,    \* peers the configuration has before the Panel knows it
  OpId,       \* Idempotency-Key values
  Limits,     \* what an issued connection may be limited by
  FoundModes, \* the modes a discovery may report
  MaxPolls,   \* bound: polls of the worker
  MaxFinds,   \* bound: discoveries
  MaxFaults,  \* bound: given up calls, failed writes of the node, restarts,
              \* edits of the configuration outside AWG Control
  MaxRecords, \* bound: idempotency records
  MaxWaiting, \* bound: requests that wait for the node at once
  None

LimitKind == {"expiry", "quota"}

(* Connection states and the moves the Panel accepts.                      *)
Enforced == {"expired", "quota-exceeded"}
Status == {"active", "suspended", "revoked", "error"} \cup Enforced

AllowedConnectionTransitions(from) ==
  CASE from = "active" -> {"suspended", "revoked", "error"} \cup Enforced
    [] from = "suspended" -> {"active", "revoked", "error"}
    [] from \in Enforced -> {"active", "revoked"}
    [] from = "revoked" -> {}
    [] from = "error" -> {"active", "suspended", "revoked"}

(* A configuration's fingerprint tells its contents apart: it is the       *)
(* content.  The order of the sections is left out; that a refusal may     *)
(* come from it is covered by Refuse.                                      *)
Content == [peers: SUBSET Conn, edits: 0..MaxFaults]

Row == [status: Status, managed: BOOLEAN, imported: BOOLEAN,
        revokedAt: BOOLEAN, limits: SUBSET LimitKind]

ASSUME PanelAssumption ==
  /\ Foreign \subseteq Conn
  /\ Limits \subseteq SUBSET LimitKind
  /\ FoundModes \subseteq {"observed", "read-only"}
  /\ {MaxPolls, MaxFinds, MaxFaults, MaxRecords, MaxWaiting} \subseteq Nat
  /\ None \notin Conn /\ None \notin OpId /\ None \notin Row

Rpc == [create |-> "create", suspend |-> "disable", resume |-> "enable",
        revoke |-> "revoke", import |-> "list", discover |-> "discover"]
Target == [suspend |-> "suspended", resume |-> "active", revoke |-> "revoked"]

VARIABLES
  \* the node
  config,    \* the persistent configuration
  parked,    \* connections whose section suspended.json stores
  policy,    \* Conn -> policy of policies.json, or None
  journal,   \* the operations the Helper has seen
  \* the calls
  sent,      \* requests not executed yet
  replies,   \* replies the Panel has still to handle
  \* the Panel's database
  instance,  \* fingerprint and mode of the instance row
  row,       \* Conn -> connection row, or None
  records,   \* idempotency records
  \* the memory of the Panel process
  handlers,  \* requests that wait for the node
  poll,      \* the projection the worker waits to have applied, or None
  \* environment and history
  counts,    \* how often faults, polls and discoveries have happened
  drifted,   \* something happened that lets the Panel and the node differ
  doubtful,  \* connections whose creation or compensation had no sure end
  enforced,  \* connections the node suspended by itself
  given      \* client configurations handed out: operation and connection

node == <<config, parked, policy, journal>>
net == <<sent, replies>>
db == <<instance, row, records>>
memory == <<handlers, poll>>
history == <<doubtful, enforced, given>>
vars == <<node, net, db, memory, counts, drifted, history>>

Count(what, bound) ==
  /\ counts[what] < bound
  /\ counts' = [counts EXCEPT ![what] = @ + 1]
Fault == Count("faults", MaxFaults)

Present(c) == c \in config.peers \cup parked
Fresh(c) ==
  /\ row[c] = None /\ ~Present(c) /\ c \notin doubtful
  /\ \A h \in handlers : h.conn # c
  /\ \A j \in journal : j.conn # c

Adopted(limits) ==
  [status |-> "active", managed |-> TRUE, imported |-> TRUE,
   revokedAt |-> FALSE, limits |-> limits]

\* Some of the peers have been imported and adopted under operation ids of the
\* past, and their limits are at the node.
Init ==
  /\ config = [peers |-> Foreign, edits |-> 0]
  /\ parked = {} /\ journal = {}
  /\ sent = {} /\ replies = {}
  /\ instance = [fp |-> config, mode |-> "managed"]
  /\ \E adopted \in SUBSET Foreign, limits \in Limits :
       /\ row = [c \in Conn |-> IF c \in adopted THEN Adopted(limits) ELSE None]
       /\ policy = [c \in Conn |-> IF c \in adopted /\ limits # {}
                     THEN [status |-> "active", limits |-> limits] ELSE None]
  /\ records = {} /\ handlers = {} /\ poll = None
  /\ counts = [faults |-> 0, polls |-> 0, finds |-> 0] /\ drifted = FALSE
  /\ doubtful = {} /\ enforced = {} /\ given = {}

-----------------------------------------------------------------------------
(* A request begins.  beginIdempotency inserts a "started" record; a known *)
(* operation id is answered from its record and changes nothing.           *)

Scope(h) ==
  <<h.task, IF h.task \in {"suspend", "resume", "revoke", "adopt"}
            THEN h.conn ELSE None>>
Known(scope, op) == \E r \in records : r.scope = scope /\ r.op = op

NewRecord(h, status) ==
  [scope |-> Scope(h), op |-> h.op, status |-> status,
   conn |-> IF status = "succeeded" THEN h.conn ELSE None]
Finished(h, status) ==
  {r \in records : r.scope # Scope(h) \/ r.op # h.op}
    \cup {NewRecord(h, status)}

(* The request a handler waits for.  A compensation has an operation id of *)
(* its own.                                                                *)
Undo(op) == <<op, "undo">>
Message(h) ==
  [action |-> IF h.step = "undo" THEN "revoke" ELSE Rpc[h.task],
   op |-> IF h.step = "undo" THEN Undo(h.op) ELSE h.op,
   conn |-> h.conn, fp |-> h.fp, override |-> h.override]

Send(h) ==
  /\ Cardinality(handlers) < MaxWaiting
  /\ handlers' = handlers \cup {h}
  /\ sent' = sent \cup {Message(h)}
  /\ UNCHANGED <<node, replies, instance, row, poll, counts, drifted, history>>

\* Mutant of Begin: a failed record lets the operation run once more.
BeginAgain(h) ==
  /\ ~\E r \in records : r.scope = Scope(h) /\ r.op = h.op /\ r.status = "succeeded"
  /\ records' = Finished(h, "started")
  /\ Send(h)

Begin(h) ==
  /\ ~Known(Scope(h), h.op)
  /\ Cardinality(records) < MaxRecords
  /\ records' = records \cup {NewRecord(h, "started")}
  /\ Send(h)

Handler(task, op, c, override, limits) ==
  [task |-> task, op |-> op, conn |-> c, fp |-> instance.fp,
   was |-> IF override THEN row[c].status ELSE None,
   override |-> override, limits |-> limits, step |-> "call"]

CreateConnection(op, c, limits) ==
  /\ instance.mode = "managed"
  /\ Fresh(c)
  /\ Begin(Handler("create", op, c, FALSE, limits))

\* Mutant of ChangeConnection: the row is not asked what it may become.
ChangeAnyConnection(task, op, c, override) ==
  /\ row[c] # None
  /\ override => task = "resume"
  /\ Begin(Handler(task, op, c, override, {}))

ChangeConnection(task, op, c, override) ==
  /\ row[c] # None
  /\ row[c].managed
  /\ Target[task] \in AllowedConnectionTransitions(row[c].status)
  /\ override => task = "resume"
  /\ task = "resume" /\ row[c].status \in Enforced => override
  /\ Begin(Handler(task, op, c, override, {}))

(* Adoption and the switch to managed mode do not leave the process.       *)
(* n: how many of the writes happen before a kill; 2 is all, no kill.       *)
Kill ==
  /\ Fault
  /\ drifted' = TRUE
  /\ handlers' = {} /\ poll' = None /\ replies' = {}
  /\ UNCHANGED sent
  /\ doubtful' = doubtful \cup {h.conn : h \in {g \in handlers : g.task = "create"}}
  /\ UNCHANGED <<node, enforced>>

Survive == UNCHANGED <<node, net, memory, counts, drifted, history>>

AdoptConnection(op, c, n) ==
  LET h == Handler("adopt", op, c, FALSE, {}) IN
    /\ row[c] # None /\ row[c].imported
    /\ instance.mode = "managed"
    /\ ~Known(Scope(h), op)
    /\ Cardinality(records) < MaxRecords
    /\ row' = IF n > 0 THEN [row EXCEPT ![c].managed = TRUE] ELSE row
    /\ records' = records \cup {NewRecord(h, IF n > 1 THEN "succeeded" ELSE "started")}
    /\ IF n > 1 THEN Survive ELSE Kill /\ UNCHANGED given
    /\ UNCHANGED instance

ManageInstance(op, n) ==
  LET h == Handler("manage", op, None, FALSE, {}) IN
    /\ instance.mode # "read-only"
    /\ ~Known(Scope(h), op)
    /\ Cardinality(records) < MaxRecords
    /\ instance' = IF n > 0 THEN [instance EXCEPT !.mode = "managed"] ELSE instance
    /\ records' = records \cup {NewRecord(h, IF n > 1 THEN "succeeded" ELSE "started")}
    /\ IF n > 1 THEN Survive ELSE Kill /\ UNCHANGED given
    /\ UNCHANGED row

-----------------------------------------------------------------------------
(* The node.  A reply nobody waits for is dropped.                         *)

Awaited(m) ==
  \/ \E h \in handlers : Message(h) = m
  \/ m.action = "apply-policy" /\ poll = m.policies

(* mode: what a discovery found; policies: what apply-policy returned.      *)
Answer(m, ok, mode, policies) ==
  /\ sent' = sent \ {m}
  /\ replies' = IF Awaited(m)
                THEN replies \cup {[msg |-> m, ok |-> ok, fp |-> config', mode |-> mode,
                                       policies |-> policies]}
                ELSE replies

Seen(m) == \E j \in journal : j.op = m.op
Journal(m, ok) ==
  journal \cup {[op |-> m.op, action |-> m.action, conn |-> m.conn, ok |-> ok]}

MutationActions == {"create", "disable", "enable", "revoke"}
Editable(m) ==
  /\ m.fp = config
  /\ \/ m.action = "create"
     \/ m.action = "disable" /\ m.conn \in config.peers
     \/ m.action = "enable" /\ m.conn \in parked \ config.peers
     \/ m.action = "revoke" /\ Present(m.conn)

\* Mutant of PolicyAfter: a revoked connection keeps its policy.
PolicyAfterKept(m) ==
  LET c == m.conn IN
    IF policy[c] = None \/ m.action = "create" THEN policy[c]
    ELSE CASE m.action = "revoke" -> [policy[c] EXCEPT !.status = "revoked"]
      [] m.action = "disable" -> [policy[c] EXCEPT !.status = "suspended"]
      [] m.action = "enable" -> [policy[c] EXCEPT !.status = "active"]

PolicyAfter(m) ==
  LET c == m.conn IN
    IF policy[c] = None \/ m.action = "create" THEN policy[c]
    ELSE CASE m.action = "revoke" -> None
      [] m.action = "disable" -> [policy[c] EXCEPT !.status = "suspended"]
      [] m.action = "enable" ->
           [status |-> "active",
            limits |-> IF m.override /\ policy[c].status = "expired"
                       THEN policy[c].limits \ {"expiry"} ELSE policy[c].limits]

\* Mutant of ParkedAfter: revoke leaves the stored section behind.
ParkedAfterRevoke(m) ==
  CASE m.action = "disable" -> parked \cup {m.conn}
    [] m.action = "enable" -> parked \ {m.conn}
    [] OTHER -> parked

ParkedAfter(m) ==
  IF m.action = "disable" THEN parked \cup {m.conn} ELSE parked \ {m.conn}

\* An answer that is still to be handled tells the fingerprint, or whether
\* there is the peer, before m: the Panel may go by either afterwards.
Overtakes(m) ==
  \E r \in replies :
    /\ r.ok
    /\ \/ r.msg.action \in MutationActions \cup {"discover"}
       \/ r.msg.action = "list" /\ r.msg.conn = m.conn

(* The change is made as a whole.  If only Helper's own state cannot be    *)
(* written after it, the caller is told it failed.                         *)
Execute(m, ok) ==
  /\ m \in sent /\ m.action \in MutationActions
  /\ ~Seen(m)
  /\ Editable(m)
  /\ config' = [config EXCEPT !.peers =
       IF m.action \in {"create", "enable"} THEN @ \cup {m.conn} ELSE @ \ {m.conn}]
  /\ parked' = ParkedAfter(m)
  /\ policy' = [policy EXCEPT ![m.conn] = PolicyAfter(m)]
  /\ journal' = Journal(m, ok)
  /\ Answer(m, ok, None, None)
  /\ \/ ok /\ drifted' = (drifted \/ Overtakes(m)) /\ UNCHANGED <<counts, doubtful>>
     \/ /\ ~ok
        /\ Fault
        /\ drifted' = TRUE
        /\ doubtful' = doubtful \cup {m.conn}
  /\ UNCHANGED <<db, memory, enforced, given>>

(* Everything that makes the node say no: a fingerprint that is not the    *)
(* current one, a missing peer, a known operation id, a rolled back Apply. *)
Refuse(m) ==
  /\ m \in sent
  /\ UNCHANGED <<config, parked, policy, db, memory, counts, drifted, history>>
  /\ journal' = IF m.action \in MutationActions /\ ~Seen(m) THEN Journal(m, FALSE) ELSE journal
  /\ Answer(m, FALSE, None, None)

(* The calls that only read begin when the node reads: what comes before   *)
(* changes nothing.                                                        *)
Reading(h, mode) ==
  /\ Cardinality(handlers) < MaxWaiting
  /\ handlers' = handlers \cup {h}
  /\ replies' = replies \cup
       {[msg |-> Message(h), ok |-> TRUE, fp |-> config, mode |-> mode, policies |-> None]}
  /\ UNCHANGED <<node, sent, instance, row, poll, history>>

ImportPeer(op, c) ==
  LET h == Handler("import", op, c, FALSE, {}) IN
    /\ ~Known(Scope(h), op)
    /\ Cardinality(records) < MaxRecords
    /\ records' = records \cup {NewRecord(h, "started")}
    /\ Reading(h, None)
    /\ UNCHANGED <<counts, drifted>>

Discover(mode) ==
  LET h == Handler("discover", None, None, FALSE, {}) IN
    /\ \A g \in handlers : g.task # "discover"
    /\ Count("finds", MaxFinds)
    /\ Reading(h, mode)
    /\ UNCHANGED <<records, drifted>>

\* A projection replaces all policies; a suspension the node has decided is
\* kept against a projection that has not heard of it.
ApplyPolicy(m) ==
  /\ m \in sent /\ m.action = "apply-policy"
  /\ policy' = [c \in Conn |->
       IF m.policies[c] # None /\ policy[c] # None /\ m.policies[c].status = "active"
            /\ policy[c].status \in Enforced
       THEN [m.policies[c] EXCEPT !.status = policy[c].status]
       ELSE m.policies[c]]
  /\ UNCHANGED <<config, parked, journal, db, memory, counts, drifted, history>>
  /\ Answer(m, TRUE, None, policy')

\* awgctl enforce, once a minute: a limit that is reached disables the peer.
Enforce(c) ==
  /\ policy[c] # None
  /\ policy[c].status = "active"
  /\ policy[c].limits # {}
  /\ c \in config.peers
  /\ config' = [config EXCEPT !.peers = @ \ {c}]
  /\ parked' = parked \cup {c}
  /\ \E kind \in policy[c].limits : policy' = [policy EXCEPT ![c].status =
       IF kind = "quota" THEN "quota-exceeded" ELSE "expired"]
  /\ enforced' = enforced \cup {c}
  /\ drifted' = TRUE
  /\ UNCHANGED <<journal, net, db, memory, counts, doubtful, given>>

\* Somebody edits another part of the configuration.
EditOutside ==
  /\ Fault
  /\ config' = [config EXCEPT !.edits = @ + 1]
  /\ drifted' = TRUE
  /\ UNCHANGED <<parked, policy, journal, net, db, memory, history>>

-----------------------------------------------------------------------------
(* A reply comes back, or the call fails or times out.                     *)

Settle(h, r) ==
  /\ handlers' = handlers \ {h}
  /\ replies' = replies \ {r}
  /\ UNCHANGED <<node, sent, poll>>

Issued(h) ==
  [status |-> "active", managed |-> TRUE, imported |-> FALSE,
   revokedAt |-> FALSE, limits |-> h.limits]

\* Mutant of CompleteIssuance: the record is not part of the transaction.
CompleteIssuanceUnrecorded(h, r, alive) ==
  /\ h.task = "create" /\ h.step = "call" /\ r.ok
  /\ row[h.conn] = None /\ alive
  /\ row' = [row EXCEPT ![h.conn] = Issued(h)]
  /\ instance' = [instance EXCEPT !.fp = r.fp]
  /\ given' = given \cup {<<h.op, h.conn>>}
  /\ Settle(h, r)
  /\ UNCHANGED <<records, counts, drifted, doubtful, enforced>>

\* completeConnectionIssuance is one transaction, refused if the peer has a
\* row already; a kill after it loses the only copy of the configuration.
CompleteIssuance(h, r, alive) ==
  /\ h.task = "create" /\ h.step = "call" /\ r.ok
  /\ row[h.conn] = None
  /\ row' = [row EXCEPT ![h.conn] = Issued(h)]
  /\ instance' = [instance EXCEPT !.fp = r.fp]
  /\ records' = Finished(h, "succeeded")
  /\ IF alive
     THEN /\ given' = given \cup {<<h.op, h.conn>>}
          /\ Settle(h, r)
          /\ UNCHANGED <<counts, drifted, doubtful, enforced>>
     ELSE Kill /\ UNCHANGED given

\* Mutant of CompensateIssuance: the peer stays.
AbandonIssuance(h, r) ==
  /\ h.task = "create" /\ h.step = "call" /\ r.ok
  /\ records' = Finished(h, "failed")
  /\ Settle(h, r)
  /\ UNCHANGED <<instance, row, counts, drifted, history>>

\* The transaction failed: the peer is revoked again.
CompensateIssuance(h, r) ==
  /\ h.task = "create" /\ h.step = "call" /\ r.ok
  /\ LET u == [h EXCEPT !.step = "undo", !.fp = r.fp] IN
       /\ handlers' = (handlers \ {h}) \cup {u}
       /\ sent' = sent \cup {Message(u)}
  /\ replies' = replies \ {r}
  /\ UNCHANGED <<node, db, poll, counts, drifted, history>>

CompleteCompensation(h, r) ==
  /\ h.step = "undo" /\ r.ok
  /\ instance' = [instance EXCEPT !.fp = r.fp]
  /\ records' = Finished(h, "failed")
  /\ Settle(h, r)
  /\ UNCHANGED <<row, counts, drifted, history>>

(* updateInstanceFingerprint, then the status, then the record; each is a  *)
(* transaction of its own.  An override goes by the status the handler     *)
(* read before it called the node.                                         *)
RowAfter(h) ==
  LET status == Target[h.task] IN
    [row[h.conn] EXCEPT !.status = status,
                        !.revokedAt = @ \/ status = "revoked",
                        !.limits = IF h.override /\ h.was = "expired"
                                   THEN @ \ {"expiry"} ELSE @]

\* n: the writes made before the process is killed (none: Restart) or SQLite
\* fails; 3: all.
CompleteChange(h, r, n, killed) ==
  /\ h.task \in {"suspend", "resume", "revoke"} /\ r.ok
  /\ killed \/ n \in {1, 3}
  /\ instance' = [instance EXCEPT !.fp = r.fp]
  /\ row' = IF n > 1 THEN [row EXCEPT ![h.conn] = RowAfter(h)] ELSE row
  /\ records' = IF n = 3 THEN Finished(h, "succeeded")
                ELSE IF killed THEN records ELSE Finished(h, "failed")
  /\ UNCHANGED given
  /\ IF killed THEN Kill
     ELSE /\ Settle(h, r)
          /\ \/ n = 3 /\ UNCHANGED <<counts, drifted>>
             \/ n = 1 /\ Fault /\ drifted' = TRUE
          /\ UNCHANGED <<doubtful, enforced>>

\* The list must show the configuration the row knows and the peer in it.
Importable(h, r) ==
  r.ok /\ r.fp = h.fp /\ h.conn \in r.fp.peers /\ row[h.conn] = None

CompleteImport(h, r) ==
  /\ h.task = "import"
  /\ Importable(h, r)
  /\ row' = [row EXCEPT ![h.conn] =
       [status |-> "active", managed |-> FALSE, imported |-> TRUE,
        revokedAt |-> FALSE, limits |-> {}]]
  /\ records' = Finished(h, "succeeded")
  /\ Settle(h, r)
  /\ drifted' = (drifted \/ \E g \in handlers : g.task = "create" /\ g.conn = h.conn)
  /\ UNCHANGED <<instance, counts, history>>

\* upsertInstances on the row of the same container and interface.
Upserted(found, changed) ==
  IF found = "read-only" THEN "read-only"
  ELSE IF changed \/ instance.mode = "read-only" THEN "observed" ELSE instance.mode

CompleteDiscovery(h, r) ==
  /\ h.task = "discover"
  /\ \E changed \in BOOLEAN :
       instance' = [fp |-> r.fp, mode |-> Upserted(r.mode, changed)]
  /\ Settle(h, r)
  /\ UNCHANGED <<row, records, counts, drifted, history>>

\* Mutant of Fail: a revocation that is refused counts as done.
FailAsDone(h, r) ==
  /\ h.task # "import" /\ ~r.ok
  /\ records' = Finished(h, IF h.task = "revoke" THEN "succeeded" ELSE "failed")
  /\ Settle(h, r)
  /\ drifted' = (drifted \/ h.step = "undo")
  /\ doubtful' = IF h.step = "undo" THEN doubtful \cup {h.conn} ELSE doubtful
  /\ UNCHANGED <<instance, row, counts, enforced, given>>

\* The node refused: the record fails; a compensation that failed leaves the
\* peer behind (ISSUANCE_COMPENSATION_FAILED).
Fail(h, r) ==
  /\ h.task = "import" => ~Importable(h, r)
  /\ h.task # "import" => ~r.ok
  /\ records' = Finished(h, "failed")
  /\ Settle(h, r)
  /\ drifted' = (drifted \/ h.step = "undo")
  /\ doubtful' = IF h.step = "undo" THEN doubtful \cup {h.conn} ELSE doubtful
  /\ UNCHANGED <<instance, row, counts, enforced, given>>

\* 15 seconds without an answer, a broken connection, an envelope that is
\* not the reply: the request may be lost or may still be executed.
GiveUp(h) ==
  /\ h.task # "discover"
  /\ Fault
  /\ drifted' = TRUE
  /\ records' = Finished(h, "failed")
  /\ handlers' = handlers \ {h}
  /\ replies' = {r \in replies : r.msg # Message(h)}
  /\ doubtful' = IF h.task = "create" THEN doubtful \cup {h.conn} ELSE doubtful
  /\ UNCHANGED <<node, sent, instance, row, poll, enforced, given>>

Handle(r) ==
  \E h \in handlers :
    /\ r.msg = Message(h)
    /\ \/ \E alive \in BOOLEAN : CompleteIssuance(h, r, alive)
       \/ CompensateIssuance(h, r)
       \/ CompleteCompensation(h, r)
       \/ \E n \in 1..3, killed \in BOOLEAN : CompleteChange(h, r, n, killed)
       \/ CompleteImport(h, r)
       \/ CompleteDiscovery(h, r)
       \/ Fail(h, r)

-----------------------------------------------------------------------------
(* The worker: one projection at a time; the node answers with the         *)
(* statuses it knows.  The suspensions it made itself are copied into the  *)
(* rows as they are when the answer is handled.                            *)

\* Mutant of Projection: the Panel itself marks limited connections.
ProjectionMarked ==
  [c \in Conn |->
     IF row[c] # None /\ row[c].managed /\ row[c].limits # {}
     THEN [status |-> "expired", limits |-> row[c].limits] ELSE None]

Projection ==
  [c \in Conn |->
     IF /\ row[c] # None
        /\ row[c].managed
        /\ row[c].status \in {"active", "suspended"} \cup Enforced
        /\ row[c].limits # {} \/ row[c].status # "active"
     THEN [status |-> row[c].status, limits |-> row[c].limits]
     ELSE None]

Poll ==
  /\ poll = None
  /\ Count("polls", MaxPolls)
  /\ poll' = Projection
  /\ sent' = sent \cup {[action |-> "apply-policy", policies |-> Projection]}
  /\ UNCHANGED <<node, replies, db, handlers, drifted, history>>

\* Mutant of PolledRow: every status the node returns is copied.
PolledRowAny(c, policies) ==
  IF row[c] # None /\ policies[c] # None
  THEN [row[c] EXCEPT !.status = policies[c].status] ELSE row[c]

PolledRow(c, policies) ==
  IF row[c] # None /\ policies[c] # None /\ policies[c].status \in Enforced
  THEN [row[c] EXCEPT !.status = policies[c].status]
  ELSE row[c]

CompletePoll(r) ==
  /\ r.msg.action = "apply-policy"
  /\ row' = IF r.ok THEN [c \in Conn |-> PolledRow(c, r.policies)] ELSE row
  /\ poll' = None
  /\ replies' = replies \ {r}
  /\ UNCHANGED <<node, sent, instance, records, handlers, counts, drifted, history>>

GiveUpPoll ==
  /\ poll # None
  /\ Fault
  /\ drifted' = TRUE
  /\ poll' = None
  /\ replies' = {r \in replies : r.msg.action # "apply-policy"}
  /\ UNCHANGED <<node, sent, db, handlers, history>>

Restart == Kill /\ UNCHANGED <<db, given>>

-----------------------------------------------------------------------------
Requests(op) ==
  \/ \E c \in Conn, limits \in Limits : CreateConnection(op, c, limits)
  \/ \E c \in Conn, task \in {"suspend", "resume", "revoke"}, override \in BOOLEAN :
       ChangeConnection(task, op, c, override)
  \/ \E c \in Conn : ImportPeer(op, c)
  \/ \E c \in Conn, n \in 0..2 : AdoptConnection(op, c, n)
  \/ \E n \in 0..2 : ManageInstance(op, n)

NodeStep ==
  \/ \E m \in sent : Refuse(m) \/ ApplyPolicy(m) \/ \E ok \in BOOLEAN : Execute(m, ok)
  \/ \E c \in Conn : Enforce(c)
  \/ EditOutside

Next ==
  \/ \E op \in OpId : Requests(op)
  \/ \E mode \in FoundModes : Discover(mode)
  \/ NodeStep
  \/ \E r \in replies : Handle(r) \/ CompletePoll(r)
  \/ \E h \in handlers : GiveUp(h)
  \/ Poll \/ GiveUpPoll
  \/ Restart

Spec == Init /\ [][Next]_vars

-----------------------------------------------------------------------------
HandlerType ==
  [task: DOMAIN Rpc, op: OpId \cup {None}, conn: Conn \cup {None}, fp: Content,
   was: Status \cup {None}, override: BOOLEAN, limits: SUBSET LimitKind,
   step: {"call", "undo"}]
Policies ==
  [Conn -> {None} \cup [status: {"active", "suspended"} \cup Enforced,
                        limits: SUBSET LimitKind]]
Id == OpId \cup {None} \cup {Undo(op) : op \in OpId}
MessageType ==
  [action: {Rpc[task] : task \in DOMAIN Rpc}, op: Id, conn: Conn \cup {None},
   fp: Content, override: BOOLEAN]
    \cup [action: {"apply-policy"}, policies: Policies]

\* The types of the variables.
TypeOK ==
  /\ config \in Content /\ parked \subseteq Conn /\ policy \in Policies
  /\ \A j \in journal : j \in
       [op: Id, action: MutationActions, conn: Conn, ok: BOOLEAN]
  /\ \A m \in sent : m \in MessageType
  /\ \A r \in replies :
       r.msg \in MessageType /\ r.ok \in BOOLEAN /\ r.fp \in Content
  /\ instance \in [fp: Content, mode: {"read-only", "observed", "managed"}]
  /\ row \in [Conn -> Row \cup {None}]
  /\ \A r \in records :
       /\ r.status \in {"started", "succeeded", "failed"}
       /\ r.op \in OpId /\ r.conn \in Conn \cup {None}
  /\ \A h \in handlers : h \in HandlerType
  /\ poll \in Policies \cup {None}
  /\ counts \in [faults: 0..MaxFaults, polls: 0..MaxPolls, finds: 0..MaxFinds]
  /\ drifted \in BOOLEAN
  /\ doubtful \cup enforced \subseteq Conn
  /\ given \subseteq OpId \X Conn

\* A connection whose revocation the Panel has recorded is never again on its
\* node, active or stored: not by a request that was given up and executed
\* late, not by the enforcement, whatever status the row shows afterwards.
RevokedStaysCut ==
  \A c \in Conn : row[c] # None /\ row[c].revokedAt => ~Present(c)

\* A record says "succeeded" only if the node made that change under that
\* operation id and said so.
SucceededHappened ==
  \A r \in records : r.status = "succeeded" /\ r.scope[1] \in DOMAIN Target \cup {"create"} =>
    \E j \in journal :
      j.op = r.op /\ j.action = Rpc[r.scope[1]] /\ j.conn = r.conn /\ j.ok

\* A client configuration is handed out at most once, under one operation
\* id, and only for a connection that the database has.
IssuedOnce ==
  \A g \in given :
    /\ row[g[2]] # None
    /\ \E r \in records : r.op = g[1] /\ r.conn = g[2] /\ r.status = "succeeded"
    /\ \A o \in given : o # g => o[1] # g[1] /\ o[2] # g[2]

\* A connection that was not issued leaves no peer on the node, unless its
\* creation or its compensation ended without an answer.
NoOrphan ==
  \A c \in Conn :
    row[c] = None /\ c \notin Foreign \cup doubtful
      /\ (\A h \in handlers : h.conn # c) => ~Present(c)

\* A peer the Panel did not create is left alone as long as its connection is
\* only observed.
ObservedUntouched ==
  \A c \in Foreign : row[c] # None => row[c].managed \/ c \in config.peers

\* A row says that a limit was enforced only if its node enforced one.
EnforcedByNode ==
  \A c \in Conn : row[c] # None /\ row[c].status \in Enforced => c \in enforced

\* When nothing is under way, the Panel's fingerprint is the node's and every
\* row tells what the node does with its peer, unless something happened that
\* lets them differ: a fault, an edit or enforcement on the node, a change made
\* before the answer to an earlier one was handled, a peer imported while its
\* own issuance is under way.
Told(c) ==
  IF row[c] = None THEN Present(c) => c \in Foreign
  ELSE CASE row[c].status = "active" -> c \in config.peers
         [] row[c].status = "suspended" -> c \in parked \ config.peers
         [] OTHER -> ~Present(c)
Agreement ==
  handlers = {} /\ sent = {} /\ replies = {} /\ poll = None /\ ~drifted =>
    instance.fp = config /\ \A c \in Conn : Told(c)

\* What an operation id was recorded to have done does not change.
RecordIsFinal ==
  [][\A r \in records : r.status # "started" => r \in records']_vars
=============================================================================
