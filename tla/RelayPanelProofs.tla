-------------------------- MODULE RelayPanelProofs ---------------------------
(***************************************************************************)
(* Proofs about RelayPanel, for any number of routes, operations, calls,   *)
(* registrations and faults.  PanelInv says what the rows, the calls under *)
(* way and the messages of one relay have to do with one another; it gives *)
(* the types, the agreement of the rows and the finality of a settled      *)
(* operation.  CountedOn says what the Panel may rely on as long as it has *)
(* not forgotten a request: rows, verdicts, deletion and endpoints against *)
(* the host.                                                               *)
(***************************************************************************)
EXTENDS RelayPanel, RelayRoutesProofs

-----------------------------------------------------------------------------
Step == {"discover", "act", "look"}

\* The calls that wait for an answer.
OperationTask ==
  [kind: {"operation"}, of: 1..MaxRegistrations, op: OpId, plan: Plans,
   step: Step, again: BOOLEAN, got: Files \cup {None}, try: Nat]
StatusTask ==
  [kind: {"check", "delete"}, of: 1..MaxRegistrations, op: {None}, plan: {None},
   step: {"look"}, again: BOOLEAN, got: {None}, try: Nat]

HostType ==
  /\ files \in Files /\ boot \in BOOLEAN
  /\ journal \in [OpId -> JournalRow \cup {None}]
SentType ==
  \A m \in sent : m.step = "act" => m.op \in OpId /\ m.request \in Change \X Files
ReplyType ==
  \A r \in replies : /\ r.kind \in {"ok", "refused", "unrecorded", "doubt"}
                     /\ r.got \in Files \cup {None}
                     /\ r.kind = "ok" => r.got \in Files
RowType ==
  /\ relay # None => relay \in RelayRow /\ relay.id <= registered
  /\ routes \in Table
  /\ ops \in [OpId -> OperationRow \cup {None}]
TaskType ==
  \A h \in tasks : /\ h \in OperationTask \cup StatusTask
                   /\ h.of <= registered
                   /\ h.kind = "operation" /\ h.step = "look" => h.got \in Files
BoundType ==
  registered \in 0..MaxRegistrations /\ faults \in 0..MaxFaults /\ loose \in BOOLEAN

\* One operation of a relay is under way; its row is stored when the host is
\* asked, and nothing settles it before the answer.
OneRunning ==
  /\ \A h, g \in Running : h = g
  /\ \A h \in Running : IF h.step = "discover" THEN ops[h.op] = None ELSE h.op \in Unsettled

PanelInv ==
  /\ HostType /\ SentType /\ ReplyType /\ RowType /\ TaskType /\ BoundType
  /\ OneRunning
  /\ RowsOfOneState

-----------------------------------------------------------------------------
(* The types of what is sent, stored and answered.                         *)

\* The message of an operation asks for the change of its plan.
LEMMA MessageType ==
  ASSUME NEW h \in OperationTask \cup StatusTask
  PROVE  LET m == Message(h) IN
           /\ m.step = h.step /\ m.op = h.op
           /\ m.step = "act" => m.op \in OpId /\ m.request \in Change \X Files
<1>1. CASE h \in OperationTask
  BY <1>1 DEF OperationTask, Message, Plans
<1>2. CASE h \in StatusTask
  BY <1>2 DEF StatusTask, Message
<1> QED BY <1>1, <1>2

\* What a user's request plans is typed, and stored as a pending row.
LEMMA PlanType ==
  ASSUME PanelInv, relay # None, relay.fp # None, NEW ch \in Change, Accepted(ch)
  PROVE  Plan(ch) \in Plans
<1>1. Changed(ch, routes) \in Table
  BY ChangedType DEF PanelInv, RowType, Accepted
<1>2. relay.fp \in Files
  BY DEF PanelInv, RowType, RelayRow
<1> QED BY <1>1, <1>2 DEF Plan, Plans

LEMMA RelayType ==
  ASSUME PanelInv, relay # None
  PROVE  relay.id \in 1..MaxRegistrations /\ faults \in Nat
BY DEF PanelInv, RowType, RelayRow, BoundType

LEMMA StatusCallType ==
  ASSUME PanelInv, relay # None, NEW kind \in {"check", "delete"}, NEW number \in 1..MaxChecks
  PROVE  LET h == StatusCall(kind, number) IN
           h \in StatusTask /\ h.of = relay.id /\ h.kind = kind /\ h.step = "look"
<1>1. relay.id \in 1..MaxRegistrations /\ number \in Nat
  BY DEF PanelInv, RowType, RelayRow
<1> QED BY <1>1 DEF StatusCall, StatusTask

\* A task that operates is an OperationTask.
LEMMA TaskKind ==
  ASSUME PanelInv, NEW h \in tasks, h.kind = "operation"
  PROVE  h \in OperationTask /\ h.op \in OpId /\ h.plan \in Plans /\ h.of <= registered
BY DEF PanelInv, TaskType, StatusTask, OperationTask

\* The row that is stored for a plan, in any status.
LEMMA RowIsRow ==
  ASSUME NEW plan \in Plans, NEW status \in {"pending", "succeeded", "failed", "uncertain"}
  PROVE  LET r == [status |-> status, plan |-> plan] IN r \in OperationRow /\ r # None
<1>1. [status |-> status, plan |-> plan] \in OperationRow
  BY DEF OperationRow
<1> QED BY <1>1, RelayPanelAssumption

\* An answer of the host keeps the types of the messages.
LEMMA AnswerType ==
  ASSUME PanelInv, NEW m \in sent, NEW kind \in {"ok", "refused", "unrecorded", "doubt"},
         NEW got \in Files \cup {None}, kind = "ok" => got \in Files, Answer(m, kind, got)
  PROVE  SentType' /\ ReplyType'
<1>1. SentType'
  BY DEF PanelInv, SentType, Answer
<1>2. \A r \in replies' : r \in replies \/ r = [msg |-> m, kind |-> kind, got |-> got]
  BY DEF Answer
<1> QED BY <1>1, <1>2 DEF PanelInv, ReplyType

\* A step of the host leaves the Panel as it is.
LEMMA PanelStill ==
  ASSUME PanelInv, UNCHANGED <<db, tasks, registered>>
  PROVE  RowType' /\ TaskType' /\ OneRunning' /\ RowsOfOneState'
<1>1. relay' = relay /\ routes' = routes /\ ops' = ops /\ tasks' = tasks /\ registered' = registered
  BY DEF db
<1>2. Running' = Running /\ Unsettled' = Unsettled
  BY <1>1 DEF Running, Unsettled, Mine
<1>3. RowType' /\ TaskType' /\ RowsOfOneState'
  BY <1>1 DEF PanelInv, RowType, TaskType, RowsOfOneState
<1> QED BY <1>1, <1>2, <1>3 DEF PanelInv, OneRunning

-----------------------------------------------------------------------------
(* The host.                                                               *)

LEMMA FaultBound ==
  ASSUME PanelInv, Fault \/ faults' = faults
  PROVE  faults' \in 0..MaxFaults
BY RelayPanelAssumption DEF PanelInv, BoundType, Fault

\* The files after a change that the host accepts are files.
LEMMA ExecuteType ==
  ASSUME PanelInv, NEW m \in sent, Execute(m)
  PROVE  /\ m.op \in OpId /\ m.request[1] \in Change
         /\ files' = Deployed(m.request[1], files) /\ files' \in Files
         /\ HostType'
<1>1. m.op \in OpId /\ m.request \in Change \X Files
  BY DEF PanelInv, SentType, Execute
<1>2. m.request[1] \in Change /\ Applicable(m.request[1], files)
  BY <1>1 DEF Execute, Acceptable
<1>3. files' = Deployed(m.request[1], files) /\ files' \in Files
  BY <1>2, DeployedType DEF Execute, PanelInv, HostType
<1>4. [hash |-> Hash(m), result |-> files'] \in JournalRow
  BY <1>1, <1>3 DEF JournalRow, Hash
<1>5. HostType'
  BY <1>3, <1>4 DEF Execute, PanelInv, HostType
<1> QED BY <1>1, <1>2, <1>3, <1>5

LEMMA HostStepInv ==
  ASSUME PanelInv, NEW m \in sent, HostStep(m)
  PROVE  PanelInv'
<1>1. CASE Execute(m)
  <2>1. HostType' /\ files' \in Files
    BY <1>1, ExecuteType
  <2>2. SentType' /\ ReplyType'
    BY <1>1, <2>1, AnswerType DEF Execute
  <2>3. BoundType'
    BY <1>1 DEF Execute, PanelInv, BoundType
  <2> QED BY <1>1, <2>1, <2>2, <2>3, PanelStill DEF PanelInv, Execute
<1>2. CASE Replay(m)
  <2>1. HostType' /\ BoundType'
    BY <1>2 DEF Replay, host, PanelInv, HostType, BoundType
  <2>2. m.op \in OpId /\ journal[m.op] \in JournalRow
    BY <1>2 DEF Replay, PanelInv, SentType, HostType
  <2>3. SentType' /\ ReplyType'
    <3>1. CASE journal[m.op].hash = Hash(m) /\ journal[m.op].result # None
      BY <1>2, <2>2, <3>1, AnswerType DEF Replay, JournalRow
    <3>2. CASE ~(journal[m.op].hash = Hash(m) /\ journal[m.op].result # None)
      BY <1>2, <3>2, AnswerType DEF Replay
    <3> QED BY <3>1, <3>2
  <2> QED BY <1>2, <2>1, <2>3, PanelStill DEF PanelInv, Replay
<1>3. CASE Report(m)
  <2>1. HostType' /\ BoundType'
    BY <1>3 DEF Report, host, PanelInv, HostType, BoundType
  <2>2. SentType' /\ ReplyType'
    BY <1>3, AnswerType DEF Report, PanelInv, HostType
  <2> QED BY <1>3, <2>1, <2>2, PanelStill DEF PanelInv, Report
<1>4. CASE Busy(m)
  <2>1. HostType' /\ BoundType'
    BY <1>4 DEF Busy, host, PanelInv, HostType, BoundType
  <2>2. SentType' /\ ReplyType'
    BY <1>4, AnswerType DEF Busy
  <2> QED BY <1>4, <2>1, <2>2, PanelStill DEF PanelInv, Busy
<1>5. ASSUME NEW kind \in {"refused", "unrecorded", "doubt"}, Refuse(m, kind)
      PROVE  PanelInv'
  <2>1. m.op \in OpId /\ m.request \in Change \X Files
    BY <1>5 DEF Refuse, PanelInv, SentType
  <2>2. [hash |-> Hash(m), result |-> None] \in JournalRow
    BY <2>1 DEF JournalRow, Hash
  <2>3. HostType'
    BY <1>5, <2>2 DEF Refuse, PanelInv, HostType
  <2>4. SentType' /\ ReplyType'
    BY <1>5, AnswerType DEF Refuse
  <2>5. BoundType'
    BY <1>5, FaultBound DEF Refuse, PanelInv, BoundType
  <2> QED BY <1>5, <2>3, <2>4, <2>5, PanelStill DEF PanelInv, Refuse
<1> QED BY <1>1, <1>2, <1>3, <1>4, <1>5 DEF HostStep

-----------------------------------------------------------------------------
(* The relay's row and the calls.                                          *)

\* A relay row that is as before but for its health.
Healthy == relay' = relay \/ (relay # None /\ relay' \in RelayRow
                                /\ relay'.id = relay.id /\ relay'.fp = relay.fp)

LEMMA HealthType ==
  ASSUME PanelInv, NEW h \in tasks, NEW status \in {"ready", "offline", "uninstalled"},
         relay' = HealthOf(h, status)
  PROVE  Healthy
BY DEF HealthOf, Healthy, Mine, PanelInv, RowType, RelayRow

LEMMA RowsKept ==
  ASSUME PanelInv, Healthy, routes' = routes, registered' = registered,
         ops' \in [OpId -> OperationRow \cup {None}]
  PROVE  RowType' /\ RowsOfOneState'
BY DEF PanelInv, RowType, RowsOfOneState, Healthy

\* A call ends, or all do.
LEMMA TasksLess ==
  ASSUME PanelInv, tasks' \subseteq tasks, registered' = registered,
         \A h \in tasks' : h.kind = "operation" /\ Mine(h)' => Mine(h) /\ ops'[h.op] = ops[h.op]
  PROVE  TaskType' /\ OneRunning'
<1>1. TaskType'
  BY DEF PanelInv, TaskType
<1>2. \A h \in Running' : h \in Running /\ ops'[h.op] = ops[h.op] /\ h.op \in OpId
  BY TaskKind DEF Running
<1> QED BY <1>1, <1>2 DEF PanelInv, OneRunning, Unsettled

\* The row of an operation that is under way can be settled.
LEMMA SettledRow ==
  ASSUME PanelInv, NEW h \in tasks, h \in Running, h.step # "discover",
         NEW status \in {"succeeded", "failed", "uncertain"}
  PROVE  [ops EXCEPT ![h.op].status = status] \in [OpId -> OperationRow \cup {None}]
<1>1. h.op \in OpId /\ ops[h.op] \in OperationRow
  BY TaskKind DEF PanelInv, OneRunning, Unsettled, RowType, Running
<1>2. [ops[h.op] EXCEPT !.status = status] \in OperationRow
  BY <1>1 DEF OperationRow
<1> QED BY <1>1, <1>2 DEF PanelInv, RowType

\* A call ends with a verdict on its operation, or with none.
LEMMA CallEnds ==
  ASSUME PanelInv, NEW h \in tasks, Healthy,
         tasks' = tasks \ {h}, routes' = routes, registered' = registered,
         \/ ops' = ops
         \/ /\ h \in Running /\ h.step # "discover"
            /\ \E status \in {"succeeded", "failed", "uncertain"} :
                 ops' = [ops EXCEPT ![h.op].status = status]
  PROVE  RowType' /\ RowsOfOneState' /\ TaskType' /\ OneRunning'
<1>1. ops' \in [OpId -> OperationRow \cup {None}]
  BY SettledRow DEF PanelInv, RowType
<1>2. ASSUME NEW g \in tasks', g.kind = "operation", Mine(g)'
      PROVE  Mine(g) /\ ops'[g.op] = ops[g.op]
  <2>1. Mine(g)
    BY <1>2 DEF Mine, Healthy
  <2>2. g \in Running /\ g # h
    BY <1>2, <2>1 DEF Running
  <2>3. h \notin Running
    BY <2>2 DEF PanelInv, OneRunning
  <2> QED BY <2>1, <2>3
<1> QED BY <1>1, <1>2, RowsKept, TasksLess

\* A reply is taken off, a message sent.
LEMMA NetKept ==
  ASSUME PanelInv, replies' \subseteq replies,
         \A m \in sent' : m \in sent \/ (m.step = "act" => m.op \in OpId /\ m.request \in Change \X Files)
  PROVE  SentType' /\ ReplyType'
BY DEF PanelInv, SentType, ReplyType

LEMMA HostKept ==
  ASSUME PanelInv, UNCHANGED host
  PROVE  HostType'
BY DEF PanelInv, HostType, host

-----------------------------------------------------------------------------
(* The Panel's steps.                                                      *)

LEMMA RegisterInv ==
  ASSUME PanelInv, Register PROVE PanelInv'
<1>1. registered' \in 1..MaxRegistrations /\ registered' = registered + 1
  BY RelayPanelAssumption DEF Register, PanelInv, BoundType
<1>2. HostType' /\ SentType' /\ ReplyType' /\ BoundType'
  BY <1>1, HostKept, NetKept DEF Register, net, PanelInv, BoundType
<1>3. relay' \in RelayRow /\ relay'.id = registered' /\ relay'.fp = None
  BY <1>1 DEF Register, RelayRow
<1>4. RowType' /\ RowsOfOneState'
  BY <1>1, <1>3 DEF Register, PanelInv, RowType, RowsOfOneState
<1>5. TaskType'
  BY <1>1 DEF Register, PanelInv, TaskType, BoundType, OperationTask, StatusTask
<1>6. Running' = {}
  <2>1. ASSUME NEW h \in tasks PROVE h.of <= registered /\ h.of \in Nat
    BY DEF PanelInv, TaskType, OperationTask, StatusTask
  <2> QED BY <1>1, <1>3, <2>1 DEF Register, Running, Mine, PanelInv, BoundType
<1> QED BY <1>2, <1>4, <1>5, <1>6 DEF PanelInv, OneRunning

\* A call of the status, or a repeated operation, is added.
LEMMA CallInv ==
  ASSUME PanelInv, relay # None, NEW kind \in {"check", "delete"}, Call(kind)
  PROVE  PanelInv'
<1>1. PICK number \in 1..MaxChecks :
        /\ sent' = sent \cup {Message(StatusCall(kind, number))}
        /\ tasks' = tasks \cup {StatusCall(kind, number)}
  BY DEF Call
<1> DEFINE h == StatusCall(kind, number)
<1>2. h \in StatusTask /\ h.of = relay.id /\ h.kind = kind /\ h.step = "look"
  BY StatusCallType
<1>3. UNCHANGED <<host, replies, db, registered, faults, loose>>
  BY DEF Call
<1>4. Message(h).step = "look"
  BY <1>2, MessageType
<1> HIDE DEF h
<1>5. HostType' /\ SentType' /\ ReplyType' /\ BoundType'
  BY <1>1, <1>3, <1>4, HostKept, NetKept DEF PanelInv, BoundType, h
<1>6. RowType' /\ RowsOfOneState'
  BY <1>3, RowsKept DEF Healthy, db, PanelInv, RowType
<1>7. TaskType'
  BY <1>1, <1>2, <1>3 DEF PanelInv, TaskType, RowType, h
<1>8. Running' = Running /\ Unsettled' = Unsettled /\ ops' = ops
  BY <1>1, <1>2, <1>3 DEF Running, Unsettled, Mine, db, h
<1> QED BY <1>5, <1>6, <1>7, <1>8 DEF PanelInv, OneRunning

\* An operation begins, or goes on with the host.
LEMMA OperationBegins ==
  ASSUME PanelInv, relay # None, NEW h \in OperationTask, NEW gone \in SUBSET tasks,
         h.of = relay.id, h.step = "look" => h.got \in Files,
         Running \subseteq gone, tasks' = (tasks \ gone) \cup {h},
         sent' = sent \/ sent' = sent \cup {Message(h)},
         \/ h.step = "discover" /\ ops' = ops /\ ops[h.op] = None
         \/ h.step # "discover" /\ ops' = ops /\ h.op \in Unsettled
         \/ h.step = "act" /\ Store(h.op, h.plan),
         replies' \subseteq replies,
         UNCHANGED <<host, relay, routes, registered, faults, loose>>
  PROVE  PanelInv'
<1>1. h.kind = "operation" /\ h.op \in OpId /\ h.plan \in Plans
  BY DEF OperationTask
<1>2. HostType' /\ SentType' /\ ReplyType' /\ BoundType'
  BY HostKept, NetKept, MessageType DEF PanelInv, BoundType
<1>3. LET row == [status |-> "pending", plan |-> h.plan] IN row \in OperationRow /\ row # None
  BY <1>1, RowIsRow
<1>4. ops' \in [OpId -> OperationRow \cup {None}]
  BY <1>1, <1>3 DEF PanelInv, RowType, Store
<1>5. RowType' /\ RowsOfOneState'
  BY <1>4, RowsKept DEF Healthy
<1>6. TaskType'
  BY <1>1 DEF PanelInv, TaskType, RowType
<1>7. Running' = {h}
  BY <1>1 DEF Running, Mine
<1>8. IF h.step = "discover" THEN ops'[h.op] = None ELSE h.op \in Unsettled'
  <2>1. CASE Store(h.op, h.plan)
    BY <1>1, <1>3, <2>1 DEF Store, Unsettled, PanelInv, RowType
  <2>2. CASE ~Store(h.op, h.plan)
    BY <2>2, <1>1 DEF Unsettled
  <2> QED BY <2>1, <2>2
<1> QED BY <1>2, <1>5, <1>6, <1>7, <1>8 DEF PanelInv, OneRunning

LEMMA MutateInv ==
  ASSUME PanelInv, NEW op \in OpId, NEW ch \in Change, Mutate(op, ch)
  PROVE  PanelInv'
<1> DEFINE step == IF ch.action = "apply" THEN "discover" ELSE "act"
           h == Operation(op, Plan(ch), step, FALSE)
<1>1. relay # None /\ relay.fp # None /\ Accepted(ch) /\ Running = {} /\ ops[op] = None
  BY DEF Mutate, Unused
<1>2. Plan(ch) \in Plans /\ step \in {"discover", "act"}
  BY <1>1, PlanType
<1>3. /\ h \in OperationTask /\ h.of = relay.id /\ h.op = op /\ h.plan = Plan(ch) /\ h.step = step
  BY <1>1, <1>2, RelayType DEF Operation, OperationTask, Step
<1>4. /\ tasks' = tasks \cup {h}
      /\ IF h.step = "act" THEN Store(op, h.plan) /\ sent' = sent \cup {Message(h)}
         ELSE UNCHANGED <<sent, ops>>
      /\ UNCHANGED <<host, replies, relay, routes, registered, faults, loose>>
  BY DEF Mutate
<1> HIDE DEF h
<1>5. tasks' = (tasks \ {}) \cup {h} /\ {} \in SUBSET tasks
  BY <1>4
<1> QED BY <1>1, <1>2, <1>3, <1>4, <1>5, OperationBegins

LEMMA ReconcileInv ==
  ASSUME PanelInv, NEW op \in OpId, Reconcile(op)
  PROVE  PanelInv'
<1> DEFINE h == Operation(op, ops[op].plan, "act", TRUE)
<1>1. relay # None /\ Running = {} /\ op \in Unsettled
  BY DEF Reconcile
<1>2. ops[op].plan \in Plans
  BY <1>1 DEF PanelInv, RowType, Unsettled, OperationRow
<1>3. h \in OperationTask /\ h.of = relay.id /\ h.op = op /\ h.step = "act"
  BY <1>1, <1>2, RelayType DEF Operation, OperationTask, Step, Unsettled
<1>4. /\ tasks' = tasks \cup {h} /\ sent' = sent \cup {Message(h)}
      /\ UNCHANGED <<host, replies, db, registered, faults, loose>>
  BY DEF Reconcile
<1> HIDE DEF h
<1>5. /\ tasks' = (tasks \ {}) \cup {h} /\ {} \in SUBSET tasks
      /\ ops' = ops /\ UNCHANGED <<host, replies, relay, routes, registered, faults, loose>>
  BY <1>4 DEF db
<1> QED BY <1>1, <1>3, <1>4, <1>5, OperationBegins

LEMMA DiscoveredInv ==
  ASSUME PanelInv, NEW h \in tasks, NEW confirmed \in BOOLEAN, Discovered(h, confirmed)
  PROVE  PanelInv'
<1>1. h.step = "discover" /\ h \in OperationTask
  BY DEF Discovered, PanelInv, TaskType, StatusTask
<1>2. CASE confirmed /\ Mine(h)
  <2> DEFINE a == [h EXCEPT !.step = "act", !.try = faults]
  <2>1. /\ a \in OperationTask /\ a.of = relay.id /\ a.step = "act"
        /\ a.op = h.op /\ a.plan = h.plan
    BY <1>1, <1>2, RelayType DEF OperationTask, Step, Mine
  <2>2. /\ Store(h.op, h.plan) /\ sent' = sent \cup {Message(a)}
        /\ tasks' = (tasks \ {h}) \cup {a}
        /\ UNCHANGED <<host, replies, relay, routes, registered, faults, loose>>
    BY <1>2 DEF Discovered
  <2>3. Running \subseteq {h} /\ {h} \in SUBSET tasks /\ relay # None
    BY <1>1, <1>2 DEF PanelInv, OneRunning, Running, OperationTask, Mine
  <2> HIDE DEF a
  <2> QED BY <2>1, <2>2, <2>3, OperationBegins
<1>3. CASE ~(confirmed /\ Mine(h))
  <2>1. /\ tasks' = tasks \ {h} /\ UNCHANGED <<sent, ops>>
        /\ UNCHANGED <<host, replies, relay, routes, registered, faults, loose>>
    BY <1>3 DEF Discovered
  <2>2. RowType' /\ RowsOfOneState' /\ TaskType' /\ OneRunning'
    BY <2>1, CallEnds DEF Healthy
  <2> QED BY <2>1, <2>2, HostKept, NetKept DEF PanelInv, BoundType
<1> QED BY <1>2, <1>3

\* The host has made the change and is asked for its status.
LEMMA AppliedInv ==
  ASSUME PanelInv, NEW h \in tasks, NEW r \in replies, Applied(h, r)
  PROVE  PanelInv'
<1>1. h.step = "act" /\ h \in OperationTask /\ r.got \in Files
  BY DEF Applied, PanelInv, TaskType, StatusTask, ReplyType
<1>2. CASE Mine(h)
  <2> DEFINE l == [h EXCEPT !.step = "look", !.got = r.got]
  <2>1. /\ l \in OperationTask /\ l.of = relay.id /\ l.step = "look"
        /\ l.got \in Files /\ l.op = h.op
    BY <1>1, <1>2 DEF OperationTask, Step, Mine
  <2>2. /\ sent' = sent \cup {Message(l)} /\ tasks' = (tasks \ {h}) \cup {l}
        /\ replies' \subseteq replies /\ ops' = ops
        /\ UNCHANGED <<host, relay, routes, registered, faults, loose>>
    BY <1>2 DEF Applied, Settle, db
  <2>3. h \in Running /\ relay # None
    BY <1>1, <1>2 DEF Running, OperationTask, Mine
  <2>4. Running \subseteq {h} /\ {h} \in SUBSET tasks /\ h.op \in Unsettled
    BY <1>1, <2>3 DEF PanelInv, OneRunning
  <2> HIDE DEF l
  <2> QED BY <2>1, <2>2, <2>3, <2>4, OperationBegins
<1>3. CASE ~Mine(h)
  <2>1. /\ tasks' = tasks \ {h} /\ replies' \subseteq replies
        /\ UNCHANGED <<host, sent, relay, routes, ops, registered, faults, loose>>
    BY <1>3 DEF Applied, Settle, db
  <2>2. RowType' /\ RowsOfOneState' /\ TaskType' /\ OneRunning'
    BY <2>1, CallEnds DEF Healthy
  <2> QED BY <2>1, <2>2, HostKept, NetKept DEF PanelInv, BoundType
<1> QED BY <1>2, <1>3

\* The rows are written from one state of the host.
LEMMA CommitInv ==
  ASSUME PanelInv, NEW h \in tasks, NEW r \in replies, Commit(h, r)
  PROVE  PanelInv'
<1>1. /\ tasks' = tasks \ {h} /\ replies' \subseteq replies
      /\ UNCHANGED <<host, sent, registered, faults, loose>>
      /\ h.kind = "operation" /\ h.step = "look"
  BY DEF Commit, Settle
<1>2. h \in OperationTask /\ h.got \in Files /\ h.plan.table = RoutesOf(h.got)
  BY <1>1, TaskKind DEF Commit, Confirmed, PanelInv, TaskType
<1>3. HostType' /\ SentType' /\ ReplyType' /\ BoundType'
  BY <1>1, HostKept, NetKept DEF PanelInv, BoundType
<1>4. CASE ~Mine(h)
  <2>1. relay' = relay /\ routes' = routes /\ ops' = ops
    BY <1>4 DEF Commit, db
  <2> QED BY <1>1, <1>3, <2>1, CallEnds DEF Healthy, PanelInv
<1>5. CASE Mine(h)
  <2>1. h \in Running /\ relay \in RelayRow /\ relay.id <= registered
    BY <1>1, <1>5 DEF Running, Mine, PanelInv, RowType
  <2>2. /\ routes' = h.plan.table
        /\ relay' \in RelayRow /\ relay'.id = relay.id /\ relay'.fp = h.got
    BY <1>2, <1>5, <2>1 DEF Commit, RelayRow, RowStatus
  <2>3. ops' = [ops EXCEPT ![h.op].status = "succeeded"]
    BY <1>5 DEF Commit
  <2>4. ops' \in [OpId -> OperationRow \cup {None}]
    BY <1>1, <2>1, <2>3, SettledRow
  <2>5. RowType' /\ RowsOfOneState'
    BY <1>1, <1>2, <2>1, <2>2, <2>4, RoutesType DEF RowType, RowsOfOneState
  <2>6. ASSUME NEW g \in tasks', g.kind = "operation", Mine(g)'
        PROVE  FALSE
    <3>1. g \in Running /\ g # h
      BY <1>1, <1>5, <2>2, <2>6 DEF Running, Mine
    <3> QED BY <2>1, <3>1 DEF PanelInv, OneRunning
  <2>7. TaskType' /\ OneRunning'
    BY <1>1, <2>6, TasksLess
  <2> QED BY <1>3, <2>5, <2>7 DEF PanelInv
<1> QED BY <1>4, <1>5

LEMMA FailInv ==
  ASSUME PanelInv, NEW h \in tasks, h.step # "discover", NEW r \in replies, Fail(h, r)
  PROVE  PanelInv'
<1>1. /\ tasks' = tasks \ {h} /\ replies' \subseteq replies
      /\ UNCHANGED <<host, sent, routes, registered, faults>>
      /\ loose' \in BOOLEAN /\ h.kind = "operation"
  BY DEF Fail, Settle
<1>2. Healthy
  BY HealthType DEF Fail
<1>3. ops' = ops \/ (h \in Running /\ ops' = [ops EXCEPT ![h.op].status = Verdict(r)])
  BY <1>1 DEF Fail, Running
<1>4. Verdict(r) \in {"succeeded", "failed", "uncertain"}
  BY DEF Verdict
<1>5. RowType' /\ RowsOfOneState' /\ TaskType' /\ OneRunning'
  BY <1>1, <1>2, <1>3, <1>4, CallEnds
<1> QED BY <1>1, <1>5, HostKept, NetKept DEF PanelInv, BoundType

\* A check takes a fingerprint only with routes that agree with it.
LEMMA CheckedRows ==
  ASSUME PanelInv, NEW h \in tasks, NEW r \in replies, h.kind # "operation",
         NEW active \in BOOLEAN, relay' = Checked(h, r, active), tasks' = tasks \ {h},
         UNCHANGED <<routes, ops, registered>>
  PROVE  RowType' /\ RowsOfOneState' /\ TaskType' /\ OneRunning'
<1>1. CASE Mine(h) /\ r.kind = "ok" /\ Matches(r)
  <2>1. r.got \in Files /\ relay # None /\ relay \in RelayRow /\ relay.id <= registered
    BY <1>1 DEF PanelInv, ReplyType, RowType, Mine
  <2>2. relay' \in RelayRow /\ relay'.id = relay.id /\ relay'.fp = r.got
    BY <1>1, <2>1 DEF Checked, RelayRow, RowStatus
  <2>3. RowType' /\ RowsOfOneState'
    BY <1>1, <2>1, <2>2 DEF PanelInv, RowType, RowsOfOneState, Matches
  <2>4. TaskType' /\ OneRunning'
    BY <2>1, <2>2, TasksLess DEF Mine
  <2> QED BY <2>3, <2>4
<1>2. CASE ~(Mine(h) /\ r.kind = "ok" /\ Matches(r))
  <2>1. Healthy
    BY <1>2, HealthType DEF Checked
  <2> QED BY <2>1, CallEnds
<1> QED BY <1>1, <1>2

LEMMA CompleteCheckInv ==
  ASSUME PanelInv, NEW h \in tasks, NEW r \in replies, CompleteCheck(h, r)
  PROVE  PanelInv'
<1>1. /\ tasks' = tasks \ {h} /\ replies' \subseteq replies
      /\ UNCHANGED <<host, sent, routes, ops, registered, faults, loose>>
      /\ h.kind # "operation" /\ \E active \in BOOLEAN : relay' = Checked(h, r, active)
  BY DEF CompleteCheck, Settle
<1> QED BY <1>1, CheckedRows, HostKept, NetKept DEF PanelInv, BoundType

LEMMA CompleteDeleteInv ==
  ASSUME PanelInv, NEW h \in tasks, NEW r \in replies, CompleteDelete(h, r)
  PROVE  PanelInv'
<1>1. /\ tasks' = tasks \ {h} /\ replies' \subseteq replies
      /\ UNCHANGED <<host, sent, registered, faults>>
      /\ h.kind # "operation"
  BY DEF CompleteDelete, Settle
<1>2. HostType' /\ SentType' /\ ReplyType'
  BY <1>1, HostKept, NetKept
<1>3. CASE Mine(h) /\ Removable(r)
  <2>1. relay' = None /\ routes' = NoRoutes /\ ops' = [k \in OpId |-> None] /\ loose' \in BOOLEAN
    BY <1>3 DEF CompleteDelete
  <2>2. RowType' /\ RowsOfOneState'
    BY <2>1 DEF RowType, RowsOfOneState, NoRoutes, Table
  <2>3. TaskType' /\ OneRunning'
    BY <1>1, <2>1, TasksLess DEF Mine
  <2> QED BY <1>1, <1>2, <2>1, <2>2, <2>3 DEF PanelInv, BoundType
<1>4. CASE ~(Mine(h) /\ Removable(r))
  <2>1. /\ \E active \in BOOLEAN : relay' = Checked(h, r, active)
        /\ UNCHANGED <<routes, ops, loose>>
    BY <1>4 DEF CompleteDelete
  <2> QED BY <1>1, <1>2, <2>1, CheckedRows DEF PanelInv, BoundType
<1> QED BY <1>3, <1>4

\* An answer that does not come leaves the operation uncertain.
LEMMA GiveUpInv ==
  ASSUME PanelInv, NEW h \in tasks, GiveUp(h)
  PROVE  PanelInv'
<1>1. /\ tasks' = tasks \ {h} /\ replies' \subseteq replies /\ sent' \subseteq sent
      /\ UNCHANGED <<host, routes, registered, loose>>
      /\ h.step # "discover"
  BY DEF GiveUp
<1>2. Healthy
  BY HealthType DEF GiveUp
<1>3. ops' = ops \/ (h \in Running /\ ops' = [ops EXCEPT ![h.op].status = "uncertain"])
  BY DEF GiveUp, Running
<1>4. RowType' /\ RowsOfOneState' /\ TaskType' /\ OneRunning'
  BY <1>1, <1>2, <1>3, CallEnds
<1>5. BoundType'
  BY <1>1, FaultBound DEF GiveUp, PanelInv, BoundType
<1> QED BY <1>1, <1>4, <1>5, HostKept, NetKept DEF PanelInv

LEMMA RestartInv ==
  ASSUME PanelInv, Restart
  PROVE  PanelInv'
<1>1. /\ tasks' = {} /\ replies' = {} /\ sent' \subseteq sent
      /\ relay' = relay /\ routes' = routes /\ ops' = ops
      /\ UNCHANGED <<host, registered, loose>>
  BY DEF Restart, db
<1>2. RowType' /\ RowsOfOneState'
  BY <1>1, RowsKept DEF Healthy, PanelInv, RowType
<1>3. TaskType' /\ OneRunning'
  BY <1>1, TasksLess
<1>4. BoundType'
  BY <1>1, FaultBound DEF Restart, PanelInv, BoundType
<1> QED BY <1>1, <1>2, <1>3, <1>4, HostKept, NetKept DEF PanelInv

LEMMA AgeInv ==
  ASSUME PanelInv, Age
  PROVE  PanelInv'
<1>1. Healthy /\ UNCHANGED <<host, sent, replies, routes, ops, tasks, registered, faults, loose>>
  BY DEF Age, Healthy, net, PanelInv, RowType, RelayRow
<1>2. RowType' /\ RowsOfOneState'
  BY <1>1, RowsKept DEF PanelInv, RowType
<1>3. TaskType' /\ OneRunning'
  BY <1>1, TasksLess DEF Mine, Healthy
<1> QED BY <1>1, <1>2, <1>3, HostKept, NetKept DEF PanelInv, BoundType

LEMMA StutterInv ==
  ASSUME PanelInv, UNCHANGED vars
  PROVE  PanelInv'
<1>1. UNCHANGED <<host, sent, replies, db, tasks, registered, faults, loose>>
  BY DEF vars, net
<1> QED BY <1>1, PanelStill, HostKept, NetKept DEF PanelInv, BoundType

-----------------------------------------------------------------------------
LEMMA PanelInit == Init => PanelInv
<1> SUFFICES ASSUME Init PROVE PanelInv
  OBVIOUS
<1>1. HostType
  BY DEF Init, HostType, NoFiles, Files
<1>2. RowType
  BY DEF Init, RowType, NoRoutes, Table
<1>3. BoundType
  <2>1. MaxFaults \in Nat /\ MaxRegistrations \in Nat
    BY RelayPanelAssumption
  <2>2. registered \in 0..MaxRegistrations /\ faults \in 0..MaxFaults
    BY <2>1 DEF Init
  <2>3. loose \in BOOLEAN
    BY DEF Init
  <2> QED BY <2>2, <2>3 DEF BoundType
<1> QED BY <1>1, <1>2, <1>3
     DEF Init, PanelInv, SentType, ReplyType, TaskType, OneRunning, Running, RowsOfOneState

LEMMA PanelStep == PanelInv /\ [Next]_vars => PanelInv'
<1> SUFFICES ASSUME PanelInv, [Next]_vars PROVE PanelInv'
  OBVIOUS
<1>1. CASE Register
  BY <1>1, RegisterInv
<1>2. CASE Check \/ Delete
  BY <1>2, CallInv DEF Check, Delete
<1>3. CASE Restart
  BY <1>3, RestartInv
<1>4. CASE Age
  BY <1>4, AgeInv
<1>5. ASSUME NEW op \in OpId, Reconcile(op) \/ \E ch \in Request : Mutate(op, ch)
      PROVE  PanelInv'
  <2>1. Request \subseteq Change
    BY DEF Request
  <2> QED BY <1>5, <2>1, ReconcileInv, MutateInv
<1>6. ASSUME NEW h \in tasks, GiveUp(h) \/ \E confirmed \in BOOLEAN : Discovered(h, confirmed)
      PROVE  PanelInv'
  BY <1>6, GiveUpInv, DiscoveredInv
<1>7. ASSUME NEW m \in sent, HostStep(m)
      PROVE  PanelInv'
  BY <1>7, HostStepInv
<1>8. ASSUME NEW r \in replies, Handle(r)
      PROVE  PanelInv'
  <2>1. PICK h \in tasks :
          /\ h.step # "discover"
          /\ Applied(h, r) \/ Commit(h, r) \/ Fail(h, r) \/ CompleteCheck(h, r) \/ CompleteDelete(h, r)
    BY <1>8 DEF Handle
  <2> QED BY <2>1, AppliedInv, CommitInv, FailInv, CompleteCheckInv, CompleteDeleteInv
<1>9. CASE UNCHANGED vars
  BY <1>9, StutterInv
<1> QED BY <1>1, <1>2, <1>3, <1>4, <1>5, <1>6, <1>7, <1>8, <1>9 DEF Next

\* The types of the Panel's rows, calls and messages (service.ts, repository.ts).
THEOREM RelayPanelTypes == Spec => []TypeOK
<1>1. PanelInv => TypeOK
  BY DEF PanelInv, HostType, RowType, TaskType, ReplyType, BoundType, TypeOK,
         OperationTask, StatusTask
<1> QED BY <1>1, PanelInit, PanelStep, PTL DEF Spec

\* RowsOfOneState: commit, health and status of relay/service.ts never leave a
\* fingerprint beside routes of another state of the host.
THEOREM RowsAgree == Spec => []RowsOfOneState
<1>1. PanelInv => RowsOfOneState
  BY DEF PanelInv
<1> QED BY <1>1, PanelInit, PanelStep, PTL DEF Spec

-----------------------------------------------------------------------------
(* What is settled stays.                                                  *)

Settled(k) == ops[k] # None /\ ops[k].status \in {"succeeded", "failed"}

\* A verdict is about an operation that was not settled.
LEMMA VerdictOnUnsettled ==
  ASSUME PanelInv, NEW h \in tasks, h.kind = "operation", Mine(h), h.step # "discover",
         NEW status \in {"succeeded", "failed", "uncertain"},
         ops' = [ops EXCEPT ![h.op].status = status],
         NEW k \in OpId, Settled(k)
  PROVE  ops'[k] = ops[k]
<1>1. h.op \in Unsettled
  BY DEF PanelInv, OneRunning, Running
<1> QED BY <1>1 DEF Unsettled, Settled, PanelInv, RowType

LEMMA SettledStep ==
  ASSUME PanelInv, Next, NEW k \in OpId, Settled(k)
  PROVE  ops'[k] = ops[k] \/ relay' = None
<1>1. CASE Register \/ Check \/ Delete \/ Restart \/ Age
  BY <1>1 DEF Register, Check, Delete, Call, Restart, Age, db
<1>2. ASSUME NEW op \in OpId, Reconcile(op) \/ \E ch \in Request : Mutate(op, ch)
      PROVE  ops'[k] = ops[k]
  BY <1>2 DEF Reconcile, Mutate, Unused, Store, Settled, db, PanelInv, RowType
<1>3. ASSUME NEW h \in tasks, NEW confirmed \in BOOLEAN, Discovered(h, confirmed)
      PROVE  ops'[k] = ops[k]
  <2>1. h \in OperationTask
    BY <1>3 DEF Discovered, PanelInv, TaskType, StatusTask
  <2>2. Mine(h) => h \in Running /\ ops[h.op] = None
    BY <1>3, <2>1 DEF Discovered, PanelInv, OneRunning, Running, OperationTask
  <2> QED BY <1>3, <2>2 DEF Discovered, Store, Settled, PanelInv, RowType
<1>4. ASSUME NEW h \in tasks, GiveUp(h)
      PROVE  ops'[k] = ops[k]
  BY <1>4, VerdictOnUnsettled DEF GiveUp
<1>5. ASSUME NEW m \in sent, HostStep(m)
      PROVE  ops'[k] = ops[k]
  BY <1>5 DEF HostStep, Execute, Replay, Report, Busy, Refuse, db
<1>6. ASSUME NEW r \in replies, NEW h \in tasks, h.step # "discover",
             Applied(h, r) \/ Commit(h, r) \/ Fail(h, r) \/ CompleteCheck(h, r)
      PROVE  ops'[k] = ops[k]
  <2>1. CASE Applied(h, r) \/ CompleteCheck(h, r)
    BY <2>1 DEF Applied, CompleteCheck, db
  <2>2. CASE Commit(h, r)
    BY <1>6, <2>2, VerdictOnUnsettled DEF Commit, db
  <2>3. CASE Fail(h, r)
    <3>1. Verdict(r) \in {"succeeded", "failed", "uncertain"}
      BY DEF Verdict
    <3> QED BY <1>6, <2>3, <3>1, VerdictOnUnsettled DEF Fail
  <2> QED BY <1>6, <2>1, <2>2, <2>3
<1>7. ASSUME NEW r \in replies, NEW h \in tasks, CompleteDelete(h, r)
      PROVE  ops'[k] = ops[k] \/ relay' = None
  BY <1>7 DEF CompleteDelete
<1> QED BY <1>1, <1>2, <1>3, <1>4, <1>5, <1>6, <1>7 DEF Next, Handle

\* SettledStays: finish and commit of relay/repository.ts give no second
\* verdict on an operation, whatever is repeated, reconciled or late.
THEOREM VerdictIsFinal == Spec => SettledStays
<1>1. PanelInv /\ [Next]_vars =>
        [\A k \in OpId : Settled(k) => ops'[k] = ops[k] \/ relay' = None]_vars
  BY SettledStep
<1>2. SettledStays <=> [][\A k \in OpId : Settled(k) => ops'[k] = ops[k] \/ relay' = None]_vars
  BY DEF SettledStays, Settled
<1> QED BY <1>1, <1>2, PanelInit, PanelStep, PTL DEF Spec

-----------------------------------------------------------------------------
(* What the Panel may count on.  As long as no answer or deletion has made *)
(* it forget a request that may still be executed (~loose), at most one    *)
(* operation of a relay is unsettled, the host has the files the row knows *)
(* or those this operation made of them, and no other request can change   *)
(* them any more.                                                          *)

Asked(plan) == <<plan.change, plan.fp>>
Acts(messages) == {m \in messages : m.step = "act"}
Done(k) == journal[k] # None /\ journal[k].result # None

\* The host would take the request on if it had the files the request expects.
Fits(request) ==
  /\ Applicable(request[1], request[2])
  /\ ~Conflict(Changed(request[1], RoutesOf(request[2])))

HostFacts ==
  /\ \A k \in OpId : Done(k) => Fits(journal[k].hash)
  /\ Installed(files) => files.config = Rendered(RoutesOf(files))

\* Messages are about registrations so far; a change is asked for after its
\* operation is stored, and always the same change under one id.
MessageFacts ==
  /\ \A m \in sent : m.of \in 1..registered
  /\ \A r \in replies : r.msg.of \in 1..registered
  /\ relay # None =>
       /\ \A m \in Acts(sent) : m.of = relay.id => ops[m.op] # None
       /\ \A r \in replies : r.msg.step = "act" /\ r.msg.of = relay.id => ops[r.msg.op] # None
  /\ \A k \in OpId : ops[k] # None =>
       /\ journal[k] # None => journal[k].hash = Asked(ops[k].plan)
       /\ \A m \in Acts(sent) : m.op = k => m.request = Asked(ops[k].plan)

TaskFacts ==
  \A h \in Running :
    IF h.step = "discover"
    THEN Unused(h.op) /\ Unsettled = {} /\ h.plan.fp = relay.fp /\ ~h.again
    ELSE /\ h.plan = ops[h.op].plan
         /\ h.step = "look" => Done(h.op) /\ journal[h.op].result = h.got

\* An unrecorded refusal (RELAY_BUSY, RELAY_VALIDATION_FAILED) of the first
\* request of an operation: nothing of that operation is under way or done.
FirstTry ==
  \A h \in Running : h.step = "act" /\ ~h.again =>
    /\ \A m \in Acts(sent) : m.op = h.op => m = Message(h)
    /\ Message(h) \in sent => journal[h.op] = None
    /\ \A r \in replies : r.msg = Message(h) /\ r.kind = "unrecorded" =>
         journal[h.op] = None /\ \A m \in Acts(sent) : m.op # h.op

\* What an answer says is so: the change was made; it was not, and will not be;
\* those are the files, if the row has none yet.
ReplyFacts ==
  \A r \in replies :
    /\ IF r.msg.step = "act" THEN r.msg.op \in OpId ELSE r.kind \in {"ok", "unrecorded"}
    /\ r.msg.step = "act" /\ r.kind = "ok" =>
         Done(r.msg.op) /\ journal[r.msg.op] = [hash |-> r.msg.request, result |-> r.got]
    /\ r.msg.step = "act" /\ r.kind = "refused" =>
         \/ ~Fits(r.msg.request)
         \/ /\ journal[r.msg.op] # None
            /\ ~(Done(r.msg.op) /\ journal[r.msg.op].hash = r.msg.request)
    /\ r.msg.step = "look" /\ r.kind = "ok" /\ relay # None =>
         (r.msg.of = relay.id /\ relay.fp = None => r.got = files)

FilesKnown ==
  /\ \A j, k \in Unsettled : j = k
  /\ \A k \in Unsettled :
       /\ relay # None /\ ops[k].plan.fp = relay.fp
       /\ files = IF Done(k) THEN journal[k].result ELSE relay.fp
  /\ relay # None /\ relay.fp # None /\ Unsettled = {} => files = relay.fp
  /\ relay = None => ~Installed(files)

Expected ==
  \A m \in Acts(sent) : journal[m.op] = None /\ Fits(m.request) => m.op \in Unsettled
FailedUndone ==
  \A k \in OpId : ops[k] # None /\ ops[k].status = "failed" => ~Done(k)
ReadyRow ==
  relay # None /\ relay.status = "ready" => relay.fp # None /\ Installed(relay.fp)

Facts ==
  /\ HostFacts /\ MessageFacts /\ TaskFacts /\ FirstTry /\ ReplyFacts
  /\ FilesKnown /\ Expected /\ FailedUndone /\ ReadyRow
CountedOn == ~loose => Facts

\* The operation of a running task that was stored, and its row.
LEMMA RunningRow ==
  ASSUME PanelInv, NEW h \in Running
  PROVE  /\ h \in tasks /\ h \in OperationTask /\ h.op \in OpId /\ h.of = relay.id
         /\ relay # None /\ h.kind = "operation"
         /\ h.step # "discover" =>
              h.op \in Unsettled /\ ops[h.op] \in OperationRow /\ ops[h.op] # None
<1>1. h \in tasks /\ h.kind = "operation" /\ h.of = relay.id /\ relay # None
  BY DEF Running, Mine
<1> QED BY <1>1, TaskKind DEF PanelInv, OneRunning, Unsettled, RowType

\* A request that can change the files.
LEMMA AcceptableFits ==
  ASSUME NEW m
  PROVE  Acceptable(m) <=> m.request[2] = files /\ Fits(m.request)
BY DEF Acceptable, Fits

\* What a change makes of the files is rendered from its routes.
LEMMA DeployedRendered ==
  ASSUME NEW ch \in Change, NEW f \in Files, Applicable(ch, f), Installed(Deployed(ch, f))
  PROVE  Deployed(ch, f).config = Rendered(RoutesOf(Deployed(ch, f)))
<1>1. ch.action # "uninstall"
  BY DEF Deployed, Installed
<1>2. Changed(ch, RoutesOf(f)) \in Table
  BY RoutesType, ChangedType DEF Applicable
<1>3. Deployed(ch, f).routes # Missing
  BY <1>1, <1>2, RelayPanelAssumption DEF Deployed
<1> QED BY <1>1, <1>3 DEF Deployed, RoutesOf

-----------------------------------------------------------------------------
(* The host answers a message, and may take its operation on.              *)

TakesOn(m) ==
  \/ journal' = journal
  \/ /\ m.step = "act" /\ journal[m.op] = None
     /\ \E result \in Files \cup {None} :
          journal' = [journal EXCEPT ![m.op] = [hash |-> m.request, result |-> result]]

LEMMA Answered ==
  ASSUME NEW m \in sent, NEW kind, NEW got, Answer(m, kind, got)
  PROVE  /\ sent' = sent \ {m}
         /\ \A r \in replies' : r \in replies \/ (r.msg = m /\ r.kind = kind /\ r.got = got)
BY DEF Answer

\* The journal only grows.
LEMMA JournalStays ==
  ASSUME PanelInv, NEW m \in sent, TakesOn(m), NEW k \in OpId
  PROVE  /\ journal[k] # None => journal'[k] = journal[k]
         /\ journal'[k] # journal[k] => m.step = "act" /\ m.op = k
         /\ m.step = "act" /\ m.op = k /\ journal' # journal =>
              journal[k] = None /\ journal'[k] # None /\ journal'[k].hash = m.request
<1>1. CASE journal' = journal
  BY <1>1
<1>2. CASE journal' # journal
  <2>1. PICK result \in Files \cup {None} :
          journal' = [journal EXCEPT ![m.op] = [hash |-> m.request, result |-> result]]
    BY <1>2 DEF TakesOn
  <2>2. m.step = "act" /\ journal[m.op] = None /\ m.op \in OpId /\ m.request \in Change \X Files
    BY <1>2 DEF TakesOn, PanelInv, SentType
  <2>3. [hash |-> m.request, result |-> result] # None
    BY <2>2, RelayPanelAssumption DEF JournalRow
  <2> QED BY <2>1, <2>2, <2>3 DEF PanelInv, HostType
<1> QED BY <1>1, <1>2

LEMMA AnswerKeeps ==
  ASSUME PanelInv, Facts, NEW m \in sent,
         NEW kind \in {"ok", "refused", "unrecorded", "doubt"}, NEW got,
         Answer(m, kind, got), TakesOn(m), kind = "unrecorded" => journal' = journal,
         UNCHANGED <<db, tasks, registered>>
  PROVE  MessageFacts' /\ TaskFacts' /\ FirstTry' /\ ReadyRow'
<1>1. /\ relay' = relay /\ routes' = routes /\ ops' = ops /\ tasks' = tasks
      /\ registered' = registered
  BY DEF db
<1>2. Running' = Running /\ Unsettled' = Unsettled
  BY <1>1 DEF Running, Unsettled, Mine
<1>3. /\ sent' = sent \ {m} /\ Acts(sent') \subseteq Acts(sent) \ {m}
      /\ \A r \in replies' : r \in replies \/ (r.msg = m /\ r.kind = kind)
  BY Answered DEF Acts
<1>4. m.step = "act" => m \in Acts(sent) /\ m.op \in OpId
  BY DEF Acts, PanelInv, SentType
<1>5. MessageFacts'
  <2>1. \A n \in sent' : n.of \in 1..registered
    BY <1>3 DEF Facts, MessageFacts
  <2>2. \A r \in replies' : r.msg.of \in 1..registered
    BY <1>3 DEF Facts, MessageFacts
  <2>3. ASSUME relay # None
        PROVE  /\ \A n \in Acts(sent') : n.of = relay.id => ops[n.op] # None
               /\ \A r \in replies' : r.msg.step = "act" /\ r.msg.of = relay.id => ops[r.msg.op] # None
    BY <1>3, <1>4, <2>3 DEF Facts, MessageFacts
  <2>4. ASSUME NEW k \in OpId, ops[k] # None
        PROVE  /\ journal'[k] # None => journal'[k].hash = Asked(ops[k].plan)
               /\ \A n \in Acts(sent') : n.op = k => n.request = Asked(ops[k].plan)
    <3>1. journal'[k] # journal[k] => journal'[k].hash = Asked(ops[k].plan)
      BY <1>4, <2>4, JournalStays DEF Facts, MessageFacts
    <3> QED BY <1>3, <2>4, <3>1 DEF Facts, MessageFacts
  <2> QED BY <1>1, <2>1, <2>2, <2>3, <2>4 DEF MessageFacts
<1>6. TaskFacts'
  <2> SUFFICES ASSUME NEW h \in Running
               PROVE  (IF h.step = "discover"
                       THEN /\ Unused(h.op) /\ Unsettled = {}
                            /\ h.plan.fp = relay.fp /\ ~h.again
                       ELSE /\ h.plan = ops[h.op].plan
                            /\ h.step = "look" => Done(h.op) /\ journal[h.op].result = h.got)'
    BY <1>2 DEF TaskFacts
  <2>1. h.op \in OpId
    BY RunningRow
  <2>2. CASE h.step = "discover"
    <3>1. Unused(h.op) /\ Unsettled = {} /\ h.plan.fp = relay.fp /\ ~h.again
      BY <2>2 DEF Facts, TaskFacts
    <3>2. journal'[h.op] = None
      BY <2>1, <3>1, JournalStays DEF Unused
    <3> QED BY <1>1, <1>2, <1>3, <2>2, <3>1, <3>2 DEF Unused
  <2>3. CASE h.step # "discover"
    BY <1>1, <2>1, <2>3, JournalStays DEF Facts, TaskFacts, Done
  <2> QED BY <2>2, <2>3
<1>7. FirstTry'
  <2> SUFFICES ASSUME NEW h \in Running, h.step = "act", ~h.again
               PROVE  (/\ \A n \in Acts(sent) : n.op = h.op => n = Message(h)
                       /\ Message(h) \in sent => journal[h.op] = None
                       /\ \A r \in replies : r.msg = Message(h) /\ r.kind = "unrecorded" =>
                            journal[h.op] = None /\ \A n \in Acts(sent) : n.op # h.op)'
    BY <1>2 DEF FirstTry
  <2>1. h.op \in OpId /\ Message(h)' = Message(h)
    BY RunningRow DEF Message
  <2>2. /\ \A n \in Acts(sent) : n.op = h.op => n = Message(h)
        /\ Message(h) \in sent => journal[h.op] = None
        /\ \A r \in replies : r.msg = Message(h) /\ r.kind = "unrecorded" =>
             journal[h.op] = None /\ \A n \in Acts(sent) : n.op # h.op
    BY DEF Facts, FirstTry
  <2>3. Message(h) \in sent' => journal'[h.op] = None
    BY <1>3, <1>4, <2>1, <2>2, JournalStays
  <2>4. ASSUME NEW r \in replies', r.msg = Message(h), r.kind = "unrecorded"
        PROVE  journal'[h.op] = None /\ \A n \in Acts(sent') : n.op # h.op
    <3>1. CASE r \in replies
      BY <1>3, <1>4, <2>1, <2>2, <2>4, <3>1, JournalStays
    <3>2. CASE r \notin replies
      BY <1>3, <2>2, <2>4, <3>2
    <3> QED BY <3>1, <3>2
  <2> QED BY <1>3, <2>1, <2>2, <2>3, <2>4
<1>8. ReadyRow'
  BY <1>1 DEF Facts, ReadyRow
<1> QED BY <1>5, <1>6, <1>7, <1>8

\* Only a request that is counted on fits the files of the host.
LEMMA Counted ==
  ASSUME PanelInv, Facts, NEW m \in sent, m.step = "act", journal[m.op] = None,
         Fits(m.request)
  PROVE  /\ m.op \in Unsettled /\ relay # None /\ relay.fp # None
         /\ m.request[2] = relay.fp /\ files = relay.fp /\ Unsettled = {m.op}
<1>1. m.op \in Unsettled /\ m \in Acts(sent) /\ m.op \in OpId
  BY DEF Facts, Expected, Acts, PanelInv, SentType
<1>2. ops[m.op] # None /\ m.request = Asked(ops[m.op].plan)
  BY <1>1 DEF Facts, MessageFacts, Unsettled
<1>3. relay # None /\ ops[m.op].plan.fp = relay.fp /\ files = relay.fp
  BY <1>1 DEF Facts, FilesKnown, Done
<1>4. ops[m.op].plan \in Plans
  BY <1>1, <1>2 DEF PanelInv, RowType, OperationRow
<1> QED BY <1>1, <1>2, <1>3, <1>4, RelayPanelAssumption DEF Asked, Plans, Facts, FilesKnown

\* The files stay: what the messages said of them is still so.
LEMMA AnswerSame ==
  ASSUME PanelInv, Facts, NEW m \in sent,
         NEW kind \in {"ok", "refused", "unrecorded", "doubt"}, NEW got,
         Answer(m, kind, got), TakesOn(m), kind = "unrecorded" => journal' = journal,
         UNCHANGED <<files, db, tasks, registered>>,
         \A k \in OpId : journal'[k] # journal[k] => journal'[k].result = None,
         m.step = "act" /\ kind = "ok" =>
           Done(m.op)' /\ journal'[m.op] = [hash |-> m.request, result |-> got],
         m.step = "act" /\ kind = "refused" =>
           \/ ~Fits(m.request)
           \/ /\ journal'[m.op] # None
              /\ ~(Done(m.op)' /\ journal'[m.op].hash = m.request),
         m.step = "look" /\ kind = "ok" => got = files,
         m.step = "act" \/ kind \in {"ok", "unrecorded"}
  PROVE  Facts'
<1>1. /\ relay' = relay /\ routes' = routes /\ ops' = ops /\ tasks' = tasks
      /\ registered' = registered /\ files' = files
  BY DEF db
<1>2. Unsettled' = Unsettled /\ Unsettled \subseteq OpId
  BY <1>1 DEF Unsettled
<1>3. /\ sent' = sent \ {m} /\ Acts(sent') \subseteq Acts(sent)
      /\ \A r \in replies' : r \in replies \/ (r.msg = m /\ r.kind = kind /\ r.got = got)
  BY Answered DEF Acts
<1>4. \A k \in OpId : /\ Done(k)' <=> Done(k)
                      /\ Done(k) => journal'[k] = journal[k]
                      /\ journal[k] # None => journal'[k] = journal[k]
  BY JournalStays DEF Done
<1>5. HostFacts'
  BY <1>1, <1>4 DEF Facts, HostFacts, Fits
<1>6. ReplyFacts'
  <2> SUFFICES ASSUME NEW r \in replies'
               PROVE  (/\ IF r.msg.step = "act" THEN r.msg.op \in OpId ELSE r.kind \in {"ok", "unrecorded"}
                       /\ r.msg.step = "act" /\ r.kind = "ok" =>
                            Done(r.msg.op) /\ journal[r.msg.op] = [hash |-> r.msg.request, result |-> r.got]
                       /\ r.msg.step = "act" /\ r.kind = "refused" =>
                            \/ ~Fits(r.msg.request)
                            \/ /\ journal[r.msg.op] # None
                               /\ ~(Done(r.msg.op) /\ journal[r.msg.op].hash = r.msg.request)
                       /\ r.msg.step = "look" /\ r.kind = "ok" /\ relay # None =>
                            (r.msg.of = relay.id /\ relay.fp = None => r.got = files))'
    BY DEF ReplyFacts
  <2>1. CASE r \in replies
    BY <1>1, <1>4, <2>1 DEF Facts, ReplyFacts, Fits
  <2>2. CASE r \notin replies
    <3>1. r.msg = m /\ r.kind = kind /\ r.got = got
      BY <1>3, <2>2
    <3>2. m.step = "act" => m.op \in OpId
      BY DEF PanelInv, SentType
    <3> QED BY <1>1, <3>1, <3>2 DEF Fits
  <2> QED BY <2>1, <2>2
<1>7. FilesKnown'
  BY <1>1, <1>2, <1>4 DEF Facts, FilesKnown
<1>8. Expected'
  <2> SUFFICES ASSUME NEW n \in Acts(sent'), journal'[n.op] = None, Fits(n.request)
               PROVE  n.op \in Unsettled
    BY <1>2 DEF Expected, Fits
  <2>1. n \in Acts(sent) /\ n.op \in OpId
    BY <1>3 DEF Acts, PanelInv, SentType
  <2>2. journal[n.op] = None
    BY <2>1, <1>4
  <2> QED BY <2>1, <2>2 DEF Facts, Expected
<1>9. FailedUndone'
  BY <1>1, <1>4 DEF Facts, FailedUndone
<1> QED BY <1>5, <1>6, <1>7, <1>8, <1>9, AnswerKeeps DEF Facts

LEMMA ExecuteKeeps ==
  ASSUME PanelInv, Facts, NEW m \in sent, Execute(m)
  PROVE  Facts'
<1> DEFINE j == [hash |-> m.request, result |-> files']
<1>1. /\ m.op \in OpId /\ m.request[1] \in Change /\ m.request \in Change \X Files
      /\ files' = Deployed(m.request[1], files) /\ files' \in Files
  BY ExecuteType DEF Execute, PanelInv, SentType
<1>2. /\ m.step = "act" /\ journal[m.op] = None /\ journal' = [journal EXCEPT ![m.op] = j]
      /\ m.request[2] = files /\ Fits(m.request) /\ Answer(m, "ok", files')
      /\ UNCHANGED <<db, tasks, registered, faults, loose>>
  BY AcceptableFits DEF Execute, Hash
<1>3. /\ relay' = relay /\ routes' = routes /\ ops' = ops /\ tasks' = tasks
      /\ registered' = registered
  BY <1>2 DEF db
<1>4. /\ Unsettled = {m.op} /\ Unsettled' = {m.op} /\ relay # None /\ relay.fp # None
  BY <1>2, <1>3, Counted DEF Unsettled
<1>5. j \in JournalRow /\ j # None /\ files' # None
  BY <1>1, RelayPanelAssumption DEF JournalRow
<1>6. /\ journal'[m.op] = j /\ Done(m.op)'
      /\ \A k \in OpId \ {m.op} : journal'[k] = journal[k] /\ (Done(k)' <=> Done(k))
  BY <1>1, <1>2, <1>5 DEF Done, PanelInv, HostType
<1> HIDE DEF j
<1>7. HostFacts'
  <2>1. Installed(files') => files'.config = Rendered(RoutesOf(files'))
    BY <1>1, <1>2, DeployedRendered DEF Fits, PanelInv, HostType
  <2>2. ASSUME NEW k \in OpId, Done(k)'
        PROVE  Fits(journal'[k].hash)
    BY <1>2, <1>6, <2>2 DEF Facts, HostFacts, j
  <2> QED BY <2>1, <2>2 DEF HostFacts, Fits
<1>8. ReplyFacts'
  <2> SUFFICES ASSUME NEW r \in replies'
               PROVE  (/\ IF r.msg.step = "act" THEN r.msg.op \in OpId ELSE r.kind \in {"ok", "unrecorded"}
                       /\ r.msg.step = "act" /\ r.kind = "ok" =>
                            Done(r.msg.op) /\ journal[r.msg.op] = [hash |-> r.msg.request, result |-> r.got]
                       /\ r.msg.step = "act" /\ r.kind = "refused" =>
                            \/ ~Fits(r.msg.request)
                            \/ /\ journal[r.msg.op] # None
                               /\ ~(Done(r.msg.op) /\ journal[r.msg.op].hash = r.msg.request)
                       /\ r.msg.step = "look" /\ r.kind = "ok" /\ relay # None =>
                            (r.msg.of = relay.id /\ relay.fp = None => r.got = files))'
    BY DEF ReplyFacts
  <2>1. r \in replies \/ (r.msg = m /\ r.kind = "ok" /\ r.got = files')
    BY <1>2, Answered
  <2>2. CASE r.msg = m /\ r.kind = "ok" /\ r.got = files'
    BY <1>1, <1>2, <1>6, <2>2 DEF j
  <2>3. CASE r \in replies
    BY <1>2, <1>3, <1>4, <1>6, <2>3 DEF Facts, ReplyFacts, Fits, Done
  <2> QED BY <2>1, <2>2, <2>3
<1>9. FilesKnown'
  BY <1>3, <1>4, <1>6 DEF Facts, FilesKnown, j
<1>10. Expected'
  <2> SUFFICES ASSUME NEW n \in Acts(sent'), journal'[n.op] = None, Fits(n.request)
               PROVE  n.op \in Unsettled
    BY <1>4 DEF Expected, Fits
  <2>1. n \in Acts(sent) /\ n.op \in OpId
    BY <1>2, Answered DEF Acts, PanelInv, SentType
  <2> QED BY <1>5, <1>6, <2>1 DEF Facts, Expected
<1>11. FailedUndone'
  <2>1. ops[m.op].status # "failed"
    BY <1>4 DEF Unsettled
  <2> QED BY <1>3, <1>6, <2>1 DEF Facts, FailedUndone
<1>12. TakesOn(m)
  BY <1>1, <1>2 DEF TakesOn, j
<1> QED BY <1>2, <1>7, <1>8, <1>9, <1>10, <1>11, <1>12, AnswerKeeps DEF Facts

LEMMA HostStepKeeps ==
  ASSUME PanelInv, Facts, NEW m \in sent, HostStep(m)
  PROVE  Facts'
<1>1. CASE Execute(m)
  BY <1>1, ExecuteKeeps
<1>2. CASE Replay(m)
  <2>1. /\ m.step = "act" /\ journal[m.op] # None /\ m.op \in OpId
        /\ UNCHANGED <<host, db, tasks, registered>>
    BY <1>2 DEF Replay, PanelInv, SentType
  <2>2. journal' = journal /\ files' = files /\ TakesOn(m)
    BY <2>1 DEF host, TakesOn
  <2>3. CASE journal[m.op].hash = Hash(m) /\ journal[m.op].result # None
    <3>1. journal[m.op] \in JournalRow
      BY <2>1 DEF PanelInv, HostType
    <3>2. journal[m.op] = [hash |-> m.request, result |-> journal[m.op].result]
      BY <2>3, <3>1 DEF JournalRow, Hash
    <3>3. Answer(m, "ok", journal[m.op].result)
      BY <1>2, <2>3 DEF Replay
    <3> QED BY <2>1, <2>2, <2>3, <3>2, <3>3, AnswerSame DEF Done
  <2>4. CASE ~(journal[m.op].hash = Hash(m) /\ journal[m.op].result # None)
    <3>1. Answer(m, "refused", None)
      BY <1>2, <2>4 DEF Replay
    <3> QED BY <2>1, <2>2, <2>4, <3>1, AnswerSame DEF Done, Hash
  <2> QED BY <2>3, <2>4
<1>3. CASE Report(m)
  <2>1. /\ m.step = "look" /\ Answer(m, "ok", files) /\ UNCHANGED <<host, db, tasks, registered>>
    BY <1>3 DEF Report
  <2>2. journal' = journal /\ files' = files /\ TakesOn(m)
    BY <2>1 DEF host, TakesOn
  <2> QED BY <2>1, <2>2, AnswerSame
<1>4. CASE Busy(m)
  <2>1. Answer(m, "unrecorded", None) /\ UNCHANGED <<host, db, tasks, registered>>
    BY <1>4 DEF Busy
  <2>2. journal' = journal /\ files' = files /\ TakesOn(m)
    BY <2>1 DEF host, TakesOn
  <2> QED BY <2>1, <2>2, AnswerSame
<1>5. ASSUME NEW kind \in {"refused", "unrecorded", "doubt"}, Refuse(m, kind)
      PROVE  Facts'
  <2>1. /\ m.step = "act" /\ journal[m.op] = None /\ m.op \in OpId
        /\ m.request \in Change \X Files
        /\ Answer(m, kind, None) /\ UNCHANGED <<files, db, tasks, registered>>
    BY <1>5 DEF Refuse, PanelInv, SentType
  <2>2. CASE journal' = journal /\ (kind = "refused" => ~Acceptable(m))
    <3>1. kind = "refused" => ~Fits(m.request)
      BY <2>1, <2>2, Counted, AcceptableFits
    <3>2. TakesOn(m)
      BY <2>2 DEF TakesOn
    <3> QED BY <2>1, <2>2, <3>1, <3>2, AnswerSame
  <2>3. CASE /\ kind # "unrecorded"
             /\ journal' = [journal EXCEPT ![m.op] = [hash |-> Hash(m), result |-> None]]
    <3>1. TakesOn(m)
      BY <2>1, <2>3 DEF TakesOn, Hash
    <3>2. [hash |-> Hash(m), result |-> None] # None
      BY <2>1, RelayPanelAssumption DEF JournalRow, Hash
    <3>3. /\ journal'[m.op] # None /\ ~Done(m.op)'
          /\ \A k \in OpId : journal'[k] # journal[k] => journal'[k].result = None
      BY <2>1, <2>3, <3>2 DEF Done, PanelInv, HostType
    <3> QED BY <2>1, <2>3, <3>1, <3>3, AnswerSame
  <2> QED BY <1>5, <2>2, <2>3 DEF Refuse
<1> QED BY <1>1, <1>2, <1>3, <1>4, <1>5 DEF HostStep

-----------------------------------------------------------------------------
(* The Panel's steps.                                                      *)

\* A relay row that knows no more than before.
Fainter ==
  \/ relay' = relay
  \/ /\ relay # None /\ relay' # None
     /\ relay'.id = relay.id /\ relay'.fp = relay.fp
     /\ relay'.status = "ready" => relay.status = "ready"

LEMMA HealthFainter ==
  ASSUME PanelInv, NEW h \in tasks, NEW status \in {"offline", "uninstalled"},
         relay' = HealthOf(h, status)
  PROVE  Fainter
<1>1. CASE Mine(h)
  <2>1. relay # None /\ relay \in RelayRow /\ relay' = [relay EXCEPT !.status = status, !.fresh = TRUE]
    BY <1>1 DEF Mine, HealthOf, PanelInv, RowType
  <2>2. relay' \in RelayRow /\ relay'.status = status
    BY <2>1 DEF RelayRow
  <2>3. relay' # None
    BY <2>2, RelayPanelAssumption
  <2> QED BY <2>1, <2>2, <2>3 DEF RelayRow, Fainter
<1>2. CASE ~Mine(h)
  BY <1>2 DEF HealthOf, Fainter
<1> QED BY <1>1, <1>2

\* Calls end, or the row ages; an operation may become uncertain.
Fades ==
  /\ UNCHANGED <<files, journal, registered>>
  /\ sent' \subseteq sent /\ replies' \subseteq replies /\ tasks' \subseteq tasks
  /\ Fainter
  /\ \A k \in OpId : \/ ops'[k] = ops[k]
                     \/ k \in Unsettled /\ ops'[k] = [ops[k] EXCEPT !.status = "uncertain"]

LEMMA FadesFacts ==
  ASSUME PanelInv, Fades
  PROVE  /\ Unsettled' = Unsettled
         /\ \A k \in OpId : /\ ops[k] = None <=> ops'[k] = None
                            /\ ops[k] # None => ops'[k].plan = ops[k].plan
                            /\ ops[k] # None /\ ops'[k].status = "failed" => ops[k].status = "failed"
         /\ relay = None <=> relay' = None
         /\ relay # None => relay'.id = relay.id /\ relay'.fp = relay.fp
         /\ Running' \subseteq Running
<1>1. relay = None <=> relay' = None
  BY DEF Fades, Fainter
<1>2. relay # None => relay'.id = relay.id /\ relay'.fp = relay.fp
  BY DEF Fades, Fainter
<1>3. Running' \subseteq Running
  BY <1>1, <1>2 DEF Fades, Running, Mine
<1>4. ASSUME NEW k \in OpId
      PROVE  /\ ops[k] = None <=> ops'[k] = None
             /\ ops[k] # None => ops'[k].plan = ops[k].plan
             /\ ops[k] # None /\ ops'[k].status = "failed" => ops[k].status = "failed"
             /\ k \in Unsettled' <=> k \in Unsettled
  <2>1. CASE ops'[k] = ops[k]
    BY <2>1 DEF Unsettled
  <2>2. CASE k \in Unsettled /\ ops'[k] = [ops[k] EXCEPT !.status = "uncertain"]
    <3>1. ops[k] \in OperationRow /\ ops[k] # None
      BY <2>2 DEF Unsettled, PanelInv, RowType
    <3>2. ops'[k] = [status |-> "uncertain", plan |-> ops[k].plan]
      BY <2>2, <3>1 DEF OperationRow
    <3>3. ops'[k] # None
      BY <3>1, <3>2, RowIsRow DEF OperationRow
    <3> QED BY <2>2, <3>1, <3>2, <3>3 DEF Unsettled
  <2> QED BY <2>1, <2>2 DEF Fades
<1>5. Unsettled' = Unsettled
  BY <1>4 DEF Unsettled
<1> QED BY <1>1, <1>2, <1>3, <1>4, <1>5

LEMMA FadesKeeps ==
  ASSUME PanelInv, Facts, Fades
  PROVE  Facts'
<1>1. /\ files' = files /\ journal' = journal /\ registered' = registered
      /\ sent' \subseteq sent /\ replies' \subseteq replies
      /\ Acts(sent') \subseteq Acts(sent)
  BY DEF Fades, Acts
<1>2. /\ Unsettled' = Unsettled
      /\ \A k \in OpId : /\ ops[k] = None <=> ops'[k] = None
                         /\ ops[k] # None => ops'[k].plan = ops[k].plan
                         /\ ops[k] # None /\ ops'[k].status = "failed" => ops[k].status = "failed"
      /\ relay = None <=> relay' = None
      /\ relay # None => relay'.id = relay.id /\ relay'.fp = relay.fp
      /\ Running' \subseteq Running
  BY FadesFacts
<1>3. \A m \in Acts(sent) : m.op \in OpId
  BY DEF Acts, PanelInv, SentType
<1>4. HostFacts'
  BY <1>1 DEF Facts, HostFacts, Fits, Done
<1>5. MessageFacts'
  BY <1>1, <1>2, <1>3 DEF Facts, MessageFacts, ReplyFacts, Asked
<1>6. TaskFacts'
  <2> SUFFICES ASSUME NEW h \in Running'
               PROVE  (IF h.step = "discover"
                       THEN /\ Unused(h.op) /\ Unsettled = {}
                            /\ h.plan.fp = relay.fp /\ ~h.again
                       ELSE /\ h.plan = ops[h.op].plan
                            /\ h.step = "look" => Done(h.op) /\ journal[h.op].result = h.got)'
    BY DEF TaskFacts
  <2>1. h \in Running /\ h.op \in OpId /\ relay # None
    BY <1>2, RunningRow
  <2>2. CASE h.step = "discover"
    BY <1>1, <1>2, <2>1, <2>2 DEF Facts, TaskFacts, Unused
  <2>3. CASE h.step # "discover"
    BY <1>1, <1>2, <2>1, <2>3, RunningRow DEF Facts, TaskFacts, Done
  <2> QED BY <2>2, <2>3
<1>7. FirstTry'
  BY <1>1, <1>2 DEF Facts, FirstTry, Message
<1>8. ReplyFacts'
  BY <1>1, <1>2 DEF Facts, ReplyFacts, Fits, Done
<1>9. FilesKnown'
  BY <1>1, <1>2 DEF Facts, FilesKnown, Done, Unsettled
<1>10. Expected'
  BY <1>1, <1>2 DEF Facts, Expected, Fits
<1>11. FailedUndone'
  BY <1>1, <1>2 DEF Facts, FailedUndone, Done
<1>12. ReadyRow'
  BY DEF Facts, ReadyRow, Fades, Fainter
<1> QED BY <1>4, <1>5, <1>6, <1>7, <1>8, <1>9, <1>10, <1>11, <1>12 DEF Facts

\* The host is asked for its status.
LEMMA CallKeeps ==
  ASSUME PanelInv, Facts, relay # None, NEW kind \in {"check", "delete"}, Call(kind)
  PROVE  Facts'
<1>1. PICK number \in 1..MaxChecks :
        /\ sent' = sent \cup {Message(StatusCall(kind, number))}
        /\ tasks' = tasks \cup {StatusCall(kind, number)}
  BY DEF Call
<1> DEFINE h == StatusCall(kind, number)
<1>2. h \in StatusTask /\ h.of = relay.id /\ h.kind = kind /\ h.step = "look" /\ h.op = None
  BY StatusCallType DEF StatusCall
<1>3. /\ files' = files /\ journal' = journal /\ replies' = replies /\ relay' = relay
      /\ ops' = ops /\ registered' = registered
  BY DEF Call, host, db
<1>4. LET m == Message(h) IN m.step = "look" /\ m.of = relay.id /\ m.op = None
  BY <1>2 DEF Message
<1> HIDE DEF h
<1>5. /\ Acts(sent') = Acts(sent) /\ sent' = sent \cup {Message(h)} /\ Unsettled' = Unsettled
      /\ Running' = Running
  BY <1>1, <1>2, <1>3, <1>4 DEF Acts, Unsettled, Running, Mine, h
<1>6. HostFacts' /\ ReplyFacts' /\ FilesKnown' /\ Expected' /\ FailedUndone' /\ ReadyRow'
  BY <1>3, <1>5
     DEF Facts, HostFacts, ReplyFacts, FilesKnown, Expected, FailedUndone, ReadyRow, Fits, Done
<1>7. MessageFacts'
  <2>1. relay.id \in 1..registered
    BY DEF PanelInv, RowType, RelayRow, BoundType
  <2> QED BY <1>3, <1>4, <1>5, <2>1 DEF Facts, MessageFacts
<1>8. TaskFacts'
  <2>1. \A g \in Running : g.op \in OpId /\ g.op # None
    BY RunningRow, RelayPanelAssumption
  <2> QED BY <1>3, <1>4, <1>5, <2>1 DEF Facts, TaskFacts, Unused, Done
<1>9. FirstTry'
  <2>1. \A g \in Running : g.step = "act" => Message(g) # Message(h)
    BY <1>4 DEF Message
  <2> QED BY <1>3, <1>5, <2>1 DEF Facts, FirstTry, Message
<1> QED BY <1>6, <1>7, <1>8, <1>9 DEF Facts

\* The host is asked for an operation, or the VPN node is.
LEMMA BeginKeeps ==
  ASSUME PanelInv, Facts, relay # None, NEW h \in OperationTask, h.of = relay.id,
         Running' = {h},
         UNCHANGED <<files, journal, relay, registered>>, replies' \subseteq replies,
         \/ h.step = "discover" /\ sent' = sent
         \/ h.step # "discover" /\ sent' = sent \cup {Message(h)},
         \/ /\ ops' = ops /\ h.step = "discover" /\ ~h.again
            /\ Unused(h.op) /\ Unsettled = {} /\ h.plan.fp = relay.fp
         \/ /\ ops' = ops /\ h.step = "act" /\ h.again
            /\ h.op \in Unsettled /\ h.plan = ops[h.op].plan
         \/ /\ ops' = ops /\ h.step = "look"
            /\ h.op \in Unsettled /\ h.plan = ops[h.op].plan
            /\ Done(h.op) /\ journal[h.op].result = h.got
         \/ /\ Store(h.op, h.plan) /\ h.step = "act" /\ ~h.again
            /\ Unused(h.op) /\ Unsettled = {} /\ h.plan.fp = relay.fp
  PROVE  Facts'
<1> DEFINE m == Message(h)
           row == [status |-> "pending", plan |-> h.plan]
<1>1. /\ h.kind = "operation" /\ h.op \in OpId /\ h.plan \in Plans /\ h.of = relay.id
      /\ row \in OperationRow /\ row # None
  BY RowIsRow DEF OperationTask
<1>2. /\ m.op = h.op /\ m.of = relay.id /\ m.step = h.step
      /\ m.step = "act" => m.request = Asked(h.plan)
      /\ Message(h)' = m
  BY <1>1 DEF Message, Asked
<1>3. /\ ops' = ops \/ (ops' = [ops EXCEPT ![h.op] = row] /\ Unused(h.op) /\ Unsettled = {})
      /\ ops' # ops => h.step = "act" /\ ~h.again /\ h.plan.fp = relay.fp
  BY DEF Store
<1>4. /\ \A k \in OpId : ops'[k] # ops[k] => k = h.op /\ ops'[k] = row /\ ops[k] = None
      /\ ops' # ops => ops'[h.op] = row /\ Unsettled' = {h.op}
      /\ ops' = ops => Unsettled' = Unsettled
  <2>1. CASE ops' = ops
    BY <2>1 DEF Unsettled
  <2>2. CASE ops' # ops
    <3>1. ops' = [ops EXCEPT ![h.op] = row] /\ Unused(h.op) /\ Unsettled = {}
      BY <1>3, <2>2
    <3>2. ops'[h.op] = row /\ \A k \in OpId \ {h.op} : ops'[k] = ops[k]
      BY <1>1, <3>1 DEF PanelInv, RowType
    <3> QED BY <1>1, <2>2, <3>1, <3>2 DEF Unused, Unsettled
  <2> QED BY <2>1, <2>2
<1>5. sent' \subseteq sent \cup {m} /\ (h.step # "discover" => m \in sent')
  OBVIOUS
<1>6. Acts(sent') \subseteq Acts(sent) \cup {m} /\ (m \in Acts(sent') => m \in Acts(sent) \/ h.step = "act")
  BY <1>2, <1>5 DEF Acts
<1>7. h.step # "discover" => ops'[h.op] # None /\ ops'[h.op].plan = h.plan /\ h.op \in Unsettled'
  <2>1. CASE ops' = ops
    <3>1. ~(Store(h.op, h.plan) /\ Unused(h.op))
      BY <1>1, <2>1 DEF Store, Unused, PanelInv, RowType
    <3> QED BY <2>1, <3>1 DEF Unsettled
  <2>2. CASE ops' # ops
    BY <1>1, <1>4, <2>2
  <2> QED BY <2>1, <2>2
<1>8. \A n \in Acts(sent) : n.op \in OpId
  BY DEF Acts, PanelInv, SentType
<1> HIDE DEF m, row
<1>9. HostFacts'
  BY DEF Facts, HostFacts, Fits, Done
<1>10. ReplyFacts'
  BY DEF Facts, ReplyFacts, Fits, Done
<1>11. ReadyRow'
  BY DEF Facts, ReadyRow
<1>12. FailedUndone'
  BY <1>4 DEF Facts, FailedUndone, Done, row
<1>13. MessageFacts'
  <2>1. relay.id \in 1..registered
    BY DEF PanelInv, RowType, RelayRow, BoundType
  <2>2. ASSUME NEW n \in Acts(sent'), n.of = relay.id
        PROVE  ops'[n.op] # None
    <3>1. CASE n \in Acts(sent)
      BY <1>1, <1>4, <1>8, <2>2, <3>1 DEF Facts, MessageFacts
    <3>2. CASE n \notin Acts(sent)
      BY <1>2, <1>6, <1>7, <2>2, <3>2
    <3> QED BY <3>1, <3>2
  <2>3. ASSUME NEW r \in replies', r.msg.step = "act", r.msg.of = relay.id
        PROVE  ops'[r.msg.op] # None
    BY <1>1, <1>4, <2>3 DEF Facts, MessageFacts, ReplyFacts
  <2>4. ASSUME NEW k \in OpId, ops'[k] # None
        PROVE  /\ journal[k] # None => journal[k].hash = Asked(ops'[k].plan)
               /\ \A n \in Acts(sent') : n.op = k => n.request = Asked(ops'[k].plan)
    <3>1. CASE ops'[k] = ops[k]
      BY <1>2, <1>6, <1>7, <2>4, <3>1 DEF Facts, MessageFacts, Acts
    <3>2. CASE ops'[k] # ops[k]
      <4>1. k = h.op /\ Unused(k) /\ ops'[k].plan = h.plan
        BY <1>3, <1>4, <3>2 DEF row
      <4>2. \A n \in Acts(sent') : n.op = k => n = m /\ m.step = "act"
        BY <1>6, <4>1 DEF Unused, Acts
      <4> QED BY <1>2, <4>1, <4>2 DEF Unused
    <3> QED BY <3>1, <3>2
  <2> QED BY <1>2, <1>5, <2>1, <2>2, <2>3, <2>4 DEF Facts, MessageFacts
<1>14. TaskFacts'
  <2>1. CASE h.step = "discover"
    BY <1>3, <2>1, <1>4 DEF TaskFacts, Unused
  <2>2. CASE h.step # "discover"
    BY <1>7, <2>2 DEF TaskFacts, Done
  <2> QED BY <2>1, <2>2
<1>15. FirstTry'
  <2> SUFFICES ASSUME h.step = "act", ~h.again
               PROVE  /\ \A n \in Acts(sent') : n.op = h.op => n = m
                      /\ m \in sent' => journal'[h.op] = None
                      /\ \A r \in replies' : r.msg = m /\ r.kind = "unrecorded" =>
                           journal'[h.op] = None /\ \A n \in Acts(sent') : n.op # h.op
    BY <1>2 DEF FirstTry
  <2>1. Unused(h.op)
    OBVIOUS
  <2>2. \A r \in replies : r.msg # m
    BY <1>2, <2>1 DEF Facts, MessageFacts, Unused
  <2> QED BY <1>6, <2>1, <2>2 DEF Unused, Acts
<1>16. FilesKnown'
  <2>1. CASE ops' = ops
    BY <1>4, <2>1 DEF Facts, FilesKnown, Done
  <2>2. CASE ops' # ops
    <3>1. /\ Unsettled' = {h.op} /\ ops'[h.op].plan = h.plan /\ h.plan.fp = relay.fp
          /\ journal[h.op] = None /\ Unsettled = {}
      BY <1>3, <1>4, <2>2 DEF Unused, row
    <3>2. relay.fp # None
      BY <1>1, <3>1, RelayPanelAssumption DEF Plans
    <3> QED BY <3>1, <3>2 DEF Facts, FilesKnown, Done
  <2> QED BY <2>1, <2>2
<1>17. Expected'
  BY <1>2, <1>4, <1>6, <1>7 DEF Facts, Expected, Fits
<1> QED BY <1>9, <1>10, <1>11, <1>12, <1>13, <1>14, <1>15, <1>16, <1>17 DEF Facts

\* A relay without a fingerprint has no operation.
LEMMA NoOperation ==
  ASSUME PanelInv, Facts, relay = None \/ relay.fp = None
  PROVE  Unsettled = {} /\ Running = {}
<1>1. ASSUME NEW k \in Unsettled PROVE FALSE
  <2>1. k \in OpId /\ ops[k] \in OperationRow
    BY DEF Unsettled, PanelInv, RowType
  <2> QED BY <2>1, RelayPanelAssumption DEF Facts, FilesKnown, OperationRow, Plans
<1>2. ASSUME NEW h \in Running PROVE FALSE
  <2>1. h.plan.fp \in Files /\ relay # None
    BY RunningRow DEF OperationTask, Plans
  <2> QED BY <1>1, <2>1, RunningRow, RelayPanelAssumption DEF Facts, TaskFacts
<1> QED BY <1>1, <1>2

\* What an operation that is under way has to do with the files.
LEMMA OwnFiles ==
  ASSUME PanelInv, Facts, NEW h \in Running, h.step # "discover"
  PROVE  /\ Unsettled = {h.op} /\ ops[h.op].plan = h.plan /\ relay # None /\ relay.fp \in Files
         /\ files = IF Done(h.op) THEN journal[h.op].result ELSE relay.fp
         /\ journal[h.op] # None => journal[h.op].hash = Asked(h.plan)
<1>1. h.op \in Unsettled /\ h.op \in OpId /\ ops[h.op] # None /\ ops[h.op].plan = h.plan
  BY RunningRow DEF Facts, TaskFacts
<1>2. h.plan \in Plans
  BY RunningRow DEF OperationTask
<1> QED BY <1>1, <1>2 DEF Facts, FilesKnown, MessageFacts, Plans

\* An operation is settled, and the row has the fingerprint of the files.
LEMMA SettleKeeps ==
  ASSUME PanelInv, Facts, NEW h \in Running, h.step # "discover",
         NEW status \in {"succeeded", "failed"},
         ops' = [ops EXCEPT ![h.op].status = status],
         UNCHANGED <<files, journal, sent, registered>>,
         replies' \subseteq replies, tasks' = tasks \ {h},
         relay' # None, relay'.id = relay.id, relay'.fp = files,
         relay'.status = "ready" => Installed(files),
         status = "failed" => ~Done(h.op),
         \A m \in Acts(sent) : m.op = h.op => journal[m.op] # None \/ ~Fits(m.request)
  PROVE  Facts'
<1>1. /\ h.op \in OpId /\ h.of = relay.id /\ relay # None /\ ops[h.op] \in OperationRow
      /\ Unsettled = {h.op} /\ files # None
  BY RunningRow, OwnFiles, RelayPanelAssumption DEF PanelInv, HostType
<1>2. /\ ops'[h.op] = [status |-> status, plan |-> ops[h.op].plan] /\ ops'[h.op] # None
      /\ \A k \in OpId \ {h.op} : ops'[k] = ops[k]
  <2>1. [ops[h.op] EXCEPT !.status = status] = [status |-> status, plan |-> ops[h.op].plan]
    BY <1>1 DEF OperationRow
  <2>2. [status |-> status, plan |-> ops[h.op].plan] # None
    BY <1>1, RowIsRow DEF OperationRow
  <2> QED BY <1>1, <2>1, <2>2 DEF PanelInv, RowType
<1>3. Unsettled' = {}
  BY <1>1, <1>2 DEF Unsettled
<1>4. Running' = {}
  <2>1. Running' \subseteq Running \ {h}
    BY <1>1 DEF Running, Mine
  <2> QED BY <2>1 DEF PanelInv, OneRunning
<1>5. HostFacts' /\ ReadyRow'
  BY <1>1 DEF Facts, HostFacts, ReadyRow, Fits, Done
<1>6. MessageFacts'
  <2>1. \A k \in OpId : (ops'[k] # None <=> ops[k] # None) /\ (ops[k] # None => ops'[k].plan = ops[k].plan)
    BY <1>1, <1>2, RunningRow
  <2>2. \A m \in Acts(sent) : m.op \in OpId
    BY DEF Acts, PanelInv, SentType
  <2> QED BY <1>1, <2>1, <2>2 DEF Facts, MessageFacts, ReplyFacts
<1>7. TaskFacts' /\ FirstTry'
  BY <1>4 DEF TaskFacts, FirstTry
<1>8. ReplyFacts'
  BY <1>1 DEF Facts, ReplyFacts, Fits, Done
<1>9. FilesKnown'
  BY <1>3 DEF FilesKnown
<1>10. Expected'
  BY <1>1, <1>3 DEF Facts, Expected, Fits, Acts
<1>11. FailedUndone'
  BY <1>2 DEF Facts, FailedUndone, Done
<1> QED BY <1>5, <1>6, <1>7, <1>8, <1>9, <1>10, <1>11 DEF Facts

LEMMA CommitKeeps ==
  ASSUME PanelInv, Facts, NEW h \in tasks, NEW r \in replies, Commit(h, r)
  PROVE  Facts'
<1>1. /\ tasks' = tasks \ {h} /\ replies' \subseteq replies
      /\ UNCHANGED <<files, journal, sent, registered, faults, loose>>
      /\ h.kind = "operation" /\ h.step = "look"
  BY DEF Commit, Settle, host
<1>2. CASE ~Mine(h)
  BY <1>1, <1>2, FadesKeeps DEF Commit, db, Fades, Fainter
<1>3. CASE Mine(h)
  <2>1. h \in Running /\ relay \in RelayRow /\ h.got = files
    <3>1. h \in Running /\ relay \in RelayRow
      BY <1>1, <1>3 DEF Running, Mine, PanelInv, RowType
    <3>2. Done(h.op) /\ journal[h.op].result = h.got
      BY <1>1, <3>1 DEF Facts, TaskFacts
    <3> QED BY <1>1, <3>1, <3>2, OwnFiles
  <2>2. Done(h.op)
    BY <1>1, <2>1 DEF Facts, TaskFacts
  <2>3. PICK active \in BOOLEAN :
          relay' = [relay EXCEPT !.fp = h.got, !.fresh = TRUE, !.status = RowStatus(h.got, active)]
    BY <1>3 DEF Commit
  <2>4. /\ relay' \in RelayRow /\ relay' # None /\ relay'.id = relay.id /\ relay'.fp = files
        /\ relay'.status = "ready" => Installed(files)
    <3>1. /\ relay' \in RelayRow /\ relay'.id = relay.id /\ relay'.fp = files
          /\ relay'.status = "ready" => Installed(files)
      BY <2>1, <2>3 DEF RelayRow, RowStatus, PanelInv, HostType
    <3> QED BY <3>1, RelayPanelAssumption
  <2>5. ops' = [ops EXCEPT ![h.op].status = "succeeded"]
    BY <1>3 DEF Commit
  <2> QED BY <1>1, <2>1, <2>2, <2>4, <2>5, SettleKeeps DEF Done
<1> QED BY <1>2, <1>3

\* A verdict "uncertain" is no news, "failed" is true.
LEMMA FailKeeps ==
  ASSUME PanelInv, Facts, NEW h \in tasks, h.step # "discover", NEW r \in replies,
         r.msg = Message(h), Fail(h, r), ~loose'
  PROVE  Facts'
<1>1. /\ tasks' = tasks \ {h} /\ replies' \subseteq replies
      /\ UNCHANGED <<files, journal, sent, routes, registered, faults>>
      /\ h.kind = "operation" /\ relay' = HealthOf(h, "offline")
      /\ ops' = IF Mine(h) THEN [ops EXCEPT ![h.op].status = Verdict(r)] ELSE ops
      /\ ~(r.kind = "unrecorded" /\ (h.step = "look" \/ h.again))
  BY DEF Fail, Settle, host
<1>2. Fainter
  BY <1>1, HealthFainter
<1>3. CASE ~Mine(h)
  BY <1>1, <1>2, <1>3, FadesKeeps DEF Fades
<1>4. CASE Mine(h) /\ Verdict(r) = "uncertain"
  <2>1. h \in Running
    BY <1>1, <1>4 DEF Running
  <2>2. h.op \in Unsettled /\ h.op \in OpId
    BY <2>1, RunningRow
  <2> QED BY <1>1, <1>2, <1>4, <2>2, FadesKeeps DEF Fades, PanelInv, RowType
<1>5. CASE Mine(h) /\ Verdict(r) = "failed"
  <2>1. h \in Running /\ h.op \in OpId /\ r.kind \in {"refused", "unrecorded"} /\ relay # None
    BY <1>1, <1>5, RunningRow DEF Running, Verdict
  <2>2. /\ r.msg.step = h.step /\ r.msg.op = h.op
        /\ h.step = "act" => r.msg.request = Asked(h.plan)
    BY DEF Message, Asked
  <2>3. h.step \in {"act", "look"}
    BY <2>1, RunningRow DEF OperationTask, Step
  <2>4. h.step = "act"
    BY <1>1, <2>1, <2>2, <2>3 DEF Facts, ReplyFacts
  <2>5. \A m \in Acts(sent) : m.op = h.op => m.request = Asked(h.plan)
    BY <2>1, <2>4, RunningRow, OwnFiles DEF Facts, MessageFacts
  <2>6. /\ ~Done(h.op)
        /\ \A m \in Acts(sent) : m.op = h.op => journal[m.op] # None \/ ~Fits(m.request)
    <3>1. CASE r.kind = "unrecorded"
      BY <1>1, <2>1, <2>2, <2>4, <3>1 DEF Facts, FirstTry, Done
    <3>2. CASE r.kind = "refused"
      <4>1. \/ ~Fits(Asked(h.plan))
            \/ journal[h.op] # None /\ ~(Done(h.op) /\ journal[h.op].hash = Asked(h.plan))
        BY <2>2, <2>4, <3>2 DEF Facts, ReplyFacts
      <4>2. Done(h.op) => Fits(Asked(h.plan)) /\ journal[h.op].hash = Asked(h.plan)
        BY <2>1, <2>4, OwnFiles DEF Facts, HostFacts, Done
      <4> QED BY <2>5, <4>1, <4>2
    <3> QED BY <2>1, <3>1, <3>2
  <2>7. relay.fp = files
    BY <2>1, <2>4, <2>6, OwnFiles
  <2>8. /\ relay' # None /\ relay'.id = relay.id /\ relay'.fp = files
        /\ relay'.status = "ready" => Installed(files)
    BY <1>2, <2>1, <2>7 DEF Fainter, Facts, ReadyRow
  <2> QED BY <1>1, <1>5, <2>1, <2>4, <2>6, <2>8, SettleKeeps
<1> QED BY <1>3, <1>4, <1>5 DEF Verdict

\* A check takes only the fingerprint of the present files.
LEMMA CheckedKeeps ==
  ASSUME PanelInv, Facts, NEW h \in tasks, h.kind # "operation", NEW r \in replies,
         r.msg = Message(h), NEW active \in BOOLEAN, relay' = Checked(h, r, active),
         UNCHANGED <<files, journal, sent, ops, registered>>,
         replies' \subseteq replies, tasks' \subseteq tasks
  PROVE  Facts'
<1>1. CASE ~(Mine(h) /\ r.kind = "ok" /\ Matches(r))
  <2>1. Fainter
    BY <1>1, HealthFainter DEF Checked
  <2> QED BY <2>1, FadesKeeps DEF Fades
<1>2. CASE Mine(h) /\ r.kind = "ok" /\ Matches(r)
  <2>1. relay # None /\ relay \in RelayRow /\ r.got \in Files
    BY <1>2 DEF Mine, PanelInv, RowType, ReplyType
  <2>2. /\ relay' = [relay EXCEPT !.fresh = TRUE, !.fp = r.got, !.status = RowStatus(r.got, active)]
        /\ relay' \in RelayRow /\ relay' # None /\ relay'.id = relay.id /\ relay'.fp = r.got
        /\ relay'.status = "ready" => Installed(r.got)
    <3>1. relay' = [relay EXCEPT !.fresh = TRUE, !.fp = r.got, !.status = RowStatus(r.got, active)]
      BY <1>2 DEF Checked
    <3>2. /\ relay' \in RelayRow /\ relay'.id = relay.id /\ relay'.fp = r.got
          /\ relay'.status = "ready" => Installed(r.got)
      BY <2>1, <3>1 DEF RelayRow, RowStatus
    <3> QED BY <3>1, <3>2, RelayPanelAssumption
  <2>3. h.step = "look" /\ r.msg.step = "look" /\ r.msg.of = relay.id
    BY <1>2 DEF PanelInv, TaskType, OperationTask, StatusTask, Message, Mine
  <2>4. r.got # None /\ relay'.fp # None
    BY <2>1, <2>2, RelayPanelAssumption
  <2>5. relay.fp = r.got \/ (relay.fp = None /\ r.got = files)
    BY <1>2, <2>1, <2>3 DEF Matches, Facts, ReplyFacts
  <2>6. Unsettled' = Unsettled /\ Running' \subseteq Running
    BY <2>1, <2>2 DEF Unsettled, Running, Mine
  <2>7. HostFacts' /\ MessageFacts' /\ Expected' /\ FailedUndone'
    BY <2>1, <2>2, <2>6 DEF Facts, HostFacts, MessageFacts, Expected, FailedUndone, Fits, Done
  <2>8. ReplyFacts' /\ ReadyRow'
    BY <2>2, <2>4 DEF Facts, ReplyFacts, ReadyRow, Fits, Done
  <2>9. CASE relay.fp = r.got
    <3>1. TaskFacts' /\ FirstTry'
      BY <2>2, <2>6, <2>9 DEF Facts, TaskFacts, FirstTry, Unused, Message, Done
    <3>2. FilesKnown'
      BY <2>1, <2>2, <2>6, <2>9 DEF Facts, FilesKnown, Done
    <3> QED BY <2>7, <2>8, <3>1, <3>2 DEF Facts
  <2>10. CASE relay.fp = None /\ r.got = files
    <3>1. Unsettled' = {} /\ Running' = {}
      BY <2>6, <2>10, NoOperation
    <3>2. TaskFacts' /\ FirstTry' /\ FilesKnown'
      BY <2>2, <2>10, <3>1 DEF TaskFacts, FirstTry, FilesKnown
    <3> QED BY <2>7, <2>8, <3>2 DEF Facts
  <2> QED BY <2>5, <2>9, <2>10
<1> QED BY <1>1, <1>2

\* What is deleted is uninstalled, and nothing is under way.
LEMMA CompleteDeleteKeeps ==
  ASSUME PanelInv, Facts, NEW h \in tasks, NEW r \in replies,
         r.msg = Message(h), CompleteDelete(h, r), ~loose'
  PROVE  Facts'
<1>1. /\ tasks' = tasks \ {h} /\ replies' \subseteq replies
      /\ UNCHANGED <<files, journal, sent, registered, faults>>
      /\ h.kind # "operation"
  BY DEF CompleteDelete, Settle, host
<1>2. CASE Mine(h) /\ Removable(r)
  <2>1. /\ relay' = None /\ ops' = [k \in OpId |-> None]
        /\ Unsettled = {} /\ files = r.got /\ ~Installed(r.got)
    BY <1>2 DEF CompleteDelete, Removable
  <2>2. /\ Unsettled' = {} /\ Running' = {} /\ \A k \in OpId : ops'[k] = None
    BY <2>1 DEF Unsettled, Running, Mine
  <2>3. HostFacts' /\ ReplyFacts' /\ ReadyRow' /\ TaskFacts' /\ FirstTry' /\ FilesKnown' /\ FailedUndone'
    BY <1>1, <2>1, <2>2
       DEF Facts, HostFacts, ReplyFacts, ReadyRow, TaskFacts, FirstTry, FilesKnown, FailedUndone,
           Fits, Done
  <2>4. MessageFacts'
    BY <1>1, <2>1, <2>2 DEF Facts, MessageFacts
  <2>5. Expected'
    BY <1>1, <2>1, <2>2 DEF Facts, Expected, Fits
  <2> QED BY <2>3, <2>4, <2>5 DEF Facts
<1>3. CASE ~(Mine(h) /\ Removable(r))
  <2>1. (\E active \in BOOLEAN : relay' = Checked(h, r, active)) /\ UNCHANGED ops
    BY <1>3 DEF CompleteDelete
  <2> QED BY <1>1, <2>1, CheckedKeeps
<1> QED BY <1>2, <1>3

LEMMA RegisterKeeps ==
  ASSUME PanelInv, Facts, Register
  PROVE  Facts'
<1>1. /\ registered' = registered + 1 /\ registered \in Nat
      /\ relay = None /\ relay' = [id |-> registered', fp |-> None, status |-> "pending", fresh |-> FALSE]
      /\ UNCHANGED <<files, journal, sent, replies, ops, tasks>>
  BY RelayPanelAssumption DEF Register, host, net, PanelInv, BoundType
<1>2. relay' \in RelayRow /\ relay' # None
  <2>1. relay' \in RelayRow
    <3>1. registered' \in 1..MaxRegistrations
      BY RelayPanelAssumption DEF Register, PanelInv, BoundType
    <3> QED BY <1>1, <3>1 DEF RelayRow
  <2> QED BY <2>1, RelayPanelAssumption
<1>3. \A h \in tasks : h.of \in Nat /\ h.of <= registered
  BY DEF PanelInv, TaskType, OperationTask, StatusTask
<1>4. Unsettled' = {} /\ Running' = {}
  BY <1>1, <1>2, <1>3, NoOperation DEF Unsettled, Running, Mine
<1>5. HostFacts' /\ ReadyRow' /\ TaskFacts' /\ FirstTry' /\ FailedUndone'
  BY <1>1, <1>4 DEF Facts, HostFacts, ReadyRow, TaskFacts, FirstTry, FailedUndone, Fits, Done
<1>6. MessageFacts' /\ ReplyFacts'
  <2>1. /\ \A m \in sent : m.of \in 1..registered' /\ m.of # registered'
        /\ \A r \in replies : r.msg.of \in 1..registered' /\ r.msg.of # registered'
    BY <1>1 DEF Facts, MessageFacts
  <2>2. relay'.id = registered'
    BY <1>1
  <2>3. \A m \in Acts(sent) : m.of # relay'.id
    BY <2>1, <2>2 DEF Acts
  <2>4. MessageFacts'
    BY <1>1, <2>1, <2>2, <2>3 DEF Facts, MessageFacts
  <2>5. ReplyFacts'
    BY <1>1, <2>1, <2>2 DEF Facts, ReplyFacts, Fits, Done
  <2> QED BY <2>4, <2>5
<1>7. FilesKnown'
  BY <1>1, <1>2, <1>4 DEF FilesKnown
<1>8. Expected'
  BY <1>1, <1>4, NoOperation DEF Facts, Expected, Fits
<1> QED BY <1>5, <1>6, <1>7, <1>8 DEF Facts

LEMMA MutateKeeps ==
  ASSUME PanelInv, Facts, NEW op \in OpId, NEW ch \in Change, Mutate(op, ch)
  PROVE  Facts'
<1> DEFINE step == IF ch.action = "apply" THEN "discover" ELSE "act"
           h == Operation(op, Plan(ch), step, FALSE)
<1>1. /\ relay # None /\ relay.fp # None /\ Accepted(ch) /\ Running = {} /\ Unused(op)
      /\ Unsettled = {}
  BY DEF Mutate
<1>2. Plan(ch) \in Plans /\ step \in {"discover", "act"}
  BY <1>1, PlanType
<1>3. /\ h \in OperationTask /\ h.of = relay.id /\ h.op = op /\ h.plan = Plan(ch)
      /\ h.step = step /\ ~h.again /\ h.kind = "operation" /\ h.plan.fp = relay.fp
  BY <1>1, <1>2, RelayType DEF Operation, OperationTask, Step, Plan
<1>4. /\ tasks' = tasks \cup {h}
      /\ IF h.step = "act" THEN Store(op, h.plan) /\ sent' = sent \cup {Message(h)}
         ELSE UNCHANGED <<sent, ops>>
      /\ UNCHANGED <<host, replies, relay, routes, registered, faults, loose>>
  BY DEF Mutate
<1> HIDE DEF h
<1>5. Running' = {h}
  BY <1>1, <1>3, <1>4 DEF Running, Mine
<1>6. files' = files /\ journal' = journal
  BY <1>4 DEF host
<1> QED BY <1>1, <1>2, <1>3, <1>4, <1>5, <1>6, BeginKeeps

LEMMA ReconcileKeeps ==
  ASSUME PanelInv, Facts, NEW op \in OpId, Reconcile(op)
  PROVE  Facts'
<1> DEFINE h == Operation(op, ops[op].plan, "act", TRUE)
<1>1. relay # None /\ Running = {} /\ op \in Unsettled
  BY DEF Reconcile
<1>2. ops[op].plan \in Plans
  BY <1>1 DEF PanelInv, RowType, Unsettled, OperationRow
<1>3. /\ h \in OperationTask /\ h.of = relay.id /\ h.op = op /\ h.step = "act" /\ h.again
      /\ h.plan = ops[op].plan /\ h.kind = "operation"
  BY <1>1, <1>2, RelayType DEF Operation, OperationTask, Step, Unsettled
<1>4. /\ tasks' = tasks \cup {h} /\ sent' = sent \cup {Message(h)}
      /\ UNCHANGED <<host, replies, db, registered, faults, loose>>
  BY DEF Reconcile
<1> HIDE DEF h
<1>5. Running' = {h}
  BY <1>1, <1>3, <1>4 DEF Running, Mine, db
<1>6. files' = files /\ journal' = journal /\ relay' = relay /\ ops' = ops
  BY <1>4 DEF host, db
<1> QED BY <1>1, <1>3, <1>4, <1>5, <1>6, BeginKeeps

LEMMA DiscoveredKeeps ==
  ASSUME PanelInv, Facts, NEW h \in tasks, NEW confirmed \in BOOLEAN, Discovered(h, confirmed)
  PROVE  Facts'
<1>1. h.step = "discover" /\ h \in OperationTask /\ files' = files /\ journal' = journal
  BY DEF Discovered, PanelInv, TaskType, StatusTask, host
<1>2. CASE confirmed /\ Mine(h)
  <2> DEFINE a == [h EXCEPT !.step = "act", !.try = faults]
  <2>1. h \in Running /\ relay # None
    BY <1>1, <1>2 DEF Running, Mine, OperationTask
  <2>2. Unused(h.op) /\ Unsettled = {} /\ h.plan.fp = relay.fp /\ ~h.again
    BY <1>1, <2>1 DEF Facts, TaskFacts
  <2>3. /\ a \in OperationTask /\ a.of = relay.id /\ a.step = "act" /\ a.kind = "operation"
        /\ a.op = h.op /\ a.plan = h.plan /\ a.again = h.again
    BY <1>1, <1>2, RelayType DEF OperationTask, Step, Mine
  <2>4. /\ Store(h.op, h.plan) /\ sent' = sent \cup {Message(a)}
        /\ tasks' = (tasks \ {h}) \cup {a}
        /\ UNCHANGED <<host, replies, relay, routes, registered, faults, loose>>
    BY <1>2 DEF Discovered
  <2> HIDE DEF a
  <2>5. Running' = {a}
    BY <2>1, <2>3, <2>4 DEF Running, Mine, PanelInv, OneRunning
  <2> QED BY <1>1, <2>1, <2>2, <2>3, <2>4, <2>5, BeginKeeps
<1>3. CASE ~(confirmed /\ Mine(h))
  <2>1. /\ tasks' = tasks \ {h} /\ UNCHANGED <<sent, ops>>
        /\ UNCHANGED <<host, replies, relay, routes, registered, faults, loose>>
    BY <1>3 DEF Discovered
  <2> QED BY <1>1, <2>1, FadesKeeps DEF Fades, Fainter
<1> QED BY <1>2, <1>3

LEMMA AppliedKeeps ==
  ASSUME PanelInv, Facts, NEW h \in tasks, NEW r \in replies, r.msg = Message(h), Applied(h, r)
  PROVE  Facts'
<1>1. /\ h.step = "act" /\ h \in OperationTask /\ r.got \in Files /\ r.kind = "ok"
      /\ UNCHANGED <<files, journal, relay, ops, registered>> /\ replies' \subseteq replies
  BY DEF Applied, PanelInv, TaskType, StatusTask, ReplyType, Settle, host, db
<1>2. CASE Mine(h)
  <2> DEFINE l == [h EXCEPT !.step = "look", !.got = r.got]
  <2>1. /\ l \in OperationTask /\ l.of = relay.id /\ l.step = "look" /\ l.kind = "operation"
        /\ l.got = r.got /\ l.op = h.op /\ l.plan = h.plan
    BY <1>1, <1>2 DEF OperationTask, Step, Mine
  <2>2. sent' = sent \cup {Message(l)} /\ tasks' = (tasks \ {h}) \cup {l}
    BY <1>2 DEF Applied, Settle
  <2>3. h \in Running /\ relay # None /\ h.op \in Unsettled /\ h.op \in OpId
    BY <1>1, <1>2, RunningRow DEF Running, OperationTask, Mine
  <2> HIDE DEF l
  <2>4. Running' = {l}
    BY <1>1, <2>1, <2>2, <2>3 DEF Running, Mine, PanelInv, OneRunning
  <2>5. h.plan = ops[h.op].plan
    BY <1>1, <2>3 DEF Facts, TaskFacts
  <2>6. Done(h.op) /\ journal[h.op].result = r.got
    <3>1. r.msg.step = "act" /\ r.msg.op = h.op
      BY <1>1 DEF Message
    <3>2. Done(h.op) /\ journal[h.op] = [hash |-> r.msg.request, result |-> r.got]
      BY <1>1, <3>1 DEF Facts, ReplyFacts
    <3> QED BY <3>2
  <2> QED BY <1>1, <2>1, <2>2, <2>3, <2>4, <2>5, <2>6, BeginKeeps
<1>3. CASE ~Mine(h)
  <2>1. /\ tasks' = tasks \ {h} /\ sent' = sent
    BY <1>3 DEF Applied, Settle
  <2> QED BY <1>1, <2>1, FadesKeeps DEF Fades, Fainter
<1> QED BY <1>2, <1>3

LEMMA FactsInit == Init => CountedOn
<1> SUFFICES ASSUME Init PROVE Facts
  BY DEF CountedOn
<1>1. /\ files = NoFiles /\ journal = [k \in OpId |-> None] /\ sent = {} /\ replies = {}
      /\ relay = None /\ ops = [k \in OpId |-> None] /\ tasks = {}
  BY DEF Init
<1>2. ~Installed(files)
  BY <1>1 DEF NoFiles, Installed
<1>3. Unsettled = {} /\ Running = {}
  BY <1>1 DEF Unsettled, Running
<1>4. HostFacts /\ MessageFacts /\ TaskFacts /\ FirstTry /\ ReplyFacts
  BY <1>1, <1>2, <1>3 DEF HostFacts, MessageFacts, TaskFacts, FirstTry, ReplyFacts, Done, Acts
<1>5. FilesKnown /\ Expected /\ FailedUndone /\ ReadyRow
  BY <1>1, <1>2, <1>3 DEF FilesKnown, Expected, FailedUndone, ReadyRow, Acts
<1> QED BY <1>4, <1>5 DEF Facts

\* Once a request is forgotten, it stays so.
LEMMA LooseStays == ASSUME [Next]_vars, loose PROVE loose'
BY DEF Next, vars, Register, Check, Delete, Call, Restart, Age, Reconcile, Mutate, GiveUp,
       Discovered, HostStep, Execute, Replay, Report, Busy, Refuse, Handle, Applied, Commit,
       Fail, CompleteCheck, CompleteDelete

LEMMA FactsStep == PanelInv /\ CountedOn /\ [Next]_vars => CountedOn'
<1> SUFFICES ASSUME PanelInv, CountedOn, [Next]_vars, ~loose' PROVE Facts'
  BY DEF CountedOn
<1>1. ~loose /\ Facts
  <2>1. ~loose
    BY LooseStays DEF PanelInv, BoundType
  <2> QED BY <2>1 DEF CountedOn
<1>2. CASE Register
  BY <1>1, <1>2, RegisterKeeps
<1>3. CASE Check \/ Delete
  BY <1>1, <1>3, CallKeeps DEF Check, Delete
<1>4. CASE Restart
  <2>1. Fades
    BY <1>4 DEF Restart, Fades, Fainter, host, db
  <2> QED BY <1>1, <2>1, FadesKeeps
<1>5. CASE Age
  <2>1. relay \in RelayRow /\ relay' = [relay EXCEPT !.fresh = FALSE]
    BY <1>5 DEF Age, PanelInv, RowType
  <2>2. relay' \in RelayRow
    BY <2>1 DEF RelayRow
  <2>3. Fades
    BY <1>5, <2>1, <2>2, RelayPanelAssumption DEF Age, Fades, Fainter, host, net, RelayRow
  <2> QED BY <1>1, <2>3, FadesKeeps
<1>6. ASSUME NEW op \in OpId, Reconcile(op) \/ \E ch \in Request : Mutate(op, ch)
      PROVE  Facts'
  <2>1. Request \subseteq Change
    BY DEF Request
  <2> QED BY <1>1, <1>6, <2>1, ReconcileKeeps, MutateKeeps
<1>7. ASSUME NEW h \in tasks, GiveUp(h)
      PROVE  Facts'
  <2>1. Fainter
    BY <1>7, HealthFainter DEF GiveUp
  <2>2. \A k \in OpId : \/ ops'[k] = ops[k]
                        \/ k \in Unsettled /\ ops'[k] = [ops[k] EXCEPT !.status = "uncertain"]
    <3>1. CASE h.kind = "operation" /\ Mine(h)
      <4>1. h.op \in Unsettled /\ h.op \in OpId
        BY <1>7, <3>1, RunningRow DEF GiveUp, Running
      <4> QED BY <1>7, <3>1, <4>1 DEF GiveUp, PanelInv, RowType
    <3>2. CASE ~(h.kind = "operation" /\ Mine(h))
      BY <1>7, <3>2 DEF GiveUp
    <3> QED BY <3>1, <3>2
  <2>3. Fades
    BY <1>7, <2>1, <2>2 DEF GiveUp, Fades, host
  <2> QED BY <1>1, <2>3, FadesKeeps
<1>8. ASSUME NEW h \in tasks, NEW confirmed \in BOOLEAN, Discovered(h, confirmed)
      PROVE  Facts'
  BY <1>1, <1>8, DiscoveredKeeps
<1>9. ASSUME NEW m \in sent, HostStep(m)
      PROVE  Facts'
  BY <1>1, <1>9, HostStepKeeps
<1>10. ASSUME NEW r \in replies, Handle(r)
       PROVE  Facts'
  <2>1. PICK h \in tasks :
          /\ h.step # "discover" /\ r.msg = Message(h)
          /\ Applied(h, r) \/ Commit(h, r) \/ Fail(h, r) \/ CompleteCheck(h, r) \/ CompleteDelete(h, r)
    BY <1>10 DEF Handle
  <2>2. CASE CompleteCheck(h, r)
    <3>1. /\ h.kind # "operation" /\ \E active \in BOOLEAN : relay' = Checked(h, r, active)
          /\ UNCHANGED <<files, journal, sent, ops, registered>>
          /\ replies' \subseteq replies /\ tasks' \subseteq tasks
      BY <2>2 DEF CompleteCheck, Settle, host
    <3> QED BY <1>1, <2>1, <3>1, CheckedKeeps
  <2> QED BY <1>1, <2>1, <2>2, AppliedKeeps, CommitKeeps, FailKeeps, CompleteDeleteKeeps
<1>11. CASE UNCHANGED vars
  <2>1. Fades
    BY <1>11 DEF vars, Fades, Fainter, host, net, db
  <2> QED BY <1>1, <2>1, FadesKeeps
<1> QED BY <1>2, <1>3, <1>4, <1>5, <1>6, <1>7, <1>8, <1>9, <1>10, <1>11 DEF Next

LEMMA FactsHold == Spec => [](PanelInv /\ CountedOn)
<1>1. PanelInv /\ CountedOn /\ [Next]_vars => PanelInv' /\ CountedOn'
  BY PanelStep, FactsStep
<1> QED BY <1>1, PanelInit, FactsInit, PTL DEF Spec

\* InStep: with no operation under way or unsettled, the fingerprint of a relay
\* row is that of the host's files, whatever was given up, repeated, reconciled
\* (relay/service.ts) or registered again.
THEOREM InStepHolds == Spec => []InStep
<1>1. PanelInv /\ CountedOn => InStep
  BY DEF PanelInv, BoundType, CountedOn, Facts, FilesKnown, InStep
<1> QED BY <1>1, FactsHold, PTL

\* FailedDidNothing: a definite failure (relay/service.ts, perform) is one, also
\* of an operation that was sent several times, and no late copy changes that.
THEOREM FailedDidNothingHolds == Spec => []FailedDidNothing
<1>1. ASSUME PanelInv, CountedOn
      PROVE  FailedDidNothing
  <2>1. ~loose => \A k \in OpId : ops[k] # None /\ ops[k].status = "failed" => ~Done(k)
    BY <1>1 DEF CountedOn, Facts, FailedUndone
  <2> QED BY <2>1 DEF FailedDidNothing, Done
<1> QED BY <1>1, FactsHold, PTL

\* DeletedUninstalled: when DELETE /relays/:id has removed the rows, the host
\* forwards nothing, and no request that is still on its way makes it do so.
THEOREM DeletedUninstalledHolds == Spec => []DeletedUninstalled
<1>1. PanelInv /\ CountedOn => DeletedUninstalled
  BY DEF PanelInv, BoundType, CountedOn, Facts, FilesKnown, DeletedUninstalled
<1> QED BY <1>1, FactsHold, PTL

\* EndpointServed: the endpoint a new connection gets (endpoint of
\* relay/service.ts) is one the configuration of the relay host listens on.
THEOREM EndpointServedHolds == Spec => []EndpointServed
<1>1. ASSUME PanelInv, CountedOn, ~loose, NEW r \in RouteId, Endpoint(r)
      PROVE  <<routes[r].port, r>> \in files.config
  <2>1. relay # None /\ relay.status = "ready" /\ Unsettled = {} /\ routes[r] # None /\ routes[r].enabled
    BY <1>1 DEF Endpoint
  <2>2. relay.fp # None /\ relay.fp = files /\ Installed(files)
    BY <1>1, <2>1 DEF CountedOn, Facts, ReadyRow, FilesKnown
  <2>3. routes = RoutesOf(files) /\ files.config = Rendered(RoutesOf(files))
    BY <1>1, <2>1, <2>2 DEF CountedOn, Facts, HostFacts, PanelInv, RowsOfOneState
  <2> QED BY <2>1, <2>3 DEF Rendered, Known
<1>2. PanelInv /\ CountedOn => EndpointServed
  BY <1>1 DEF EndpointServed
<1> QED BY <1>2, FactsHold, PTL
=============================================================================
