----------------------------- MODULE PanelProofs -----------------------------
(***************************************************************************)
(* Proofs about Panel, for any number of connections, operations, calls,   *)
(* faults, polls and discoveries.  PanelInv says how the rows, the         *)
(* records, the handlers, the messages and the node have to do with one    *)
(* another; the safety invariants of Panel and the finality of a record    *)
(* follow from it.                                                         *)
(***************************************************************************)
EXTENDS Panel, TLAPS

-----------------------------------------------------------------------------
(* The invariant.                                                          *)

Called == {"create", "suspend", "resume", "revoke", "import"}

Proper(h) ==
  /\ h \in HandlerType
  /\ h.task \in Called => h.op \in OpId /\ h.conn \in Conn
  /\ h.step = "undo" => h.task = "create"
HandlerInv == \A h \in handlers : Proper(h)

\* What is known of a message that was sent, answered or given up.
Sound(m) ==
  /\ m \in MessageType
  /\ m.action \in MutationActions => m.conn \in Conn
  /\ m.action = "create" => m.op \in OpId

NodeInv ==
  /\ config \in Content /\ config.edits <= counts.faults
  /\ parked \subseteq Conn /\ policy \in Policies
  /\ \A j \in journal :
       /\ j \in [op: Id, action: MutationActions, conn: Conn, ok: BOOLEAN]
       /\ j.action = "create" => j.op \in OpId
NetInv ==
  /\ \A m \in sent : Sound(m) /\ m.action \notin {"discover", "list"}
  /\ \A r \in replies :
       /\ Sound(r.msg) /\ r.ok \in BOOLEAN /\ r.fp \in Content
       /\ r.msg.action = "discover" => r.ok
       /\ r.msg.action = "apply-policy" /\ r.ok => r.policies \in Policies
RowInv ==
  /\ instance \in [fp: Content, mode: {"read-only", "observed", "managed"}]
  /\ row \in [Conn -> Row \cup {None}]
RecordInv ==
  \A r \in records :
    /\ r.status \in {"started", "succeeded", "failed"}
    /\ r.op \in OpId /\ r.conn \in Conn \cup {None}
MemoryInv ==
  /\ poll \in Policies \cup {None}
  /\ counts \in [faults: 0..MaxFaults, polls: 0..MaxPolls, finds: 0..MaxFinds]
  /\ drifted \in BOOLEAN
  /\ doubtful \subseteq Conn /\ enforced \subseteq Conn
  /\ given \subseteq OpId \X Conn

Types == HandlerInv /\ NodeInv /\ NetInv /\ RowInv /\ RecordInv /\ MemoryInv

\* One record for one operation id of a kind of request; a request under way
\* has one that is started, and is the only one that has it.
Recorded ==
  /\ \A r, s \in records : r.scope = s.scope /\ r.op = s.op => r = s
  /\ \A h \in handlers : h.task # "discover" => NewRecord(h, "started") \in records
  /\ \A h, g \in handlers :
       h.task # "discover" /\ Scope(h) = Scope(g) /\ h.op = g.op => h = g

\* Operation op creates, has created or would create the peer of c.
Creates(op, c) ==
  \/ \E h \in handlers : h.task = "create" /\ h.op = op /\ h.conn = c
  \/ \E m \in sent : m.action = "create" /\ m.op = op /\ m.conn = c
  \/ \E r \in replies : r.msg.action = "create" /\ r.msg.op = op /\ r.msg.conn = c
  \/ \E j \in journal : j.action = "create" /\ j.op = op /\ j.conn = c

CreatedByOne ==
  /\ \A op \in OpId, c \in Conn :
       Creates(op, c) => Known(<<"create", None>>, op) /\ c \notin Foreign
  /\ \A op, o \in OpId, c \in Conn : Creates(op, c) /\ Creates(o, c) => op = o
  /\ \A op \in OpId, c, d \in Conn : Creates(op, c) /\ Creates(op, d) => c = d

\* A creation that is under way is sent once, is not in the journal yet, and is
\* answered once; either its request waits for it or its end is in doubt.
Waits(m) == \E h \in handlers : h.task = "create" /\ h.step = "call" /\ Message(h) = m
SentOnce ==
  /\ \A m, l \in sent : m.action = "create" /\ l.action = "create" /\ m.op = l.op => m = l
  /\ \A m \in sent, j \in journal :
       m.action = "create" /\ j.action = "create" => m.op # j.op
  /\ \A m \in sent : m.action = "create" => Waits(m) \/ m.conn \in doubtful
AnsweredOnce ==
  /\ \A q, r \in replies :
       q.msg.action = "create" /\ r.msg.action = "create" /\ q.msg.op = r.msg.op => q = r
  /\ \A m \in sent, r \in replies :
       m.action = "create" /\ r.msg.action = "create" => m.op # r.msg.op
  /\ \A r \in replies : r.msg.action = "create" => Waits(r.msg)

\* What the journal keeps of a message.
Entry(m, ok) == [op |-> m.op, action |-> m.action, conn |-> m.conn, ok |-> ok]

\* The node did what it says it did, and what failed left no peer unless in doubt.
RepliesTrue ==
  \A r \in replies :
    /\ r.ok /\ r.msg.action \in MutationActions => Entry(r.msg, TRUE) \in journal
    /\ ~r.ok /\ r.msg.action = "create" => r.msg.conn \in doubtful \/ ~Present(r.msg.conn)

\* Every peer anybody knows was there from the beginning or has been created.
Created(c) == \E j \in journal : j.action = "create" /\ j.conn = c
Heard(c) ==
  \/ Present(c)
  \/ row[c] # None
  \/ \E j \in journal : j.conn = c /\ j.ok
  \/ \E r \in replies : c \in r.fp.peers
Origins == \A c \in Conn : Heard(c) => c \in Foreign \/ Created(c)

\* The node has revoked the peer of c.
Cut(c) == \E j \in journal : j.action = "revoke" /\ j.conn = c /\ j.ok
RevokedGone ==
  /\ \A c \in Conn : Cut(c) => ~Present(c)
  /\ \A c \in Conn : row[c] # None /\ row[c].revokedAt => Cut(c)

\* Only managed connections are changed and have policies; a peer the Panel
\* found is changed only when its connection is managed.
Managed(c) == row[c] # None /\ row[c].managed
ManagedOnly ==
  /\ \A h \in handlers : h.task \in {"suspend", "resume", "revoke"} => Managed(h.conn)
  /\ \A c \in Conn : policy[c] # None => Managed(c)
  /\ \A m \in sent : m.action = "apply-policy" => \A c \in Conn : m.policies[c] # None => Managed(c)
ForeignKept ==
  /\ \A c \in Foreign : Managed(c) \/ c \in config.peers
  /\ \A m \in sent : m.action \in {"disable", "enable", "revoke"} =>
       Managed(m.conn) \/ m.conn \notin Foreign

\* What is handed out is recorded as the issuance it belongs to.
GivenRecorded ==
  /\ \A g \in given :
       /\ row[g[2]] # None
       /\ \E r \in records : /\ r.scope = <<"create", None>> /\ r.op = g[1]
                             /\ r.conn = g[2] /\ r.status = "succeeded"
  /\ \A g, o \in given : o # g => o[1] # g[1] /\ o[2] # g[2]

\* A status of enforcement comes from the node, whatever way it took.
EnforcedKnown ==
  /\ \A c \in Conn : row[c] # None /\ row[c].status \in Enforced => c \in enforced
  /\ \A c \in Conn : policy[c] # None /\ policy[c].status \in Enforced => c \in enforced
  /\ \A m \in sent : m.action = "apply-policy" => \A c \in Conn :
       m.policies[c] # None /\ m.policies[c].status \in Enforced => c \in enforced
  /\ \A r \in replies : r.msg.action = "apply-policy" /\ r.ok => \A c \in Conn :
       r.policies[c] # None /\ r.policies[c].status \in Enforced => c \in enforced

\* A peer without a row belongs to a request that creates it or takes it back.
PeerWanted ==
  \A c \in Conn :
    Present(c) /\ row[c] = None /\ c \notin Foreign \cup doubtful =>
      \E h \in handlers : h.task = "create" /\ h.conn = c

PanelInv ==
  /\ Types /\ Recorded /\ CreatedByOne /\ SentOnce /\ AnsweredOnce /\ RepliesTrue /\ Origins
  /\ RevokedGone /\ ManagedOnly /\ ForeignKept
  /\ SucceededHappened /\ GivenRecorded /\ EnforcedKnown /\ PeerWanted

-----------------------------------------------------------------------------
(* The steps, in groups that change the state in one way.                  *)

\* A request that goes to the node begins.
Starts(h) ==
  \/ \E op \in OpId, c \in Conn, limits \in Limits :
       CreateConnection(op, c, limits) /\ h = Handler("create", op, c, FALSE, limits)
  \/ \E op \in OpId, c \in Conn, task \in {"suspend", "resume", "revoke"}, override \in BOOLEAN :
       ChangeConnection(task, op, c, override) /\ h = Handler(task, op, c, override, {})

\* A request that only reads the node begins.
Reads(h) ==
  \/ \E op \in OpId, c \in Conn :
       ImportPeer(op, c) /\ h = Handler("import", op, c, FALSE, {})
  \/ \E mode \in FoundModes :
       Discover(mode) /\ h = Handler("discover", None, None, FALSE, {})

\* A request that asks nobody is handled.
Local ==
  \/ \E op \in OpId, c \in Conn, n \in 0..2 : AdoptConnection(op, c, n)
  \/ \E op \in OpId, n \in 0..2 : ManageInstance(op, n)

\* The request of h is answered with r.
Ends(h, r) ==
  \/ \E alive \in BOOLEAN : CompleteIssuance(h, r, alive)
  \/ CompensateIssuance(h, r)
  \/ CompleteCompensation(h, r)
  \/ \E n \in 1..3, killed \in BOOLEAN : CompleteChange(h, r, n, killed)
  \/ CompleteImport(h, r)
  \/ CompleteDiscovery(h, r)
  \/ Fail(h, r)

Works(m) == Refuse(m) \/ ApplyPolicy(m) \/ \E ok \in BOOLEAN : Execute(m, ok)

LEMMA StepCases ==
  ASSUME [Next]_vars
  PROVE  \/ \E h : Starts(h)
         \/ \E h : Reads(h)
         \/ Local
         \/ \E m \in sent : Works(m)
         \/ \E c \in Conn : Enforce(c)
         \/ EditOutside
         \/ \E h \in handlers, r \in replies : r.msg = Message(h) /\ Ends(h, r)
         \/ \E r \in replies : CompletePoll(r)
         \/ \E h \in handlers : GiveUp(h)
         \/ Poll \/ GiveUpPoll \/ Restart
         \/ UNCHANGED vars
<1>1. ASSUME NEW op \in OpId, Requests(op)
      PROVE  (\E h : Starts(h)) \/ (\E h : Reads(h)) \/ Local
  BY <1>1 DEF Requests, Starts, Reads, Local
<1>2. ASSUME NEW mode \in FoundModes, Discover(mode) PROVE \E h : Reads(h)
  BY <1>2 DEF Reads
<1>3. ASSUME NEW r \in replies, Handle(r)
      PROVE  \E h \in handlers : r.msg = Message(h) /\ Ends(h, r)
  BY <1>3 DEF Handle, Ends
<1>4. CASE NodeStep
  BY <1>4 DEF NodeStep, Works
<1> QED BY <1>1, <1>2, <1>3, <1>4 DEF Next

\* The Panel is killed.
Killed ==
  /\ handlers' = {} /\ poll' = None /\ replies' = {} /\ sent' = sent
  /\ doubtful' = doubtful \cup {h.conn : h \in {g \in handlers : g.task = "create"}}
  /\ node' = node /\ enforced' = enforced /\ drifted' = TRUE
  /\ Fault

LEMMA KillFacts == Kill => Killed
BY DEF Kill, Killed

LEMMA StartFacts ==
  ASSUME NEW h, Starts(h)
  PROVE  /\ handlers' = handlers \cup {h} /\ sent' = sent \cup {Message(h)}
         /\ records' = records \cup {NewRecord(h, "started")} /\ ~Known(Scope(h), h.op)
         /\ UNCHANGED <<node, replies, instance, row, poll, counts, drifted, history>>
         /\ h.op \in OpId /\ h.conn \in Conn /\ h.fp = instance.fp /\ h.step = "call"
         /\ h.task = "create" => Fresh(h.conn)
         /\ h.task \in {"create", "suspend", "resume", "revoke"}
         /\ h.task # "create" => Managed(h.conn)
<1>1. ASSUME NEW op \in OpId, NEW c \in Conn, NEW limits \in Limits,
             CreateConnection(op, c, limits), h = Handler("create", op, c, FALSE, limits)
      PROVE  Begin(h) /\ h.op = op /\ h.conn = c /\ h.fp = instance.fp /\ h.step = "call"
               /\ h.task = "create" /\ Fresh(c)
  BY <1>1 DEF CreateConnection, Handler
<1>2. ASSUME NEW op \in OpId, NEW c \in Conn, NEW task \in {"suspend", "resume", "revoke"},
             NEW override \in BOOLEAN, ChangeConnection(task, op, c, override),
             h = Handler(task, op, c, override, {})
      PROVE  Begin(h) /\ h.op = op /\ h.conn = c /\ h.fp = instance.fp /\ h.step = "call"
               /\ h.task = task /\ Managed(c)
  BY <1>2 DEF ChangeConnection, Handler, Managed
<1>3. Begin(h) => /\ handlers' = handlers \cup {h} /\ sent' = sent \cup {Message(h)}
                  /\ records' = records \cup {NewRecord(h, "started")} /\ ~Known(Scope(h), h.op)
                  /\ UNCHANGED <<node, replies, instance, row, poll, counts, drifted, history>>
  BY DEF Begin, Send
<1> QED BY <1>1, <1>2, <1>3 DEF Starts

LEMMA ReadFacts ==
  ASSUME NEW h, Reads(h)
  PROVE  /\ handlers' = handlers \cup {h}
         /\ \E mode \in FoundModes \cup {None} : replies' = replies \cup
              {[msg |-> Message(h), ok |-> TRUE, fp |-> config, mode |-> mode, policies |-> None]}
         /\ UNCHANGED <<node, sent, instance, row, poll, drifted, history>>
         /\ h.step = "call" /\ h.fp = instance.fp
         /\ \/ /\ h.task = "import" /\ h.op \in OpId /\ h.conn \in Conn
               /\ records' = records \cup {NewRecord(h, "started")} /\ ~Known(Scope(h), h.op)
               /\ UNCHANGED counts
            \/ /\ h.task = "discover" /\ h.op = None /\ h.conn = None
               /\ records' = records
               /\ \A g \in handlers : g.task # "discover"
               /\ Count("finds", MaxFinds)
<1>1. ASSUME NEW op \in OpId, NEW c \in Conn, ImportPeer(op, c),
             h = Handler("import", op, c, FALSE, {})
      PROVE  /\ Reading(h, None) /\ h.step = "call" /\ h.fp = instance.fp
             /\ h.task = "import" /\ h.op = op /\ h.conn = c
             /\ records' = records \cup {NewRecord(h, "started")} /\ ~Known(Scope(h), h.op)
             /\ UNCHANGED <<counts, drifted>>
  BY <1>1 DEF ImportPeer, Handler
<1>2. ASSUME NEW mode \in FoundModes, Discover(mode),
             h = Handler("discover", None, None, FALSE, {})
      PROVE  /\ Reading(h, mode) /\ h.step = "call" /\ h.fp = instance.fp
             /\ h.task = "discover" /\ h.op = None /\ h.conn = None /\ records' = records
             /\ \A g \in handlers : g.task # "discover"
             /\ Count("finds", MaxFinds)
             /\ drifted' = drifted
  BY <1>2 DEF Discover, Handler
<1>3. ASSUME NEW mode \in FoundModes \cup {None}, Reading(h, mode)
      PROVE  /\ handlers' = handlers \cup {h}
             /\ \E md \in FoundModes \cup {None} : replies' = replies \cup
                  {[msg |-> Message(h), ok |-> TRUE, fp |-> config, mode |-> md, policies |-> None]}
             /\ UNCHANGED <<node, sent, instance, row, poll, history>>
  BY <1>3 DEF Reading
<1> QED BY <1>1, <1>2, <1>3 DEF Reads

LEMMA LocalFacts ==
  ASSUME Local
  PROVE  /\ \E r : /\ records' = records \cup {r} /\ ~Known(r.scope, r.op)
                   /\ r.scope[1] \in {"adopt", "manage"}
                   /\ r.op \in OpId /\ r.conn \in Conn \cup {None}
                   /\ r.status \in {"started", "succeeded"}
         /\ \/ row' = row
            \/ \E c \in Conn : row[c] # None /\ row' = [row EXCEPT ![c].managed = TRUE]
         /\ \/ instance' = instance
            \/ instance' = [instance EXCEPT !.mode = "managed"]
         /\ Killed \/ UNCHANGED <<node, net, memory, counts, drifted, doubtful, enforced>>
         /\ given' = given
<1>1. ASSUME NEW op \in OpId, NEW c \in Conn, NEW n \in 0..2, AdoptConnection(op, c, n)
      PROVE  /\ \E r : /\ records' = records \cup {r} /\ ~Known(r.scope, r.op)
                       /\ r.scope[1] \in {"adopt", "manage"}
                       /\ r.op \in OpId /\ r.conn \in Conn \cup {None}
                       /\ r.status \in {"started", "succeeded"}
             /\ row[c] # None
             /\ row' = row \/ row' = [row EXCEPT ![c].managed = TRUE]
             /\ instance' = instance
             /\ Killed \/ UNCHANGED <<node, net, memory, counts, drifted, doubtful, enforced>>
             /\ given' = given
  <2> DEFINE h == Handler("adopt", op, c, FALSE, {})
             r == NewRecord(h, IF n > 1 THEN "succeeded" ELSE "started")
  <2>1. r.scope = Scope(h) /\ Scope(h)[1] = "adopt" /\ r.op = op /\ h.op = op
          /\ r.conn \in {c, None} /\ r.status \in {"started", "succeeded"}
    BY DEF NewRecord, Scope, Handler
  <2>2. ~Known(Scope(h), op) /\ records' = records \cup {r}
    BY <1>1 DEF AdoptConnection
  <2>3. Killed \/ UNCHANGED <<node, net, memory, counts, drifted, doubtful, enforced>>
    BY <1>1, KillFacts DEF AdoptConnection, Survive, history
  <2> HIDE DEF r, h
  <2>4. /\ row[c] # None
        /\ row' = row \/ row' = [row EXCEPT ![c].managed = TRUE]
        /\ instance' = instance /\ given' = given
    BY <1>1 DEF AdoptConnection, Survive, history
  <2> QED BY <2>1, <2>2, <2>3, <2>4
<1>2. ASSUME NEW op \in OpId, NEW n \in 0..2, ManageInstance(op, n)
      PROVE  /\ \E r : /\ records' = records \cup {r} /\ ~Known(r.scope, r.op)
                       /\ r.scope[1] \in {"adopt", "manage"}
                       /\ r.op \in OpId /\ r.conn \in Conn \cup {None}
                       /\ r.status \in {"started", "succeeded"}
             /\ row' = row
             /\ \/ instance' = instance
                \/ instance' = [instance EXCEPT !.mode = "managed"]
             /\ Killed \/ UNCHANGED <<node, net, memory, counts, drifted, doubtful, enforced>>
             /\ given' = given
  <2> DEFINE h == Handler("manage", op, None, FALSE, {})
             r == NewRecord(h, IF n > 1 THEN "succeeded" ELSE "started")
  <2>1. r.scope = Scope(h) /\ Scope(h)[1] = "manage" /\ r.op = op /\ h.op = op
          /\ r.conn = None /\ r.status \in {"started", "succeeded"}
    BY DEF NewRecord, Scope, Handler
  <2>2. ~Known(Scope(h), op) /\ records' = records \cup {r}
    BY <1>2 DEF ManageInstance
  <2>3. Killed \/ UNCHANGED <<node, net, memory, counts, drifted, doubtful, enforced>>
    BY <1>2, KillFacts DEF ManageInstance, Survive, history
  <2> HIDE DEF r, h
  <2>4. /\ row' = row
        /\ instance' = instance \/ instance' = [instance EXCEPT !.mode = "managed"]
        /\ given' = given
    BY <1>2 DEF ManageInstance, Survive, history
  <2> QED BY <2>1, <2>2, <2>3, <2>4
<1> QED BY <1>1, <1>2 DEF Local

-----------------------------------------------------------------------------
(* Messages and records.                                                   *)

LEMMA RpcValues ==
  /\ DOMAIN Rpc = Called \cup {"discover"}
  /\ Rpc["create"] = "create" /\ Rpc["suspend"] = "disable" /\ Rpc["resume"] = "enable"
  /\ Rpc["revoke"] = "revoke" /\ Rpc["import"] = "list" /\ Rpc["discover"] = "discover"
BY DEF Rpc, Called

LEMMA TargetValues ==
  /\ DOMAIN Target = {"suspend", "resume", "revoke"}
  /\ Target["suspend"] = "suspended" /\ Target["resume"] = "active"
  /\ Target["revoke"] = "revoked"
BY DEF Target

\* What the message of a request asks for.
LEMMA MessageFacts ==
  ASSUME NEW h, Proper(h)
  PROVE  /\ Message(h).conn = h.conn
         /\ h.step = "undo" => Message(h).action = "revoke"
         /\ h.step = "call" => Message(h).op = h.op /\ Message(h).action = Rpc[h.task]
         /\ h.step \in {"call", "undo"}
         /\ Message(h).action = "create" <=> h.task = "create" /\ h.step = "call"
         /\ Message(h).action = "discover" <=> h.task = "discover"
         /\ Message(h).action = "list" <=> h.task = "import"
         /\ Message(h).action # "apply-policy"
         /\ Sound(Message(h))
<1>1. h \in HandlerType /\ h.step \in {"call", "undo"} /\ h.task \in Called \cup {"discover"}
  BY RpcValues DEF Proper, HandlerType
<1>2. Message(h).conn = h.conn /\ Message(h).fp = h.fp /\ Message(h).override = h.override
  BY DEF Message
<1>3. CASE h.step = "undo"
  <2>1. h.task = "create" /\ h.conn \in Conn /\ h.op \in OpId
    BY <1>3 DEF Proper, Called
  <2>2. Message(h) = [action |-> "revoke", op |-> Undo(h.op), conn |-> h.conn,
                      fp |-> h.fp, override |-> h.override]
    BY <1>3 DEF Message
  <2>3. Undo(h.op) \in Id /\ "revoke" \in {Rpc[task] : task \in DOMAIN Rpc}
    BY <2>1, RpcValues DEF Id, Called
  <2>4. Message(h) \in MessageType
    BY <1>1, <2>1, <2>2, <2>3 DEF MessageType, HandlerType
  <2> QED BY <1>2, <1>3, <2>1, <2>2, <2>4 DEF Sound
<1>4. CASE h.step = "call"
  <2>1. Message(h) = [action |-> Rpc[h.task], op |-> h.op, conn |-> h.conn,
                      fp |-> h.fp, override |-> h.override]
    BY <1>4 DEF Message
  <2>2. h.op \in Id /\ Rpc[h.task] \in {Rpc[task] : task \in DOMAIN Rpc}
    BY <1>1, RpcValues DEF Id, HandlerType
  <2>3. Message(h) \in MessageType
    BY <1>1, <2>1, <2>2 DEF MessageType, HandlerType
  <2>4. /\ Message(h).action = Rpc[h.task] /\ Message(h).op = h.op
        /\ Rpc[h.task] = "create" <=> h.task = "create"
        /\ Rpc[h.task] = "discover" <=> h.task = "discover"
        /\ Rpc[h.task] = "list" <=> h.task = "import"
        /\ Rpc[h.task] # "apply-policy"
        /\ Rpc[h.task] \in MutationActions => h.task \in Called
    BY <1>1, <2>1, RpcValues DEF Called, MutationActions
  <2>5. Sound(Message(h))
    BY <1>2, <2>3, <2>4 DEF Sound, Proper, Called
  <2> QED BY <1>2, <1>4, <2>4, <2>5
<1> QED BY <1>1, <1>3, <1>4

LEMMA RecordFacts ==
  ASSUME NEW h, NEW status
  PROVE  /\ NewRecord(h, status).scope = Scope(h) /\ NewRecord(h, status).op = h.op
         /\ NewRecord(h, status).status = status
         /\ NewRecord(h, status).conn = IF status = "succeeded" THEN h.conn ELSE None
         /\ Scope(h)[1] = h.task
         /\ h.task = "create" => Scope(h) = <<"create", None>>
BY DEF NewRecord, Scope

\* To finish a request replaces its own record, which was started.
LEMMA FinishedFacts ==
  ASSUME Recorded, NEW h \in handlers, h.task # "discover", NEW status
  PROVE  Finished(h, status) =
           (records \ {NewRecord(h, "started")}) \cup {NewRecord(h, status)}
<1>1. NewRecord(h, "started") \in records
  BY DEF Recorded
<1>2. \A r \in records : r.scope = Scope(h) /\ r.op = h.op => r = NewRecord(h, "started")
  BY <1>1, RecordFacts DEF Recorded
<1> QED BY <1>2, RecordFacts DEF Finished

-----------------------------------------------------------------------------
(* What the steps of each group do.                                        *)

LEMMA AnswerFacts ==
  ASSUME NEW m, NEW ok \in BOOLEAN, NEW mode, NEW policies, Answer(m, ok, mode, policies)
  PROVE  /\ sent' = sent \ {m}
         /\ \/ replies' = replies
            \/ \E r : /\ replies' = replies \cup {r} /\ r.msg = m /\ r.fp = config'
                      /\ r.ok = ok /\ Awaited(m) /\ r.policies = policies
<1> DEFINE r == [msg |-> m, ok |-> ok, fp |-> config', mode |-> mode, policies |-> policies]
<1>1. r.msg = m /\ r.fp = config' /\ r.ok = ok /\ r.policies = policies
  OBVIOUS
<1>2. /\ sent' = sent \ {m}
      /\ replies' = IF Awaited(m) THEN replies \cup {r} ELSE replies
  BY DEF Answer
<1> HIDE DEF r
<1> QED BY <1>1, <1>2

\* The node takes a message and answers it.
LEMMA WorkFacts ==
  ASSUME NEW m \in sent, Works(m)
  PROVE  /\ sent' = sent \ {m}
         /\ UNCHANGED <<db, memory, enforced, given>>
         /\ \/ replies' = replies
            \/ \E r : /\ replies' = replies \cup {r} /\ r.msg = m /\ r.fp = config'
                      /\ r.ok \in BOOLEAN /\ Awaited(m)
                      /\ r.ok /\ m.action \in MutationActions => Entry(m, TRUE) \in journal'
                      /\ ~r.ok => m.conn \in doubtful' \/ UNCHANGED <<config, parked>>
                      /\ m.action = "apply-policy" /\ r.ok => r.policies = policy'
         /\ \/ journal' = journal
            \/ \E ok \in BOOLEAN : journal' = journal \cup {Entry(m, ok)} /\ m.action \in MutationActions
<1>1. ASSUME Refuse(m)
      PROVE  /\ sent' = sent \ {m} /\ UNCHANGED <<db, memory, enforced, given, config, parked>>
             /\ \/ replies' = replies
                \/ \E r : /\ replies' = replies \cup {r} /\ r.msg = m /\ r.fp = config'
                          /\ r.ok = FALSE /\ Awaited(m)
             /\ \/ journal' = journal
                \/ journal' = journal \cup {Entry(m, FALSE)} /\ m.action \in MutationActions
  <2>1. Answer(m, FALSE, None, None)
    BY <1>1 DEF Refuse
  <2>2. /\ UNCHANGED <<db, memory, enforced, given, config, parked>>
        /\ \/ journal' = journal
           \/ journal' = journal \cup {Entry(m, FALSE)} /\ m.action \in MutationActions
    BY <1>1 DEF Refuse, Journal, Entry, history
  <2>3. /\ sent' = sent \ {m}
        /\ \/ replies' = replies
           \/ \E r : /\ replies' = replies \cup {r} /\ r.msg = m /\ r.fp = config'
                     /\ r.ok = FALSE /\ Awaited(m)
    <3> DEFINE no == FALSE
    <3>1. Answer(m, no, None, None) /\ no \in BOOLEAN
      BY <2>1
    <3> HIDE DEF no
    <3>2. /\ sent' = sent \ {m}
          /\ \/ replies' = replies
             \/ \E r : /\ replies' = replies \cup {r} /\ r.msg = m /\ r.fp = config'
                       /\ r.ok = no /\ Awaited(m)
      BY <3>1, AnswerFacts
    <3> QED BY <3>2 DEF no
  <2> QED BY <2>2, <2>3
<1>2. ASSUME ApplyPolicy(m)
      PROVE  /\ sent' = sent \ {m} /\ UNCHANGED <<db, memory, enforced, given, journal>>
             /\ \/ replies' = replies
                \/ \E r : /\ replies' = replies \cup {r} /\ r.msg = m /\ r.fp = config'
                          /\ r.ok = TRUE /\ Awaited(m) /\ r.policies = policy'
             /\ m.action \notin MutationActions
  <2>1. Answer(m, TRUE, None, policy')
    BY <1>2 DEF ApplyPolicy
  <2>2. UNCHANGED <<db, memory, enforced, given, journal>> /\ m.action \notin MutationActions
    BY <1>2 DEF ApplyPolicy, history, MutationActions
  <2> QED BY <2>1, <2>2, AnswerFacts
<1>3. ASSUME NEW ok \in BOOLEAN, Execute(m, ok)
      PROVE  /\ sent' = sent \ {m} /\ UNCHANGED <<db, memory, enforced, given>>
             /\ \/ replies' = replies
                \/ \E r : /\ replies' = replies \cup {r} /\ r.msg = m /\ r.fp = config'
                          /\ r.ok = ok /\ Awaited(m)
             /\ journal' = journal \cup {Entry(m, ok)}
             /\ m.action \in MutationActions
             /\ ~ok => m.conn \in doubtful'
  <2>1. Answer(m, ok, None, None)
    BY <1>3 DEF Execute
  <2>2. /\ UNCHANGED <<db, memory, enforced, given>>
        /\ journal' = journal \cup {Entry(m, ok)}
        /\ m.action \in MutationActions
        /\ ~ok => m.conn \in doubtful'
    BY <1>3 DEF Execute, Journal, Entry
  <2>3. /\ sent' = sent \ {m}
        /\ \/ replies' = replies
           \/ \E r : /\ replies' = replies \cup {r} /\ r.msg = m /\ r.fp = config'
                     /\ r.ok = ok /\ Awaited(m)
    BY <2>1, AnswerFacts
  <2> QED BY <2>2, <2>3
<1> USE DEF MutationActions
<1>4. CASE Refuse(m)
  BY <1>1, <1>4
<1>5. CASE ApplyPolicy(m)
  BY <1>2, <1>5
<1>6. ASSUME NEW ok \in BOOLEAN, Execute(m, ok)
      PROVE  /\ sent' = sent \ {m} /\ UNCHANGED <<db, memory, enforced, given>>
             /\ \/ replies' = replies
                \/ \E r : /\ replies' = replies \cup {r} /\ r.msg = m /\ r.fp = config'
                          /\ r.ok \in BOOLEAN /\ Awaited(m)
                          /\ r.ok /\ m.action \in MutationActions => Entry(m, TRUE) \in journal'
                          /\ ~r.ok => m.conn \in doubtful' \/ UNCHANGED <<config, parked>>
                          /\ m.action = "apply-policy" /\ r.ok => r.policies = policy'
             /\ \E o \in BOOLEAN : journal' = journal \cup {Entry(m, o)} /\ m.action \in MutationActions
  BY <1>3, <1>6
<1> QED BY <1>4, <1>5, <1>6 DEF Works

\* How a request ends: with a record or without, or it goes on to compensate.
LEMMA EndFacts ==
  ASSUME Types, NEW h \in handlers, NEW r \in replies, r.msg = Message(h), Ends(h, r)
  PROVE  /\ UNCHANGED <<node, enforced>>
         /\ \/ handlers' = handlers \ {h} /\ replies' = replies \ {r}
                 /\ UNCHANGED <<sent, poll>>
            \/ Killed
            \/ CompensateIssuance(h, r)
         /\ \/ records' = records /\ (Killed \/ h.task = "discover" \/ CompensateIssuance(h, r))
            \/ /\ \E status \in {"succeeded", "failed"} : records' = Finished(h, status)
               /\ h.task \in Called
         /\ doubtful \subseteq doubtful'
<1>1. Proper(h)
  BY DEF Types, HandlerInv
<1>2. h.task \in Called \cup {"discover"} /\ (h.task \notin Called => h.task = "discover")
  BY <1>1, RpcValues DEF Proper, HandlerType
<1>3. ASSUME NEW alive \in BOOLEAN, CompleteIssuance(h, r, alive)
      PROVE  /\ UNCHANGED <<node, enforced>> /\ records' = Finished(h, "succeeded")
             /\ h.task = "create" /\ doubtful \subseteq doubtful'
             /\ Killed \/ (handlers' = handlers \ {h} /\ replies' = replies \ {r}
                             /\ UNCHANGED <<sent, poll>>)
  <2>1. CASE alive
    BY <1>3, <2>1 DEF CompleteIssuance, Settle
  <2>2. CASE ~alive
    BY <1>3, <2>2, KillFacts DEF CompleteIssuance, Killed
  <2> QED BY <2>1, <2>2
<1>4. ASSUME CompensateIssuance(h, r)
      PROVE  UNCHANGED <<node, enforced>> /\ records' = records /\ doubtful' = doubtful
  BY <1>4 DEF CompensateIssuance, db, history
<1>5. ASSUME CompleteCompensation(h, r)
      PROVE  /\ UNCHANGED <<node, enforced, doubtful>> /\ records' = Finished(h, "failed")
             /\ h.task = "create"
             /\ handlers' = handlers \ {h} /\ replies' = replies \ {r} /\ UNCHANGED <<sent, poll>>
  BY <1>1, <1>5 DEF CompleteCompensation, Settle, history, Proper
<1>6. ASSUME NEW n \in 1..3, NEW killed \in BOOLEAN, CompleteChange(h, r, n, killed)
      PROVE  /\ UNCHANGED <<node, enforced>> /\ doubtful \subseteq doubtful'
             /\ h.task \in Called
             /\ Killed \/ (handlers' = handlers \ {h} /\ replies' = replies \ {r}
                             /\ UNCHANGED <<sent, poll>>)
             /\ \/ records' = records /\ Killed
                \/ records' = Finished(h, "succeeded") \/ records' = Finished(h, "failed")
  <2>1. h.task \in Called
    BY <1>6 DEF CompleteChange, Called
  <2>2. CASE killed
    BY <1>6, <2>1, <2>2, KillFacts DEF CompleteChange, Killed
  <2>3. CASE ~killed
    BY <1>6, <2>1, <2>3 DEF CompleteChange, Settle
  <2> QED BY <2>2, <2>3
<1>7. ASSUME CompleteImport(h, r)
      PROVE  /\ UNCHANGED <<node, enforced, doubtful>> /\ records' = Finished(h, "succeeded")
             /\ h.task \in Called
             /\ handlers' = handlers \ {h} /\ replies' = replies \ {r} /\ UNCHANGED <<sent, poll>>
  BY <1>7 DEF CompleteImport, Settle, history, Called
<1>8. ASSUME CompleteDiscovery(h, r)
      PROVE  /\ UNCHANGED <<node, enforced, doubtful, records>> /\ h.task = "discover"
             /\ handlers' = handlers \ {h} /\ replies' = replies \ {r} /\ UNCHANGED <<sent, poll>>
  BY <1>8 DEF CompleteDiscovery, Settle, history
<1>9. ASSUME Fail(h, r)
      PROVE  /\ UNCHANGED <<node, enforced>> /\ records' = Finished(h, "failed")
             /\ h.task \in Called /\ doubtful \subseteq doubtful'
             /\ handlers' = handlers \ {h} /\ replies' = replies \ {r} /\ UNCHANGED <<sent, poll>>
  <2>1. h.task # "discover"
    <3>1. h.task = "discover" => r.ok
      BY <1>1, MessageFacts DEF Types, NetInv
    <3> QED BY <1>9, <3>1 DEF Fail
  <2> QED BY <1>2, <1>9, <2>1 DEF Fail, Settle
<1>10. UNCHANGED <<node, enforced>> /\ doubtful \subseteq doubtful'
  BY <1>3, <1>4, <1>5, <1>6, <1>7, <1>8, <1>9 DEF Ends
<1>11. \/ handlers' = handlers \ {h} /\ replies' = replies \ {r} /\ UNCHANGED <<sent, poll>>
       \/ Killed
       \/ CompensateIssuance(h, r)
  BY <1>3, <1>5, <1>6, <1>7, <1>8, <1>9 DEF Ends
<1>12. \/ records' = records /\ (Killed \/ h.task = "discover" \/ CompensateIssuance(h, r))
       \/ /\ \E status \in {"succeeded", "failed"} : records' = Finished(h, status)
          /\ h.task \in Called
  BY <1>3, <1>4, <1>5, <1>6, <1>7, <1>8, <1>9 DEF Ends, Called
<1> QED BY <1>10, <1>11, <1>12

\* The other steps of the Panel, and those of the node that nobody asked for.
LEMMA GiveUpFacts ==
  ASSUME NEW h \in handlers, GiveUp(h)
  PROVE  /\ h.task # "discover"
         /\ records' = Finished(h, "failed") /\ handlers' = handlers \ {h}
         /\ replies' = {r \in replies : r.msg # Message(h)}
         /\ doubtful' = IF h.task = "create" THEN doubtful \cup {h.conn} ELSE doubtful
         /\ UNCHANGED <<node, sent, instance, row, poll, enforced, given>>
         /\ Fault /\ drifted' = TRUE
BY DEF GiveUp

LEMMA CompletePollFacts ==
  ASSUME NEW r \in replies, CompletePoll(r)
  PROVE  /\ r.msg.action = "apply-policy" /\ replies' = replies \ {r} /\ poll' = None
         /\ row' = IF r.ok THEN [c \in Conn |-> PolledRow(c, r.policies)] ELSE row
         /\ UNCHANGED <<node, sent, instance, records, handlers, counts, drifted, history>>
BY DEF CompletePoll

\* Steps that leave requests, records and connections alone.
LEMMA PollFacts ==
  ASSUME Poll
  PROVE  /\ sent' = sent \cup {[action |-> "apply-policy", policies |-> Projection]}
         /\ poll' = Projection
         /\ UNCHANGED <<node, replies, db, handlers, history>>
BY DEF Poll

LEMMA GiveUpPollFacts ==
  ASSUME GiveUpPoll
  PROVE  /\ replies' \subseteq replies /\ poll' = None /\ UNCHANGED <<node, sent, db, handlers, history>>
BY DEF GiveUpPoll

LEMMA EnforceFacts ==
  ASSUME NEW c \in Conn, Enforce(c)
  PROVE  UNCHANGED <<journal, net, db, memory, doubtful, given>> /\ enforced' = enforced \cup {c}
BY DEF Enforce

LEMMA EditFacts ==
  ASSUME EditOutside
  PROVE  UNCHANGED <<parked, policy, journal, net, db, memory, history>>
BY DEF EditOutside

LEMMA RestartFacts ==
  ASSUME Restart
  PROVE  Killed /\ UNCHANGED <<db, given>>
BY KillFacts DEF Restart

\* Nothing forgets what was done, doubted, stored or managed.
LEMMA JournalGrows ==
  ASSUME Types, [Next]_vars
  PROVE  journal \subseteq journal' /\ doubtful \subseteq doubtful' /\ enforced \subseteq enforced'
<1>1. ASSUME NEW m \in sent, Works(m)
      PROVE  journal \subseteq journal' /\ doubtful \subseteq doubtful' /\ enforced' = enforced
  <2>1. doubtful \subseteq doubtful'
    BY <1>1 DEF Works, Refuse, ApplyPolicy, Execute, history
  <2> QED BY <1>1, <2>1, WorkFacts
<1>2. ASSUME NEW h, Starts(h) \/ Reads(h) PROVE UNCHANGED <<node, history>>
  BY <1>2, StartFacts, ReadFacts
<1>3. CASE Local
  BY <1>3, LocalFacts DEF Killed, node
<1>4. ASSUME NEW h \in handlers, NEW r \in replies, r.msg = Message(h), Ends(h, r)
      PROVE  journal' = journal /\ doubtful \subseteq doubtful' /\ enforced' = enforced
  BY <1>4, EndFacts DEF node
<1>5. ASSUME NEW c \in Conn, Enforce(c)
      PROVE  journal' = journal /\ doubtful' = doubtful /\ enforced \subseteq enforced'
  BY <1>5, EnforceFacts
<1>6. CASE EditOutside
  BY <1>6, EditFacts DEF history
<1>7. ASSUME NEW h \in handlers, GiveUp(h)
      PROVE  journal' = journal /\ doubtful \subseteq doubtful' /\ enforced' = enforced
  BY <1>7, GiveUpFacts DEF node
<1>8. ASSUME (\E r \in replies : CompletePoll(r)) \/ Poll \/ GiveUpPoll \/ UNCHANGED vars
      PROVE  UNCHANGED <<node, history>>
  BY <1>8, CompletePollFacts, PollFacts, GiveUpPollFacts DEF vars
<1>9. CASE Restart
  BY <1>9, RestartFacts DEF Killed, node
<1> QED BY <1>1, <1>2, <1>3, <1>4, <1>5, <1>6, <1>7, <1>8, <1>9, StepCases DEF node, history

-----------------------------------------------------------------------------
(* The rows.                                                               *)

\* A row that is made or changed by the answer to a request.
Answered(h, r) ==
  /\ r.ok /\ r.msg = Message(h)
  /\ \/ /\ h.task = "create" /\ h.step = "call" /\ row[h.conn] = None
        /\ row' = [row EXCEPT ![h.conn] = Issued(h)]
        /\ records' = Finished(h, "succeeded")
     \/ /\ h.task \in {"suspend", "resume", "revoke"}
        /\ row' = [row EXCEPT ![h.conn] = RowAfter(h)]
     \/ /\ h.task = "import" /\ row[h.conn] = None /\ h.conn \in r.fp.peers
        /\ row' = [row EXCEPT ![h.conn] =
             [status |-> "active", managed |-> FALSE, imported |-> TRUE,
              revokedAt |-> FALSE, limits |-> {}]]

LEMMA EndRow ==
  ASSUME NEW h \in handlers, NEW r \in replies, r.msg = Message(h), Ends(h, r)
  PROVE  row' = row \/ Answered(h, r)
<1>1. ASSUME NEW alive \in BOOLEAN, CompleteIssuance(h, r, alive) PROVE Answered(h, r)
  BY <1>1 DEF CompleteIssuance, Answered
<1>2. CASE CompensateIssuance(h, r)
  BY <1>2 DEF CompensateIssuance, db
<1>3. CASE CompleteCompensation(h, r)
  BY <1>3 DEF CompleteCompensation
<1>4. ASSUME NEW n \in 1..3, NEW killed \in BOOLEAN, CompleteChange(h, r, n, killed)
      PROVE  row' = row \/ Answered(h, r)
  BY <1>4 DEF CompleteChange, Answered
<1>5. CASE CompleteImport(h, r)
  BY <1>5 DEF CompleteImport, Importable, Answered
<1>6. CASE CompleteDiscovery(h, r)
  BY <1>6 DEF CompleteDiscovery
<1>7. CASE Fail(h, r)
  BY <1>7 DEF Fail
<1> QED BY <1>1, <1>2, <1>3, <1>4, <1>5, <1>6, <1>7 DEF Ends

\* Where a row comes from.
LEMMA RowCases ==
  ASSUME [Next]_vars
  PROVE  \/ row' = row
         \/ \E c \in Conn : row[c] # None /\ row' = [row EXCEPT ![c].managed = TRUE]
         \/ \E h \in handlers, r \in replies : Answered(h, r)
         \/ \E r \in replies : /\ r.msg.action = "apply-policy" /\ r.ok
                               /\ row' = [c \in Conn |-> PolledRow(c, r.policies)]
                               /\ UNCHANGED enforced
<1>1. ASSUME NEW h, Starts(h) \/ Reads(h) PROVE row' = row
  BY <1>1, StartFacts, ReadFacts
<1>2. CASE Local
  BY <1>2, LocalFacts
<1>3. ASSUME NEW m \in sent, Works(m) PROVE row' = row
  BY <1>3, WorkFacts DEF db
<1>4. ASSUME (\E c \in Conn : Enforce(c)) \/ EditOutside \/ Poll \/ GiveUpPoll \/ Restart
               \/ UNCHANGED vars
      PROVE  row' = row
  BY <1>4, EnforceFacts, EditFacts, PollFacts, GiveUpPollFacts, RestartFacts DEF db, vars
<1>5. ASSUME NEW h \in handlers, GiveUp(h) PROVE row' = row
  BY <1>5, GiveUpFacts
<1>6. ASSUME NEW r \in replies, CompletePoll(r)
      PROVE  \/ row' = row
             \/ /\ r.msg.action = "apply-policy" /\ r.ok
                /\ row' = [c \in Conn |-> PolledRow(c, r.policies)]
                /\ UNCHANGED enforced
  BY <1>6, CompletePollFacts DEF history
<1> QED BY <1>1, <1>2, <1>3, <1>4, <1>5, <1>6, EndRow, StepCases

\* The row a change leaves.
LEMMA RowAfterFacts ==
  ASSUME NEW h \in handlers, Proper(h), RowInv, h.task \in {"suspend", "resume", "revoke"},
         Managed(h.conn)
  PROVE  /\ RowAfter(h) \in Row /\ RowAfter(h).managed
         /\ RowAfter(h).status = Target[h.task] /\ Target[h.task] \notin Enforced
         /\ RowAfter(h).revokedAt = (row[h.conn].revokedAt \/ h.task = "revoke")
<1>1. h.conn \in Conn /\ row[h.conn] \in Row /\ row[h.conn].managed
  BY DEF Proper, Called, RowInv, Managed
<1>2. Target[h.task] \in Status /\ Target[h.task] \notin Enforced
        /\ (Target[h.task] = "revoked") = (h.task = "revoke")
  BY TargetValues DEF Status, Enforced
<1>3. row[h.conn].limits \ {"expiry"} \in SUBSET LimitKind
  BY <1>1 DEF Row
<1>4. PICK l \in SUBSET LimitKind : RowAfter(h) =
        [row[h.conn] EXCEPT !.status = Target[h.task],
           !.revokedAt = row[h.conn].revokedAt \/ Target[h.task] = "revoked", !.limits = l]
  <2>1. row[h.conn].limits \in SUBSET LimitKind
    BY <1>1 DEF Row
  <2> QED BY <1>3, <2>1 DEF RowAfter
<1>5. RowAfter(h) \in Row
  BY <1>1, <1>2, <1>4 DEF Row
<1>6. /\ RowAfter(h).managed = row[h.conn].managed
      /\ RowAfter(h).status = Target[h.task]
      /\ RowAfter(h).revokedAt = (row[h.conn].revokedAt \/ Target[h.task] = "revoked")
  BY <1>1, <1>4 DEF Row
<1> QED BY <1>1, <1>2, <1>5, <1>6

\* What a poll leaves of a row.
LEMMA PolledFacts ==
  ASSUME RowInv, NEW policies \in Policies, NEW c \in Conn
  PROVE  /\ PolledRow(c, policies) = None <=> row[c] = None
         /\ PolledRow(c, policies) \in Row \cup {None}
         /\ row[c] # None =>
              /\ PolledRow(c, policies).managed = row[c].managed
              /\ PolledRow(c, policies).revokedAt = row[c].revokedAt
              /\ \/ PolledRow(c, policies) = row[c]
                 \/ /\ PolledRow(c, policies).status = policies[c].status
                    /\ policies[c] # None /\ policies[c].status \in Enforced
<1>1. CASE row[c] # None /\ policies[c] # None /\ policies[c].status \in Enforced
  <2>1. row[c] \in Row /\ policies[c].status \in Status
    BY <1>1 DEF RowInv, Status
  <2>2. PolledRow(c, policies) = [row[c] EXCEPT !.status = policies[c].status]
    BY <1>1 DEF PolledRow
  <2>3. PolledRow(c, policies) \in Row
    BY <2>1, <2>2 DEF Row
  <2>4. /\ PolledRow(c, policies).managed = row[c].managed
        /\ PolledRow(c, policies).revokedAt = row[c].revokedAt
        /\ PolledRow(c, policies).status = policies[c].status
    BY <2>1, <2>2 DEF Row
  <2>5. None \notin Row
    BY PanelAssumption
  <2> QED BY <1>1, <2>1, <2>3, <2>4, <2>5
<1>2. CASE ~(row[c] # None /\ policies[c] # None /\ policies[c].status \in Enforced)
  BY <1>2 DEF PolledRow, RowInv
<1> QED BY <1>1, <1>2

\* An answered request has a row, a managed one unless it imports.
LEMMA AnsweredFacts ==
  ASSUME Types, ManagedOnly, NEW h \in handlers, NEW r \in replies, Answered(h, r)
  PROVE  /\ Proper(h) /\ h.conn \in Conn /\ r.ok /\ r.msg.conn = h.conn
         /\ h.task \in {"suspend", "resume", "revoke"} =>
              Managed(h.conn) /\ row'[h.conn] = RowAfter(h)
         /\ h.task = "create" =>
              /\ row[h.conn] = None /\ row'[h.conn] = Issued(h)
              /\ r.msg.action = "create"
         /\ h.task = "import" =>
              /\ row[h.conn] = None /\ h.conn \in r.fp.peers
              /\ ~row'[h.conn].revokedAt /\ row'[h.conn].status = "active"
         /\ h.task \in {"create", "suspend", "resume", "revoke", "import"}
         /\ row'[h.conn] \in Row
         /\ \A c \in Conn \ {h.conn} : row'[c] = row[c]
         /\ DOMAIN row' = Conn
<1>1. Proper(h) /\ h.task \in Called /\ h.conn \in Conn
  BY DEF Types, HandlerInv, Proper, Answered, Called
<1>2. Message(h).conn = h.conn /\ (h.task = "create" /\ h.step = "call" => Message(h).action = "create")
  BY <1>1, MessageFacts
<1>3. \A v : row' = [row EXCEPT ![h.conn] = v] =>
        /\ row'[h.conn] = v /\ DOMAIN row' = Conn
        /\ \A c \in Conn \ {h.conn} : row'[c] = row[c]
  BY <1>1 DEF Types, RowInv
<1>4. CASE h.task = "create"
  <2>1. row' = [row EXCEPT ![h.conn] = Issued(h)]
    BY <1>4 DEF Answered
  <2>2. Issued(h) \in Row
    BY <1>1 DEF Proper, HandlerType, Issued, Row, Status
  <2> QED BY <1>1, <1>2, <1>3, <1>4, <2>1, <2>2 DEF Answered
<1>5. CASE h.task \in {"suspend", "resume", "revoke"}
  <2>1. Managed(h.conn) /\ row' = [row EXCEPT ![h.conn] = RowAfter(h)]
    BY <1>5 DEF Answered, ManagedOnly
  <2>2. RowAfter(h) \in Row
    BY <1>1, <1>5, <2>1, RowAfterFacts DEF Types
  <2> QED BY <1>1, <1>2, <1>3, <1>5, <2>1, <2>2 DEF Answered
<1>6. CASE h.task = "import"
  <2> DEFINE v == [status |-> "active", managed |-> FALSE, imported |-> TRUE,
                   revokedAt |-> FALSE, limits |-> {}]
  <2>1. v \in Row /\ ~v.revokedAt /\ v.status = "active"
    BY DEF Row, Status
  <2>2. row' = [row EXCEPT ![h.conn] = v] /\ row[h.conn] = None /\ h.conn \in r.fp.peers
          /\ r.ok /\ r.msg = Message(h)
    BY <1>6 DEF Answered
  <2> HIDE DEF v
  <2> QED BY <1>1, <1>2, <1>3, <1>6, <2>1, <2>2
<1> QED BY <1>1, <1>4, <1>5, <1>6 DEF Called

\* Rows keep their type, stay, and stay managed.
LEMMA RowKept ==
  ASSUME Types, ManagedOnly, [Next]_vars
  PROVE  /\ row' \in [Conn -> Row \cup {None}]
         /\ \A c \in Conn : row[c] # None => row'[c] # None
         /\ \A c \in Conn : Managed(c) => Managed(c)'
<1> DEFINE Keeps == /\ row' \in [Conn -> Row \cup {None}]
                    /\ \A c \in Conn : row[c] # None => row'[c] # None
                    /\ \A c \in Conn : Managed(c) => Managed(c)'
<1>1. row \in [Conn -> Row \cup {None}] /\ None \notin Row
  BY PanelAssumption DEF Types, RowInv
<1>2. CASE row' = row
  BY <1>1, <1>2 DEF Managed
<1>3. ASSUME NEW c \in Conn, row[c] # None, row' = [row EXCEPT ![c].managed = TRUE]
      PROVE  Keeps
  <2>1. row[c] \in Row
    BY <1>1, <1>3
  <2>2. row'[c] \in Row /\ row'[c].managed
    BY <1>1, <1>3, <2>1 DEF Row
  <2>3. \A d \in Conn \ {c} : row'[d] = row[d]
    BY <1>1, <1>3
  <2>4. row' \in [Conn -> Row \cup {None}]
    BY <1>1, <1>3, <2>2, <2>3
  <2> QED BY <1>1, <2>2, <2>3, <2>4 DEF Managed
<1>4. ASSUME NEW h \in handlers, NEW r \in replies, Answered(h, r)
      PROVE  Keeps
  <2>1. /\ row'[h.conn] \in Row /\ \A c \in Conn \ {h.conn} : row'[c] = row[c]
        /\ h.conn \in Conn
        /\ Managed(h.conn) => row'[h.conn].managed
    <3>1. h.task \in {"create", "import"} => ~Managed(h.conn)
      BY <1>4, AnsweredFacts DEF Managed
    <3>2. h.task \in {"suspend", "resume", "revoke"} => row'[h.conn].managed
      BY <1>4, AnsweredFacts, RowAfterFacts DEF Types
    <3> QED BY <1>4, <3>1, <3>2, AnsweredFacts
  <2>2. row' \in [Conn -> Row \cup {None}]
    <3>1. row' = [c \in Conn |-> row'[c]]
      BY <1>1, <1>4 DEF Answered
    <3> QED BY <1>1, <2>1, <3>1
  <2> QED BY <1>1, <2>1, <2>2 DEF Managed
<1>5. ASSUME NEW r \in replies, r.msg.action = "apply-policy", r.ok,
             row' = [c \in Conn |-> PolledRow(c, r.policies)]
      PROVE  Keeps
  <2>1. r.policies \in Policies /\ RowInv
    BY <1>5 DEF Types, NetInv
  <2> QED BY <1>1, <1>5, <2>1, PolledFacts DEF Managed
<1> QED BY <1>2, <1>3, <1>4, <1>5, RowCases

-----------------------------------------------------------------------------
(* What is new after a step.                                               *)

\* The request h goes on as the request to take its peer back.
Undoes(h, r) == [h EXCEPT !.step = "undo", !.fp = r.fp]

LEMMA UndoFacts ==
  ASSUME Types, NEW h \in handlers, NEW r \in replies, h.task = "create"
  PROVE  LET u == Undoes(h, r) IN
           /\ Proper(u) /\ u.task = "create" /\ u.step = "undo"
           /\ u.op = h.op /\ u.conn = h.conn /\ Scope(u) = Scope(h)
           /\ \A status : NewRecord(u, status) = NewRecord(h, status)
<1>1. h \in HandlerType /\ h.op \in OpId /\ h.conn \in Conn /\ r.fp \in Content
  BY DEF Types, HandlerInv, NetInv, Proper, Called
<1>2. Undoes(h, r) \in HandlerType /\ Undoes(h, r).step = "undo"
        /\ Undoes(h, r).task = "create" /\ Undoes(h, r).op = h.op /\ Undoes(h, r).conn = h.conn
  BY <1>1 DEF HandlerType, Undoes
<1>3. Scope(Undoes(h, r)) = Scope(h)
  BY <1>2 DEF Scope
<1> QED BY <1>1, <1>2, <1>3 DEF Proper, NewRecord

\* Where a request that waits comes from.
LEMMA HandlerCases ==
  ASSUME Types, [Next]_vars, NEW h \in handlers'
  PROVE  \/ h \in handlers
         \/ Starts(h)
         \/ Reads(h)
         \/ \E g \in handlers, r \in replies :
              /\ r.msg = Message(g) /\ CompensateIssuance(g, r) /\ h = Undoes(g, r)
<1>1. ASSUME NEW g, Starts(g) \/ Reads(g) PROVE handlers' = handlers \cup {g}
  BY <1>1, StartFacts, ReadFacts
<1>2. CASE Local
  BY <1>2, LocalFacts DEF Killed, memory
<1>3. ASSUME NEW m \in sent, Works(m) PROVE handlers' = handlers
  BY <1>3, WorkFacts DEF memory
<1>4. ASSUME (\E c \in Conn : Enforce(c)) \/ EditOutside \/ Poll \/ GiveUpPoll
               \/ UNCHANGED vars \/ \E r \in replies : CompletePoll(r)
      PROVE  handlers' = handlers
  BY <1>4, EnforceFacts, EditFacts, PollFacts, GiveUpPollFacts, CompletePollFacts DEF memory, vars
<1>5. ASSUME NEW g \in handlers, GiveUp(g) PROVE h \in handlers
  BY <1>5, GiveUpFacts
<1>6. CASE Restart
  BY <1>6, RestartFacts DEF Killed
<1>7. ASSUME NEW g \in handlers, NEW r \in replies, r.msg = Message(g), Ends(g, r)
      PROVE  \/ h \in handlers
             \/ CompensateIssuance(g, r) /\ h = Undoes(g, r)
  <2>1. CASE CompensateIssuance(g, r)
    <3>1. handlers' = (handlers \ {g}) \cup {Undoes(g, r)}
      BY <2>1 DEF CompensateIssuance, Undoes
    <3> QED BY <2>1, <3>1
  <2>2. CASE handlers' = handlers \ {g}
    BY <2>2
  <2>3. CASE Killed
    BY <2>3 DEF Killed
  <2> QED BY <1>7, <2>1, <2>2, <2>3, EndFacts
<1> QED BY <1>1, <1>2, <1>3, <1>4, <1>5, <1>6, <1>7, StepCases

\* Where a message comes from.
LEMMA SentCases ==
  ASSUME Types, [Next]_vars, NEW m \in sent'
  PROVE  \/ m \in sent
         \/ \E h : Starts(h) /\ m = Message(h)
         \/ \E g \in handlers, r \in replies :
              /\ r.msg = Message(g) /\ CompensateIssuance(g, r) /\ m = Message(Undoes(g, r))
         \/ Poll /\ m = [action |-> "apply-policy", policies |-> Projection]
<1>1. ASSUME NEW g, Starts(g) PROVE sent' = sent \cup {Message(g)}
  BY <1>1, StartFacts
<1>2. ASSUME NEW g, Reads(g) PROVE sent' = sent
  BY <1>2, ReadFacts
<1>3. CASE Local
  BY <1>3, LocalFacts DEF Killed, net
<1>4. ASSUME NEW l \in sent, Works(l) PROVE m \in sent
  BY <1>4, WorkFacts
<1>5. ASSUME (\E c \in Conn : Enforce(c)) \/ EditOutside \/ GiveUpPoll
               \/ UNCHANGED vars \/ \E r \in replies : CompletePoll(r)
      PROVE  sent' = sent
  BY <1>5, EnforceFacts, EditFacts, GiveUpPollFacts, CompletePollFacts DEF net, vars
<1>6. ASSUME NEW g \in handlers, GiveUp(g) PROVE sent' = sent
  BY <1>6, GiveUpFacts
<1>7. CASE Restart
  BY <1>7, RestartFacts DEF Killed
<1>8. CASE Poll
  BY <1>8, PollFacts
<1>9. ASSUME NEW g \in handlers, NEW r \in replies, r.msg = Message(g), Ends(g, r)
      PROVE  \/ m \in sent
             \/ CompensateIssuance(g, r) /\ m = Message(Undoes(g, r))
  <2>1. CASE CompensateIssuance(g, r)
    <3>1. sent' = sent \cup {Message(Undoes(g, r))}
      BY <2>1 DEF CompensateIssuance, Undoes
    <3> QED BY <2>1, <3>1
  <2>2. CASE sent' = sent
    BY <2>2
  <2> QED BY <1>9, <2>1, <2>2, EndFacts DEF Killed
<1> QED BY <1>1, <1>2, <1>3, <1>4, <1>5, <1>6, <1>7, <1>8, <1>9, StepCases

\* Where a reply comes from.
LEMMA ReplyCases ==
  ASSUME Types, [Next]_vars, NEW r \in replies'
  PROVE  \/ r \in replies
         \/ \E h : /\ Reads(h) /\ r.msg = Message(h) /\ r.ok = TRUE /\ r.fp = config
                   /\ UNCHANGED <<node, sent, doubtful>>
         \/ \E m \in sent : /\ Works(m) /\ r.msg = m /\ r.fp = config' /\ r.ok \in BOOLEAN
                            /\ Awaited(m) /\ m \notin sent'
                            /\ r.ok /\ m.action \in MutationActions => Entry(m, TRUE) \in journal'
                            /\ ~r.ok => m.conn \in doubtful' \/ UNCHANGED <<config, parked>>
                            /\ m.action = "apply-policy" /\ r.ok => r.policies = policy'
<1>1. ASSUME NEW g, Starts(g) PROVE replies' = replies
  BY <1>1, StartFacts
<1>2. ASSUME NEW g, Reads(g), r \notin replies
      PROVE  /\ r.msg = Message(g) /\ r.ok = TRUE /\ r.fp = config
             /\ UNCHANGED <<node, sent, doubtful>>
  <2>1. UNCHANGED <<node, sent, doubtful>>
    BY <1>2, ReadFacts DEF history
  <2>2. PICK mode \in FoundModes \cup {None} : r =
          [msg |-> Message(g), ok |-> TRUE, fp |-> config, mode |-> mode, policies |-> None]
    BY <1>2, ReadFacts
  <2>3. r.msg = Message(g) /\ r.ok = TRUE /\ r.fp = config
    BY <2>2
  <2> QED BY <2>1, <2>3
<1>3. CASE Local
  BY <1>3, LocalFacts DEF Killed, net
<1>4. ASSUME NEW m \in sent, Works(m), r \notin replies
      PROVE  /\ r.msg = m /\ r.fp = config' /\ r.ok \in BOOLEAN
             /\ Awaited(m) /\ m \notin sent'
             /\ r.ok /\ m.action \in MutationActions => Entry(m, TRUE) \in journal'
             /\ ~r.ok => m.conn \in doubtful' \/ UNCHANGED <<config, parked>>
             /\ m.action = "apply-policy" /\ r.ok => r.policies = policy'
  <2>1. sent' = sent \ {m}
    BY <1>4, WorkFacts
  <2>2. PICK q : /\ replies' = replies \cup {q} /\ q.msg = m /\ q.fp = config'
                 /\ q.ok \in BOOLEAN /\ Awaited(m)
                 /\ q.ok /\ m.action \in MutationActions => Entry(m, TRUE) \in journal'
                 /\ ~q.ok => m.conn \in doubtful' \/ UNCHANGED <<config, parked>>
                 /\ m.action = "apply-policy" /\ q.ok => q.policies = policy'
    BY <1>4, WorkFacts
  <2>3. r = q
    BY <1>4, <2>2
  <2> QED BY <2>1, <2>2, <2>3
<1>5. ASSUME (\E c \in Conn : Enforce(c)) \/ EditOutside \/ Poll \/ GiveUpPoll \/ Restart
               \/ UNCHANGED vars \/ \E q \in replies : CompletePoll(q)
      PROVE  r \in replies
  BY <1>5, EnforceFacts, EditFacts, PollFacts, GiveUpPollFacts, CompletePollFacts, RestartFacts
     DEF net, vars, Killed
<1>6. ASSUME NEW g \in handlers, GiveUp(g) PROVE r \in replies
  BY <1>6, GiveUpFacts
<1>7. ASSUME NEW g \in handlers, NEW q \in replies, q.msg = Message(g), Ends(g, q)
      PROVE  r \in replies
  <2>1. CASE CompensateIssuance(g, q)
    BY <2>1 DEF CompensateIssuance
  <2> QED BY <1>7, <2>1, EndFacts DEF Killed
<1> QED BY <1>1, <1>2, <1>3, <1>4, <1>5, <1>6, <1>7, StepCases

\* Where a journal entry comes from.
LEMMA JournalCases ==
  ASSUME Types, [Next]_vars, NEW j \in journal'
  PROVE  \/ j \in journal
         \/ \E m \in sent : /\ Works(m) /\ m.action \in MutationActions /\ m \notin sent'
                            /\ \E ok \in BOOLEAN : j = Entry(m, ok)
                            /\ j.action = m.action /\ j.op = m.op /\ j.conn = m.conn
<1>1. ASSUME NEW h, Starts(h) \/ Reads(h) PROVE journal' = journal
  BY <1>1, StartFacts, ReadFacts DEF node
<1>2. ASSUME Local PROVE journal' = journal
  BY <1>2, LocalFacts DEF Killed, node
<1>3. ASSUME NEW m \in sent, Works(m), j \notin journal
      PROVE  /\ m.action \in MutationActions /\ m \notin sent'
             /\ \E ok \in BOOLEAN : j = Entry(m, ok)
             /\ j.action = m.action /\ j.op = m.op /\ j.conn = m.conn
  <2>1. sent' = sent \ {m}
    BY <1>3, WorkFacts
  <2>2. PICK ok \in BOOLEAN : journal' = journal \cup {Entry(m, ok)} /\ m.action \in MutationActions
    BY <1>3, WorkFacts
  <2>3. j = Entry(m, ok)
    BY <1>3, <2>2
  <2> QED BY <2>1, <2>2, <2>3 DEF Entry
<1>4. ASSUME (\E c \in Conn : Enforce(c)) \/ EditOutside \/ Poll \/ GiveUpPoll \/ Restart
               \/ UNCHANGED vars \/ (\E h \in handlers : GiveUp(h))
               \/ (\E r \in replies : CompletePoll(r))
      PROVE  journal' = journal
  BY <1>4, EnforceFacts, EditFacts, PollFacts, GiveUpPollFacts, RestartFacts, GiveUpFacts,
     CompletePollFacts DEF node, vars, Killed
<1>5. ASSUME NEW h \in handlers, NEW r \in replies, r.msg = Message(h), Ends(h, r)
      PROVE  journal' = journal
  BY <1>5, EndFacts DEF node
<1> QED BY <1>1, <1>2, <1>3, <1>4, <1>5, StepCases

-----------------------------------------------------------------------------
(* The types after a step.                                                 *)

Counts == [faults: 0..MaxFaults, polls: 0..MaxPolls, finds: 0..MaxFinds]
PolicyRow == [status: {"active", "suspended"} \cup Enforced, limits: SUBSET LimitKind]

LEMMA CountFacts ==
  ASSUME counts \in Counts,
         \/ counts' = counts \/ Fault
         \/ Count("polls", MaxPolls) \/ Count("finds", MaxFinds)
  PROVE  counts' \in Counts /\ counts.faults <= counts'.faults
<1>1. /\ counts.faults \in Nat /\ counts.polls \in Nat /\ counts.finds \in Nat
      /\ counts.faults <= MaxFaults /\ counts.polls <= MaxPolls /\ counts.finds <= MaxFinds
      /\ MaxFaults \in Nat /\ MaxPolls \in Nat /\ MaxFinds \in Nat
  BY PanelAssumption DEF Counts
<1>2. CASE Fault
  <2>1. counts' = [counts EXCEPT !.faults = counts.faults + 1] /\ counts.faults < MaxFaults
    BY <1>2 DEF Fault, Count, Counts
  <2> QED BY <1>1, <2>1 DEF Counts
<1>3. CASE Count("polls", MaxPolls)
  <2>1. counts' = [counts EXCEPT !.polls = counts.polls + 1] /\ counts.polls < MaxPolls
    BY <1>3 DEF Count, Counts
  <2> QED BY <1>1, <2>1 DEF Counts
<1>4. CASE Count("finds", MaxFinds)
  <2>1. counts' = [counts EXCEPT !.finds = counts.finds + 1] /\ counts.finds < MaxFinds
    BY <1>4 DEF Count, Counts
  <2> QED BY <1>1, <2>1 DEF Counts
<1>5. CASE counts' = counts
  BY <1>1, <1>5
<1> QED BY <1>2, <1>3, <1>4, <1>5

Counted ==
  counts' = counts \/ Fault \/ Count("polls", MaxPolls) \/ Count("finds", MaxFinds)

LEMMA CountsKept ==
  ASSUME Types, [Next]_vars
  PROVE  counts' \in Counts /\ counts.faults <= counts'.faults
<1>1. ASSUME NEW h, Starts(h) PROVE Counted
  BY <1>1, StartFacts DEF Counted
<1>2. ASSUME NEW h, Reads(h) PROVE Counted
  BY <1>2, ReadFacts DEF Counted
<1>3. ASSUME Local PROVE Counted
  <2>1. Killed \/ counts' = counts
    BY <1>3, LocalFacts
  <2> QED BY <2>1 DEF Killed, Counted
<1>4. ASSUME NEW m \in sent, Works(m) PROVE Counted
  BY <1>4 DEF Works, Refuse, ApplyPolicy, Execute, Counted
<1>5. ASSUME (\E c \in Conn : Enforce(c)) \/ EditOutside \/ Poll \/ GiveUpPoll \/ Restart
               \/ UNCHANGED vars
      PROVE  Counted
  BY <1>5, RestartFacts DEF Enforce, EditOutside, Poll, GiveUpPoll, vars, Killed, Counted
<1>6. ASSUME NEW h \in handlers, GiveUp(h) PROVE Counted
  BY <1>6, GiveUpFacts DEF Counted
<1>7. ASSUME NEW r \in replies, CompletePoll(r) PROVE Counted
  BY <1>7, CompletePollFacts DEF Counted
<1>8. ASSUME NEW h \in handlers, NEW r \in replies, Ends(h, r) PROVE Counted
  <2>1. ASSUME NEW alive \in BOOLEAN, CompleteIssuance(h, r, alive) PROVE Counted
    BY <2>1, KillFacts DEF CompleteIssuance, Killed, Counted
  <2>2. ASSUME NEW n \in 1..3, NEW killed \in BOOLEAN, CompleteChange(h, r, n, killed) PROVE Counted
    BY <2>2, KillFacts DEF CompleteChange, Killed, Counted
  <2>3. ASSUME \/ CompensateIssuance(h, r) \/ CompleteCompensation(h, r)
               \/ CompleteImport(h, r) \/ CompleteDiscovery(h, r) \/ Fail(h, r)
        PROVE  Counted
    BY <2>3 DEF CompensateIssuance, CompleteCompensation, CompleteImport, CompleteDiscovery, Fail, Counted
  <2> QED BY <1>8, <2>1, <2>2, <2>3 DEF Ends
<1>9. counts \in Counts
  BY DEF Types, MemoryInv, Counts
<1>10. Counted
  BY <1>1, <1>2, <1>3, <1>4, <1>5, <1>6, <1>7, <1>8, StepCases
<1> QED BY <1>9, <1>10, CountFacts DEF Counted

\* A change the node makes.
LEMMA ExecuteFacts ==
  ASSUME Types, NEW m \in sent, NEW ok \in BOOLEAN, Execute(m, ok)
  PROVE  /\ m.conn \in Conn /\ m.action \in MutationActions /\ ~Seen(m)
         /\ config'.edits = config.edits
         /\ config'.peers = IF m.action \in {"create", "enable"} THEN config.peers \cup {m.conn}
                            ELSE config.peers \ {m.conn}
         /\ config' \in Content
         /\ parked' = ParkedAfter(m) /\ parked' \subseteq Conn
         /\ policy' = [policy EXCEPT ![m.conn] = PolicyAfter(m)]
         /\ policy' \in Policies
         /\ policy[m.conn] = None => policy'[m.conn] = None
         /\ m.action = "create" => policy' = policy
         /\ policy'[m.conn] # None => policy'[m.conn] = policy[m.conn]
                                        \/ policy'[m.conn].status \notin Enforced
         /\ m.action # "create" => Present(m.conn)
         /\ journal' = journal \cup {Entry(m, ok)}
<1>1. /\ m.conn \in Conn /\ m.action \in MutationActions /\ ~Seen(m)
      /\ config \in Content /\ parked \subseteq Conn /\ policy \in Policies
      /\ Sound(m)
  BY DEF Execute, Types, NetInv, NodeInv, Sound
<1>2. config' = [config EXCEPT !.peers =
        IF m.action \in {"create", "enable"} THEN config.peers \cup {m.conn}
        ELSE config.peers \ {m.conn}]
  BY DEF Execute
<1>3. /\ config'.edits = config.edits
      /\ config'.peers = IF m.action \in {"create", "enable"} THEN config.peers \cup {m.conn}
                         ELSE config.peers \ {m.conn}
      /\ config' \in Content
  BY <1>1, <1>2 DEF Content
<1>4. parked' = ParkedAfter(m) /\ parked' \subseteq Conn
  BY <1>1 DEF Execute, ParkedAfter
<1>5. policy' = [policy EXCEPT ![m.conn] = PolicyAfter(m)]
  BY DEF Execute
<1>6. policy[m.conn] \in {None} \cup PolicyRow
  BY <1>1 DEF Policies, PolicyRow
<1>7. /\ PolicyAfter(m) \in {None} \cup PolicyRow
      /\ policy[m.conn] = None \/ m.action = "create" => PolicyAfter(m) = policy[m.conn]
      /\ PolicyAfter(m) # None => \/ PolicyAfter(m) = policy[m.conn]
                                  \/ PolicyAfter(m).status \notin Enforced
  <2>1. CASE policy[m.conn] = None \/ m.action = "create"
    BY <1>6, <2>1 DEF PolicyAfter
  <2>2. CASE policy[m.conn] # None /\ m.action = "revoke"
    BY <2>2 DEF PolicyAfter
  <2>3. CASE policy[m.conn] # None /\ m.action = "disable"
    <3>1. PolicyAfter(m) = [policy[m.conn] EXCEPT !.status = "suspended"]
      BY <2>3 DEF PolicyAfter
    <3>2. PolicyAfter(m) \in PolicyRow /\ PolicyAfter(m).status = "suspended"
      BY <1>6, <2>3, <3>1 DEF PolicyRow
    <3> QED BY <2>3, <3>2 DEF Enforced
  <2>4. CASE policy[m.conn] # None /\ m.action = "enable"
    <3>1. PICK l \in SUBSET LimitKind : PolicyAfter(m) = [status |-> "active", limits |-> l]
      <4>1. policy[m.conn].limits \in SUBSET LimitKind
        BY <1>6, <2>4 DEF PolicyRow
      <4>2. policy[m.conn].limits \ {"expiry"} \in SUBSET LimitKind
        BY <4>1
      <4> QED BY <2>4, <4>1, <4>2 DEF PolicyAfter
    <3>2. PolicyAfter(m) \in PolicyRow /\ PolicyAfter(m).status = "active"
      BY <3>1 DEF PolicyRow
    <3> QED BY <2>4, <3>2 DEF Enforced
  <2> QED BY <1>1, <2>1, <2>2, <2>3, <2>4 DEF MutationActions
<1>8. policy' \in Policies /\ policy'[m.conn] = PolicyAfter(m)
  BY <1>1, <1>5, <1>7 DEF Policies, PolicyRow
<1>9. m.action = "create" => policy' = policy
  BY <1>1, <1>5, <1>7 DEF Policies
<1>10. m.action # "create" => Present(m.conn)
  BY DEF Execute, Editable, Present
<1>11. journal' = journal \cup {Entry(m, ok)}
  BY DEF Execute, Journal, Entry
<1> QED BY <1>1, <1>3, <1>4, <1>5, <1>7, <1>8, <1>9, <1>10, <1>11

\* A request that begins is one.
LEMMA BeginProper ==
  ASSUME Types, NEW h, Starts(h) \/ Reads(h)
  PROVE  Proper(h)
<1>1. instance.fp \in Content /\ \A c \in Conn : row[c] # None => row[c].status \in Status
  BY DEF Types, RowInv, Row
<1>2. ASSUME NEW op \in OpId, NEW c \in Conn, NEW limits \in Limits,
             h = Handler("create", op, c, FALSE, limits)
      PROVE  Proper(h)
  BY <1>1, <1>2, RpcValues, PanelAssumption DEF Handler, HandlerType, Proper, Called
<1>3. ASSUME NEW op \in OpId, NEW c \in Conn, NEW task \in {"suspend", "resume", "revoke"},
             NEW override \in BOOLEAN, ChangeConnection(task, op, c, override),
             h = Handler(task, op, c, override, {})
      PROVE  Proper(h)
  <2>1. row[c] # None
    BY <1>3 DEF ChangeConnection
  <2>2. h.was \in Status \cup {None}
    BY <1>1, <1>3, <2>1 DEF Handler
  <2> QED BY <1>1, <1>3, <2>2, RpcValues DEF Handler, HandlerType, Proper, Called
<1>4. ASSUME NEW op \in OpId, NEW c \in Conn, h = Handler("import", op, c, FALSE, {})
      PROVE  Proper(h)
  BY <1>1, <1>4, RpcValues DEF Handler, HandlerType, Proper, Called
<1>5. ASSUME h = Handler("discover", None, None, FALSE, {})
      PROVE  Proper(h)
  BY <1>1, <1>5, RpcValues DEF Handler, HandlerType, Proper, Called
<1> QED BY <1>2, <1>3, <1>4, <1>5 DEF Starts, Reads

LEMMA HandlerInvKept ==
  ASSUME Types, [Next]_vars
  PROVE  HandlerInv'
<1> SUFFICES ASSUME NEW h \in handlers' PROVE Proper(h)
  BY DEF HandlerInv, Proper
<1>1. CASE h \in handlers
  BY <1>1 DEF Types, HandlerInv
<1>2. CASE Starts(h) \/ Reads(h)
  BY <1>2, BeginProper
<1>3. ASSUME NEW g \in handlers, NEW r \in replies, CompensateIssuance(g, r), h = Undoes(g, r)
      PROVE  Proper(h)
  BY <1>3, UndoFacts DEF CompensateIssuance
<1> QED BY <1>1, <1>2, <1>3, HandlerCases

LEMMA NodeInvKept ==
  ASSUME Types, [Next]_vars
  PROVE  NodeInv'
<1> DEFINE Entries == \A j \in journal' :
             /\ j \in [op: Id, action: MutationActions, conn: Conn, ok: BOOLEAN]
             /\ j.action = "create" => j.op \in OpId
<1>1. counts.faults <= counts'.faults /\ counts' \in Counts
  BY CountsKept
<1>2. /\ config \in Content /\ config.edits <= counts.faults /\ parked \subseteq Conn
      /\ policy \in Policies /\ counts.faults \in Nat /\ counts'.faults \in Nat
      /\ config.edits \in Nat
      /\ \A j \in journal : /\ j \in [op: Id, action: MutationActions, conn: Conn, ok: BOOLEAN]
                            /\ j.action = "create" => j.op \in OpId
  BY <1>1 DEF Types, NodeInv, MemoryInv, Counts, Content
<1>3. CASE node' = node
  BY <1>1, <1>2, <1>3 DEF NodeInv, node
<1>4. ASSUME NEW m \in sent, Works(m) PROVE NodeInv'
  <2>1. Sound(m)
    BY DEF Types, NetInv
  <2>2. Entries
    <3>1. ASSUME NEW ok \in BOOLEAN, m.action \in MutationActions
          PROVE  /\ Entry(m, ok) \in [op: Id, action: MutationActions, conn: Conn, ok: BOOLEAN]
                 /\ Entry(m, ok).action = "create" => Entry(m, ok).op \in OpId
      <4>1. m.conn \in Conn /\ m.op \in Id /\ (m.action = "create" => m.op \in OpId)
        BY <2>1, <3>1 DEF Sound, MessageType, MutationActions
      <4> QED BY <3>1, <4>1 DEF Entry
    <3>2. \/ journal' = journal
          \/ \E ok \in BOOLEAN : journal' = journal \cup {Entry(m, ok)} /\ m.action \in MutationActions
      BY <1>4, WorkFacts
    <3> QED BY <1>2, <3>1, <3>2
  <2>3. CASE Refuse(m)
    BY <1>1, <1>2, <2>2, <2>3 DEF Refuse, NodeInv
  <2>4. CASE ApplyPolicy(m)
    <3>1. m.policies \in Policies
      BY <2>1, <2>4, RpcValues DEF ApplyPolicy, Sound, MessageType, Called
    <3>2. \A c \in Conn : m.policies[c] # None => m.policies[c] \in PolicyRow
      BY <3>1 DEF Policies, PolicyRow
    <3>3. \A c \in Conn : policy[c] # None => policy[c] \in PolicyRow
      BY <1>2 DEF Policies, PolicyRow
    <3>4. \A c \in Conn : m.policies[c] # None /\ policy[c] # None =>
            [m.policies[c] EXCEPT !.status = policy[c].status] \in PolicyRow
      BY <3>2, <3>3 DEF PolicyRow
    <3>5. policy' \in Policies
      <4>1. policy' = [c \in Conn |->
               IF m.policies[c] # None /\ policy[c] # None /\ m.policies[c].status = "active"
                    /\ policy[c].status \in Enforced
               THEN [m.policies[c] EXCEPT !.status = policy[c].status]
               ELSE m.policies[c]]
        BY <2>4 DEF ApplyPolicy
      <4>2. \A c \in Conn : policy'[c] \in {None} \cup PolicyRow
        BY <3>1, <3>2, <3>4, <4>1
      <4> QED BY <4>1, <4>2 DEF Policies, PolicyRow
    <3>6. config' = config /\ parked' = parked
      BY <2>4 DEF ApplyPolicy
    <3> QED BY <1>1, <1>2, <2>2, <3>5, <3>6 DEF NodeInv
  <2>5. ASSUME NEW ok \in BOOLEAN, Execute(m, ok) PROVE NodeInv'
    <3>1. config' \in Content /\ config'.edits = config.edits /\ parked' \subseteq Conn
            /\ policy' \in Policies
      BY <2>5, ExecuteFacts
    <3> QED BY <1>1, <1>2, <2>2, <3>1 DEF NodeInv
  <2> QED BY <1>4, <2>3, <2>4, <2>5 DEF Works
<1>5. ASSUME NEW c \in Conn, Enforce(c) PROVE NodeInv'
  <2>1. config' = [config EXCEPT !.peers = config.peers \ {c}] /\ parked' = parked \cup {c}
          /\ journal' = journal
    BY <1>5 DEF Enforce
  <2>2. config' \in Content /\ config'.edits = config.edits
    BY <1>2, <2>1 DEF Content
  <2>3. policy[c] \in PolicyRow
    BY <1>2, <1>5 DEF Enforce, Policies, PolicyRow
  <2>4. PICK status \in Enforced : policy' = [policy EXCEPT ![c].status = status]
    BY <1>5 DEF Enforce, Enforced
  <2>5. [policy[c] EXCEPT !.status = status] \in PolicyRow
    BY <2>3 DEF PolicyRow
  <2>6. policy' \in Policies
    BY <1>2, <2>4, <2>5 DEF Policies, PolicyRow
  <2> QED BY <1>1, <1>2, <2>1, <2>2, <2>6 DEF NodeInv
<1>6. CASE EditOutside
  <2>1. config' = [config EXCEPT !.edits = config.edits + 1] /\ Fault
          /\ UNCHANGED <<parked, policy, journal>>
    BY <1>6 DEF EditOutside
  <2>2. counts'.faults = counts.faults + 1 /\ counts'.faults <= MaxFaults
    BY <1>1, <2>1 DEF Fault, Count, Types, MemoryInv, Counts
  <2>3. config'.edits = config.edits + 1 /\ config'.peers = config.peers
          /\ config' = [peers |-> config.peers, edits |-> config.edits + 1]
    BY <1>2, <2>1 DEF Content
  <2>4. config' \in Content /\ config'.edits <= counts'.faults
    BY <1>2, <2>2, <2>3, PanelAssumption DEF Content
  <2> QED BY <1>2, <2>1, <2>4 DEF NodeInv
<1>7. \/ node' = node \/ (\E m \in sent : Works(m)) \/ (\E c \in Conn : Enforce(c)) \/ EditOutside
  <2>1. ASSUME NEW h, Starts(h) \/ Reads(h) PROVE node' = node
    BY <2>1, StartFacts, ReadFacts
  <2>2. ASSUME Local PROVE node' = node
    BY <2>2, LocalFacts DEF Killed
  <2>3. ASSUME NEW h \in handlers, NEW r \in replies, r.msg = Message(h), Ends(h, r)
        PROVE  node' = node
    BY <2>3, EndFacts
  <2>4. ASSUME NEW h \in handlers, GiveUp(h) PROVE node' = node
    BY <2>4, GiveUpFacts
  <2>5. ASSUME NEW r \in replies, CompletePoll(r) PROVE node' = node
    BY <2>5, CompletePollFacts
  <2>6. ASSUME Poll \/ GiveUpPoll \/ Restart \/ UNCHANGED vars PROVE node' = node
    BY <2>6, PollFacts, GiveUpPollFacts, RestartFacts DEF Killed, vars
  <2> QED BY <2>1, <2>2, <2>3, <2>4, <2>5, <2>6, StepCases
<1> QED BY <1>3, <1>4, <1>5, <1>6, <1>7

\* What the worker sends is typed.
LEMMA ProjectionType ==
  ASSUME RowInv
  PROVE  /\ Projection \in Policies
         /\ \A c \in Conn : Projection[c] # None =>
              Managed(c) /\ Projection[c].status = row[c].status
<1>1. ASSUME NEW c \in Conn, Projection[c] # None
      PROVE  /\ Managed(c) /\ Projection[c].status = row[c].status
             /\ Projection[c] \in PolicyRow
  <2>1. row[c] # None /\ row[c].managed /\ row[c].status \in {"active", "suspended"} \cup Enforced
          /\ Projection[c] = [status |-> row[c].status, limits |-> row[c].limits]
    BY <1>1 DEF Projection
  <2>2. row[c].limits \in SUBSET LimitKind
    BY <2>1 DEF RowInv, Row
  <2> QED BY <2>1, <2>2 DEF Managed, PolicyRow
<1>2. Projection = [c \in Conn |-> Projection[c]]
  BY DEF Projection
<1>3. Projection \in Policies
  BY <1>1, <1>2 DEF Policies, PolicyRow
<1> QED BY <1>1, <1>3

\* The worker's message.
Projected == [action |-> "apply-policy", policies |-> Projection]

LEMMA ProjectedFacts ==
  ASSUME RowInv
  PROVE  /\ Sound(Projected) /\ Projected.action = "apply-policy"
         /\ Projected.policies = Projection
<1>1. Projected \in MessageType
  BY ProjectionType DEF Projected, MessageType
<1> QED BY <1>1 DEF Sound, Projected, MutationActions

LEMMA NetInvKept ==
  ASSUME Types, [Next]_vars, NodeInv'
  PROVE  NetInv'
<1>1. ASSUME NEW m \in sent'
      PROVE  Sound(m) /\ m.action \notin {"discover", "list"}
  <2>1. CASE m \in sent
    BY <2>1 DEF Types, NetInv
  <2>2. ASSUME NEW h, Starts(h), m = Message(h)
        PROVE  Sound(m) /\ m.action \notin {"discover", "list"}
    <3>1. Proper(h) /\ h.task \notin {"discover", "import"}
      BY <2>2, BeginProper, StartFacts
    <3> QED BY <2>2, <3>1, MessageFacts
  <2>3. ASSUME NEW g \in handlers, NEW r \in replies, CompensateIssuance(g, r),
               m = Message(Undoes(g, r))
        PROVE  Sound(m) /\ m.action \notin {"discover", "list"}
    <3>1. Proper(Undoes(g, r)) /\ Undoes(g, r).task = "create"
      BY <2>3, UndoFacts DEF CompensateIssuance
    <3> QED BY <2>3, <3>1, MessageFacts
  <2>4. CASE m = Projected
    BY <2>4, ProjectedFacts DEF Types
  <2> QED BY <2>1, <2>2, <2>3, <2>4, SentCases DEF Projected
<1>2. ASSUME NEW r \in replies'
      PROVE  /\ Sound(r.msg) /\ r.ok \in BOOLEAN /\ r.fp \in Content
             /\ r.msg.action = "discover" => r.ok
             /\ r.msg.action = "apply-policy" /\ r.ok => r.policies \in Policies
  <2>1. CASE r \in replies
    BY <2>1 DEF Types, NetInv
  <2>2. ASSUME NEW h, Reads(h), r.msg = Message(h), r.ok = TRUE, r.fp = config
        PROVE  /\ Sound(r.msg) /\ r.ok \in BOOLEAN /\ r.fp \in Content
               /\ r.msg.action = "discover" => r.ok
               /\ r.msg.action # "apply-policy"
    <3>1. Proper(h)
      BY <2>2, BeginProper
    <3> QED BY <2>2, <3>1, MessageFacts DEF Types, NodeInv
  <2>3. ASSUME NEW m \in sent, r.msg = m, r.fp = config', r.ok \in BOOLEAN,
               m.action = "apply-policy" /\ r.ok => r.policies = policy'
        PROVE  /\ Sound(r.msg) /\ r.ok \in BOOLEAN /\ r.fp \in Content
               /\ r.msg.action # "discover"
               /\ r.msg.action = "apply-policy" /\ r.ok => r.policies \in Policies
    BY <2>3 DEF Types, NetInv, NodeInv
  <2>4. \/ r \in replies
        \/ \E h : Reads(h) /\ r.msg = Message(h) /\ r.ok = TRUE /\ r.fp = config
        \/ \E m \in sent : /\ r.msg = m /\ r.fp = config' /\ r.ok \in BOOLEAN
                           /\ m.action = "apply-policy" /\ r.ok => r.policies = policy'
    BY ReplyCases
  <2> QED BY <2>1, <2>2, <2>3, <2>4
<1> QED BY <1>1, <1>2 DEF NetInv, Sound

LEMMA RowInvKept ==
  ASSUME Types, ManagedOnly, [Next]_vars
  PROVE  RowInv'
<1> DEFINE Modes == {"read-only", "observed", "managed"}
<1>1. instance \in [fp: Content, mode: Modes] /\ \A r \in replies : r.fp \in Content
  BY DEF Types, RowInv, NetInv
<1>2. \/ instance' = instance
      \/ instance' = [instance EXCEPT !.mode = "managed"]
      \/ \E r \in replies : instance' = [instance EXCEPT !.fp = r.fp]
      \/ \E r \in replies, mode \in Modes : instance' = [fp |-> r.fp, mode |-> mode]
  <2>1. ASSUME NEW h, Starts(h) \/ Reads(h) PROVE instance' = instance
    BY <2>1, StartFacts, ReadFacts
  <2>2. ASSUME Local
        PROVE  instance' = instance \/ instance' = [instance EXCEPT !.mode = "managed"]
    BY <2>2, LocalFacts
  <2>3. ASSUME NEW m \in sent, Works(m) PROVE instance' = instance
    BY <2>3, WorkFacts DEF db
  <2>4. ASSUME (\E c \in Conn : Enforce(c)) \/ EditOutside \/ Poll \/ GiveUpPoll \/ Restart
                 \/ UNCHANGED vars
        PROVE  instance' = instance
    BY <2>4, EnforceFacts, EditFacts, PollFacts, GiveUpPollFacts, RestartFacts DEF db, vars
  <2>5. ASSUME NEW h \in handlers, GiveUp(h) PROVE instance' = instance
    BY <2>5, GiveUpFacts
  <2>6. ASSUME NEW r \in replies, CompletePoll(r) PROVE instance' = instance
    BY <2>6, CompletePollFacts
  <2>7. ASSUME NEW h \in handlers, NEW r \in replies, Ends(h, r)
        PROVE  \/ instance' = instance
               \/ instance' = [instance EXCEPT !.fp = r.fp]
               \/ \E mode \in Modes : instance' = [fp |-> r.fp, mode |-> mode]
    <3>1. \A changed \in BOOLEAN : Upserted(r.mode, changed) \in Modes
      BY <1>1 DEF Upserted
    <3>2. CASE CompleteDiscovery(h, r)
      BY <3>1, <3>2 DEF CompleteDiscovery
    <3>3. CASE CompensateIssuance(h, r)
      BY <3>3 DEF CompensateIssuance, db
    <3>4. CASE CompleteImport(h, r) \/ Fail(h, r)
      BY <3>4 DEF CompleteImport, Fail
    <3>5. CASE CompleteCompensation(h, r)
      BY <3>5 DEF CompleteCompensation
    <3>6. ASSUME NEW alive \in BOOLEAN, CompleteIssuance(h, r, alive)
          PROVE  instance' = [instance EXCEPT !.fp = r.fp]
      BY <3>6 DEF CompleteIssuance
    <3>7. ASSUME NEW n \in 1..3, NEW killed \in BOOLEAN, CompleteChange(h, r, n, killed)
          PROVE  instance' = [instance EXCEPT !.fp = r.fp]
      BY <3>7 DEF CompleteChange
    <3> QED BY <2>7, <3>2, <3>3, <3>4, <3>5, <3>6, <3>7 DEF Ends
  <2> QED BY <2>1, <2>2, <2>3, <2>4, <2>5, <2>6, <2>7, StepCases
<1>3. instance' \in [fp: Content, mode: Modes]
  <2>1. [instance EXCEPT !.mode = "managed"] \in [fp: Content, mode: Modes]
    BY <1>1
  <2>2. \A r \in replies : [instance EXCEPT !.fp = r.fp] \in [fp: Content, mode: Modes]
    BY <1>1
  <2>3. \A r \in replies, mode \in Modes :
          [fp |-> r.fp, mode |-> mode] \in [fp: Content, mode: Modes]
    BY <1>1
  <2> QED BY <1>1, <1>2, <2>1, <2>2, <2>3
<1> QED BY <1>3, RowKept DEF RowInv

-----------------------------------------------------------------------------
(* The records.                                                            *)

\* A record is added for an id that has none, or the record of a request that
\* ends is replaced.
Adds(r) ==
  /\ records' = records \cup {r} /\ ~Known(r.scope, r.op)
  /\ r.status \in {"started", "succeeded"} /\ r.op \in OpId /\ r.conn \in Conn \cup {None}
  /\ \/ \E h : (Starts(h) \/ Reads(h)) /\ r = NewRecord(h, "started")
     \/ r.scope[1] \in {"adopt", "manage"} /\ handlers' \subseteq handlers
Finishes(h, status) ==
  /\ h.task \in Called /\ records' = Finished(h, status) /\ handlers' \subseteq handlers \ {h}

LEMMA RecordCases ==
  ASSUME Types, [Next]_vars
  PROVE  \/ records' = records
         \/ \E r : Adds(r)
         \/ \E h \in handlers, status \in {"succeeded", "failed"} :
              /\ Finishes(h, status)
              /\ \/ GiveUp(h) /\ status = "failed"
                 \/ \E r \in replies : r.msg = Message(h) /\ Ends(h, r)
<1>1. ASSUME NEW h, Starts(h) \/ Reads(h)
      PROVE  records' = records \/ Adds(NewRecord(h, "started"))
  <2>1. h.op \in OpId \/ records' = records
    BY <1>1, StartFacts, ReadFacts
  <2>2. \/ records' = records
        \/ records' = records \cup {NewRecord(h, "started")} /\ ~Known(Scope(h), h.op)
    BY <1>1, StartFacts, ReadFacts
  <2> QED BY <1>1, <2>1, <2>2, RecordFacts DEF Adds
<1>2. ASSUME Local PROVE \E r : Adds(r)
  <2>1. handlers' \subseteq handlers
    BY <1>2, LocalFacts DEF Killed, memory
  <2> QED BY <1>2, <2>1, LocalFacts DEF Adds
<1>3. ASSUME NEW m \in sent, Works(m) PROVE records' = records
  BY <1>3, WorkFacts DEF db
<1>4. ASSUME (\E c \in Conn : Enforce(c)) \/ EditOutside \/ Poll \/ GiveUpPoll \/ Restart
               \/ UNCHANGED vars \/ \E r \in replies : CompletePoll(r)
      PROVE  records' = records
  BY <1>4, EnforceFacts, EditFacts, PollFacts, GiveUpPollFacts, RestartFacts, CompletePollFacts
     DEF db, vars
<1>5. ASSUME NEW h \in handlers, GiveUp(h) PROVE Finishes(h, "failed")
  <2>1. h.task \in Called
    BY <1>5, GiveUpFacts, RpcValues DEF Types, HandlerInv, Proper, HandlerType
  <2> QED BY <1>5, <2>1, GiveUpFacts DEF Finishes
<1>6. ASSUME NEW h \in handlers, NEW r \in replies, r.msg = Message(h), Ends(h, r)
      PROVE  records' = records \/ \E status \in {"succeeded", "failed"} : Finishes(h, status)
  <2>1. CASE CompensateIssuance(h, r)
    BY <2>1 DEF CompensateIssuance, db
  <2>2. CASE ~CompensateIssuance(h, r)
    <3>1. handlers' \subseteq handlers \ {h}
      BY <1>6, <2>2, EndFacts DEF Killed
    <3> QED BY <1>6, <3>1, EndFacts DEF Finishes
  <2> QED BY <2>1, <2>2
<1> QED BY <1>1, <1>2, <1>3, <1>4, <1>5, <1>6, StepCases

LEMMA RecordInvKept ==
  ASSUME Types, [Next]_vars
  PROVE  RecordInv'
<1>1. ASSUME NEW h \in handlers, NEW status \in {"succeeded", "failed"}, Finishes(h, status)
      PROVE  RecordInv'
  <2>1. h.op \in OpId /\ h.conn \in Conn
    BY <1>1 DEF Types, HandlerInv, Proper, Finishes
  <2>2. \A r \in records' : r \in records \/ r = NewRecord(h, status)
    BY <1>1 DEF Finishes, Finished
  <2> QED BY <2>1, <2>2, RecordFacts DEF Types, RecordInv
<1>2. ASSUME NEW r, Adds(r) PROVE RecordInv'
  BY <1>2 DEF Adds, Types, RecordInv
<1>3. CASE records' = records
  BY <1>3 DEF Types, RecordInv
<1> QED BY <1>1, <1>2, <1>3, RecordCases

LEMMA KnownKept ==
  ASSUME Types, [Next]_vars, NEW scope, NEW op, Known(scope, op)
  PROVE  Known(scope, op)'
<1>1. ASSUME NEW h \in handlers, NEW status \in {"succeeded", "failed"}, Finishes(h, status)
      PROVE  Known(scope, op)'
  <2>1. NewRecord(h, status) \in records'
    BY <1>1 DEF Finishes, Finished
  <2>2. \A r \in records : r \in records' \/ (r.scope = Scope(h) /\ r.op = h.op)
    BY <1>1 DEF Finishes, Finished
  <2> QED BY <2>1, <2>2, RecordFacts DEF Known
<1> QED BY <1>1, RecordCases DEF Adds, Known

LEMMA RecordedKept ==
  ASSUME Types, Recorded, [Next]_vars
  PROVE  Recorded'
<1>1. \A r, s \in records' : r.scope = s.scope /\ r.op = s.op => r = s
  <2>1. ASSUME NEW h \in handlers, NEW status \in {"succeeded", "failed"}, Finishes(h, status)
        PROVE  \A r, s \in records' : r.scope = s.scope /\ r.op = s.op => r = s
    BY <2>1, RecordFacts DEF Finishes, Finished, Recorded
  <2>2. ASSUME NEW q, Adds(q)
        PROVE  \A r, s \in records' : r.scope = s.scope /\ r.op = s.op => r = s
    BY <2>2 DEF Adds, Known, Recorded
  <2> QED BY <2>1, <2>2, RecordCases DEF Recorded
<1>2. ASSUME NEW h \in handlers', NEW g \in handlers', h.task # "discover",
             Scope(h) = Scope(g), h.op = g.op
      PROVE  h = g
  <2> DEFINE Same(a, b) == Scope(a) = Scope(b) /\ a.op = b.op
  <2>1. g.task # "discover"
    BY <1>2, RecordFacts
  <2>2. \A a, b \in handlers : a.task # "discover" /\ Same(a, b) => a = b
    BY DEF Recorded
  <2>3. \A a \in handlers : a.task # "discover" => Known(Scope(a), a.op)
    BY RecordFacts DEF Recorded, Known
  <2>4. \A a : a.task # "discover" /\ (Starts(a) \/ Reads(a)) =>
           ~Known(Scope(a), a.op) /\ handlers' = handlers \cup {a}
    BY StartFacts, ReadFacts
  <2>5. \A a \in handlers' : a.task # "discover" =>
          \/ a \in handlers
          \/ Starts(a) \/ Reads(a)
          \/ \E b \in handlers : /\ Same(a, b) /\ b.task # "discover"
                                 /\ handlers' = (handlers \ {b}) \cup {a}
    <3>1. ASSUME NEW a \in handlers', NEW b \in handlers, NEW r \in replies,
                 CompensateIssuance(b, r), a = Undoes(b, r)
          PROVE  Same(a, b) /\ b.task # "discover" /\ handlers' = (handlers \ {b}) \cup {a}
      BY <3>1, UndoFacts DEF CompensateIssuance, Undoes
    <3> QED BY <3>1, HandlerCases
  <2>6. \A a \in handlers' : a.task # "discover" /\ a \notin handlers =>
           \A b \in handlers' : Same(a, b) => a = b
    <3>1. ASSUME NEW a \in handlers', a.task # "discover", a \notin handlers,
                 Starts(a) \/ Reads(a), NEW b \in handlers', Same(a, b)
          PROVE  a = b
      <4>1. b.task # "discover"
        BY <3>1, RecordFacts
      <4> QED BY <2>3, <2>4, <3>1, <4>1
    <3>2. ASSUME NEW a \in handlers', a.task # "discover", NEW d \in handlers,
                 Same(a, d), d.task # "discover", handlers' = (handlers \ {d}) \cup {a},
                 NEW b \in handlers', Same(a, b)
          PROVE  a = b
      BY <2>2, <3>2
    <3> QED BY <2>5, <3>1, <3>2
  <2> QED BY <1>2, <2>1, <2>2, <2>6
<1>3. ASSUME NEW h \in handlers', h.task # "discover"
      PROVE  NewRecord(h, "started") \in records'
  <2>1. CASE h \in handlers
    <3>1. NewRecord(h, "started") \in records
      BY <1>3, <2>1 DEF Recorded
    <3>2. ASSUME NEW g \in handlers, NEW status \in {"succeeded", "failed"}, Finishes(g, status)
          PROVE  NewRecord(h, "started") \in records'
      <4>1. g # h /\ g.task # "discover"
        BY <3>2 DEF Finishes, Called
      <4>2. Scope(g) # Scope(h) \/ g.op # h.op
        BY <1>3, <2>1, <4>1 DEF Recorded
      <4> QED BY <3>1, <3>2, <4>2, RecordFacts DEF Finishes, Finished
    <3> QED BY <3>1, <3>2, RecordCases DEF Adds
  <2>2. CASE Starts(h) \/ Reads(h)
    BY <1>3, <2>2, StartFacts, ReadFacts
  <2>3. ASSUME NEW g \in handlers, NEW r \in replies, CompensateIssuance(g, r), h = Undoes(g, r)
        PROVE  NewRecord(h, "started") \in records'
    <3>1. NewRecord(h, "started") = NewRecord(g, "started") /\ g.task = "create"
      BY <2>3, UndoFacts DEF CompensateIssuance
    <3>2. records' = records
      BY <2>3 DEF CompensateIssuance, db
    <3> QED BY <3>1, <3>2 DEF Recorded
  <2> QED BY <2>1, <2>2, <2>3, HandlerCases
<1>4. \A h, g \in handlers' :
        h.task # "discover" /\ Scope(h) = Scope(g) /\ h.op = g.op => h = g
  BY <1>2
<1>5. \A h \in handlers' : h.task # "discover" => NewRecord(h, "started") \in records'
  BY <1>3
<1> QED BY <1>1, <1>4, <1>5 DEF Recorded, NewRecord, Scope

\* What an id was recorded to have done stays.
LEMMA RecordStays ==
  ASSUME Types, Recorded, [Next]_vars, NEW r \in records, r.status # "started"
  PROVE  r \in records'
<1>1. ASSUME NEW h \in handlers, NEW status \in {"succeeded", "failed"}, Finishes(h, status)
      PROVE  r \in records'
  <2>1. h.task # "discover"
    BY <1>1 DEF Finishes, Called
  <2>2. records' = (records \ {NewRecord(h, "started")}) \cup {NewRecord(h, status)}
    BY <1>1, <2>1, FinishedFacts DEF Finishes
  <2> QED BY <2>2, RecordFacts
<1> QED BY <1>1, RecordCases DEF Adds

-----------------------------------------------------------------------------
(* The memory and the history.                                             *)

LEMMA PollKept ==
  ASSUME Types, [Next]_vars
  PROVE  poll' \in Policies \cup {None}
<1>1. ASSUME NEW h, Starts(h) \/ Reads(h) PROVE poll' = poll
  BY <1>1, StartFacts, ReadFacts
<1>2. ASSUME Local PROVE poll' = poll \/ poll' = None
  BY <1>2, LocalFacts DEF Killed, memory
<1>3. ASSUME NEW m \in sent, Works(m) PROVE poll' = poll
  BY <1>3, WorkFacts DEF memory
<1>4. ASSUME (\E c \in Conn : Enforce(c)) \/ EditOutside \/ UNCHANGED vars PROVE poll' = poll
  BY <1>4, EnforceFacts, EditFacts DEF memory, vars
<1>5. ASSUME NEW h \in handlers, GiveUp(h) PROVE poll' = poll
  BY <1>5, GiveUpFacts
<1>6. ASSUME GiveUpPoll \/ Restart \/ \E r \in replies : CompletePoll(r) PROVE poll' = None
  BY <1>6, GiveUpPollFacts, RestartFacts, CompletePollFacts DEF Killed
<1>7. ASSUME NEW h \in handlers, NEW r \in replies, r.msg = Message(h), Ends(h, r)
      PROVE  poll' = poll \/ poll' = None
  BY <1>7, EndFacts DEF Killed, CompensateIssuance
<1>8. ASSUME Poll PROVE poll' \in Policies
  BY <1>8, PollFacts, ProjectionType DEF Types
<1>9. poll \in Policies \cup {None}
  BY DEF Types, MemoryInv
<1> QED BY <1>1, <1>2, <1>3, <1>4, <1>5, <1>6, <1>7, <1>8, <1>9, StepCases

LEMMA DriftedKept ==
  ASSUME Types, [Next]_vars
  PROVE  drifted' \in BOOLEAN /\ (drifted => drifted')
<1> DEFINE Kept == drifted' = drifted \/ drifted' = TRUE
<1>1. drifted \in BOOLEAN
  BY DEF Types, MemoryInv
<1>2. ASSUME NEW h, Starts(h) \/ Reads(h) PROVE Kept
  BY <1>2, StartFacts, ReadFacts
<1>3. ASSUME Local PROVE Kept
  BY <1>3, LocalFacts DEF Killed
<1>4. ASSUME NEW m \in sent, Works(m) PROVE Kept
  <2>1. ASSUME NEW ok \in BOOLEAN, Execute(m, ok) PROVE Kept
    BY <1>1, <2>1 DEF Execute
  <2> QED BY <1>4, <2>1 DEF Works, Refuse, ApplyPolicy
<1>5. ASSUME (\E c \in Conn : Enforce(c)) \/ EditOutside \/ Poll \/ GiveUpPoll \/ Restart
               \/ UNCHANGED vars \/ (\E h \in handlers : GiveUp(h))
               \/ (\E r \in replies : CompletePoll(r))
      PROVE  Kept
  BY <1>5, GiveUpFacts, RestartFacts, CompletePollFacts
     DEF Enforce, EditOutside, Poll, GiveUpPoll, vars, Killed
<1>6. ASSUME NEW h \in handlers, NEW r \in replies, r.msg = Message(h), Ends(h, r)
      PROVE  Kept
  <2>1. ASSUME NEW alive \in BOOLEAN, CompleteIssuance(h, r, alive) PROVE Kept
    BY <2>1, KillFacts DEF CompleteIssuance, Killed
  <2>2. ASSUME NEW n \in 1..3, NEW killed \in BOOLEAN, CompleteChange(h, r, n, killed) PROVE Kept
    BY <2>2, KillFacts DEF CompleteChange, Killed
  <2>3. ASSUME CompensateIssuance(h, r) \/ CompleteCompensation(h, r) \/ CompleteDiscovery(h, r)
        PROVE  Kept
    BY <2>3 DEF CompensateIssuance, CompleteCompensation, CompleteDiscovery
  <2>4. CASE CompleteImport(h, r) \/ Fail(h, r)
    BY <1>1, <2>4 DEF CompleteImport, Fail
  <2> QED BY <1>6, <2>1, <2>2, <2>3, <2>4 DEF Ends
<1>7. Kept
  BY <1>2, <1>3, <1>4, <1>5, <1>6, StepCases
<1> QED BY <1>1, <1>7

LEMMA DoubtKept ==
  ASSUME Types, [Next]_vars
  PROVE  doubtful' \subseteq Conn /\ enforced' \subseteq Conn
<1>1. doubtful \subseteq Conn /\ enforced \subseteq Conn
  BY DEF Types, MemoryInv
<1>2. \A h \in handlers : h.task = "create" \/ h.step = "undo" => h.conn \in Conn
  BY DEF Types, HandlerInv, Proper, Called
<1>3. ASSUME Killed PROVE doubtful' \subseteq Conn /\ enforced' = enforced
  BY <1>1, <1>2, <1>3 DEF Killed
<1>4. ASSUME NEW h, Starts(h) \/ Reads(h) PROVE UNCHANGED <<doubtful, enforced>>
  BY <1>4, StartFacts, ReadFacts DEF history
<1>5. ASSUME Local PROVE Killed \/ UNCHANGED <<doubtful, enforced>>
  BY <1>5, LocalFacts
<1>6. ASSUME NEW m \in sent, Works(m) PROVE doubtful' \subseteq Conn /\ enforced' = enforced
  <2>1. ASSUME NEW ok \in BOOLEAN, Execute(m, ok)
        PROVE  doubtful' = doubtful \/ doubtful' = doubtful \cup {m.conn}
    BY <2>1 DEF Execute
  <2>2. ASSUME Refuse(m) \/ ApplyPolicy(m) PROVE doubtful' = doubtful
    BY <2>2 DEF Refuse, ApplyPolicy, history
  <2>3. \A ok \in BOOLEAN : Execute(m, ok) => m.conn \in Conn
    BY ExecuteFacts
  <2>4. enforced' = enforced
    BY <1>6, WorkFacts
  <2> QED BY <1>1, <1>6, <2>1, <2>2, <2>3, <2>4 DEF Works
<1>7. ASSUME NEW c \in Conn, Enforce(c) PROVE doubtful' = doubtful /\ enforced' \subseteq Conn
  BY <1>1, <1>7, EnforceFacts
<1>8. ASSUME EditOutside \/ Poll \/ GiveUpPoll \/ UNCHANGED vars \/ \E r \in replies : CompletePoll(r)
      PROVE  UNCHANGED <<doubtful, enforced>>
  BY <1>8, EditFacts, PollFacts, GiveUpPollFacts, CompletePollFacts DEF history, vars
<1>9. ASSUME Restart PROVE Killed
  BY <1>9, RestartFacts
<1>10. ASSUME NEW h \in handlers, GiveUp(h) PROVE doubtful' \subseteq Conn /\ enforced' = enforced
  BY <1>1, <1>2, <1>10, GiveUpFacts
<1>11. ASSUME NEW h \in handlers, NEW r \in replies, r.msg = Message(h), Ends(h, r)
       PROVE  doubtful' \subseteq Conn /\ enforced' = enforced
  <2>1. ASSUME NEW alive \in BOOLEAN, CompleteIssuance(h, r, alive)
        PROVE  doubtful' = doubtful \/ Killed
    BY <2>1, KillFacts DEF CompleteIssuance
  <2>2. ASSUME NEW n \in 1..3, NEW killed \in BOOLEAN, CompleteChange(h, r, n, killed)
        PROVE  doubtful' = doubtful \/ Killed
    BY <2>2, KillFacts DEF CompleteChange
  <2>3. ASSUME CompensateIssuance(h, r) \/ CompleteCompensation(h, r) \/ CompleteImport(h, r)
                 \/ CompleteDiscovery(h, r)
        PROVE  doubtful' = doubtful
    BY <2>3 DEF CompensateIssuance, CompleteCompensation, CompleteImport, CompleteDiscovery, history
  <2>4. CASE Fail(h, r)
    BY <1>1, <1>2, <1>11, <2>4, EndFacts DEF Fail
  <2> QED BY <1>1, <1>3, <1>11, <2>1, <2>2, <2>3, <2>4, EndFacts DEF Ends
<1> QED BY <1>1, <1>3, <1>4, <1>5, <1>6, <1>7, <1>8, <1>9, <1>10, <1>11, StepCases

\* What is handed out, and when.
Hands(h) ==
  /\ h.task = "create" /\ given' = given \cup {<<h.op, h.conn>>}
  /\ row[h.conn] = None /\ row' = [row EXCEPT ![h.conn] = Issued(h)]
  /\ records' = Finished(h, "succeeded")

LEMMA GivenCases ==
  ASSUME Types, [Next]_vars
  PROVE  given' = given \/ \E h \in handlers : Hands(h)
<1>1. ASSUME NEW h, Starts(h) \/ Reads(h) PROVE given' = given
  BY <1>1, StartFacts, ReadFacts DEF history
<1>2. ASSUME Local PROVE given' = given
  BY <1>2, LocalFacts
<1>3. ASSUME NEW m \in sent, Works(m) PROVE given' = given
  BY <1>3, WorkFacts
<1>4. ASSUME (\E c \in Conn : Enforce(c)) \/ EditOutside \/ Poll \/ GiveUpPoll \/ Restart
               \/ UNCHANGED vars \/ (\E h \in handlers : GiveUp(h))
               \/ (\E r \in replies : CompletePoll(r))
      PROVE  given' = given
  BY <1>4, EnforceFacts, EditFacts, PollFacts, GiveUpPollFacts, RestartFacts, GiveUpFacts,
     CompletePollFacts DEF history, vars
<1>5. ASSUME NEW h \in handlers, NEW r \in replies, Ends(h, r)
      PROVE  given' = given \/ Hands(h)
  <2>1. ASSUME NEW alive \in BOOLEAN, CompleteIssuance(h, r, alive)
        PROVE  given' = given \/ Hands(h)
    BY <2>1 DEF CompleteIssuance, Hands
  <2>2. ASSUME NEW n \in 1..3, NEW killed \in BOOLEAN, CompleteChange(h, r, n, killed)
        PROVE  given' = given
    BY <2>2 DEF CompleteChange
  <2>3. ASSUME CompensateIssuance(h, r) \/ CompleteCompensation(h, r) \/ CompleteImport(h, r)
                 \/ CompleteDiscovery(h, r) \/ Fail(h, r)
        PROVE  given' = given
    BY <2>3 DEF CompensateIssuance, CompleteCompensation, CompleteImport, CompleteDiscovery, Fail,
                history
  <2> QED BY <1>5, <2>1, <2>2, <2>3 DEF Ends
<1> QED BY <1>1, <1>2, <1>3, <1>4, <1>5, StepCases

LEMMA TypesKept ==
  ASSUME Types, ManagedOnly, [Next]_vars
  PROVE  Types'
<1>1. counts' \in Counts
  BY CountsKept
<1>2. given' \subseteq OpId \X Conn
  <2>1. given \subseteq OpId \X Conn
    BY DEF Types, MemoryInv
  <2>2. ASSUME NEW h \in handlers, Hands(h) PROVE <<h.op, h.conn>> \in OpId \X Conn
    BY <2>2 DEF Types, HandlerInv, Proper, Called, Hands
  <2> QED BY <2>1, <2>2, GivenCases DEF Hands
<1>3. MemoryInv'
  BY <1>1, <1>2, PollKept, DriftedKept, DoubtKept DEF MemoryInv, Counts
<1> QED BY <1>3, HandlerInvKept, NodeInvKept, NetInvKept, RowInvKept, RecordInvKept DEF Types

-----------------------------------------------------------------------------
(* Creations: each peer has one operation that creates it, sent once.      *)

\* A peer that is begun to be created was never heard of.
LEMMA FreshFacts ==
  ASSUME PanelInv, NEW h, Starts(h), h.task = "create"
  PROVE  /\ h.op \in OpId /\ h.conn \in Conn /\ h.conn \notin Foreign
         /\ ~Known(<<"create", None>>, h.op)
         /\ \A op : ~Creates(op, h.conn)
         /\ ~Heard(h.conn)
<1>1. /\ h.op \in OpId /\ h.conn \in Conn /\ Fresh(h.conn) /\ ~Known(Scope(h), h.op)
  BY StartFacts
<1>2. ~Known(<<"create", None>>, h.op)
  BY <1>1, RecordFacts
<1>3. h.conn \notin Foreign
  BY <1>1 DEF Fresh, PanelInv, ForeignKept, Managed, Present
<1>4. \A g \in handlers : g.conn # h.conn
  BY <1>1 DEF Fresh
<1>5. ASSUME NEW m, Waits(m) PROVE m.conn # h.conn
  <2>1. PICK g \in handlers : Message(g) = m
    BY <1>5 DEF Waits
  <2>2. Proper(g)
    BY DEF PanelInv, Types, HandlerInv
  <2> QED BY <1>4, <2>1, <2>2, MessageFacts
<1>6. \A m \in sent : m.action = "create" => m.conn # h.conn
  BY <1>1, <1>5 DEF PanelInv, SentOnce, Fresh
<1>7. \A r \in replies : r.msg.action = "create" => r.msg.conn # h.conn
  BY <1>5 DEF PanelInv, AnsweredOnce
<1>8. \A j \in journal : j.conn # h.conn
  BY <1>1 DEF Fresh
<1>9. \A op : ~Creates(op, h.conn)
  BY <1>4, <1>6, <1>7, <1>8 DEF Creates
<1>10. ~Heard(h.conn)
  BY <1>1, <1>3, <1>8 DEF PanelInv, Origins, Created, Heard
<1> QED BY <1>1, <1>2, <1>3, <1>9, <1>10

\* A creation is one that was known, or begins.
LEMMA CreatesCases ==
  ASSUME Types, [Next]_vars, NEW op, NEW c, Creates(op, c)'
  PROVE  \/ Creates(op, c)
         \/ \E h : Starts(h) /\ h.task = "create" /\ h.op = op /\ h.conn = c
<1>1. ASSUME NEW h \in handlers', h.task = "create", h.op = op, h.conn = c
      PROVE  Creates(op, c) \/ Starts(h)
  <2>1. ASSUME NEW g \in handlers, NEW r \in replies, CompensateIssuance(g, r), h = Undoes(g, r)
        PROVE  g.task = "create" /\ g.op = op /\ g.conn = c
    BY <1>1, <2>1, UndoFacts DEF CompensateIssuance
  <2>2. Reads(h) => h.task # "create"
    BY ReadFacts
  <2> QED BY <1>1, <2>1, <2>2, HandlerCases DEF Creates
<1>2. ASSUME NEW m \in sent', m.action = "create", m.op = op, m.conn = c
      PROVE  \/ Creates(op, c)
             \/ \E h : Starts(h) /\ h.task = "create" /\ h.op = op /\ h.conn = c
  <2>1. ASSUME NEW h, Starts(h), m = Message(h)
        PROVE  h.task = "create" /\ h.op = op /\ h.conn = c
    <3>1. Proper(h) /\ h.step = "call"
      BY <2>1, BeginProper, StartFacts
    <3> QED BY <1>2, <2>1, <3>1, MessageFacts
  <2>2. ASSUME NEW g \in handlers, NEW r \in replies, CompensateIssuance(g, r),
               m = Message(Undoes(g, r))
        PROVE  FALSE
    <3>1. Proper(Undoes(g, r)) /\ Undoes(g, r).step = "undo"
      BY <2>2, UndoFacts DEF CompensateIssuance
    <3> QED BY <1>2, <2>2, <3>1, MessageFacts
  <2>3. m # [action |-> "apply-policy", policies |-> Projection]
    BY <1>2
  <2> QED BY <1>2, <2>1, <2>2, <2>3, SentCases DEF Creates
<1>3. ASSUME NEW r \in replies', r.msg.action = "create", r.msg.op = op, r.msg.conn = c
      PROVE  Creates(op, c)
  <2>1. ASSUME NEW h, Reads(h), r.msg = Message(h) PROVE FALSE
    <3>1. Proper(h) /\ h.task # "create"
      BY <2>1, BeginProper, ReadFacts
    <3> QED BY <1>3, <2>1, <3>1, MessageFacts
  <2>2. r \in replies \/ \E m \in sent : r.msg = m
    BY <2>1, ReplyCases
  <2> QED BY <1>3, <2>2 DEF Creates
<1>4. ASSUME NEW j \in journal', j.action = "create", j.op = op, j.conn = c
      PROVE  Creates(op, c)
  <2>1. j \in journal \/ \E m \in sent : m.action = j.action /\ m.op = j.op /\ m.conn = j.conn
    BY <1>4, JournalCases
  <2> QED BY <1>4, <2>1 DEF Creates
<1> QED BY <1>1, <1>2, <1>3, <1>4 DEF Creates

LEMMA CreatedByOneKept ==
  ASSUME PanelInv, [Next]_vars
  PROVE  CreatedByOne'
<1>1. Types /\ CreatedByOne
  BY DEF PanelInv
<1>2. \A op \in OpId : Known(<<"create", None>>, op) => Known(<<"create", None>>, op)'
  BY <1>1, KnownKept
<1>3. CASE \E h : Starts(h) /\ h.task = "create"
  <2>1. PICK h : Starts(h) /\ h.task = "create"
    BY <1>3
  <2>2. /\ h.op \in OpId /\ h.conn \in Conn /\ h.conn \notin Foreign
        /\ ~Known(<<"create", None>>, h.op)
        /\ \A op : ~Creates(op, h.conn)
    BY <2>1, FreshFacts
  <2>3. Known(<<"create", None>>, h.op)'
    <3>1. records' = records \cup {NewRecord(h, "started")}
      BY <2>1, StartFacts
    <3> QED BY <2>1, <3>1, RecordFacts DEF Known
  <2>4. ASSUME NEW op \in OpId, NEW c \in Conn, Creates(op, c)'
        PROVE  Creates(op, c) \/ (op = h.op /\ c = h.conn)
    <3>1. ASSUME NEW g, Starts(g), g.task = "create" PROVE g.op = h.op /\ g.conn = h.conn
      <4>1. handlers' = handlers \cup {g} /\ handlers' = handlers \cup {h}
        BY <2>1, <3>1, StartFacts
      <4>2. g \notin handlers
        BY <3>1, StartFacts DEF Fresh
      <4> QED BY <4>1, <4>2
    <3> QED BY <1>1, <2>4, <3>1, CreatesCases
  <2>5. \A c \in Conn : ~Creates(h.op, c)
    BY <1>1, <2>2 DEF CreatedByOne
  <2> QED BY <1>1, <1>2, <2>2, <2>3, <2>4, <2>5 DEF CreatedByOne
<1>4. CASE ~\E h : Starts(h) /\ h.task = "create"
  <2>1. ASSUME NEW op \in OpId, NEW c \in Conn, Creates(op, c)'
        PROVE  Creates(op, c)
    BY <1>1, <1>4, <2>1, CreatesCases
  <2> QED BY <1>1, <1>2, <2>1 DEF CreatedByOne
<1> QED BY <1>3, <1>4

\* A creation that begins goes to the node under a new operation id.
LEMMA NewCreation ==
  ASSUME PanelInv, NEW m, m.action = "create", NEW h, Starts(h), m = Message(h)
  PROVE  /\ m.op = h.op /\ Waits(m)'
         /\ \A l \in sent : l.action = "create" => l.op # m.op
         /\ \A r \in replies : r.msg.action = "create" => r.msg.op # m.op
         /\ \A j \in journal : j.action = "create" => j.op # m.op
         /\ sent' = sent \cup {m} /\ replies' = replies /\ journal' = journal
<1>1. Types /\ CreatedByOne
  BY DEF PanelInv
<1>2. Proper(h) /\ h.step = "call"
  BY <1>1, BeginProper, StartFacts
<1>3. h.task = "create" /\ m.op = h.op
  BY <1>2, MessageFacts
<1>4. h.op \in OpId /\ ~Known(<<"create", None>>, h.op)
  BY <1>3, FreshFacts
<1>5. \A c \in Conn : ~Creates(h.op, c)
  BY <1>1, <1>4 DEF CreatedByOne
<1>6. \A l \in sent : l.action = "create" => l.conn \in Conn
  BY <1>1 DEF Types, NetInv, Sound, MutationActions
<1>7. \A r \in replies : r.msg.action = "create" => r.msg.conn \in Conn
  BY <1>1 DEF Types, NetInv, Sound, MutationActions
<1>8. \A j \in journal : j.conn \in Conn
  BY <1>1 DEF Types, NodeInv
<1>9. sent' = sent \cup {m} /\ replies' = replies /\ journal' = journal
        /\ handlers' = handlers \cup {h}
  BY StartFacts DEF node
<1>10. Waits(m)'
  BY <1>2, <1>3, <1>9 DEF Waits, Message
<1> QED BY <1>3, <1>5, <1>6, <1>7, <1>8, <1>9, <1>10 DEF Creates

\* What ends the waiting for a message is its reply, or a doubt.
LEMMA WaitsKept ==
  ASSUME Types, [Next]_vars, NEW m, Waits(m)
  PROVE  \/ Waits(m)'
         \/ m.conn \in doubtful' /\ \A r \in replies' : r.msg # m
         \/ \E r \in replies : r.msg = m /\ r \notin replies'
<1>1. PICK h \in handlers : h.task = "create" /\ h.step = "call" /\ Message(h) = m
  BY DEF Waits
<1>2. m.conn = h.conn /\ h \in HandlerType
  BY <1>1, MessageFacts DEF Types, HandlerInv, Proper
<1>3. h \in handlers' => Waits(m)'
  BY <1>1 DEF Waits, Message
<1>4. ASSUME Killed
      PROVE  m.conn \in doubtful' /\ \A r \in replies' : r.msg # m
  BY <1>1, <1>2, <1>4 DEF Killed
<1>5. ASSUME NEW g, Starts(g) \/ Reads(g) PROVE h \in handlers'
  BY <1>1, <1>5, StartFacts, ReadFacts
<1>6. ASSUME Local PROVE Killed \/ h \in handlers'
  BY <1>1, <1>6, LocalFacts DEF memory
<1>7. ASSUME NEW l \in sent, Works(l) PROVE h \in handlers'
  BY <1>1, <1>7, WorkFacts DEF memory
<1>8. ASSUME (\E c \in Conn : Enforce(c)) \/ EditOutside \/ Poll \/ GiveUpPoll
               \/ UNCHANGED vars \/ \E r \in replies : CompletePoll(r)
      PROVE  h \in handlers'
  BY <1>1, <1>8, EnforceFacts, EditFacts, PollFacts, GiveUpPollFacts, CompletePollFacts
     DEF memory, vars
<1>9. ASSUME Restart PROVE Killed
  BY <1>9, RestartFacts
<1>10. ASSUME NEW g \in handlers, GiveUp(g)
       PROVE  h \in handlers' \/ (m.conn \in doubtful' /\ \A r \in replies' : r.msg # m)
  BY <1>1, <1>2, <1>10, GiveUpFacts
<1>11. ASSUME NEW g \in handlers, NEW r \in replies, r.msg = Message(g), Ends(g, r)
       PROVE  h \in handlers' \/ Killed \/ (r.msg = m /\ r \notin replies')
  <2>1. CASE CompensateIssuance(g, r)
    <3>1. handlers' = (handlers \ {g}) \cup {Undoes(g, r)} /\ replies' = replies \ {r}
      BY <2>1 DEF CompensateIssuance, Undoes
    <3> QED BY <1>1, <1>11, <3>1
  <2>2. CASE handlers' = handlers \ {g} /\ replies' = replies \ {r}
    BY <1>1, <1>11, <2>2
  <2> QED BY <1>11, <2>1, <2>2, EndFacts
<1> QED BY <1>3, <1>4, <1>5, <1>6, <1>7, <1>8, <1>9, <1>10, <1>11, StepCases

\* A message to create comes with the request that waits for it.
LEMMA NewCreate ==
  ASSUME PanelInv, [Next]_vars, NEW m \in sent', m.action = "create", m \notin sent
  PROVE  \E h : Starts(h) /\ m = Message(h)
<1>1. ASSUME NEW g \in handlers, NEW r \in replies, CompensateIssuance(g, r),
             m = Message(Undoes(g, r))
      PROVE  FALSE
  <2>1. Proper(Undoes(g, r)) /\ Undoes(g, r).step = "undo"
    BY <1>1, UndoFacts DEF CompensateIssuance, PanelInv
  <2> QED BY <1>1, <2>1, MessageFacts
<1> QED BY <1>1, SentCases DEF PanelInv

LEMMA SentOnceKept ==
  ASSUME PanelInv, [Next]_vars
  PROVE  SentOnce'
<1>1. Types /\ SentOnce /\ AnsweredOnce /\ doubtful \subseteq doubtful'
  BY JournalGrows DEF PanelInv
<1>2. ASSUME NEW m \in sent', NEW l \in sent', m.action = "create", l.action = "create", m.op = l.op
      PROVE  m = l
  <2>1. CASE m \in sent /\ l \in sent
    BY <1>1, <1>2, <2>1 DEF SentOnce
  <2>2. CASE m \notin sent \/ l \notin sent
    BY <1>2, <2>2, NewCreate, NewCreation
  <2> QED BY <2>1, <2>2
<1>3. ASSUME NEW m \in sent', NEW j \in journal', m.action = "create", j.action = "create"
      PROVE  m.op # j.op
  <2>1. CASE m \in sent
    <3>1. CASE j \in journal
      BY <1>1, <1>3, <2>1, <3>1 DEF SentOnce
    <3>2. CASE j \notin journal
      <4>1. PICK l \in sent : l \notin sent' /\ j.action = l.action /\ j.op = l.op
        BY <1>1, <3>2, JournalCases
      <4> QED BY <1>1, <1>3, <2>1, <4>1 DEF SentOnce
    <3> QED BY <3>1, <3>2
  <2>2. CASE m \notin sent
    BY <1>3, <2>2, NewCreate, NewCreation
  <2> QED BY <2>1, <2>2
<1>4. ASSUME NEW m \in sent', m.action = "create"
      PROVE  Waits(m)' \/ m.conn \in doubtful'
  <2>1. CASE m \in sent
    <3>1. \A r \in replies : r.msg # m
      BY <1>1, <1>4, <2>1 DEF AnsweredOnce
    <3>2. Waits(m) \/ m.conn \in doubtful
      BY <1>1, <1>4, <2>1 DEF SentOnce
    <3> QED BY <1>1, <3>1, <3>2, WaitsKept
  <2>2. CASE m \notin sent
    BY <1>4, <2>2, NewCreate, NewCreation
  <2> QED BY <2>1, <2>2
<1> QED BY <1>2, <1>3, <1>4 DEF SentOnce, Waits

\* The node answers one message at a time.
LEMMA OneNewReply ==
  ASSUME Types, [Next]_vars, NEW q \in replies', NEW r \in replies', q \notin replies, r \notin replies
  PROVE  q = r
<1>1. ASSUME NEW h, Starts(h) PROVE replies' = replies
  BY <1>1, StartFacts
<1>2. ASSUME NEW h, Reads(h) PROVE q = r
  <2>1. PICK x : replies' = replies \cup {x}
    BY <1>2, ReadFacts
  <2> QED BY <2>1
<1>3. ASSUME Local PROVE replies' \subseteq replies
  BY <1>3, LocalFacts DEF Killed, net
<1>4. ASSUME NEW m \in sent, Works(m) PROVE q = r
  <2>1. replies' = replies \/ \E x : replies' = replies \cup {x}
    BY <1>4, WorkFacts
  <2>2. PICK x : replies' = replies \cup {x}
    BY <2>1
  <2> QED BY <2>2
<1>5. ASSUME (\E c \in Conn : Enforce(c)) \/ EditOutside \/ Poll \/ GiveUpPoll \/ Restart
               \/ UNCHANGED vars \/ (\E h \in handlers : GiveUp(h))
               \/ (\E x \in replies : CompletePoll(x))
      PROVE  replies' \subseteq replies
  BY <1>5, EnforceFacts, EditFacts, PollFacts, GiveUpPollFacts, RestartFacts, GiveUpFacts,
     CompletePollFacts DEF net, vars, Killed
<1>6. ASSUME NEW h \in handlers, NEW x \in replies, x.msg = Message(h), Ends(h, x)
      PROVE  replies' \subseteq replies
  <2>1. (Killed => replies' = {}) /\ (CompensateIssuance(h, x) => replies' = replies \ {x})
    BY DEF Killed, CompensateIssuance
  <2> QED BY <1>6, <2>1, EndFacts
<1> QED BY <1>1, <1>2, <1>3, <1>4, <1>5, <1>6, StepCases

\* A reply to a creation that is new answers a message that was sent.
LEMMA NewAnswer ==
  ASSUME PanelInv, [Next]_vars, NEW r \in replies', r.msg.action = "create", r \notin replies
  PROVE  r.msg \in sent /\ r.msg \notin sent' /\ Waits(r.msg)'
<1>1. Types
  BY DEF PanelInv
<1>2. ASSUME NEW h, Reads(h), r.msg = Message(h) PROVE FALSE
  <2>1. Proper(h) /\ h.task # "create"
    BY <1>1, <1>2, BeginProper, ReadFacts
  <2> QED BY <1>2, <2>1, MessageFacts
<1>3. PICK m \in sent : Works(m) /\ r.msg = m /\ Awaited(m) /\ m \notin sent'
  BY <1>1, <1>2, ReplyCases
<1>4. PICK h \in handlers : Message(h) = m
  BY <1>3 DEF Awaited
<1>5. h.task = "create" /\ h.step = "call"
  BY <1>1, <1>3, <1>4, MessageFacts DEF Types, HandlerInv
<1>6. handlers' = handlers
  BY <1>3, WorkFacts DEF memory
<1> QED BY <1>3, <1>4, <1>5, <1>6 DEF Waits, Message

LEMMA AnsweredOnceKept ==
  ASSUME PanelInv, [Next]_vars
  PROVE  AnsweredOnce'
<1>1. Types /\ SentOnce /\ AnsweredOnce
  BY DEF PanelInv
<1>2. ASSUME NEW q \in replies', NEW r \in replies', q.msg.action = "create",
             r.msg.action = "create", q.msg.op = r.msg.op
      PROVE  q = r
  <2>1. CASE q \in replies /\ r \in replies
    BY <1>1, <1>2, <2>1 DEF AnsweredOnce
  <2>2. CASE q \notin replies /\ r \notin replies
    BY <1>1, <2>2, OneNewReply
  <2>3. CASE q \in replies /\ r \notin replies
    BY <1>1, <1>2, <2>3, NewAnswer DEF AnsweredOnce
  <2>4. CASE q \notin replies /\ r \in replies
    BY <1>1, <1>2, <2>4, NewAnswer DEF AnsweredOnce
  <2> QED BY <2>1, <2>2, <2>3, <2>4
<1>3. ASSUME NEW m \in sent', NEW r \in replies', m.action = "create", r.msg.action = "create"
      PROVE  m.op # r.msg.op
  <2>1. CASE m \in sent
    <3>1. CASE r \in replies
      BY <1>1, <1>3, <2>1, <3>1 DEF AnsweredOnce
    <3>2. CASE r \notin replies
      <4>1. r.msg \in sent /\ r.msg \notin sent'
        BY <1>3, <3>2, NewAnswer
      <4> QED BY <1>1, <1>3, <2>1, <4>1 DEF SentOnce
    <3> QED BY <3>1, <3>2
  <2>2. CASE m \notin sent
    BY <1>3, <2>2, NewCreate, NewCreation
  <2> QED BY <2>1, <2>2
<1>4. ASSUME NEW r \in replies', r.msg.action = "create"
      PROVE  Waits(r.msg)'
  <2>1. CASE r \in replies
    <3>1. Waits(r.msg)
      BY <1>1, <1>4, <2>1 DEF AnsweredOnce
    <3>2. \A q \in replies : q.msg = r.msg => q = r
      BY <1>1, <1>4, <2>1 DEF AnsweredOnce
    <3>3. \/ Waits(r.msg)'
          \/ \A q \in replies' : q.msg # r.msg
          \/ \E q \in replies : q.msg = r.msg /\ q \notin replies'
      BY <1>1, <3>1, WaitsKept
    <3> QED BY <3>2, <3>3
  <2>2. CASE r \notin replies
    BY <1>4, <2>2, NewAnswer
  <2> QED BY <2>1, <2>2
<1> QED BY <1>2, <1>3, <1>4 DEF AnsweredOnce, Waits

-----------------------------------------------------------------------------
(* The node.                                                               *)

\* What changes the peers of the node: its work, and its enforcement.
LEMMA NodeCases ==
  ASSUME Types, [Next]_vars
  PROVE  \/ /\ config'.peers = config.peers /\ parked' = parked
            /\ policy' = policy \/ \E m \in sent : ApplyPolicy(m)
         \/ \E m \in sent, ok \in BOOLEAN : Execute(m, ok)
         \/ \E c \in Conn : Enforce(c)
<1> DEFINE Same == UNCHANGED <<config, parked, policy>>
<1>1. ASSUME NEW h, Starts(h) \/ Reads(h) PROVE Same
  BY <1>1, StartFacts, ReadFacts DEF node
<1>2. ASSUME Local PROVE Same
  BY <1>2, LocalFacts DEF Killed, node
<1>3. ASSUME NEW m \in sent, Works(m), \A ok \in BOOLEAN : ~Execute(m, ok)
      PROVE  config' = config /\ parked' = parked /\ (policy' = policy \/ ApplyPolicy(m))
  BY <1>3 DEF Works, Refuse, ApplyPolicy
<1>4. ASSUME EditOutside PROVE config'.peers = config.peers /\ parked' = parked /\ policy' = policy
  BY <1>4 DEF EditOutside, Types, NodeInv, Content
<1>5. ASSUME NEW h \in handlers, NEW r \in replies, r.msg = Message(h), Ends(h, r) PROVE Same
  BY <1>5, EndFacts DEF node
<1>6. ASSUME Poll \/ GiveUpPoll \/ Restart \/ UNCHANGED vars \/ (\E h \in handlers : GiveUp(h))
               \/ (\E r \in replies : CompletePoll(r))
      PROVE  Same
  BY <1>6, PollFacts, GiveUpPollFacts, RestartFacts, GiveUpFacts, CompletePollFacts
     DEF node, vars, Killed
<1> QED BY <1>1, <1>2, <1>3, <1>4, <1>5, <1>6, StepCases

\* A peer that appears is created.
LEMMA PresentCases ==
  ASSUME Types, [Next]_vars, NEW c, Present(c)'
  PROVE  \/ Present(c)
         \/ \E m \in sent, ok \in BOOLEAN :
              Execute(m, ok) /\ m.action = "create" /\ m.conn = c /\ m \notin sent'
<1>1. ASSUME NEW m \in sent, NEW ok \in BOOLEAN, Execute(m, ok)
      PROVE  Present(c) \/ (m.action = "create" /\ m.conn = c /\ m \notin sent')
  <2>1. sent' = sent \ {m}
    BY <1>1 DEF Execute, Answer
  <2>2. CASE c = m.conn
    BY <1>1, <2>1, <2>2, ExecuteFacts
  <2>3. CASE c # m.conn
    <3>1. c \in config'.peers => c \in config.peers
      BY <1>1, <2>3, ExecuteFacts
    <3>2. parked' = ParkedAfter(m)
      BY <1>1, ExecuteFacts
    <3>3. c \in parked' => c \in parked
      BY <2>3, <3>2 DEF ParkedAfter
    <3> QED BY <3>1, <3>3 DEF Present
  <2> QED BY <2>2, <2>3
<1>2. ASSUME NEW d \in Conn, Enforce(d) PROVE Present(c)
  BY <1>2 DEF Enforce, Present, Types, NodeInv, Content
<1> QED BY <1>1, <1>2, NodeCases DEF Present

\* A peer that leaves the configuration was disabled, revoked or suspended by
\* its limits.
LEMMA PeerLeaves ==
  ASSUME Types, [Next]_vars, NEW c, c \in config.peers, c \notin config'.peers
  PROVE  \/ \E m \in sent, ok \in BOOLEAN :
              Execute(m, ok) /\ m.action \in {"disable", "revoke"} /\ m.conn = c
         \/ Enforce(c)
<1>1. ASSUME NEW m \in sent, NEW ok \in BOOLEAN, Execute(m, ok)
      PROVE  m.action \in {"disable", "revoke"} /\ m.conn = c
  BY <1>1, ExecuteFacts DEF MutationActions
<1>2. ASSUME NEW d \in Conn, Enforce(d) PROVE d = c
  BY <1>2 DEF Enforce, Types, NodeInv, Content
<1> QED BY <1>1, <1>2, NodeCases

\* A creation is on its way for a connection nobody has heard of.
LEMMA CreationOfNew ==
  ASSUME PanelInv, NEW m \in sent, m.action = "create"
  PROVE  /\ m.op \in OpId /\ m.conn \in Conn /\ ~Heard(m.conn) /\ m.conn \notin Foreign
         /\ ~Created(m.conn)
<1>1. Types /\ CreatedByOne /\ SentOnce /\ Origins
  BY DEF PanelInv
<1>2. m.op \in OpId /\ m.conn \in Conn /\ Creates(m.op, m.conn)
  BY <1>1 DEF Types, NetInv, Sound, Creates, MutationActions
<1>3. m.conn \notin Foreign
  BY <1>1, <1>2 DEF CreatedByOne
<1>4. ASSUME NEW j \in journal, j.action = "create", j.conn = m.conn PROVE FALSE
  <2>1. j.op \in OpId /\ Creates(j.op, m.conn)
    BY <1>1, <1>4 DEF Types, NodeInv, Creates
  <2>2. j.op = m.op
    BY <1>1, <1>2, <2>1 DEF CreatedByOne
  <2> QED BY <1>1, <1>4, <2>2 DEF SentOnce
<1>5. ~Created(m.conn)
  BY <1>4 DEF Created
<1> QED BY <1>1, <1>2, <1>3, <1>5 DEF Origins

\* What the journal says was done was executed.
LEMMA NewlyDone ==
  ASSUME Types, [Next]_vars, NEW j \in journal', j.ok, j \notin journal
  PROVE  \E m \in sent : Execute(m, TRUE) /\ j.action = m.action /\ j.conn = m.conn /\ j.op = m.op
<1>1. PICK m \in sent : /\ Works(m) /\ j.action = m.action /\ j.conn = m.conn /\ j.op = m.op
  BY JournalCases
<1>2. ~Refuse(m)
  <2>1. Refuse(m) => journal' = journal \/ journal' = journal \cup {Entry(m, FALSE)}
    BY DEF Refuse, Journal, Entry
  <2>2. Entry(m, FALSE).ok = FALSE
    BY DEF Entry
  <2> QED BY <2>1, <2>2
<1>3. ~ApplyPolicy(m)
  BY DEF ApplyPolicy
<1>4. PICK ok \in BOOLEAN : Execute(m, ok)
  BY <1>1, <1>2, <1>3 DEF Works
<1>5. j = Entry(m, ok)
  <2>1. journal' = journal \cup {Entry(m, ok)}
    BY <1>4, ExecuteFacts
  <2> QED BY <2>1
<1>6. ok = TRUE
  BY <1>5 DEF Entry
<1> QED BY <1>1, <1>4, <1>6

-----------------------------------------------------------------------------
(* What replies say, and where connections come from and go to.            *)

LEMMA RepliesTrueKept ==
  ASSUME PanelInv, [Next]_vars
  PROVE  RepliesTrue'
<1>1. /\ Types /\ CreatedByOne /\ AnsweredOnce /\ RepliesTrue
      /\ journal \subseteq journal' /\ doubtful \subseteq doubtful'
  BY JournalGrows DEF PanelInv
<1>2. ASSUME NEW r \in replies', r.ok, r.msg.action \in MutationActions
      PROVE  Entry(r.msg, TRUE) \in journal'
  <2>1. CASE r \in replies
    BY <1>1, <1>2, <2>1 DEF RepliesTrue
  <2>2. ASSUME NEW h, Reads(h), r.msg = Message(h) PROVE FALSE
    <3>1. Proper(h) /\ h.step = "call" /\ h.task \in {"import", "discover"}
      BY <1>1, <2>2, BeginProper, ReadFacts
    <3>2. Message(h).action \in {"list", "discover"}
      BY <3>1, MessageFacts, RpcValues
    <3> QED BY <1>2, <2>2, <3>2 DEF MutationActions
  <2> QED BY <1>1, <1>2, <2>1, <2>2, ReplyCases
<1>3. ASSUME NEW r \in replies', ~r.ok, r.msg.action = "create"
      PROVE  r.msg.conn \in doubtful' \/ ~Present(r.msg.conn)'
  <2>1. CASE r \in replies
    <3>1. r.msg.conn \in doubtful \/ ~Present(r.msg.conn)
      BY <1>1, <1>3, <2>1 DEF RepliesTrue
    <3>2. ASSUME NEW m \in sent, m.action = "create", m.conn = r.msg.conn PROVE FALSE
      <4>1. /\ m.conn \in Conn /\ Creates(m.op, m.conn) /\ Creates(r.msg.op, m.conn)
            /\ m.op \in OpId /\ r.msg.op \in OpId
        BY <1>1, <1>3, <2>1, <3>2 DEF Types, NetInv, Sound, Creates, MutationActions
      <4>2. m.op = r.msg.op
        BY <1>1, <4>1 DEF CreatedByOne
      <4> QED BY <1>1, <1>3, <2>1, <3>2, <4>2 DEF AnsweredOnce
    <3>3. Present(r.msg.conn)' => Present(r.msg.conn)
      BY <1>1, <3>2, PresentCases
    <3> QED BY <1>1, <3>1, <3>3
  <2>2. CASE r \notin replies
    <3>1. r.msg \in sent
      BY <1>3, <2>2, NewAnswer
    <3>2. ~Present(r.msg.conn)
      BY <1>3, <3>1, CreationOfNew DEF Heard
    <3>3. r.msg.conn \in doubtful' \/ UNCHANGED <<config, parked>>
      <4>1. ASSUME NEW h, Reads(h) PROVE UNCHANGED <<config, parked>>
        BY <4>1, ReadFacts DEF node
      <4> QED BY <1>1, <1>3, <2>2, <4>1, ReplyCases
    <3> QED BY <3>2, <3>3 DEF Present
  <2> QED BY <2>1, <2>2
<1> QED BY <1>2, <1>3 DEF RepliesTrue, Present

LEMMA OriginsKept ==
  ASSUME PanelInv, [Next]_vars
  PROVE  Origins'
<1>1. Types /\ ManagedOnly /\ Origins /\ RepliesTrue /\ journal \subseteq journal'
  BY JournalGrows DEF PanelInv
<1>2. \A c : Created(c) => Created(c)'
  BY <1>1 DEF Created
<1>3. ASSUME NEW c \in Conn, Present(c)' PROVE Heard(c) \/ Created(c)'
  <2>1. ASSUME NEW m \in sent, NEW ok \in BOOLEAN, Execute(m, ok), m.action = "create", m.conn = c
        PROVE  Created(c)'
    <3>1. Entry(m, ok) \in journal'
      BY <1>1, <2>1, ExecuteFacts
    <3> QED BY <2>1, <3>1 DEF Created, Entry
  <2> QED BY <1>1, <1>3, <2>1, PresentCases DEF Heard
<1>4. ASSUME NEW c \in Conn, row'[c] # None, row[c] = None PROVE Heard(c) \/ Created(c)
  <2>1. ASSUME NEW h \in handlers, NEW r \in replies, Answered(h, r) PROVE Heard(c) \/ Created(c)
    <3>1. c = h.conn
      BY <1>1, <1>4, <2>1, AnsweredFacts
    <3>2. CASE h.task = "create"
      <4>1. r.ok /\ r.msg.action = "create" /\ r.msg.conn = c
        BY <1>1, <2>1, <3>1, <3>2, AnsweredFacts
      <4> QED BY <1>1, <4>1 DEF RepliesTrue, Created, MutationActions, Entry
    <3>3. CASE h.task = "import"
      BY <1>1, <2>1, <3>1, <3>3, AnsweredFacts DEF Heard
    <3>4. CASE h.task \in {"suspend", "resume", "revoke"}
      BY <1>1, <1>4, <2>1, <3>1, <3>4, AnsweredFacts DEF Managed
    <3> QED BY <1>1, <2>1, <3>2, <3>3, <3>4, AnsweredFacts
  <2>2. ASSUME NEW r \in replies, r.msg.action = "apply-policy", r.ok,
               row' = [d \in Conn |-> PolledRow(d, r.policies)]
        PROVE  FALSE
    BY <1>1, <1>4, <2>2, PolledFacts DEF Types, NetInv
  <2>3. ASSUME NEW d \in Conn, row[d] # None, row' = [row EXCEPT ![d].managed = TRUE]
        PROVE  FALSE
    BY <1>1, <1>4, <2>3 DEF Types, RowInv
  <2> QED BY <1>4, <2>1, <2>2, <2>3, RowCases
<1>5. ASSUME NEW c \in Conn, NEW j \in journal', j.conn = c, j.ok PROVE Heard(c) \/ Created(c)'
  <2>1. CASE j \in journal
    BY <1>5, <2>1 DEF Heard
  <2>2. CASE j \notin journal
    <3>1. PICK m \in sent : Execute(m, TRUE) /\ j.action = m.action /\ j.conn = m.conn
      BY <1>1, <1>5, <2>2, NewlyDone
    <3>2. m.action = "create" \/ Present(c)
      BY <1>1, <1>5, <3>1, ExecuteFacts
    <3> QED BY <1>5, <3>1, <3>2 DEF Heard, Created
  <2> QED BY <2>1, <2>2
<1>6. ASSUME NEW c \in Conn, NEW r \in replies', c \in r.fp.peers PROVE Heard(c) \/ Created(c)'
  <2>1. r \in replies \/ r.fp = config \/ r.fp = config'
    BY <1>1, ReplyCases
  <2> QED BY <1>3, <1>6, <2>1 DEF Heard, Present
<1>7. \A c \in Conn : Heard(c)' => Heard(c) \/ Created(c)'
  BY <1>2, <1>3, <1>4, <1>5, <1>6 DEF Heard, Present
<1> QED BY <1>1, <1>2, <1>7 DEF Origins

\* A row is revoked by the answer to a revocation.
LEMMA NewRevoked ==
  ASSUME Types, ManagedOnly, [Next]_vars, NEW c \in Conn, row'[c] # None, row'[c].revokedAt
  PROVE  \/ row[c] # None /\ row[c].revokedAt
         \/ \E h \in handlers, r \in replies : Answered(h, r) /\ h.task = "revoke" /\ h.conn = c
<1>1. ASSUME NEW h \in handlers, NEW r \in replies, Answered(h, r)
      PROVE  (row[c] # None /\ row[c].revokedAt) \/ (h.task = "revoke" /\ h.conn = c)
  <2>1. CASE c # h.conn
    BY <1>1, <2>1, AnsweredFacts
  <2>2. CASE c = h.conn /\ h.task \in {"suspend", "resume", "revoke"}
    <3>1. Managed(c) /\ row'[c] = RowAfter(h) /\ Proper(h)
      BY <1>1, <2>2, AnsweredFacts
    <3>2. row'[c].revokedAt = (row[c].revokedAt \/ h.task = "revoke")
      BY <2>2, <3>1, RowAfterFacts DEF Types
    <3> QED BY <2>2, <3>1, <3>2 DEF Managed
  <2>3. CASE c = h.conn /\ h.task = "create"
    <3>1. row'[c] = Issued(h)
      BY <1>1, <2>3, AnsweredFacts
    <3> QED BY <3>1 DEF Issued
  <2>4. CASE c = h.conn /\ h.task = "import"
    BY <1>1, <2>4, AnsweredFacts
  <2> QED BY <1>1, <2>1, <2>2, <2>3, <2>4, AnsweredFacts
<1>2. ASSUME NEW r \in replies, r.msg.action = "apply-policy", r.ok,
             row' = [d \in Conn |-> PolledRow(d, r.policies)]
      PROVE  row[c] # None /\ row[c].revokedAt
  BY <1>2, PolledFacts DEF Types, NetInv
<1>3. ASSUME NEW d \in Conn, row[d] # None, row' = [row EXCEPT ![d].managed = TRUE]
      PROVE  row[c] # None /\ row[c].revokedAt
  <2>1. row[d] \in Row
    BY <1>3 DEF Types, RowInv
  <2> QED BY <1>3, <2>1 DEF Types, RowInv, Row
<1> QED BY <1>1, <1>2, <1>3, RowCases

LEMMA RevokedGoneKept ==
  ASSUME PanelInv, [Next]_vars
  PROVE  RevokedGone'
<1>1. Types /\ ManagedOnly /\ RevokedGone /\ RepliesTrue /\ journal \subseteq journal'
  BY JournalGrows DEF PanelInv
<1>2. \A c : Cut(c) => Cut(c)'
  BY <1>1 DEF Cut
<1>3. ASSUME NEW c \in Conn, Cut(c)' PROVE ~Present(c)'
  <2>1. CASE Cut(c)
    <3>1. ~Present(c) /\ Heard(c)
      BY <1>1, <2>1 DEF RevokedGone, Cut, Heard
    <3> QED BY <1>1, <3>1, PresentCases, CreationOfNew
  <2>2. CASE ~Cut(c)
    <3>1. PICK j \in journal' : j.action = "revoke" /\ j.conn = c /\ j.ok
      BY <1>3 DEF Cut
    <3>2. j \notin journal
      BY <2>2, <3>1 DEF Cut
    <3>3. PICK m \in sent : Execute(m, TRUE) /\ j.action = m.action /\ j.conn = m.conn
      BY <1>1, <3>1, <3>2, NewlyDone
    <3>4. config'.peers = config.peers \ {c} /\ parked' = parked \ {c}
      BY <1>1, <3>1, <3>3, ExecuteFacts DEF ParkedAfter
    <3> QED BY <3>4 DEF Present
  <2> QED BY <2>1, <2>2
<1>4. ASSUME NEW c \in Conn, row'[c] # None, row'[c].revokedAt PROVE Cut(c)'
  <2>1. CASE row[c] # None /\ row[c].revokedAt
    BY <1>1, <1>2, <2>1 DEF RevokedGone
  <2>2. ASSUME NEW h \in handlers, NEW r \in replies, Answered(h, r), h.task = "revoke", h.conn = c
        PROVE  Cut(c)
    <3>1. Proper(h) /\ r.ok /\ r.msg = Message(h)
      BY <1>1, <2>2, AnsweredFacts DEF Answered
    <3>2. r.msg.action = "revoke" /\ r.msg.conn = c
      BY <2>2, <3>1, MessageFacts, RpcValues
    <3> QED BY <1>1, <3>1, <3>2 DEF RepliesTrue, Cut, MutationActions, Entry
  <2> QED BY <1>1, <1>2, <1>4, <2>1, <2>2, NewRevoked
<1> QED BY <1>3, <1>4 DEF RevokedGone, Present, Cut

-----------------------------------------------------------------------------
(* Policies, managed connections and enforcement.                          *)

\* Where a policy at the node comes from.
LEMMA PolicyCases ==
  ASSUME Types, [Next]_vars, NEW c \in Conn, policy'[c] # None
  PROVE  /\ \/ policy[c] # None
            \/ \E m \in sent : m.action = "apply-policy" /\ m.policies[c] # None
         /\ policy'[c].status \in Enforced =>
              \/ policy[c] # None /\ policy[c].status \in Enforced
              \/ \E m \in sent : /\ m.action = "apply-policy" /\ m.policies[c] # None
                                 /\ m.policies[c].status \in Enforced
              \/ Enforce(c)
<1>1. policy \in Policies /\ \A m \in sent : m \in MessageType
  BY DEF Types, NodeInv, NetInv, Sound
<1>2. ASSUME NEW m \in sent, NEW ok \in BOOLEAN, Execute(m, ok)
      PROVE  /\ policy[c] # None
             /\ policy'[c] = policy[c] \/ policy'[c].status \notin Enforced
  <2>1. CASE c = m.conn
    BY <1>2, <2>1, ExecuteFacts
  <2>2. CASE c # m.conn
    <3>1. policy' = [policy EXCEPT ![m.conn] = PolicyAfter(m)]
      BY <1>2, ExecuteFacts
    <3> QED BY <1>1, <2>2, <3>1 DEF Policies
  <2> QED BY <2>1, <2>2
<1>3. ASSUME NEW m \in sent, ApplyPolicy(m)
      PROVE  /\ m.action = "apply-policy" /\ m.policies[c] # None
             /\ policy'[c].status \in Enforced =>
                  m.policies[c].status \in Enforced
                    \/ (policy[c] # None /\ policy[c].status \in Enforced)
  <2> DEFINE kept == /\ m.policies[c] # None /\ policy[c] # None
                     /\ m.policies[c].status = "active" /\ policy[c].status \in Enforced
  <2>1. m.action = "apply-policy"
          /\ policy'[c] = IF kept THEN [m.policies[c] EXCEPT !.status = policy[c].status]
                          ELSE m.policies[c]
    BY <1>3 DEF ApplyPolicy
  <2>2. CASE kept
    BY <2>1, <2>2
  <2>3. CASE ~kept
    <3>1. policy'[c] = m.policies[c]
      BY <2>1, <2>3
    <3> QED BY <2>1, <3>1
  <2> QED BY <2>2, <2>3
<1>4. ASSUME NEW d \in Conn, Enforce(d)
      PROVE  d = c \/ policy'[c] = policy[c]
  BY <1>1, <1>4 DEF Enforce, Policies
<1>5. Enforce(c) => policy[c] # None
  BY DEF Enforce
<1> QED BY <1>2, <1>3, <1>4, <1>5, NodeCases

LEMMA ManagedOnlyKept ==
  ASSUME PanelInv, [Next]_vars
  PROVE  ManagedOnly'
<1>1. Types /\ ManagedOnly
  BY DEF PanelInv
<1>2. \A c \in Conn : Managed(c) => Managed(c)'
  BY <1>1, RowKept
<1>3. ASSUME NEW h \in handlers', h.task \in {"suspend", "resume", "revoke"}
      PROVE  Managed(h.conn)'
  <2>1. CASE h \in handlers
    <3>1. h.conn \in Conn
      BY <1>1, <1>3, <2>1 DEF Types, HandlerInv, Proper, Called
    <3> QED BY <1>1, <1>2, <1>3, <2>1, <3>1 DEF ManagedOnly
  <2>2. ASSUME Starts(h) PROVE Managed(h.conn) /\ h.conn \in Conn
    BY <1>3, <2>2, StartFacts
  <2>3. ASSUME Reads(h) PROVE FALSE
    BY <1>3, <2>3, ReadFacts
  <2>4. ASSUME NEW g \in handlers, NEW r \in replies, CompensateIssuance(g, r), h = Undoes(g, r)
        PROVE  FALSE
    BY <1>1, <1>3, <2>4, UndoFacts DEF CompensateIssuance
  <2> QED BY <1>1, <1>2, <2>1, <2>2, <2>3, <2>4, HandlerCases
<1>4. ASSUME NEW c \in Conn, policy'[c] # None PROVE Managed(c)'
  BY <1>1, <1>2, <1>4, PolicyCases DEF ManagedOnly
<1>5. ASSUME NEW m \in sent', m.action = "apply-policy", NEW c \in Conn, m.policies[c] # None
      PROVE  Managed(c)'
  <2>1. CASE m \in sent
    BY <1>1, <1>2, <1>5, <2>1 DEF ManagedOnly
  <2>2. ASSUME NEW h, Starts(h), m = Message(h) PROVE FALSE
    <3>1. Proper(h)
      BY <1>1, <2>2, BeginProper
    <3> QED BY <1>5, <2>2, <3>1, MessageFacts
  <2>3. ASSUME NEW g \in handlers, NEW r \in replies, CompensateIssuance(g, r),
               m = Message(Undoes(g, r))
        PROVE  FALSE
    <3>1. Proper(Undoes(g, r))
      BY <1>1, <2>3, UndoFacts DEF CompensateIssuance
    <3> QED BY <1>5, <2>3, <3>1, MessageFacts
  <2>4. CASE m = Projected
    BY <1>1, <1>2, <1>5, <2>4, ProjectionType, ProjectedFacts DEF Types
  <2> QED BY <1>1, <2>1, <2>2, <2>3, <2>4, SentCases DEF Projected
<1> QED BY <1>3, <1>4, <1>5 DEF ManagedOnly, Managed

LEMMA ForeignKeptKept ==
  ASSUME PanelInv, [Next]_vars
  PROVE  ForeignKept'
<1>1. Types /\ ManagedOnly /\ ForeignKept /\ CreatedByOne
  BY DEF PanelInv
<1>2. \A c \in Conn : Managed(c) => Managed(c)'
  BY <1>1, RowKept
<1>3. ASSUME NEW c \in Foreign, ~Managed(c)' PROVE c \in config'.peers
  <2>1. c \in Conn /\ ~Managed(c) /\ c \in config.peers
    BY <1>1, <1>2, <1>3, PanelAssumption DEF ForeignKept
  <2>2. ASSUME NEW m \in sent, NEW ok \in BOOLEAN, Execute(m, ok),
               m.action \in {"disable", "revoke"}, m.conn = c
        PROVE  FALSE
    BY <1>1, <2>1, <2>2 DEF ForeignKept
  <2>3. ~Enforce(c)
    BY <1>1, <2>1 DEF Enforce, ManagedOnly
  <2> QED BY <1>1, <2>1, <2>2, <2>3, PeerLeaves
<1>4. ASSUME NEW m \in sent', m.action \in {"disable", "enable", "revoke"}
      PROVE  Managed(m.conn)' \/ m.conn \notin Foreign
  <2>1. CASE m \in sent
    <3>1. m.conn \in Conn
      BY <1>1, <1>4, <2>1 DEF Types, NetInv, Sound, MutationActions
    <3> QED BY <1>1, <1>2, <1>4, <2>1, <3>1 DEF ForeignKept
  <2>2. ASSUME NEW h, Starts(h), m = Message(h) PROVE Managed(m.conn)'
    <3>1. Proper(h) /\ h.step = "call"
      BY <1>1, <2>2, BeginProper, StartFacts
    <3>2. h.task # "create" /\ m.conn = h.conn
      BY <1>4, <2>2, <3>1, MessageFacts
    <3> QED BY <1>2, <2>2, <3>2, StartFacts
  <2>3. ASSUME NEW g \in handlers, NEW r \in replies, CompensateIssuance(g, r),
               m = Message(Undoes(g, r))
        PROVE  m.conn \notin Foreign
    <3>1. /\ g.task = "create" /\ g.op \in OpId /\ g.conn \in Conn
          /\ Proper(Undoes(g, r)) /\ Undoes(g, r).conn = g.conn
      BY <1>1, <2>3, UndoFacts DEF CompensateIssuance, Types, HandlerInv, Proper, Called
    <3>2. Creates(g.op, g.conn) /\ m.conn = g.conn
      BY <2>3, <3>1, MessageFacts DEF Creates
    <3> QED BY <1>1, <3>1, <3>2 DEF CreatedByOne
  <2> QED BY <1>1, <1>4, <2>1, <2>2, <2>3, SentCases
<1> QED BY <1>3, <1>4 DEF ForeignKept, Managed

\* A row is marked as enforced by what the node returned.
LEMMA NewEnforced ==
  ASSUME Types, ManagedOnly, [Next]_vars, NEW c \in Conn, row'[c] # None,
         row'[c].status \in Enforced
  PROVE  \/ row[c] # None /\ row[c].status \in Enforced
         \/ \E r \in replies : /\ r.msg.action = "apply-policy" /\ r.ok
                               /\ r.policies[c] # None /\ r.policies[c].status \in Enforced
<1>1. ASSUME NEW h \in handlers, NEW r \in replies, Answered(h, r)
      PROVE  row[c] # None /\ row[c].status \in Enforced
  <2>1. CASE c # h.conn
    BY <1>1, <2>1, AnsweredFacts
  <2>2. CASE c = h.conn /\ h.task \in {"suspend", "resume", "revoke"}
    <3>1. Managed(c) /\ row'[c] = RowAfter(h) /\ Proper(h)
      BY <1>1, <2>2, AnsweredFacts
    <3>2. row'[c].status \notin Enforced
      BY <2>2, <3>1, RowAfterFacts DEF Types
    <3> QED BY <3>2
  <2>3. CASE c = h.conn /\ h.task = "create"
    <3>1. row'[c] = Issued(h)
      BY <1>1, <2>3, AnsweredFacts
    <3> QED BY <3>1 DEF Issued, Enforced
  <2>4. CASE c = h.conn /\ h.task = "import"
    BY <1>1, <2>4, AnsweredFacts DEF Enforced
  <2> QED BY <1>1, <2>1, <2>2, <2>3, <2>4, AnsweredFacts
<1>2. ASSUME NEW r \in replies, r.msg.action = "apply-policy", r.ok,
             row' = [d \in Conn |-> PolledRow(d, r.policies)]
      PROVE  \/ row[c] # None /\ row[c].status \in Enforced
             \/ r.policies[c] # None /\ r.policies[c].status \in Enforced
  BY <1>2, PolledFacts DEF Types, NetInv
<1>3. ASSUME NEW d \in Conn, row[d] # None, row' = [row EXCEPT ![d].managed = TRUE]
      PROVE  row[c] # None /\ row[c].status \in Enforced
  <2>1. row[d] \in Row
    BY <1>3 DEF Types, RowInv
  <2> QED BY <1>3, <2>1 DEF Types, RowInv, Row
<1> QED BY <1>1, <1>2, <1>3, RowCases

LEMMA EnforcedKnownKept ==
  ASSUME PanelInv, [Next]_vars
  PROVE  EnforcedKnown'
<1>1. Types /\ ManagedOnly /\ EnforcedKnown /\ enforced \subseteq enforced'
  BY JournalGrows DEF PanelInv
<1>2. ASSUME NEW c \in Conn, row'[c] # None, row'[c].status \in Enforced PROVE c \in enforced'
  BY <1>1, <1>2, NewEnforced DEF EnforcedKnown
<1>3. ASSUME NEW c \in Conn, policy'[c] # None, policy'[c].status \in Enforced
      PROVE  c \in enforced'
  <2>1. Enforce(c) => c \in enforced'
    BY EnforceFacts
  <2> QED BY <1>1, <1>3, <2>1, PolicyCases DEF EnforcedKnown
<1>4. ASSUME NEW m \in sent', m.action = "apply-policy", NEW c \in Conn,
             m.policies[c] # None, m.policies[c].status \in Enforced
      PROVE  c \in enforced'
  <2>1. CASE m \in sent
    BY <1>1, <1>4, <2>1 DEF EnforcedKnown
  <2>2. ASSUME NEW h, Starts(h), m = Message(h) PROVE FALSE
    <3>1. Proper(h)
      BY <1>1, <2>2, BeginProper
    <3> QED BY <1>4, <2>2, <3>1, MessageFacts
  <2>3. ASSUME NEW g \in handlers, NEW r \in replies, CompensateIssuance(g, r),
               m = Message(Undoes(g, r))
        PROVE  FALSE
    <3>1. Proper(Undoes(g, r))
      BY <1>1, <2>3, UndoFacts DEF CompensateIssuance
    <3> QED BY <1>4, <2>3, <3>1, MessageFacts
  <2>4. ASSUME m = Projected PROVE c \in enforced'
    <3>1. row[c] # None /\ row[c].status \in Enforced
      BY <1>1, <1>4, <2>4, ProjectionType, ProjectedFacts DEF Types, Managed
    <3> QED BY <1>1, <3>1 DEF EnforcedKnown
  <2> QED BY <1>1, <2>1, <2>2, <2>3, <2>4, SentCases DEF Projected
<1>5. ASSUME NEW r \in replies', r.msg.action = "apply-policy", r.ok, NEW c \in Conn,
             r.policies[c] # None, r.policies[c].status \in Enforced
      PROVE  c \in enforced'
  <2>1. CASE r \in replies
    BY <1>1, <1>5, <2>1 DEF EnforcedKnown
  <2>2. ASSUME NEW h, Reads(h), r.msg = Message(h) PROVE FALSE
    <3>1. Proper(h)
      BY <1>1, <2>2, BeginProper
    <3> QED BY <1>5, <2>2, <3>1, MessageFacts
  <2>3. CASE r.policies = policy'
    BY <1>3, <1>5, <2>3
  <2> QED BY <1>1, <1>5, <2>1, <2>2, <2>3, ReplyCases
<1> QED BY <1>2, <1>3, <1>4, <1>5 DEF EnforcedKnown

-----------------------------------------------------------------------------
(* What records and rows say was done.                                     *)

\* A record of a change succeeds when the node answers that it made the change.
LEMMA NewSuccess ==
  ASSUME Types, [Next]_vars, NEW q \in records', q \notin records, q.status = "succeeded",
         q.scope[1] \in DOMAIN Target \cup {"create"}
  PROVE  \E h \in handlers, r \in replies :
           /\ r.msg = Message(h) /\ r.ok /\ q = NewRecord(h, "succeeded")
           /\ h.task \in DOMAIN Target \cup {"create"} /\ h.step = "call"
<1>1. ASSUME NEW h, records' = Finished(h, "failed") PROVE FALSE
  <2>1. q = NewRecord(h, "failed")
    BY <1>1 DEF Finished
  <2> QED BY <2>1, RecordFacts
<1>2. ASSUME NEW h, records' = Finished(h, "succeeded") PROVE q = NewRecord(h, "succeeded")
  BY <1>2 DEF Finished
<1>3. ASSUME NEW p, Adds(p) PROVE FALSE
  <2>1. q = p
    BY <1>3 DEF Adds
  <2> QED BY <1>3, <2>1, TargetValues, RecordFacts DEF Adds
<1>4. ASSUME NEW h \in handlers, GiveUp(h) PROVE FALSE
  BY <1>1, <1>4, GiveUpFacts
<1>5. ASSUME NEW h \in handlers, NEW r \in replies, r.msg = Message(h), Ends(h, r)
      PROVE  /\ r.ok /\ q = NewRecord(h, "succeeded")
             /\ h.task \in DOMAIN Target \cup {"create"} /\ h.step = "call"
  <2>1. Proper(h) /\ h.step \in {"call", "undo"}
    BY MessageFacts DEF Types, HandlerInv
  <2>2. ASSUME NEW alive \in BOOLEAN, CompleteIssuance(h, r, alive)
        PROVE  r.ok /\ h.step = "call" /\ h.task = "create" /\ records' = Finished(h, "succeeded")
    BY <2>2 DEF CompleteIssuance
  <2>3. ~CompensateIssuance(h, r)
    BY DEF CompensateIssuance, db
  <2>4. ~CompleteCompensation(h, r)
    BY <1>1 DEF CompleteCompensation
  <2>5. ASSUME NEW n \in 1..3, NEW killed \in BOOLEAN, CompleteChange(h, r, n, killed)
        PROVE  r.ok /\ h.task \in DOMAIN Target /\ records' = Finished(h, "succeeded")
    BY <1>1, <2>5, TargetValues DEF CompleteChange
  <2>6. ~CompleteImport(h, r)
    <3>1. ASSUME CompleteImport(h, r) PROVE q.scope[1] = "import"
      <4>1. h.task = "import" /\ q = NewRecord(h, "succeeded")
        BY <1>2, <3>1 DEF CompleteImport
      <4> QED BY <4>1, RecordFacts
    <3> QED BY <3>1, TargetValues
  <2>7. ~CompleteDiscovery(h, r)
    BY DEF CompleteDiscovery
  <2>8. ~Fail(h, r)
    BY <1>1 DEF Fail
  <2>9. h.task \in DOMAIN Target => h.step = "call"
    BY <2>1, TargetValues DEF Proper
  <2> QED BY <1>2, <1>5, <2>2, <2>3, <2>4, <2>5, <2>6, <2>7, <2>8, <2>9 DEF Ends
<1> QED BY <1>3, <1>4, <1>5, RecordCases

LEMMA SucceededKept ==
  ASSUME PanelInv, [Next]_vars
  PROVE  SucceededHappened'
<1>1. Types /\ RepliesTrue /\ SucceededHappened /\ journal \subseteq journal'
  BY JournalGrows DEF PanelInv
<1>2. ASSUME NEW q \in records', q.status = "succeeded",
             q.scope[1] \in DOMAIN Target \cup {"create"}
      PROVE  \E j \in journal :
               j.op = q.op /\ j.action = Rpc[q.scope[1]] /\ j.conn = q.conn /\ j.ok
  <2>1. CASE q \in records
    BY <1>1, <1>2, <2>1 DEF SucceededHappened
  <2>2. CASE q \notin records
    <3>1. PICK h \in handlers, r \in replies :
            /\ r.msg = Message(h) /\ r.ok /\ q = NewRecord(h, "succeeded")
            /\ h.task \in DOMAIN Target \cup {"create"} /\ h.step = "call"
      BY <1>1, <1>2, <2>2, NewSuccess
    <3>2. Proper(h)
      BY <1>1 DEF Types, HandlerInv
    <3>3. r.msg.op = h.op /\ r.msg.action = Rpc[h.task] /\ r.msg.conn = h.conn
      BY <3>1, <3>2, MessageFacts
    <3>4. Rpc[h.task] \in MutationActions
      BY <3>1, RpcValues, TargetValues DEF MutationActions
    <3>5. Entry(r.msg, TRUE) \in journal
      BY <1>1, <3>1, <3>3, <3>4 DEF RepliesTrue
    <3>6. q.scope[1] = h.task /\ q.op = h.op /\ q.conn = h.conn
      BY <3>1, RecordFacts
    <3>7. /\ Entry(r.msg, TRUE).op = q.op /\ Entry(r.msg, TRUE).action = Rpc[q.scope[1]]
          /\ Entry(r.msg, TRUE).conn = q.conn /\ Entry(r.msg, TRUE).ok
      BY <3>3, <3>6 DEF Entry
    <3> QED BY <3>5, <3>7
  <2> QED BY <2>1, <2>2
<1> QED BY <1>1, <1>2 DEF SucceededHappened

LEMMA GivenRecordedKept ==
  ASSUME PanelInv, [Next]_vars
  PROVE  GivenRecorded'
<1>1. Types /\ ManagedOnly /\ Recorded /\ GivenRecorded
  BY DEF PanelInv
<1>2. \A g \in given : g[2] \in Conn
  BY <1>1 DEF Types, MemoryInv
<1>3. ASSUME NEW g \in given
      PROVE  /\ row'[g[2]] # None
             /\ \E q \in records' : /\ q.scope = <<"create", None>> /\ q.op = g[1]
                                    /\ q.conn = g[2] /\ q.status = "succeeded"
  <2>1. row[g[2]] # None
    BY <1>1 DEF GivenRecorded
  <2>2. PICK q \in records : /\ q.scope = <<"create", None>> /\ q.op = g[1]
                             /\ q.conn = g[2] /\ q.status = "succeeded"
    BY <1>1 DEF GivenRecorded
  <2>3. q \in records'
    BY <1>1, <2>2, RecordStays
  <2> QED BY <1>1, <1>2, <2>1, <2>2, <2>3, RowKept
<1>4. CASE given' = given
  BY <1>1, <1>3, <1>4 DEF GivenRecorded
<1>5. ASSUME NEW h \in handlers, Hands(h) PROVE GivenRecorded'
  <2>1. /\ Proper(h) /\ h.task = "create" /\ h.op \in OpId /\ h.conn \in Conn
        /\ h.limits \in SUBSET LimitKind
    BY <1>1, <1>5 DEF Hands, Types, HandlerInv, Proper, Called, HandlerType
  <2>2. row'[h.conn] # None
    <3>1. row'[h.conn] = Issued(h)
      BY <1>1, <1>5, <2>1 DEF Hands, Types, RowInv
    <3>2. Issued(h) \in Row
      BY <2>1 DEF Issued, Row, Status
    <3> QED BY <3>1, <3>2, PanelAssumption
  <2>3. NewRecord(h, "succeeded") \in records'
    BY <1>5 DEF Hands, Finished
  <2>4. /\ NewRecord(h, "succeeded").scope = <<"create", None>>
        /\ NewRecord(h, "succeeded").op = h.op /\ NewRecord(h, "succeeded").conn = h.conn
        /\ NewRecord(h, "succeeded").status = "succeeded"
    BY <2>1, RecordFacts
  <2>5. ASSUME NEW g \in given PROVE g[1] # h.op /\ g[2] # h.conn
    <3>1. row[g[2]] # None /\ row[h.conn] = None
      BY <1>1, <1>5 DEF GivenRecorded, Hands
    <3>2. PICK q \in records : /\ q.scope = <<"create", None>> /\ q.op = g[1]
                               /\ q.conn = g[2] /\ q.status = "succeeded"
      BY <1>1 DEF GivenRecorded
    <3>3. NewRecord(h, "started") \in records
      BY <1>1, <2>1 DEF Recorded
    <3>4. /\ NewRecord(h, "started").scope = <<"create", None>>
          /\ NewRecord(h, "started").op = h.op /\ NewRecord(h, "started").status = "started"
      BY <2>1, RecordFacts
    <3> QED BY <1>1, <3>1, <3>2, <3>3, <3>4 DEF Recorded
  <2>6. given' = given \cup {<<h.op, h.conn>>}
    BY <1>5 DEF Hands
  <2>7. ASSUME NEW g \in given'
        PROVE  /\ row'[g[2]] # None
               /\ \E q \in records' : /\ q.scope = <<"create", None>> /\ q.op = g[1]
                                      /\ q.conn = g[2] /\ q.status = "succeeded"
    <3>1. CASE g \in given
      BY <1>3, <3>1
    <3>2. CASE g = <<h.op, h.conn>>
      BY <2>2, <2>3, <2>4, <3>2
    <3> QED BY <2>6, <3>1, <3>2
  <2>8. ASSUME NEW g \in given', NEW o \in given', o # g
        PROVE  o[1] # g[1] /\ o[2] # g[2]
    BY <1>1, <2>5, <2>6, <2>8 DEF GivenRecorded
  <2> QED BY <2>7, <2>8 DEF GivenRecorded
<1> QED BY <1>1, <1>4, <1>5, GivenCases

\* A creation that waits goes on waiting until its connection has a row, its end
\* is in doubt, or its peer is gone.
LEMMA CreationEnds ==
  ASSUME PanelInv, [Next]_vars, NEW c \in Conn, NEW h \in handlers,
         h.task = "create", h.conn = c, Present(c)
  PROVE  \/ \E g \in handlers' : g.task = "create" /\ g.conn = c
         \/ row'[c] # None
         \/ c \in doubtful'
<1>1. Types /\ RepliesTrue /\ RevokedGone /\ Proper(h) /\ doubtful \subseteq doubtful'
  BY JournalGrows DEF PanelInv, Types, HandlerInv
<1>2. ASSUME Killed PROVE c \in doubtful'
  BY <1>2 DEF Killed
<1>3. ASSUME NEW g, Starts(g) \/ Reads(g) PROVE h \in handlers'
  BY <1>3, StartFacts, ReadFacts
<1>4. ASSUME Local PROVE Killed \/ h \in handlers'
  BY <1>4, LocalFacts DEF memory
<1>5. ASSUME NEW m \in sent, Works(m) PROVE h \in handlers'
  BY <1>5, WorkFacts DEF memory
<1>6. ASSUME (\E d \in Conn : Enforce(d)) \/ EditOutside \/ Poll \/ GiveUpPoll
               \/ UNCHANGED vars \/ \E r \in replies : CompletePoll(r)
      PROVE  h \in handlers'
  BY <1>6, EnforceFacts, EditFacts, PollFacts, GiveUpPollFacts, CompletePollFacts
     DEF memory, vars
<1>7. ASSUME Restart PROVE Killed
  BY <1>7, RestartFacts
<1>8. ASSUME NEW g \in handlers, GiveUp(g) PROVE h \in handlers' \/ c \in doubtful'
  BY <1>8, GiveUpFacts
<1>9. ASSUME NEW g \in handlers, NEW r \in replies, r.msg = Message(g), Ends(g, r), g # h
      PROVE  h \in handlers' \/ Killed
  <2>1. CompensateIssuance(g, r) => h \in handlers'
    BY <1>9 DEF CompensateIssuance
  <2> QED BY <1>1, <1>9, <2>1, EndFacts
<1>10. ASSUME NEW r \in replies, r.msg = Message(h), Ends(h, r)
       PROVE  \/ \E g \in handlers' : g.task = "create" /\ g.conn = c
              \/ row'[c] # None
              \/ c \in doubtful'
  <2>1. ASSUME NEW alive \in BOOLEAN, CompleteIssuance(h, r, alive) PROVE row'[c] # None
    <3>1. row' = [row EXCEPT ![c] = Issued(h)]
      BY <2>1 DEF CompleteIssuance
    <3>2. Issued(h) \in Row
      BY <1>1 DEF Issued, Row, Status, Proper, HandlerType
    <3> QED BY <1>1, <3>1, <3>2, PanelAssumption DEF Types, RowInv
  <2>2. CASE CompensateIssuance(h, r)
    <3>1. Undoes(h, r) \in handlers'
      BY <2>2 DEF CompensateIssuance, Undoes
    <3> QED BY <1>1, <3>1, UndoFacts
  <2>3. ~CompleteCompensation(h, r)
    <3>1. ASSUME CompleteCompensation(h, r)
          PROVE  r.ok /\ r.msg.action = "revoke" /\ r.msg.conn = c
      BY <1>1, <1>10, <3>1, MessageFacts DEF CompleteCompensation
    <3>2. ASSUME CompleteCompensation(h, r) PROVE Cut(c)
      <4>1. Entry(r.msg, TRUE) \in journal
        BY <1>1, <3>1, <3>2 DEF RepliesTrue, MutationActions
      <4> QED BY <3>1, <3>2, <4>1 DEF Cut, Entry
    <3> QED BY <1>1, <3>2 DEF RevokedGone
  <2>4. \A n \in 1..3, killed \in BOOLEAN : ~CompleteChange(h, r, n, killed)
    BY DEF CompleteChange
  <2>5. ~CompleteImport(h, r) /\ ~CompleteDiscovery(h, r)
    BY DEF CompleteImport, CompleteDiscovery
  <2>6. CASE Fail(h, r)
    <3>1. CASE h.step = "undo"
      BY <2>6, <3>1 DEF Fail
    <3>2. CASE h.step = "call"
      <4>1. ~r.ok /\ r.msg.action = "create" /\ r.msg.conn = c
        BY <1>1, <1>10, <2>6, <3>2, MessageFacts DEF Fail
      <4> QED BY <1>1, <4>1 DEF RepliesTrue
    <3> QED BY <1>1, <3>1, <3>2, MessageFacts
  <2> QED BY <1>10, <2>1, <2>2, <2>3, <2>4, <2>5, <2>6 DEF Ends
<1> QED BY <1>2, <1>3, <1>4, <1>5, <1>6, <1>7, <1>8, <1>9, <1>10, StepCases

LEMMA PeerWantedKept ==
  ASSUME PanelInv, [Next]_vars
  PROVE  PeerWanted'
<1>1. Types /\ ManagedOnly /\ SentOnce /\ PeerWanted /\ doubtful \subseteq doubtful'
  BY JournalGrows DEF PanelInv
<1>2. ASSUME NEW c \in Conn, Present(c)', row'[c] = None, c \notin Foreign, c \notin doubtful'
      PROVE  \E h \in handlers' : h.task = "create" /\ h.conn = c
  <2>1. row[c] = None /\ c \notin doubtful
    BY <1>1, <1>2, RowKept
  <2>2. CASE Present(c)
    BY <1>1, <1>2, <2>1, <2>2, CreationEnds DEF PeerWanted
  <2>3. ASSUME NEW m \in sent, NEW ok \in BOOLEAN, Execute(m, ok), m.action = "create", m.conn = c
        PROVE  \E h \in handlers' : h.task = "create" /\ h.conn = c
    <3>1. Waits(m)
      BY <1>1, <2>1, <2>3 DEF SentOnce
    <3>2. PICK h \in handlers : h.task = "create" /\ Message(h) = m
      BY <3>1 DEF Waits
    <3>3. handlers' = handlers
      BY <2>3 DEF Execute, memory
    <3>4. h.conn = c
      BY <1>1, <2>3, <3>2, MessageFacts DEF Types, HandlerInv
    <3> QED BY <3>2, <3>3, <3>4
  <2> QED BY <1>1, <1>2, <2>2, <2>3, PresentCases
<1> QED BY <1>2 DEF PeerWanted, Present

-----------------------------------------------------------------------------
(* The theorems.                                                           *)

LEMMA InitInv ==
  ASSUME Init
  PROVE  PanelInv
<1>1. /\ config = [peers |-> Foreign, edits |-> 0] /\ parked = {} /\ journal = {}
      /\ sent = {} /\ replies = {} /\ instance = [fp |-> config, mode |-> "managed"]
      /\ records = {} /\ handlers = {} /\ poll = None
      /\ counts = [faults |-> 0, polls |-> 0, finds |-> 0] /\ drifted = FALSE
      /\ doubtful = {} /\ enforced = {} /\ given = {}
  BY DEF Init
<1>2. PICK adopted \in SUBSET Foreign, limits \in Limits :
        /\ row = [c \in Conn |-> IF c \in adopted THEN Adopted(limits) ELSE None]
        /\ policy = [c \in Conn |-> IF c \in adopted /\ limits # {}
                      THEN [status |-> "active", limits |-> limits] ELSE None]
  BY DEF Init
<1>3. /\ limits \in SUBSET LimitKind /\ Foreign \subseteq Conn
      /\ MaxFaults \in Nat /\ MaxPolls \in Nat /\ MaxFinds \in Nat /\ None \notin Row
  BY PanelAssumption
<1>4. config \in Content /\ config.edits = 0 /\ config.peers = Foreign
  BY <1>1, <1>3 DEF Content
<1>5. /\ Adopted(limits) \in Row /\ Adopted(limits).managed /\ ~Adopted(limits).revokedAt
      /\ Adopted(limits).status = "active"
  BY <1>3 DEF Adopted, Row, Status
<1>6. policy \in Policies
  <2>1. [status |-> "active", limits |-> limits] \in PolicyRow
    BY <1>3 DEF PolicyRow
  <2>2. policy \in [Conn -> {None} \cup PolicyRow]
    BY <1>2, <2>1
  <2> QED BY <2>2 DEF Policies, PolicyRow
<1>7. row \in [Conn -> Row \cup {None}]
  BY <1>2, <1>5
<1>8. instance \in [fp: Content, mode: {"read-only", "observed", "managed"}]
  BY <1>1, <1>4
<1>9. counts \in [faults: 0..MaxFaults, polls: 0..MaxPolls, finds: 0..MaxFinds]
        /\ counts.faults = 0
  BY <1>1, <1>3
<1>10. Types
  <2>1. HandlerInv /\ NetInv /\ RecordInv
    BY <1>1 DEF HandlerInv, NetInv, RecordInv
  <2>2. NodeInv
    BY <1>1, <1>4, <1>6, <1>9 DEF NodeInv
  <2>3. RowInv
    BY <1>7, <1>8 DEF RowInv
  <2>4. MemoryInv
    BY <1>1, <1>9 DEF MemoryInv
  <2> QED BY <2>1, <2>2, <2>3, <2>4 DEF Types
<1>11. \A c \in Conn : row[c] # None => row[c] = Adopted(limits) /\ c \in Foreign
  BY <1>2
<1>12. \A c \in Conn : policy[c] # None =>
         policy[c] = [status |-> "active", limits |-> limits] /\ row[c] # None
  BY <1>2, <1>3, <1>5
<1>13. Recorded /\ CreatedByOne /\ SentOnce /\ AnsweredOnce /\ RepliesTrue
  BY <1>1 DEF Recorded, CreatedByOne, Creates, SentOnce, AnsweredOnce, RepliesTrue
<1>14. Origins
  BY <1>1, <1>4, <1>11 DEF Origins, Heard, Present
<1>15. RevokedGone
  BY <1>1, <1>5, <1>11 DEF RevokedGone, Cut
<1>16. ManagedOnly /\ ForeignKept
  BY <1>1, <1>4, <1>5, <1>11, <1>12 DEF ManagedOnly, ForeignKept, Managed
<1>17. SucceededHappened /\ GivenRecorded
  BY <1>1 DEF SucceededHappened, GivenRecorded
<1>18. EnforcedKnown
  <2>1. "active" \notin Enforced
    BY DEF Enforced
  <2>2. \A c \in Conn : policy[c] # None => policy[c].status = "active"
    BY <1>12
  <2> QED BY <1>1, <1>5, <1>11, <2>1, <2>2 DEF EnforcedKnown
<1>19. PeerWanted
  BY <1>1, <1>4 DEF PeerWanted, Present
<1> QED BY <1>10, <1>13, <1>14, <1>15, <1>16, <1>17, <1>18, <1>19 DEF PanelInv

LEMMA NextInv == PanelInv /\ [Next]_vars => PanelInv'
<1> SUFFICES ASSUME PanelInv, [Next]_vars PROVE PanelInv'
  OBVIOUS
<1>1. Types /\ ManagedOnly /\ Recorded
  BY DEF PanelInv
<1>2. Types' /\ Recorded'
  BY <1>1, TypesKept, RecordedKept
<1>3. CreatedByOne' /\ SentOnce' /\ AnsweredOnce' /\ RepliesTrue' /\ Origins'
  BY CreatedByOneKept, SentOnceKept, AnsweredOnceKept, RepliesTrueKept, OriginsKept
<1>4. RevokedGone' /\ ManagedOnly' /\ ForeignKept'
  BY RevokedGoneKept, ManagedOnlyKept, ForeignKeptKept
<1>5. SucceededHappened' /\ GivenRecorded' /\ EnforcedKnown' /\ PeerWanted'
  BY SucceededKept, GivenRecordedKept, EnforcedKnownKept, PeerWantedKept
<1> QED BY <1>2, <1>3, <1>4, <1>5 DEF PanelInv

LEMMA PanelInvHolds == Spec => []PanelInv
BY InitInv, NextInv, PTL DEF Spec

\* Rows, policies, records, requests, messages and replies keep their types,
\* the projections of the worker and the answers of the node included.
THEOREM PanelTypes == Spec => []TypeOK
<1>1. PanelInv => TypeOK
  BY DEF PanelInv, Types, HandlerInv, Proper, NodeInv, NetInv, Sound, RowInv, RecordInv, MemoryInv,
         TypeOK
<1> QED BY <1>1, PanelInvHolds, PTL

\* A connection with revoked_at set is never on its node again, neither active
\* nor stored, whatever request given up before is executed later.
THEOREM RevokedStaysCutHolds == Spec => []RevokedStaysCut
<1>1. PanelInv => RevokedStaysCut
  BY DEF PanelInv, RevokedGone, RevokedStaysCut
<1> QED BY <1>1, PanelInvHolds, PTL

\* An idempotency record that says "succeeded" is backed by the journal of the
\* node: it made that change under that operation id.
THEOREM SucceededHappenedHolds == Spec => []SucceededHappened
<1>1. PanelInv => SucceededHappened
  BY DEF PanelInv
<1> QED BY <1>1, PanelInvHolds, PTL

\* No client configuration is handed out twice, under two operation ids or
\* for a connection the database lacks.
THEOREM IssuedOnceHolds == Spec => []IssuedOnce
<1>1. PanelInv => IssuedOnce
  BY DEF PanelInv, GivenRecorded, IssuedOnce
<1> QED BY <1>1, PanelInvHolds, PTL

\* An issuance that failed leaves no peer on the node, unless its creation or
\* its compensation ended without an answer.
THEOREM NoOrphanHolds == Spec => []NoOrphan
<1>1. PanelInv => NoOrphan
  BY DEF PanelInv, PeerWanted, NoOrphan
<1> QED BY <1>1, PanelInvHolds, PTL

\* A peer that was on the node before the Panel stays active until its connection
\* is adopted.
THEOREM ObservedUntouchedHolds == Spec => []ObservedUntouched
<1>1. PanelInv => ObservedUntouched
  BY DEF PanelInv, ForeignKept, Managed, ObservedUntouched
<1> QED BY <1>1, PanelInvHolds, PTL

\* The Panel never marks a connection as expired or over its quota by itself.
THEOREM EnforcedByNodeHolds == Spec => []EnforcedByNode
<1>1. PanelInv => EnforcedByNode
  BY DEF PanelInv, EnforcedKnown, EnforcedByNode
<1> QED BY <1>1, PanelInvHolds, PTL

\* A record that is finished, "succeeded" or "failed", is never changed: neither by
\* a late answer nor by another request with its operation id.
THEOREM RecordIsFinalHolds == Spec => RecordIsFinal
<1>1. PanelInv /\ [Next]_vars =>
        [\A r \in records : r.status # "started" => r \in records']_vars
  BY RecordStays DEF PanelInv
<1> QED BY <1>1, PanelInvHolds, PTL DEF Spec, RecordIsFinal

=============================================================================
