---------------------------- MODULE PanelAgreement ----------------------------
(***************************************************************************)
(* Proof of Agreement, for any number of connections, operations, calls,   *)
(* polls and discoveries.  As long as nothing let Panel and node differ    *)
(* (~drifted), what the database does not know of the node is in an answer *)
(* that will be handled, or a compensation is about to ask for it.         *)
(***************************************************************************)
EXTENDS PanelProofs

-----------------------------------------------------------------------------
(* The invariant.                                                          *)

\* Answers that say a change was made, and answers that carry a fingerprint.
Changed(r) == r.ok /\ r.msg.action \in MutationActions
Printed(r) == Changed(r) \/ (r.ok /\ r.msg.action = "discover")

\* The peer is where the change has put it.
Made(r) ==
  /\ r.msg.action \in {"create", "enable"} => r.msg.conn \in config.peers
  /\ r.msg.action = "disable" => r.msg.conn \in parked \ config.peers
  /\ r.msg.action = "revoke" => ~Present(r.msg.conn)

\* No answer has been overtaken by another change.
AnswersCurrent ==
  \A r \in replies :
    /\ Printed(r) => r.fp = config
    /\ Changed(r) => Made(r)
    /\ r.ok /\ r.msg.action = "list" /\ r.msg.conn \in r.fp.peers => r.msg.conn \in config.peers

\* A change that was asked for or answered has a request that waits for it,
\* and is either still to be made or answered once.
ChangesAwaited ==
  /\ \A m \in sent : m.action \in MutationActions => \E h \in handlers : Message(h) = m
  /\ \A r \in replies : r.msg.action \in MutationActions => \E h \in handlers : Message(h) = r.msg
  /\ \A m \in sent, r \in replies : m.action \in MutationActions => m # r.msg
  /\ \A q, r \in replies : q.msg.action \in MutationActions /\ q.msg = r.msg => q = r

\* A connection whose issuance is under way has no row yet.
IssuedLater == \A h \in handlers : h.task = "create" => row[h.conn] = None

Undoing(c) == \E h \in handlers : h.step = "undo" /\ h.conn = c
Answering(c) == \E r \in replies : Changed(r) /\ r.msg.conn = c

FingerprintKnown ==
  \/ instance.fp = config
  \/ \E r \in replies : Changed(r)
  \/ \E h \in handlers : h.step = "undo"
RowsKnown == \A c \in Conn : Told(c) \/ Answering(c) \/ Undoing(c)

InTouch ==
  /\ enforced = {}
  /\ AnswersCurrent /\ ChangesAwaited /\ IssuedLater /\ FingerprintKnown /\ RowsKnown

AgreementInv == ~drifted => InTouch

-----------------------------------------------------------------------------
(* Every step that does not let Panel and node differ is one of these.     *)

LEMMA Undrifted ==
  ASSUME Types, [Next]_vars, ~drifted'
  PROVE  ~drifted
BY DriftedKept

\* The node answers without changing what it serves.
Replies(m) ==
  /\ UNCHANGED <<config, parked, db, memory, enforced, drifted>>
  /\ sent' = sent \ {m}
  /\ \/ replies' = replies
     \/ \E r : /\ replies' = replies \cup {r} /\ r.msg = m
               /\ ~(r.ok /\ m.action \in MutationActions)

\* It makes a change, and nothing that tells what was before is on its way.
Makes(m) ==
  /\ ~Overtakes(m)
  /\ m.action \in MutationActions
  /\ UNCHANGED <<db, memory, enforced>>
  /\ config'.peers = IF m.action \in {"create", "enable"} THEN config.peers \cup {m.conn}
                     ELSE config.peers \ {m.conn}
  /\ parked' = ParkedAfter(m)
  /\ sent' = sent \ {m}
  /\ replies' = IF Awaited(m)
                THEN replies \cup {[msg |-> m, ok |-> TRUE, fp |-> config', mode |-> None,
                                    policies |-> None]}
                ELSE replies

LEMMA WorkCases ==
  ASSUME Types, NEW m \in sent, Works(m), ~drifted'
  PROVE  Replies(m) \/ Makes(m)
<1>1. CASE Refuse(m)
  <2>1. /\ UNCHANGED <<config, parked, db, memory, enforced, drifted>>
        /\ Answer(m, FALSE, None, None)
    BY <1>1 DEF Refuse, history
  <2>2. /\ sent' = sent \ {m}
        /\ replies' = IF Awaited(m)
                      THEN replies \cup {[msg |-> m, ok |-> FALSE, fp |-> config', mode |-> None,
                                          policies |-> None]}
                      ELSE replies
    BY <2>1 DEF Answer
  <2> DEFINE r == [msg |-> m, ok |-> FALSE, fp |-> config', mode |-> None, policies |-> None]
  <2>3. r.msg = m /\ r.ok = FALSE /\ (replies' = replies \/ replies' = replies \cup {r})
    BY <2>2
  <2> HIDE DEF r
  <2> QED BY <2>1, <2>2, <2>3 DEF Replies
<1>2. CASE ApplyPolicy(m)
  <2>1. /\ UNCHANGED <<config, parked, db, memory, enforced, drifted>>
        /\ Answer(m, TRUE, None, policy') /\ m.action = "apply-policy"
    BY <1>2 DEF ApplyPolicy, history
  <2>2. /\ sent' = sent \ {m}
        /\ \/ replies' = replies
           \/ \E r : replies' = replies \cup {r} /\ r.msg = m
    <3> DEFINE r == [msg |-> m, ok |-> TRUE, fp |-> config', mode |-> None, policies |-> policy']
    <3>1. sent' = sent \ {m} /\ (replies' = replies \/ replies' = replies \cup {r})
      BY <2>1 DEF Answer
    <3>2. r.msg = m
      OBVIOUS
    <3> HIDE DEF r
    <3> QED BY <3>1, <3>2
  <2>3. m.action \notin MutationActions
    BY <2>1 DEF MutationActions
  <2> QED BY <2>1, <2>2, <2>3 DEF Replies
<1>3. ASSUME NEW ok \in BOOLEAN, Execute(m, ok) PROVE Makes(m)
  <2>1. ok /\ ~Overtakes(m)
    BY <1>3 DEF Execute
  <2>2. Answer(m, TRUE, None, None)
    BY <1>3, <2>1 DEF Execute
  <2>3. /\ sent' = sent \ {m}
        /\ replies' = IF Awaited(m)
                      THEN replies \cup {[msg |-> m, ok |-> TRUE, fp |-> config', mode |-> None,
                                          policies |-> None]}
                      ELSE replies
    BY <2>2 DEF Answer
  <2>4. UNCHANGED <<db, memory, enforced>>
    BY <1>3 DEF Execute
  <2> QED BY <1>3, <2>1, <2>3, <2>4, ExecuteFacts DEF Makes
<1> QED BY <1>1, <1>2, <1>3 DEF Works

\* A request is over: its answer, or what it did to the rows.
Closes(h, r) ==
  /\ handlers' = handlers \ {h} /\ replies' = replies \ {r}
  /\ UNCHANGED <<node, sent, poll, enforced>>
Closing(h, r) ==
  \/ /\ h.task = "create" /\ h.step = "call" /\ r.ok /\ row[h.conn] = None
     /\ row' = [row EXCEPT ![h.conn] = Issued(h)] /\ instance'.fp = r.fp
  \/ h.step = "undo" /\ r.ok /\ row' = row /\ instance'.fp = r.fp
  \/ /\ h.task \in {"suspend", "resume", "revoke"} /\ r.ok
     /\ row' = [row EXCEPT ![h.conn] = RowAfter(h)] /\ instance'.fp = r.fp
  \/ /\ h.task = "import" /\ r.ok /\ row[h.conn] = None /\ h.conn \in r.fp.peers
     /\ \A g \in handlers : g.task = "create" => g.conn # h.conn
     /\ row' = [row EXCEPT ![h.conn] =
          [status |-> "active", managed |-> FALSE, imported |-> TRUE,
           revokedAt |-> FALSE, limits |-> {}]]
     /\ instance' = instance
  \/ h.task = "discover" /\ row' = row /\ instance'.fp = r.fp
  \/ ~Changed(r) /\ h.step # "undo" /\ UNCHANGED <<row, instance>>

\* It goes on as a compensation.
Reverts(h, r) ==
  /\ h.task = "create" /\ h.step = "call" /\ r.ok
  /\ handlers' = (handlers \ {h}) \cup {Undoes(h, r)}
  /\ sent' = sent \cup {Message(Undoes(h, r))}
  /\ replies' = replies \ {r}
  /\ UNCHANGED <<node, db, poll, enforced>>

LEMMA EndCases ==
  ASSUME Types, NEW h \in handlers, NEW r \in replies, r.msg = Message(h), Ends(h, r), ~drifted'
  PROVE  (Closes(h, r) /\ Closing(h, r)) \/ Reverts(h, r)
<1>1. Proper(h) /\ instance \in [fp: Content, mode: {"read-only", "observed", "managed"}]
  BY DEF Types, HandlerInv, RowInv
<1>2. \A f : [instance EXCEPT !.fp = f].fp = f
  BY <1>1
<1>3. ~Kill
  BY DEF Kill
<1>4. ASSUME Settle(h, r), enforced' = enforced PROVE Closes(h, r)
  BY <1>4 DEF Settle, Closes
<1>5. ASSUME NEW alive \in BOOLEAN, CompleteIssuance(h, r, alive)
      PROVE  Closes(h, r) /\ Closing(h, r)
  <2>1. alive /\ Settle(h, r) /\ enforced' = enforced
    BY <1>3, <1>5 DEF CompleteIssuance
  <2> QED BY <1>2, <1>4, <1>5, <2>1 DEF CompleteIssuance, Closing
<1>6. ASSUME CompensateIssuance(h, r) PROVE Reverts(h, r)
  BY <1>6 DEF CompensateIssuance, Reverts, Undoes, history
<1>7. ASSUME CompleteCompensation(h, r) PROVE Closes(h, r) /\ Closing(h, r)
  BY <1>2, <1>4, <1>7 DEF CompleteCompensation, Closing, history
<1>8. ASSUME NEW n \in 1..3, NEW killed \in BOOLEAN, CompleteChange(h, r, n, killed)
      PROVE  Closes(h, r) /\ Closing(h, r)
  <2>1. ~killed /\ n = 3 /\ Settle(h, r) /\ enforced' = enforced
    BY <1>3, <1>8 DEF CompleteChange
  <2>2. row' = [row EXCEPT ![h.conn] = RowAfter(h)]
    BY <1>8, <2>1 DEF CompleteChange
  <2> QED BY <1>2, <1>4, <1>8, <2>1, <2>2 DEF CompleteChange, Closing
<1>9. ASSUME CompleteImport(h, r) PROVE Closes(h, r) /\ Closing(h, r)
  <2>1. ~\E g \in handlers : g.task = "create" /\ g.conn = h.conn
    BY <1>9 DEF CompleteImport
  <2> QED BY <1>4, <1>9, <2>1 DEF CompleteImport, Importable, Closing, history
<1>10. ASSUME CompleteDiscovery(h, r) PROVE Closes(h, r) /\ Closing(h, r)
  BY <1>4, <1>10 DEF CompleteDiscovery, Closing, history
<1>11. ASSUME Fail(h, r) PROVE Closes(h, r) /\ Closing(h, r)
  <2>1. h.step # "undo" /\ Settle(h, r) /\ UNCHANGED <<row, instance, enforced>>
    BY <1>11 DEF Fail
  <2>2. ~Changed(r)
    <3>1. CASE h.task = "import"
      BY <1>1, <3>1, MessageFacts DEF Changed, MutationActions
    <3>2. CASE h.task # "import"
      BY <1>11, <3>2 DEF Fail, Changed
    <3> QED BY <3>1, <3>2
  <2> QED BY <1>4, <2>1, <2>2 DEF Closing
<1> QED BY <1>5, <1>6, <1>7, <1>8, <1>9, <1>10, <1>11 DEF Ends

\* A step that leaves the peers, the requests for changes and the statuses alone.
SameStatus(c) ==
  /\ row'[c] = None <=> row[c] = None
  /\ row[c] # None => row'[c].status = row[c].status
Rests ==
  /\ UNCHANGED <<config, parked, handlers, enforced>>
  /\ instance'.fp = instance.fp
  /\ \A c \in Conn : SameStatus(c)
  /\ \A m \in sent' : m \in sent \/ m.action = "apply-policy"
  /\ \/ replies' = replies
     \/ \E r \in replies : replies' = replies \ {r} /\ r.msg.action = "apply-policy"

LEMMA RestCases ==
  ASSUME PanelInv, InTouch, ~drifted',
         Local \/ Poll \/ UNCHANGED vars \/ \E r \in replies : CompletePoll(r)
  PROVE  Rests
<1>1. /\ instance \in [fp: Content, mode: {"read-only", "observed", "managed"}]
      /\ row \in [Conn -> Row \cup {None}] /\ None \notin Row
      /\ Types /\ EnforcedKnown /\ enforced = {}
  BY PanelAssumption DEF PanelInv, Types, RowInv, InTouch
<1>2. CASE Local
  <2>1. UNCHANGED <<node, net, memory, enforced>>
    BY <1>2, LocalFacts DEF Killed
  <2>2. instance'.fp = instance.fp
    <3>1. [instance EXCEPT !.mode = "managed"].fp = instance.fp
      BY <1>1
    <3> QED BY <1>2, <3>1, LocalFacts
  <2>3. ASSUME NEW c \in Conn PROVE SameStatus(c)
    <3>1. CASE row' = row
      BY <3>1 DEF SameStatus
    <3>2. ASSUME NEW d \in Conn, row[d] # None, row' = [row EXCEPT ![d].managed = TRUE]
          PROVE  SameStatus(c)
      <4>1. row[d] \in Row
        BY <1>1, <3>2
      <4>2. [row[d] EXCEPT !.managed = TRUE] \in Row
              /\ [row[d] EXCEPT !.managed = TRUE].status = row[d].status
        BY <4>1 DEF Row
      <4>3. row'[c] = IF c = d THEN [row[d] EXCEPT !.managed = TRUE] ELSE row[c]
        BY <1>1, <3>2
      <4> QED BY <1>1, <3>2, <4>2, <4>3 DEF SameStatus
    <3> QED BY <1>2, <3>1, <3>2, LocalFacts
  <2> QED BY <2>1, <2>2, <2>3 DEF Rests, node, net, memory
<1>3. CASE Poll
  BY <1>3, PollFacts DEF Rests, SameStatus, node, db, history
<1>4. ASSUME NEW r \in replies, CompletePoll(r) PROVE Rests
  <2>1. /\ r.msg.action = "apply-policy" /\ replies' = replies \ {r}
        /\ row' = IF r.ok THEN [c \in Conn |-> PolledRow(c, r.policies)] ELSE row
        /\ UNCHANGED <<node, sent, instance, handlers, history>>
    BY <1>4, CompletePollFacts
  <2>2. row' = row
    <3>1. CASE r.ok
      <4>1. ASSUME NEW c \in Conn PROVE PolledRow(c, r.policies) = row[c]
        <5>1. ~(row[c] # None /\ r.policies[c] # None /\ r.policies[c].status \in Enforced)
          BY <1>1, <2>1, <3>1 DEF EnforcedKnown
        <5> QED BY <5>1 DEF PolledRow
      <4> QED BY <1>1, <2>1, <3>1, <4>1
    <3> QED BY <2>1, <3>1
  <2> QED BY <2>1, <2>2 DEF Rests, SameStatus, node, history
<1>5. CASE UNCHANGED vars
  BY <1>5 DEF Rests, SameStatus, vars, node, net, db, memory, history
<1> QED BY <1>2, <1>3, <1>4, <1>5

\* What a step does if it lets Panel and node not differ.
LEMMA StepKinds ==
  ASSUME PanelInv, InTouch, [Next]_vars, ~drifted'
  PROVE  \/ \E h : Starts(h)
         \/ \E h : Reads(h)
         \/ \E m \in sent : Replies(m)
         \/ \E m \in sent : Makes(m)
         \/ \E h \in handlers, r \in replies : r.msg = Message(h) /\ Closes(h, r) /\ Closing(h, r)
         \/ \E h \in handlers, r \in replies : r.msg = Message(h) /\ Reverts(h, r)
         \/ Rests
<1>1. Types
  BY DEF PanelInv
<1>2. ASSUME NEW c \in Conn, Enforce(c) PROVE FALSE
  BY <1>2 DEF Enforce
<1>3. ASSUME EditOutside \/ GiveUpPoll \/ Restart \/ (\E h \in handlers : GiveUp(h)) PROVE FALSE
  BY <1>3 DEF EditOutside, GiveUpPoll, Restart, Kill, GiveUp
<1>4. ASSUME NEW m \in sent, Works(m) PROVE Replies(m) \/ Makes(m)
  BY <1>1, <1>4, WorkCases
<1>5. ASSUME NEW h \in handlers, NEW r \in replies, r.msg = Message(h), Ends(h, r)
      PROVE  (Closes(h, r) /\ Closing(h, r)) \/ Reverts(h, r)
  BY <1>1, <1>5, EndCases
<1> QED BY <1>2, <1>3, <1>4, <1>5, RestCases, StepCases

-----------------------------------------------------------------------------
(* Requests and their messages.                                            *)

\* One request at most creates a peer.
LEMMA OneCreator ==
  ASSUME PanelInv, NEW h \in handlers, NEW g \in handlers,
         h.task = "create", g.task = "create", h.conn = g.conn
  PROVE  h = g
<1>1. Recorded /\ CreatedByOne /\ Proper(h) /\ Proper(g)
  BY DEF PanelInv, Types, HandlerInv
<1>2. h.op \in OpId /\ g.op \in OpId /\ h.conn \in Conn
  BY <1>1 DEF Proper, Called
<1>3. Creates(h.op, h.conn) /\ Creates(g.op, h.conn)
  BY DEF Creates
<1>4. h.op = g.op
  BY <1>1, <1>2, <1>3 DEF CreatedByOne
<1>5. Scope(h) = Scope(g)
  BY DEF Scope
<1> QED BY <1>1, <1>4, <1>5 DEF Recorded

\* A message no answer is about is sent.
LEMMA NewMessage ==
  ASSUME PanelInv, InTouch, NEW h, Starts(h), NEW r \in replies
  PROVE  r.msg # Message(h)
<1> SUFFICES ASSUME r.msg = Message(h) PROVE FALSE
  OBVIOUS
<1>1. Types /\ Recorded /\ ChangesAwaited /\ IssuedLater
  BY DEF PanelInv, InTouch
<1>2. /\ Proper(h) /\ h.step = "call" /\ ~Known(Scope(h), h.op)
      /\ h.task \in {"create", "suspend", "resume", "revoke"}
      /\ h.task # "create" => Managed(h.conn)
  BY <1>1, BeginProper, StartFacts
<1>3. Message(h).action = Rpc[h.task] /\ Message(h).action \in MutationActions
        /\ Message(h).op = h.op /\ Message(h).conn = h.conn
  BY <1>2, MessageFacts, RpcValues DEF MutationActions
<1>4. PICK g \in handlers : Message(g) = Message(h)
  BY <1>1, <1>3 DEF ChangesAwaited
<1>5. Proper(g) /\ g.conn = h.conn /\ g.step \in {"call", "undo"}
        /\ g.task \in Called \cup {"discover"}
  BY <1>1, <1>2, <1>3, <1>4, MessageFacts, RpcValues DEF Types, HandlerInv, Proper, HandlerType
<1>6. CASE g.step = "call"
  <2>1. Rpc[g.task] = Rpc[h.task] /\ g.op = h.op
    BY <1>3, <1>4, <1>5, <1>6, MessageFacts
  <2>2. g.task = h.task
    BY <1>2, <1>5, <2>1, RpcValues DEF Called
  <2>3. Scope(g) = Scope(h)
    BY <1>5, <2>2 DEF Scope
  <2>4. NewRecord(g, "started") \in records
    BY <1>1, <1>2, <2>2 DEF Recorded
  <2> QED BY <1>2, <2>1, <2>3, <2>4, RecordFacts DEF Known
<1>7. CASE g.step = "undo"
  <2>1. g.task = "create" /\ Rpc[h.task] = "revoke"
    BY <1>3, <1>4, <1>5, <1>7, MessageFacts DEF Proper
  <2>2. h.task = "revoke" /\ row[g.conn] = None
    BY <1>1, <1>2, <2>1, RpcValues DEF IssuedLater
  <2> QED BY <1>2, <1>5, <2>2 DEF Managed
<1> QED BY <1>5, <1>6, <1>7

LEMMA NewUndo ==
  ASSUME PanelInv, InTouch, NEW h \in handlers, NEW r \in replies, Reverts(h, r),
         NEW s \in replies
  PROVE  s.msg # Message(Undoes(h, r))
<1> DEFINE u == Undoes(h, r)
<1> SUFFICES ASSUME s.msg = Message(u) PROVE FALSE
  OBVIOUS
<1>1. Types /\ ManagedOnly /\ ChangesAwaited /\ IssuedLater
  BY DEF PanelInv, InTouch
<1>2. h.task = "create" /\ h.step = "call"
  BY DEF Reverts
<1>3. Proper(u) /\ u.step = "undo" /\ u.conn = h.conn
  BY <1>1, <1>2, UndoFacts
<1>4. Message(u).action = "revoke" /\ Message(u).conn = h.conn
  BY <1>3, MessageFacts
<1>5. PICK g \in handlers : Message(g) = Message(u)
  BY <1>1, <1>4 DEF ChangesAwaited, MutationActions
<1>6. Proper(g) /\ g.conn = h.conn /\ g.step \in {"call", "undo"}
        /\ g.task \in Called \cup {"discover"}
  BY <1>1, <1>4, <1>5, MessageFacts, RpcValues DEF Types, HandlerInv, Proper, HandlerType
<1>7. CASE g.step = "call"
  <2>1. Rpc[g.task] = "revoke"
    BY <1>4, <1>5, <1>6, <1>7, MessageFacts
  <2>2. g.task = "revoke"
    BY <1>6, <2>1, RpcValues DEF Called
  <2>3. Managed(h.conn) /\ row[h.conn] = None
    BY <1>1, <1>2, <1>6, <2>2 DEF ManagedOnly, IssuedLater
  <2> QED BY <2>3 DEF Managed
<1>8. CASE g.step = "undo"
  <2>1. g.task = "create"
    BY <1>6, <1>8 DEF Proper
  <2>2. g = h
    BY <1>2, <1>6, <2>1, OneCreator
  <2> QED BY <1>2, <1>8, <2>2
<1> QED BY <1>6, <1>7, <1>8

-----------------------------------------------------------------------------
(* What is new after a step that does not let Panel and node differ.       *)

Quiet == PanelInv /\ InTouch /\ [Next]_vars /\ ~drifted'

\* The node serves the same peers, unless it makes a change.
LEMMA SamePeers ==
  ASSUME Quiet
  PROVE  (\E m \in sent : Makes(m)) \/ UNCHANGED <<config, parked>>
<1>1. ASSUME NEW h, Starts(h) \/ Reads(h) PROVE UNCHANGED <<config, parked>>
  BY <1>1, StartFacts, ReadFacts DEF node
<1> QED BY <1>1, StepKinds DEF Quiet, Replies, Closes, Reverts, Rests, node

\* A new answer that tells something tells what the node serves now.
LEMMA NewTidings ==
  ASSUME Quiet, NEW r \in replies', r \notin replies
  PROVE  \/ /\ r.fp = config /\ r.msg.action \in {"discover", "list"}
            /\ UNCHANGED <<config, parked, sent>>
         \/ \E m \in sent : Replies(m) /\ r.msg = m /\ ~(r.ok /\ m.action \in MutationActions)
         \/ \E m \in sent : Makes(m) /\ r.msg = m /\ r.fp = config'
<1>1. Types
  BY DEF Quiet, PanelInv
<1>2. ASSUME NEW h, Starts(h) PROVE FALSE
  BY <1>2, StartFacts
<1>3. ASSUME NEW h, Reads(h)
      PROVE  r.fp = config /\ r.msg.action \in {"discover", "list"}
               /\ UNCHANGED <<config, parked, sent>>
  <2>1. PICK mode \in FoundModes \cup {None} : r =
          [msg |-> Message(h), ok |-> TRUE, fp |-> config, mode |-> mode, policies |-> None]
    BY <1>3, ReadFacts
  <2>2. r.msg = Message(h) /\ r.fp = config
    BY <2>1
  <2>3. Proper(h) /\ h.task \in {"discover", "import"}
    BY <1>1, <1>3, BeginProper, ReadFacts
  <2>4. Message(h).action \in {"discover", "list"}
    BY <2>3, MessageFacts
  <2> QED BY <1>3, <2>2, <2>4, ReadFacts DEF node
<1>4. ASSUME NEW m \in sent, Replies(m)
      PROVE  r.msg = m /\ ~(r.ok /\ m.action \in MutationActions)
  BY <1>4 DEF Replies
<1>5. ASSUME NEW m \in sent, Makes(m) PROVE r.msg = m /\ r.fp = config'
  <2>1. r = [msg |-> m, ok |-> TRUE, fp |-> config', mode |-> None, policies |-> None]
    BY <1>5 DEF Makes
  <2> QED BY <2>1
<1>6. ASSUME (\E h \in handlers, q \in replies : Closes(h, q) \/ Reverts(h, q)) \/ Rests
      PROVE  FALSE
  BY <1>6 DEF Closes, Reverts, Rests
<1> QED BY <1>2, <1>3, <1>4, <1>5, <1>6, StepKinds DEF Quiet

\* The node makes what its answer says.
LEMMA MakesFacts ==
  ASSUME Types, NEW m \in sent, Makes(m)
  PROVE  /\ m.action \in {"create", "enable"} => m.conn \in config'.peers
         /\ m.action = "disable" => m.conn \in parked' \ config'.peers
         /\ m.action = "revoke" => m.conn \notin config'.peers \cup parked'
         /\ \A c : c # m.conn => /\ c \in config'.peers <=> c \in config.peers
                                 /\ c \in parked' <=> c \in parked
BY DEF Makes, ParkedAfter

LEMMA AnswersCurrentKept ==
  ASSUME Quiet
  PROVE  AnswersCurrent'
<1>1. Types /\ AnswersCurrent
  BY DEF Quiet, PanelInv, InTouch
<1> DEFINE Current(r) ==
             /\ Printed(r) => r.fp = config'
             /\ Changed(r) => Made(r)'
             /\ r.ok /\ r.msg.action = "list" /\ r.msg.conn \in r.fp.peers =>
                  r.msg.conn \in config'.peers
<1>2. ASSUME NEW r \in replies PROVE Current(r)
  <2>1. CASE UNCHANGED <<config, parked>>
    BY <1>1, <2>1 DEF AnswersCurrent, Made, Present
  <2>2. ASSUME NEW m \in sent, Makes(m) PROVE Current(r)
    <3>1. ~Printed(r) /\ (r.ok /\ r.msg.action = "list" => r.msg.conn # m.conn)
      BY <2>2 DEF Makes, Overtakes, Printed, Changed
    <3> QED BY <1>1, <2>2, <3>1, MakesFacts DEF AnswersCurrent, Printed
  <2> QED BY <2>1, <2>2, SamePeers
<1>3. ASSUME NEW r \in replies', r \notin replies PROVE Current(r)
  <2>1. CASE r.fp = config /\ r.msg.action \in {"discover", "list"} /\ UNCHANGED <<config, parked>>
    BY <2>1 DEF Changed, MutationActions
  <2>2. ASSUME NEW m \in sent, r.msg = m, ~(r.ok /\ m.action \in MutationActions) PROVE Current(r)
    <3>1. m.action \notin {"discover", "list"}
      BY <1>1 DEF Types, NetInv
    <3> QED BY <2>2, <3>1 DEF Printed, Changed
  <2>3. ASSUME NEW m \in sent, Makes(m), r.msg = m, r.fp = config' PROVE Current(r)
    <3>1. Made(r)' /\ m.action # "list"
      BY <1>1, <2>3, MakesFacts DEF Made, Present, Makes, MutationActions
    <3> QED BY <2>3, <3>1
  <2> QED BY <1>3, <2>1, <2>2, <2>3, NewTidings
<1> QED BY <1>2, <1>3 DEF AnswersCurrent, Printed, Changed

LEMMA ChangesAwaitedKept ==
  ASSUME Quiet
  PROVE  ChangesAwaited'
<1>1. Types /\ ChangesAwaited /\ PanelInv /\ InTouch
  BY DEF Quiet, PanelInv, InTouch
<1>2. ASSUME NEW h, Starts(h) PROVE ChangesAwaited'
  <2>1. handlers' = handlers \cup {h} /\ sent' = sent \cup {Message(h)} /\ replies' = replies
    BY <1>2, StartFacts
  <2>2. \A r \in replies : r.msg # Message(h)
    BY <1>1, <1>2, NewMessage
  <2> QED BY <1>1, <2>1, <2>2 DEF ChangesAwaited, Message
<1>3. ASSUME NEW h, Reads(h) PROVE ChangesAwaited'
  <2>1. handlers' = handlers \cup {h} /\ sent' = sent /\ replies \subseteq replies'
    BY <1>3, ReadFacts
  <2>2. \A r \in replies' : r \in replies \/ r.msg.action \notin MutationActions
    <3>1. ASSUME NEW r \in replies', r \notin replies PROVE r.msg.action \notin MutationActions
      <4>1. Proper(h) /\ h.task \in {"discover", "import"}
        BY <1>1, <1>3, BeginProper, ReadFacts
      <4>2. Message(h).action \in {"discover", "list"}
        BY <4>1, MessageFacts
      <4>3. r.msg = Message(h)
        BY <1>3, <3>1, ReadFacts
      <4> QED BY <4>2, <4>3 DEF MutationActions
    <3> QED BY <3>1
  <2> QED BY <1>1, <2>1, <2>2 DEF ChangesAwaited, Message
<1>4. ASSUME NEW m \in sent, Replies(m) \/ Makes(m) PROVE ChangesAwaited'
  <2>1. /\ handlers' = handlers /\ sent' = sent \ {m}
        /\ \/ replies' = replies
           \/ \E r : replies' = replies \cup {r} /\ r.msg = m
    <3>1. CASE Replies(m)
      BY <3>1 DEF Replies, memory
    <3>2. CASE Makes(m)
      <4> DEFINE r == [msg |-> m, ok |-> TRUE, fp |-> config', mode |-> None, policies |-> None]
      <4>1. r.msg = m
        OBVIOUS
      <4>2. /\ handlers' = handlers /\ sent' = sent \ {m}
            /\ replies' = replies \/ replies' = replies \cup {r}
        BY <3>2 DEF Makes, memory
      <4> HIDE DEF r
      <4> QED BY <4>1, <4>2
    <3> QED BY <1>4, <3>1, <3>2
  <2>2. CASE replies' = replies
    BY <1>1, <2>1, <2>2 DEF ChangesAwaited, Message
  <2>3. ASSUME NEW r, replies' = replies \cup {r}, r.msg = m PROVE ChangesAwaited'
    BY <1>1, <2>1, <2>3 DEF ChangesAwaited, Message
  <2> QED BY <2>1, <2>2, <2>3
<1>5. ASSUME NEW h \in handlers, NEW r \in replies, r.msg = Message(h), Closes(h, r)
      PROVE  ChangesAwaited'
  <2>1. handlers' = handlers \ {h} /\ replies' = replies \ {r} /\ sent' = sent
    BY <1>5 DEF Closes
  <2>2. \A m \in sent : m.action \in MutationActions => m # Message(h)
    BY <1>1, <1>5 DEF ChangesAwaited
  <2>3. \A s \in replies' : s.msg.action \in MutationActions => s.msg # Message(h)
    BY <1>1, <1>5, <2>1 DEF ChangesAwaited
  <2> QED BY <1>1, <2>1, <2>2, <2>3 DEF ChangesAwaited, Message
<1>6. ASSUME NEW h \in handlers, NEW r \in replies, r.msg = Message(h), Reverts(h, r)
      PROVE  ChangesAwaited'
  <2> DEFINE u == Undoes(h, r)
  <2>1. /\ handlers' = (handlers \ {h}) \cup {u} /\ replies' = replies \ {r}
        /\ sent' = sent \cup {Message(u)}
    BY <1>6 DEF Reverts
  <2>2. \A m \in sent : m.action \in MutationActions => m # Message(h)
    BY <1>1, <1>6 DEF ChangesAwaited
  <2>3. \A s \in replies' : s.msg.action \in MutationActions => s.msg # Message(h)
    BY <1>1, <1>6, <2>1 DEF ChangesAwaited
  <2>4. \A s \in replies : s.msg # Message(u)
    BY <1>1, <1>6, NewUndo
  <2> HIDE DEF u
  <2> QED BY <1>1, <2>1, <2>2, <2>3, <2>4 DEF ChangesAwaited, Message
<1>7. CASE Rests
  BY <1>1, <1>7 DEF Rests, ChangesAwaited, MutationActions, Message
<1> QED BY <1>2, <1>3, <1>4, <1>5, <1>6, <1>7, StepKinds DEF Quiet

\* Rows change by the answers that close a request.
LEMMA RowsClosed ==
  ASSUME Types, NEW h \in handlers, NEW r \in replies, Closing(h, r), NEW c \in Conn, c # h.conn
  PROVE  row'[c] = row[c]
BY DEF Closing, Types, RowInv

LEMMA SameRows ==
  ASSUME Quiet, NEW c \in Conn
  PROVE  \/ SameStatus(c)
         \/ \E h \in handlers, r \in replies :
              r.msg = Message(h) /\ Closes(h, r) /\ Closing(h, r) /\ c = h.conn
<1>1. Types
  BY DEF Quiet, PanelInv
<1>2. ASSUME NEW h, Starts(h) \/ Reads(h) PROVE row' = row
  BY <1>2, StartFacts, ReadFacts
<1> QED BY <1>1, <1>2, RowsClosed, StepKinds
        DEF Quiet, Replies, Makes, Reverts, Rests, SameStatus, db

LEMMA IssuedLaterKept ==
  ASSUME Quiet
  PROVE  IssuedLater'
<1>1. Types /\ IssuedLater /\ PanelInv /\ ManagedOnly
  BY DEF Quiet, PanelInv, InTouch
<1> SUFFICES ASSUME NEW h \in handlers', h.task = "create" PROVE row'[h.conn] = None
  BY DEF IssuedLater
<1>2. CASE Starts(h)
  BY <1>2, StartFacts DEF Fresh
<1>3. CASE Reads(h)
  BY <1>3, ReadFacts
<1>4. CASE h \in handlers
  <2>1. row[h.conn] = None /\ h.conn \in Conn
    BY <1>1, <1>4 DEF IssuedLater, Types, HandlerInv, Proper, Called
  <2>2. ASSUME NEW k \in handlers, NEW r \in replies, Closes(k, r), Closing(k, r), h.conn = k.conn
        PROVE  row'[h.conn] = None
    <3>1. Proper(k) /\ (k.task \in {"suspend", "resume", "revoke"} => Managed(k.conn))
      BY <1>1 DEF Types, HandlerInv, ManagedOnly
    <3>2. k # h
      BY <2>2 DEF Closes
    <3>3. k.task # "create"
      BY <1>1, <1>4, <2>2, <3>2, OneCreator
    <3>4. k.task \notin {"suspend", "resume", "revoke"}
      BY <2>1, <2>2, <3>1 DEF Managed
    <3>5. k.task # "import" \/ row' = row
      BY <1>4, <2>2 DEF Closing
    <3> QED BY <2>1, <2>2, <3>1, <3>3, <3>4, <3>5 DEF Closing, Proper
  <2> QED BY <2>1, <2>2, SameRows DEF SameStatus
<1>5. ASSUME NEW g \in handlers, NEW r \in replies, CompensateIssuance(g, r), h = Undoes(g, r)
      PROVE  row'[h.conn] = None
  <2>1. g.task = "create" /\ h.conn = g.conn
    BY <1>1, <1>5, UndoFacts DEF CompensateIssuance
  <2> QED BY <1>1, <1>5, <2>1 DEF CompensateIssuance, db, IssuedLater
<1> QED BY <1>1, <1>2, <1>3, <1>4, <1>5, HandlerCases DEF Quiet

-----------------------------------------------------------------------------
(* The fingerprint and the rows.                                           *)

\* The answer to a change or a discovery carries the current fingerprint.
LEMMA ClosedPrint ==
  ASSUME Types, AnswersCurrent, NEW h \in handlers, NEW r \in replies, r.msg = Message(h),
         Closing(h, r), h.task # "import"
  PROVE  \/ instance'.fp = config
         \/ ~Changed(r) /\ h.step # "undo" /\ instance' = instance
<1>1. Proper(h) /\ (r.msg.action = "discover" => r.ok)
  BY DEF Types, HandlerInv, NetInv
<1>2. Message(h).action \in MutationActions \cup {"discover"}
  BY <1>1, MessageFacts, RpcValues DEF Proper, HandlerType, MutationActions, Called
<1>3. (h.task = "discover" => Message(h).action = "discover")
  BY <1>1, MessageFacts
<1>4. \/ instance'.fp = r.fp /\ r.ok
      \/ ~Changed(r) /\ h.step # "undo" /\ instance' = instance
  BY <1>1, <1>3 DEF Closing
<1>5. r.ok => r.fp = config
  BY <1>2 DEF AnswersCurrent, Printed, Changed
<1> QED BY <1>4, <1>5

LEMMA FingerprintKnownKept ==
  ASSUME Quiet
  PROVE  FingerprintKnown'
<1>1. Types /\ AnswersCurrent /\ ChangesAwaited /\ FingerprintKnown
  BY DEF Quiet, PanelInv, InTouch
<1>2. ASSUME UNCHANGED <<config, instance>>, handlers \subseteq handlers', replies \subseteq replies'
      PROVE  FingerprintKnown'
  BY <1>1, <1>2 DEF FingerprintKnown, Changed
<1>3. ASSUME NEW h, Starts(h) \/ Reads(h) PROVE FingerprintKnown'
  BY <1>2, <1>3, StartFacts, ReadFacts DEF node
<1>4. ASSUME NEW m \in sent, Replies(m) PROVE FingerprintKnown'
  BY <1>2, <1>4 DEF Replies, db, memory
<1>5. ASSUME NEW m \in sent, Makes(m) PROVE FingerprintKnown'
  <2> DEFINE r == [msg |-> m, ok |-> TRUE, fp |-> config', mode |-> None, policies |-> None]
  <2>1. Awaited(m)
    BY <1>1, <1>5 DEF ChangesAwaited, Makes, Awaited
  <2>2. r \in replies'
    BY <1>5, <2>1 DEF Makes
  <2>3. r.ok /\ r.msg.action \in MutationActions
    BY <1>5 DEF Makes
  <2> HIDE DEF r
  <2> QED BY <2>2, <2>3 DEF FingerprintKnown, Changed
<1>6. ASSUME NEW h \in handlers, NEW r \in replies, r.msg = Message(h), Closes(h, r), Closing(h, r)
      PROVE  FingerprintKnown'
  <2>1. Proper(h) /\ config' = config
    BY <1>1, <1>6 DEF Types, HandlerInv, Closes, node
  <2>2. CASE ~Changed(r) /\ h.step # "undo" /\ instance'.fp = instance.fp
    <3>1. \A q \in replies : Changed(q) => q \in replies'
      BY <1>6, <2>2 DEF Closes
    <3>2. \A g \in handlers : g.step = "undo" => g \in handlers'
      BY <1>6, <2>2 DEF Closes
    <3> QED BY <1>1, <2>1, <2>2, <3>1, <3>2 DEF FingerprintKnown, Changed
  <2>3. CASE h.task = "import"
    <3>1. ~Changed(r) /\ h.step # "undo"
      BY <1>6, <2>1, <2>3, MessageFacts DEF Changed, MutationActions, Proper
    <3>2. instance' = instance
      BY <1>6, <2>3, <3>1 DEF Closing
    <3> QED BY <2>2, <3>1, <3>2
  <2>4. CASE h.task # "import" /\ instance'.fp = config
    BY <2>1, <2>4 DEF FingerprintKnown
  <2> QED BY <1>1, <1>6, <2>2, <2>3, <2>4, ClosedPrint
<1>7. ASSUME NEW h \in handlers, NEW r \in replies, Reverts(h, r) PROVE FingerprintKnown'
  <2>1. Undoes(h, r) \in handlers' /\ Undoes(h, r).step = "undo"
    BY <1>1, <1>7, UndoFacts DEF Reverts
  <2> QED BY <2>1 DEF FingerprintKnown
<1>8. CASE Rests
  <2>1. \A q \in replies : Changed(q) => q \in replies'
    BY <1>8 DEF Rests, Changed, MutationActions
  <2> QED BY <1>1, <1>8, <2>1 DEF Rests, FingerprintKnown, Changed
<1> QED BY <1>3, <1>4, <1>5, <1>6, <1>7, <1>8, StepKinds DEF Quiet

LEMMA SameTold ==
  ASSUME NEW c \in Conn, Told(c), SameStatus(c),
         c \in config'.peers <=> c \in config.peers, c \in parked' <=> c \in parked
  PROVE  Told(c)'
BY DEF Told, SameStatus, Present

\* The answer that closes the request for a connection brings its row in line.
LEMMA ClosedRow ==
  ASSUME PanelInv, InTouch, NEW h \in handlers, NEW r \in replies, r.msg = Message(h),
         Closes(h, r), Closing(h, r), h.conn \in Conn,
         ~(row' = row /\ ~Changed(r) /\ h.step # "undo")
  PROVE  Told(h.conn)'
<1> DEFINE c == h.conn
<1>1. /\ Types /\ ManagedOnly /\ AnswersCurrent /\ IssuedLater /\ Proper(h)
      /\ row \in [Conn -> Row \cup {None}] /\ None \notin Row
      /\ UNCHANGED <<config, parked>>
  BY PanelAssumption DEF PanelInv, InTouch, Types, HandlerInv, RowInv, Closes, node
<1>2. r.msg.conn = c /\ (h.step = "undo" => r.msg.action = "revoke")
        /\ (h.step = "call" => r.msg.action = Rpc[h.task])
  BY <1>1, MessageFacts
<1>3. \A v : row' = [row EXCEPT ![c] = v] => row'[c] = v
  BY <1>1
<1>4. CASE /\ h.task = "create" /\ h.step = "call" /\ r.ok
           /\ row' = [row EXCEPT ![h.conn] = Issued(h)]
  <2>1. Changed(r) /\ r.msg.action = "create"
    BY <1>2, <1>4, RpcValues DEF Changed, MutationActions
  <2>2. c \in config.peers
    BY <1>1, <1>2, <2>1 DEF AnswersCurrent, Made
  <2>3. row'[c] = Issued(h) /\ Issued(h).status = "active" /\ Issued(h) \in Row
    BY <1>1, <1>3, <1>4 DEF Issued, Row, Status, Proper, HandlerType
  <2> QED BY <1>1, <2>2, <2>3 DEF Told
<1>5. CASE h.step = "undo" /\ r.ok /\ row' = row
  <2>1. Changed(r) /\ r.msg.action = "revoke"
    BY <1>2, <1>5 DEF Changed, MutationActions
  <2>2. ~Present(c)
    BY <1>1, <1>2, <2>1 DEF AnswersCurrent, Made
  <2>3. row'[c] = None
    BY <1>1, <1>5 DEF Proper, IssuedLater
  <2> QED BY <1>1, <2>2, <2>3 DEF Told, Present
<1>6. CASE /\ h.task \in {"suspend", "resume", "revoke"} /\ r.ok
           /\ row' = [row EXCEPT ![h.conn] = RowAfter(h)]
  <2>1. h.step = "call"
    BY <1>1, <1>6 DEF Proper, HandlerType
  <2>2. r.msg.action = Rpc[h.task] /\ Changed(r) /\ Made(r)
    BY <1>1, <1>2, <1>6, <2>1, RpcValues DEF Changed, MutationActions, AnswersCurrent
  <2>3. row'[c] = RowAfter(h) /\ RowAfter(h).status = Target[h.task] /\ RowAfter(h) \in Row
    BY <1>1, <1>3, <1>6, RowAfterFacts DEF ManagedOnly, Types
  <2>4. CASE h.task = "suspend"
    BY <1>1, <1>2, <2>2, <2>3, <2>4, RpcValues, TargetValues DEF Told, Made
  <2>5. CASE h.task = "resume"
    BY <1>1, <1>2, <2>2, <2>3, <2>5, RpcValues, TargetValues DEF Told, Made
  <2>6. CASE h.task = "revoke"
    BY <1>1, <1>2, <2>2, <2>3, <2>6, RpcValues, TargetValues DEF Told, Made, Present
  <2> QED BY <1>6, <2>4, <2>5, <2>6
<1>7. CASE /\ h.task = "import" /\ r.ok /\ h.conn \in r.fp.peers
           /\ row' = [row EXCEPT ![h.conn] =
                [status |-> "active", managed |-> FALSE, imported |-> TRUE,
                 revokedAt |-> FALSE, limits |-> {}]]
  <2> DEFINE v == [status |-> "active", managed |-> FALSE, imported |-> TRUE,
                   revokedAt |-> FALSE, limits |-> {}]
  <2>1. v \in Row /\ v.status = "active"
    BY DEF Row, Status
  <2>2. row'[c] = v
    BY <1>3, <1>7
  <2>3. c \in config.peers
    BY <1>1, <1>2, <1>7, MessageFacts DEF AnswersCurrent
  <2> HIDE DEF v
  <2> QED BY <1>1, <2>1, <2>2, <2>3 DEF Told
<1>8. h.task # "discover"
  <2>1. h.task = "discover" => ~Changed(r) /\ h.step # "undo" /\ row' = row
    BY <1>1, MessageFacts DEF Changed, MutationActions, Closing, Proper
  <2> QED BY <2>1
<1> QED BY <1>4, <1>5, <1>6, <1>7, <1>8 DEF Closing

LEMMA RowsKnownKept ==
  ASSUME Quiet
  PROVE  RowsKnown'
<1>1. Types /\ ChangesAwaited /\ RowsKnown /\ PanelInv /\ InTouch
  BY DEF Quiet, PanelInv, InTouch
<1> SUFFICES ASSUME NEW c \in Conn PROVE Told(c)' \/ Answering(c)' \/ Undoing(c)'
  BY DEF RowsKnown
<1>2. Told(c) \/ Answering(c) \/ Undoing(c)
  BY <1>1 DEF RowsKnown
<1>3. ASSUME SameStatus(c), c \in config'.peers <=> c \in config.peers, c \in parked' <=> c \in parked,
             \A h \in handlers : h.step = "undo" /\ h.conn = c => h \in handlers',
             \A r \in replies : Changed(r) /\ r.msg.conn = c => r \in replies'
      PROVE  Told(c)' \/ Answering(c)' \/ Undoing(c)'
  BY <1>2, <1>3, SameTold DEF Answering, Undoing, Changed
<1>4. ASSUME NEW h, Starts(h) \/ Reads(h) PROVE Told(c)' \/ Answering(c)' \/ Undoing(c)'
  <2>1. UNCHANGED <<config, parked, row>> /\ handlers \subseteq handlers' /\ replies \subseteq replies'
    BY <1>4, StartFacts, ReadFacts DEF node
  <2> QED BY <1>3, <2>1 DEF SameStatus
<1>5. ASSUME NEW m \in sent, Replies(m) PROVE Told(c)' \/ Answering(c)' \/ Undoing(c)'
  <2>1. UNCHANGED <<config, parked, row>> /\ handlers' = handlers /\ replies \subseteq replies'
    BY <1>5 DEF Replies, db, memory
  <2> QED BY <1>3, <2>1 DEF SameStatus
<1>6. ASSUME NEW m \in sent, Makes(m) PROVE Told(c)' \/ Answering(c)' \/ Undoing(c)'
  <2>1. CASE c = m.conn
    <3> DEFINE r == [msg |-> m, ok |-> TRUE, fp |-> config', mode |-> None, policies |-> None]
    <3>1. Awaited(m)
      BY <1>1, <1>6 DEF ChangesAwaited, Makes, Awaited
    <3>2. r \in replies'
      BY <1>6, <3>1 DEF Makes
    <3>3. r.ok /\ r.msg.action \in MutationActions /\ r.msg.conn = c
      BY <1>6, <2>1 DEF Makes
    <3> HIDE DEF r
    <3> QED BY <3>2, <3>3 DEF Answering, Changed
  <2>2. CASE c # m.conn
    <3>1. c \in config'.peers <=> c \in config.peers
      BY <1>1, <1>6, <2>2, MakesFacts
    <3>2. c \in parked' <=> c \in parked
      BY <1>1, <1>6, <2>2, MakesFacts
    <3>3. row' = row /\ handlers' = handlers /\ replies \subseteq replies'
      BY <1>6 DEF Makes, db, memory
    <3> QED BY <1>3, <3>1, <3>2, <3>3 DEF SameStatus
  <2> QED BY <2>1, <2>2
<1>7. ASSUME NEW h \in handlers, NEW r \in replies, r.msg = Message(h), Closes(h, r), Closing(h, r)
      PROVE  Told(c)' \/ Answering(c)' \/ Undoing(c)'
  <2>1. /\ UNCHANGED <<config, parked>> /\ handlers' = handlers \ {h} /\ replies' = replies \ {r}
        /\ r.msg.conn = h.conn
    BY <1>1, <1>7, MessageFacts DEF Closes, node, Types, HandlerInv
  <2>2. CASE c # h.conn
    <3>1. row'[c] = row[c]
      BY <1>1, <1>7, <2>2, RowsClosed
    <3> QED BY <1>3, <2>1, <2>2, <3>1 DEF SameStatus
  <2>3. CASE c = h.conn /\ ~(row' = row /\ ~Changed(r) /\ h.step # "undo")
    BY <1>1, <1>7, <2>3, ClosedRow
  <2>4. CASE row' = row /\ ~Changed(r) /\ h.step # "undo"
    BY <1>3, <2>1, <2>4 DEF SameStatus
  <2> QED BY <2>2, <2>3, <2>4
<1>8. ASSUME NEW h \in handlers, NEW r \in replies, r.msg = Message(h), Reverts(h, r)
      PROVE  Told(c)' \/ Answering(c)' \/ Undoing(c)'
  <2>1. /\ UNCHANGED <<config, parked, row>> /\ handlers' = (handlers \ {h}) \cup {Undoes(h, r)}
        /\ replies' = replies \ {r} /\ h.task = "create" /\ h.step = "call"
        /\ r.msg.conn = h.conn
    BY <1>1, <1>8, MessageFacts DEF Reverts, node, db, Types, HandlerInv
  <2>2. CASE c = h.conn
    <3>1. Undoes(h, r).step = "undo" /\ Undoes(h, r).conn = c
      BY <1>1, <2>1, <2>2, UndoFacts
    <3> QED BY <2>1, <3>1 DEF Undoing
  <2>3. CASE c # h.conn
    BY <1>3, <2>1, <2>3 DEF SameStatus
  <2> QED BY <2>2, <2>3
<1>9. CASE Rests
  <2>1. \A q \in replies : Changed(q) => q \in replies'
    BY <1>9 DEF Rests, Changed, MutationActions
  <2> QED BY <1>3, <1>9, <2>1 DEF Rests
<1> QED BY <1>4, <1>5, <1>6, <1>7, <1>8, <1>9, StepKinds DEF Quiet

-----------------------------------------------------------------------------
(* The theorem.                                                            *)

LEMMA AgreementInit ==
  ASSUME Init
  PROVE  AgreementInv
<1>1. /\ config.peers = Foreign /\ instance.fp = config /\ sent = {} /\ replies = {}
      /\ handlers = {} /\ enforced = {} /\ parked = {}
  BY DEF Init
<1>2. ASSUME NEW c \in Conn PROVE Told(c)
  <2>1. PICK adopted \in SUBSET Foreign, limits \in Limits :
          row = [d \in Conn |-> IF d \in adopted THEN Adopted(limits) ELSE None]
    BY DEF Init
  <2>2. CASE row[c] = None
    BY <1>1, <2>2 DEF Told, Present
  <2>3. CASE row[c] # None
    <3>1. row[c] = Adopted(limits) /\ c \in Foreign
      BY <2>1, <2>3
    <3>2. row[c].status = "active"
      BY <3>1 DEF Adopted
    <3> QED BY <1>1, <2>3, <3>1, <3>2 DEF Told
  <2> QED BY <2>2, <2>3
<1> QED BY <1>1, <1>2
        DEF AgreementInv, InTouch, AnswersCurrent, ChangesAwaited, IssuedLater, FingerprintKnown,
            RowsKnown

LEMMA AgreementNext ==
  ASSUME PanelInv, AgreementInv, [Next]_vars
  PROVE  AgreementInv'
<1> SUFFICES ASSUME ~drifted' PROVE InTouch'
  BY DEF AgreementInv
<1>1. Quiet
  BY Undrifted DEF Quiet, AgreementInv, PanelInv
<1>2. enforced' = {}
  <2>1. ASSUME NEW h, Starts(h) \/ Reads(h) PROVE enforced' = enforced
    BY <2>1, StartFacts, ReadFacts DEF history
  <2> QED BY <1>1, <2>1, StepKinds DEF Quiet, InTouch, Replies, Makes, Closes, Reverts, Rests
<1> QED BY <1>1, <1>2, AnswersCurrentKept, ChangesAwaitedKept, IssuedLaterKept,
           FingerprintKnownKept, RowsKnownKept DEF InTouch

\* At rest the Panel's fingerprint is the node's and every row tells what the
\* node does with its peer, however many requests, polls and discoveries ran
\* at once, unless something happened that the code lets drift.
THEOREM AgreementHolds == Spec => []Agreement
<1>1. AgreementInv => Agreement
  BY DEF AgreementInv, InTouch, FingerprintKnown, RowsKnown, Answering, Undoing, Agreement
<1>2. Init => AgreementInv
  BY AgreementInit
<1>3. PanelInv /\ AgreementInv /\ [Next]_vars => AgreementInv'
  BY AgreementNext
<1> QED BY <1>1, <1>2, <1>3, PanelInvHolds, PTL DEF Spec
=============================================================================
