---------------------------- MODULE HelperProofs ----------------------------
(* Theorems about Helper, for any number of processes, connections,        *)
(* instances and operations.                                               *)
EXTENDS Helper, TLAPS

(* The default content of a process's memory is a content. *)
LEMMA BlankIsContent == Blank \in Content
  BY HelperAssumption DEF Blank, Content

LEMMA TypeInit == Init => TypeOK
  <1> SUFFICES ASSUME Init PROVE TypeOK
    OBVIOUS
  <1>1. config \in [Inst -> Content]
    BY HelperAssumption DEF Init, Content
  <1>2. /\ kernel \in [Inst -> SUBSET Conn] /\ susp \subseteq Conn
        /\ stored \in [Inst -> Content \cup {Absent}]
    BY <1>1 DEF Init, Content
  <1>3. /\ policies \in [Conn -> Status \cup {None}]
        /\ journal \in [Id -> Record \cup {NoRecord}]
        /\ addr \in [Conn -> Addr \cup {None}]
        /\ policyLock \in Proc \cup {None}
        /\ instLock \in [Inst -> Proc \cup {None}]
    BY DEF Init
  <1>4. /\ pc \in [Proc -> Steps] /\ req \in [Proc -> Request \cup {NoRequest}]
        /\ \A p \in Proc : pc[p] \in Working => req[p] \in Request
    BY DEF Init, Steps, Working
  <1>5. /\ base \in [Proc -> Content] /\ upd \in [Proc -> Content]
        /\ copy \in [Proc -> [Inst -> Content \cup {Absent}]]
        /\ mine \in [Proc -> [Conn -> Status \cup {None}]]
        /\ todo \in [Proc -> SUBSET Conn]
        /\ reason \in [Proc -> Reasons \cup {None}]
    BY BlankIsContent DEF Init
  <1>6. /\ minute \in Minute /\ lastRun \in Minute \cup {None}
        /\ crashes \in 0..MaxCrashes /\ edits \in 0..MaxEdits
        /\ stuck \subseteq Conn /\ unsynced \subseteq Inst /\ touched \subseteq Conn
    BY HelperAssumption DEF Init, Minute
  <1> QED
    BY <1>1, <1>2, <1>3, <1>4, <1>5, <1>6 DEF TypeOK

(* The request a process works on names an operation, a connection and so  *)
(* an instance.                                                            *)
LEMMA RequestTypes ==
  ASSUME TypeOK, NEW p \in Proc, pc[p] \in Working
  PROVE  /\ req[p] \in Request /\ req[p].id \in Id /\ C(p) \in Conn
         /\ Action(p) \in Actions /\ I(p) \in Inst
         /\ req[p].fp \in Content \cup {Absent}
  BY HelperAssumption DEF TypeOK, Request, C, Action, I

LEMMA TypeRequests ==
  ASSUME TypeOK, NEW p \in Proc,
         Call(p) \/ TakePolicyLock(p) \/ LoadInstance(p) \/ TakeInstanceLock(p)
         \/ RejectEdit(p) \/ RejectApply(p) \/ RollbackFails(p) \/ WriteFails(p)
  PROVE  TypeOK'
  <1>1. CASE Call(p)
    <2>0. PICK k \in OpId, a \in Rpc, c \in Conn :
            \E f \in {config[Home[c]], stored[Home[c]]} :
              Begin(p, [id |-> k, action |-> a, conn |-> c, fp |-> f])
      BY <1>1 DEF Call
    <2>1. PICK f \in {config[Home[c]], stored[Home[c]]} :
            Begin(p, [id |-> k, action |-> a, conn |-> c, fp |-> f])
      BY <2>0
    <2>2. [id |-> k, action |-> a, conn |-> c, fp |-> f] \in Request
      BY HelperAssumption DEF TypeOK, Request, Id
    <2> QED
      BY <2>1, <2>2 DEF TypeOK, Begin, Goto, Steps, Working, Record, Request, files, memory, env, history
  <1>2. CASE TakePolicyLock(p)
    BY <1>2 DEF TypeOK, TakePolicyLock, Goto, Steps, Working, files, memory, env, history
  <1>3. CASE LoadInstance(p)
    BY <1>3 DEF TypeOK, LoadInstance, Goto, Steps, Working, files, memory, env, history
  <1>4. CASE TakeInstanceLock(p)
    <2>1. instLock' \in [Inst -> Proc \cup {None}]
      BY <1>4 DEF TypeOK, TakeInstanceLock
    <2>2. pc' \in [Proc -> Steps] /\ \A q \in Proc : pc'[q] \in Working => pc[q] \in Working
      BY <1>4 DEF TypeOK, TakeInstanceLock, Goto, Steps, Working
    <2> QED
      BY <1>4, <2>1, <2>2 DEF TypeOK, TakeInstanceLock, files, memory, env, history
  <1>5. CASE RejectEdit(p) \/ RejectApply(p) \/ RollbackFails(p) \/ WriteFails(p)
    <2>1. /\ pc[p] \in Working /\ (Goto(p, "fail") \/ Goto(p, "undo"))
          /\ UNCHANGED <<files, journal, policyLock, instLock, req, memory,
                         minute, lastRun, crashes, edits, touched>>
          /\ stuck' \in {stuck, stuck \cup {C(p)}}
          /\ unsynced' \in {unsynced, unsynced \cup {I(p)}}
      BY <1>5 DEF RejectEdit, RejectApply, RollbackFails, WriteFails, Steps, Working, env,
                  history
    <2>2. pc' \in [Proc -> Steps] /\ \A q \in Proc : pc'[q] \in Working => pc[q] \in Working
      <3>1. PICK w \in {"fail", "undo"} : pc' = [pc EXCEPT ![p] = w]
        BY <2>1 DEF Goto
      <3>2. w \in Steps
        BY DEF Steps
      <3> QED
        BY <2>1, <3>1, <3>2 DEF TypeOK
    <2>3. stuck' \subseteq Conn /\ unsynced' \subseteq Inst
      BY <2>1, RequestTypes DEF TypeOK
    <2> QED
      BY <2>1, <2>2, <2>3 DEF TypeOK, files, memory
  <1> QED
    BY <1>1, <1>2, <1>3, <1>4, <1>5

LEMMA TypeApply ==
  ASSUME TypeOK, NEW p \in Proc,
         ReadConfig(p) \/ SaveSuspended(p) \/ Replace(p) \/ Sync(p)
         \/ RestoreFile(p) \/ Resync(p) \/ Undo(p)
  PROVE  TypeOK'
  <1> USE DEF Goto, Steps, Working, files, memory, env, history
  <1>1. CASE ReadConfig(p)
    <2>1. pc[p] \in Working
      BY <1>1 DEF ReadConfig
    <2>2. I(p) \in Inst /\ C(p) \in Conn
      BY <2>1, RequestTypes
    <2>3. config[I(p)] \in Content
      BY <2>2 DEF TypeOK
    <2>4. Edited(p) \subseteq Content
      BY <2>2, <2>3 DEF Edited, Content
    <2>5. base' \in [Proc -> Content] /\ upd' \in [Proc -> Content]
      <3>1. PICK u \in Content : upd' = [upd EXCEPT ![p] = u]
        BY <1>1, <2>3, <2>4 DEF ReadConfig
      <3>2. base' = [base EXCEPT ![p] = config[I(p)]]
        BY <1>1 DEF ReadConfig
      <3> QED
        BY <2>3, <3>1, <3>2 DEF TypeOK
    <2>6. addr' \in [Conn -> Addr \cup {None}]
      BY <1>1, <2>2 DEF ReadConfig, TypeOK
    <2>7. pc' \in [Proc -> Steps] /\ \A q \in Proc : pc'[q] \in Working => pc[q] \in Working
      BY <1>1 DEF ReadConfig, TypeOK
    <2> QED
      BY <1>1, <2>5, <2>6, <2>7 DEF ReadConfig, TypeOK
  <1>2. CASE SaveSuspended(p)
    BY <1>2, RequestTypes DEF SaveSuspended, TypeOK
  <1>3. CASE Replace(p)
    BY <1>3, RequestTypes DEF Replace, TypeOK
  <1>4. CASE Sync(p)
    <2>1. upd[p].peers \subseteq Conn
      BY DEF TypeOK, Content
    <2>2. kernel' \in [Inst -> SUBSET Conn]
      BY <1>4, <2>1 DEF Sync, TypeOK
    <2>3. pc' \in [Proc -> Steps] /\ \A q \in Proc : pc'[q] \in Working => pc[q] \in Working
      <3>1. AfterApply(p) \in Steps
        BY DEF AfterApply
      <3>2. PICK s \in Steps : pc' = [pc EXCEPT ![p] = s]
        BY <1>4, <3>1 DEF Sync
      <3>3. pc[p] \in Working
        BY <1>4 DEF Sync
      <3> QED
        BY <3>1, <3>2, <3>3 DEF TypeOK
    <2> QED
      BY <1>4, <2>2, <2>3 DEF Sync, TypeOK
  <1>5. CASE RestoreFile(p)
    BY <1>5, RequestTypes DEF RestoreFile, TypeOK
  <1>6. CASE Resync(p)
    BY <1>6, RequestTypes DEF Resync, TypeOK, Content
  <1>7. CASE Undo(p)
    BY <1>7 DEF Undo, TypeOK
  <1> QED
    BY <1>1, <1>2, <1>3, <1>4, <1>5, <1>6, <1>7

LEMMA TypeBookkeeping ==
  ASSUME TypeOK, NEW p \in Proc,
         CleanSuspended(p) \/ RewritePolicies(p) \/ UpdateRead(p)
         \/ UpdateWrite(p) \/ RecordSucceeded(p) \/ RecordFailed(p) \/ Project(p)
  PROVE  TypeOK'
  <1> USE DEF Goto, Steps, Working, files, memory, env, history
  <1>1. CASE CleanSuspended(p)
    BY <1>1 DEF CleanSuspended, TypeOK
  <1>2. CASE RewritePolicies(p)
    <2>1. policies' \in [Conn -> Status \cup {None}]
      BY <1>2 DEF RewritePolicies, PolicyAfter, TypeOK, Status
    <2> QED
      BY <1>2, <2>1 DEF RewritePolicies, TypeOK
  <1>3. CASE UpdateRead(p)
    BY <1>3 DEF UpdateRead, TypeOK
  <1>4. CASE UpdateWrite(p)
    <2>1. stored' \in [Inst -> Content \cup {Absent}]
      <3>1. copy[p] \in [Inst -> Content \cup {Absent}] /\ upd[p] \in Content
        BY DEF TypeOK
      <3> QED
        BY <1>4, <3>1 DEF UpdateWrite, TypeOK
    <2>2. instLock' \in [Inst -> Proc \cup {None}]
      BY <1>4 DEF UpdateWrite, TypeOK
    <2>3. pc' \in [Proc -> Steps] /\ \A q \in Proc : pc'[q] \in Working => pc[q] \in Working
      BY <1>4 DEF UpdateWrite, TypeOK
    <2> QED
      BY <1>4, <2>1, <2>2, <2>3 DEF UpdateWrite, TypeOK
  <1>5. ASSUME NEW s \in {"started", "succeeded", "failed"}, pc[p] \in Working, Conclude(p, s)
        PROVE  TypeOK'
    <2>1. journal' \in [Id -> Record \cup {NoRecord}]
      BY <1>5, RequestTypes DEF Conclude, TypeOK, Record
    <2>2. /\ instLock' \in [Inst -> Proc \cup {None}]
          /\ policyLock' \in Proc \cup {None}
      BY <1>5 DEF Conclude, Unlocked, TypeOK
    <2>3. /\ pc' \in [Proc -> Steps] /\ req' \in [Proc -> Request \cup {NoRequest}]
          /\ \A q \in Proc : pc'[q] \in Working => req'[q] \in Request
      <3>1. PICK w \in {"loop", "idle"} : pc' = [pc EXCEPT ![p] = w]
        BY <1>5 DEF Conclude
      <3>2. req' = [req EXCEPT ![p] = NoRequest]
        BY <1>5 DEF Conclude
      <3> QED
        BY <3>1, <3>2 DEF TypeOK
    <2>4. /\ base' \in [Proc -> Content] /\ upd' \in [Proc -> Content]
          /\ copy' \in [Proc -> [Inst -> Content \cup {Absent}]]
          /\ reason' \in [Proc -> Reasons \cup {None}]
      BY <1>5, BlankIsContent DEF Conclude, TypeOK
    <2>5. mine' \in [Proc -> [Conn -> Status \cup {None}]]
      <3>1. mine[p] \in [Conn -> Status \cup {None}] /\ reason[p] \in Status \cup {None}
        BY HelperAssumption DEF TypeOK, Status
      <3>2. [mine[p] EXCEPT ![C(p)] = reason[p]] \in [Conn -> Status \cup {None}]
        BY <3>1
      <3>3. mine' \in {mine, [mine EXCEPT ![p] = [mine[p] EXCEPT ![C(p)] = reason[p]]]}
        BY <1>5 DEF Conclude
      <3> QED
        BY <3>2, <3>3 DEF TypeOK
    <2> QED
      BY <1>5, <2>1, <2>2, <2>3, <2>4, <2>5 DEF Conclude, TypeOK
  <1>6. CASE RecordSucceeded(p) \/ RecordFailed(p)
    BY <1>5, <1>6 DEF RecordSucceeded, RecordFailed
  <1>7. CASE Project(p)
    <2>1. PICK input \in [Conn -> {None, "active", "suspended"} \cup Reasons] :
            policies' = [c \in Conn |->
              IF input[c] = "active" /\ policies[c] \in {"expired", "quota-exceeded"}
              THEN policies[c] ELSE input[c]]
      BY <1>7 DEF Project
    <2>2. \A c \in Conn : input[c] \in Status \cup {None}
      BY HelperAssumption DEF Status
    <2>3. policies' \in [Conn -> Status \cup {None}]
      BY <2>1, <2>2 DEF TypeOK
    <2> QED
      BY <1>7, <2>3 DEF Project, TypeOK
  <1> QED
    BY <1>1, <1>2, <1>3, <1>4, <1>6, <1>7

LEMMA TypeEnforce ==
  ASSUME TypeOK, NEW p \in Proc, Enforce(p)
  PROVE  TypeOK'
  <1> USE DEF Goto, Steps, Working, files, memory, env, history
  <1>1. CASE StartEnforce(p)
    BY <1>1 DEF StartEnforce, TypeOK
  <1>2. ASSUME NEW c \in Conn, NEW r \in Reasons, EnforceDue(p, c, r)
        PROVE  TypeOK'
    <2>1. EnforceRequest(c) \in Request /\ <<c, minute>> \in Id
      BY <1>2, HelperAssumption DEF EnforceRequest, Request, TypeOK, Id, EnforceId, Actions
    <2>2. CASE EnforceDisable(p, c, r)
      BY <1>2, <2>1, <2>2 DEF EnforceDue, EnforceDisable, TypeOK, Record
    <2>3. CASE EnforceReplay(p, c, r)
      BY <1>2, <2>3, HelperAssumption DEF EnforceDue, EnforceReplay, TypeOK, Status
    <2> QED
      BY <1>2, <2>2, <2>3 DEF EnforceDue
  <1>3. CASE EnforceSave(p)
    BY <1>3 DEF EnforceSave, TypeOK
  <1> QED
    BY <1>1, <1>2, <1>3 DEF Enforce

LEMMA TypeEnvironment ==
  ASSUME TypeOK,
         \/ \E p \in Proc : Discover(p) \/ Crash(p)
         \/ \E i \in Inst : ExternalEdit(i) \/ ContainerRestart(i)
         \/ Tick
  PROVE  TypeOK'
  <1> USE DEF Goto, Steps, Working, files, memory, env, history
  <1>1. ASSUME NEW p \in Proc, Discover(p)
        PROVE  TypeOK'
    <2>1. CASE DiscoverRead(p)
      <3>1. copy' \in [Proc -> [Inst -> Content \cup {Absent}]]
        BY <2>1 DEF DiscoverRead, TypeOK
      <3> QED
        BY <2>1, <3>1 DEF DiscoverRead, TypeOK
    <2>2. CASE DiscoverSave(p)
      BY <2>2 DEF DiscoverSave, TypeOK
    <2> QED
      BY <1>1, <2>1, <2>2 DEF Discover
  <1>2. ASSUME NEW p \in Proc, Crash(p)
        PROVE  TypeOK'
    <2>1. /\ instLock' \in [Inst -> Proc \cup {None}]
          /\ policyLock' \in Proc \cup {None}
      BY <1>2 DEF Crash, Unlocked, TypeOK
    <2>2. /\ pc' \in [Proc -> Steps] /\ req' \in [Proc -> Request \cup {NoRequest}]
          /\ \A q \in Proc : pc'[q] \in Working => req'[q] \in Request
      BY <1>2 DEF Crash, TypeOK
    <2>3. /\ base' \in [Proc -> Content] /\ upd' \in [Proc -> Content]
          /\ copy' \in [Proc -> [Inst -> Content \cup {Absent}]]
          /\ mine' \in [Proc -> [Conn -> Status \cup {None}]]
          /\ todo' \in [Proc -> SUBSET Conn]
          /\ reason' \in [Proc -> Reasons \cup {None}]
      BY <1>2, BlankIsContent DEF Crash, TypeOK
    <2>4. crashes' \in 0..MaxCrashes
      BY <1>2, HelperAssumption DEF Crash, TypeOK
    <2>5. unsynced' \subseteq Inst
      <3>1. pc[p] \in {"sync", "rollback", "resync"} => I(p) \in Inst
        BY RequestTypes
      <3> QED
        BY <1>2, <3>1 DEF Crash, TypeOK
    <2> QED
      BY <1>2, <2>1, <2>2, <2>3, <2>4, <2>5 DEF Crash, TypeOK
  <1>3. ASSUME NEW i \in Inst, ExternalEdit(i)
        PROVE  TypeOK'
    <2>1. PICK gone \in SUBSET config[i].peers, new \in SUBSET Strangers(i), l \in Layout :
            /\ config' = [config EXCEPT ![i] =
                           [peers |-> (config[i].peers \ gone) \cup new, layout |-> l]]
            /\ touched' = touched \cup gone \cup new
            /\ unsynced' = IF gone \cup new = {} THEN unsynced ELSE unsynced \cup {i}
            /\ \E a \in [new -> Addr] :
                 addr' = [c \in Conn |-> IF c \in new THEN a[c] ELSE addr[c]]
      BY <1>3 DEF ExternalEdit
    <2>2. config[i].peers \subseteq Conn /\ Strangers(i) \subseteq Conn
      BY DEF TypeOK, Content, Strangers
    <2>3. [peers |-> (config[i].peers \ gone) \cup new, layout |-> l] \in Content
      BY <2>2 DEF Content
    <2>4. config' \in [Inst -> Content]
      BY <2>1, <2>3 DEF TypeOK
    <2>6. addr' \in [Conn -> Addr \cup {None}]
      <3>1. PICK a \in [new -> Addr] :
              addr' = [c \in Conn |-> IF c \in new THEN a[c] ELSE addr[c]]
        BY <2>1
      <3> QED
        BY <3>1 DEF TypeOK
    <2>7. touched' \subseteq Conn /\ unsynced' \subseteq Inst
      BY <2>1, <2>2 DEF TypeOK
    <2>5. edits' \in 0..MaxEdits
      BY <1>3, HelperAssumption DEF ExternalEdit, TypeOK
    <2> QED
      BY <1>3, <2>4, <2>5, <2>6, <2>7 DEF ExternalEdit, TypeOK
  <1>4. ASSUME NEW i \in Inst, ContainerRestart(i)
        PROVE  TypeOK'
    BY <1>4 DEF ContainerRestart, TypeOK, Content
  <1>5. CASE Tick
    BY <1>5, HelperAssumption DEF Tick, TypeOK, Minute
  <1> QED
    BY <1>1, <1>2, <1>3, <1>4, <1>5

LEMMA TypeStep == TypeOK /\ [Next]_vars => TypeOK'
  <1> SUFFICES ASSUME TypeOK, [Next]_vars PROVE TypeOK'
    OBVIOUS
  <1>1. ASSUME NEW p \in Proc, Call(p) \/ Mutation(p) \/ Enforce(p)
        PROVE  TypeOK'
    BY <1>1, TypeRequests, TypeApply, TypeBookkeeping, TypeEnforce DEF Mutation
  <1>2. CASE UNCHANGED vars
    BY <1>2 DEF vars, files, memory, env, history, TypeOK
  <1> QED
    BY <1>1, <1>2, TypeEnvironment DEF Next

(* Every variable keeps its type, and a process that executes a step of a  *)
(* request has that request in memory.                                     *)
THEOREM TypeCorrect == Spec => []TypeOK
  BY TypeInit, TypeStep, PTL DEF Spec

-----------------------------------------------------------------------------
(* No peer is lost.  RequestInv is inductive: two requests that hold the   *)
(* lock of an instance at once are one request, so a request finds the     *)
(* files as its own last step left them; and so no step loses a peer.  An  *)
(* outside edit inside the locked section would break that: EditsRace is   *)
(* assumed not to hold.                                                    *)

Keeps == RequestInv' /\ (PeerKept => PeerKept')

(* The history only grows. *)
LEMMA HistoryGrows ==
  ASSUME [Next]_vars
  PROVE  stuck \subseteq stuck' /\ touched \subseteq touched'
  <1>1. ASSUME NEW p \in Proc, Call(p)
        PROVE  UNCHANGED <<stuck, touched>>
    BY <1>1 DEF Call, Begin, env, history
  <1>2. ASSUME NEW p \in Proc, Mutation(p)
        PROVE  stuck \subseteq stuck' /\ UNCHANGED touched
    BY <1>2 DEF Mutation, TakePolicyLock, LoadInstance, TakeInstanceLock, RejectEdit,
         ReadConfig, SaveSuspended, RejectApply, Replace, Sync, RestoreFile, Resync,
         RollbackFails, Undo, CleanSuspended, RewritePolicies, UpdateRead, UpdateWrite,
         RecordSucceeded, RecordFailed, Conclude, WriteFails, Project, env, history
  <1>3. ASSUME NEW p \in Proc, Enforce(p) \/ Discover(p) \/ Crash(p)
        PROVE  UNCHANGED <<stuck, touched>>
    BY <1>3 DEF Enforce, StartEnforce, EnforceDue, EnforceSave, Discover, DiscoverRead,
         DiscoverSave, Crash, env, history
  <1>4. ASSUME NEW i \in Inst, ExternalEdit(i) \/ ContainerRestart(i)
        PROVE  stuck \subseteq stuck' /\ touched \subseteq touched'
    BY <1>4 DEF ExternalEdit, ContainerRestart
  <1>5. CASE Tick \/ UNCHANGED vars
    BY <1>5 DEF Tick, vars, env, history
  <1> QED
    BY <1>1, <1>2, <1>3, <1>4, <1>5 DEF Next

(* Two processes under instance locks work on different instances. *)
LEMMA Disjoint ==
  ASSUME RequestInv, NEW p \in Proc, NEW q \in Proc, p # q, Holds(p), Holds(q)
  PROVE  I(p) # I(q) /\ C(p) # C(q)
  <1>1. instLock[I(p)] = p /\ instLock[I(q)] = q
    BY DEF RequestInv, Progress
  <1>2. I(p) # I(q)
    BY <1>1
  <1> QED
    BY <1>2 DEF I, C

(* What the progress of a process depends on: its memory, the peers of the *)
(* instance it holds and its own entry in suspended.json.                  *)
LEMMA Frame ==
  ASSUME RequestInv, [Next]_vars, NEW q \in Proc,
         pc'[q] = pc[q], req'[q] = req[q], base'[q] = base[q], upd'[q] = upd[q],
         Holds(q) => /\ instLock'[I(q)] = instLock[I(q)]
                     /\ config'[I(q)].peers = config[I(q)].peers
                     /\ C(q) \in susp => C(q) \in susp'
  PROVE  Progress(q)'
  <1>1. Progress(q)
    BY DEF RequestInv
  <1>2. Holds(q)' = Holds(q) /\ I(q)' = I(q) /\ C(q)' = C(q) /\ Action(q)' = Action(q)
    BY DEF Holds, I, C, Action
  <1>3. CASE Holds(q)
    BY <1>1, <1>2, <1>3, HistoryGrows DEF Progress
  <1>4. CASE ~Holds(q)
    BY <1>1, <1>2, <1>4 DEF Progress, Holds, UnderLock
  <1> QED
    BY <1>3, <1>4

(* A step that leaves the journal and the requests at work as they are     *)
(* keeps the journal part of the invariant and what was issued and revoked.*)
LEMMA JournalFrame ==
  ASSUME RequestInv, UNCHANGED journal,
         \A q \in Proc : pc'[q] \in Working => pc[q] \in Working /\ req'[q] = req[q]
  PROVE  /\ \A q \in Proc : RequestJournaled(q)'
         /\ ExecutedOnce' /\ CreatedOnce'
         /\ \A c \in Conn : Issued(c)' = Issued(c) /\ RevokeSent(c)' = RevokeSent(c)
  <1>1. \A q \in Proc : RequestJournaled(q)'
    BY DEF RequestInv, RequestJournaled
  <1>2. ExecutedOnce'
    BY DEF RequestInv, ExecutedOnce
  <1>3. CreatedOnce'
    BY DEF RequestInv, CreatedOnce, Creates
  <1>4. \A c \in Conn : Issued(c)' = Issued(c) /\ RevokeSent(c)' = RevokeSent(c)
    BY DEF Issued, RevokeSent, Recorded
  <1> QED
    BY <1>1, <1>2, <1>3, <1>4

LEMMA PeerInvInit == Init => PeerInv
  <1> SUFFICES ASSUME Init PROVE RequestInv /\ PeerKept
    BY DEF PeerInv
  <1>1. \A p \in Proc : pc[p] = "idle"
    BY DEF Init
  <1>2. \A p \in Proc : RequestJournaled(p) /\ Progress(p)
    BY <1>1 DEF RequestJournaled, Progress, Holds, UnderLock, Working
  <1>3. ExecutedOnce
    BY <1>1 DEF ExecutedOnce, Working
  <1>4. \A k \in Id : journal[k] = NoRecord
    BY DEF Init
  <1>5. CreatedOnce
    BY <1>4 DEF CreatedOnce, Creates
  <1>6. PeerKept
    BY <1>4, HelperAssumption DEF PeerKept, Issued, Recorded, Held, Init
  <1> QED
    BY <1>2, <1>3, <1>5, <1>6, TypeInit DEF RequestInv

(* The parts of the type invariant a step of the argument needs. *)
LEMMA Shapes ==
  ASSUME RequestInv
  PROVE  /\ TypeOK /\ pc \in [Proc -> Steps] /\ base \in [Proc -> Content]
         /\ upd \in [Proc -> Content] /\ config \in [Inst -> Content]
         /\ instLock \in [Inst -> Proc \cup {None}] /\ susp \subseteq Conn
         /\ journal \in [Id -> Record \cup {NoRecord}]
         /\ req \in [Proc -> Request \cup {NoRequest}]
  BY DEF RequestInv, TypeOK

(* A step of p disturbs no other process: it takes no lock from it, changes*)
(* the configuration of the instance p holds only, and takes no peer but   *)
(* that of p's request out of suspended.json.                              *)
LEMMA Others ==
  ASSUME RequestInv, [Next]_vars, NEW p \in Proc,
         \A q \in Proc \ {p} : /\ pc'[q] = pc[q] /\ req'[q] = req[q]
                               /\ base'[q] = base[q] /\ upd'[q] = upd[q]
                               /\ Holds(q) => instLock'[I(q)] = instLock[I(q)],
         config' = config \/ (Holds(p) /\ \A i \in Inst \ {I(p)} : config'[i] = config[i]),
         susp \subseteq susp' \/ (Holds(p) /\ susp \ {C(p)} \subseteq susp')
  PROVE  \A q \in Proc \ {p} : Progress(q)'
  <1> SUFFICES ASSUME NEW q \in Proc, q # p PROVE Progress(q)'
    OBVIOUS
  <1>1. ASSUME Holds(q)
        PROVE  config'[I(q)] = config[I(q)] /\ (C(q) \in susp => C(q) \in susp')
    <2>1. I(q) \in Inst
      BY <1>1, RequestTypes, Shapes DEF Holds, UnderLock, Working, Steps
    <2>2. Holds(p) => I(p) # I(q) /\ C(p) # C(q)
      BY <1>1, Disjoint
    <2> QED
      BY <2>1, <2>2
  <1> QED
    BY <1>1, Frame

(* The conclusion of every step that neither loses a peer nor touches the  *)
(* journal.                                                                *)
LEMMA Preserved ==
  ASSUME RequestInv, NEW p \in Proc, [Next]_vars,
         UNCHANGED journal,
         \A q \in Proc : pc'[q] \in Working => pc[q] \in Working /\ req'[q] = req[q],
         \A q \in Proc : Progress(q)',
         \A c \in Conn :
           Issued(c) /\ ~RevokeSent(c) /\ c \notin stuck' /\ c \in Held(Home[c])
             => c \in Held(Home[c])'
  PROVE  Keeps
  <1>1. TypeOK'
    BY TypeStep, Shapes
  <1>2. PeerKept => PeerKept'
    BY JournalFrame, HistoryGrows DEF PeerKept
  <1> QED
    BY <1>1, <1>2, JournalFrame DEF RequestInv, Keeps

(* Steps that leave the configurations and suspended.json alone. *)
LEMMA PeerControl ==
  ASSUME RequestInv, NEW p \in Proc, [Next]_vars,
         TakePolicyLock(p) \/ LoadInstance(p) \/ TakeInstanceLock(p)
         \/ RejectEdit(p) \/ RejectApply(p) \/ RollbackFails(p) \/ WriteFails(p)
         \/ RewritePolicies(p) \/ UpdateRead(p) \/ UpdateWrite(p) \/ Project(p)
  PROVE  Keeps
  <1> USE Shapes
  <1>1. /\ UNCHANGED <<config, susp, journal, req, base, upd>>
        /\ pc[p] \in Working
        /\ \E s \in Steps : pc' = [pc EXCEPT ![p] = s]
    BY DEF TakePolicyLock, LoadInstance, TakeInstanceLock, RejectEdit, RejectApply,
           RollbackFails, WriteFails, RewritePolicies, UpdateRead, UpdateWrite,
           Project, Goto, Steps, Working, files, memory
  <1>2. \A q \in Proc \ {p} : Holds(q) => instLock'[I(q)] = instLock[I(q)]
    <2> SUFFICES ASSUME NEW q \in Proc, q # p, Holds(q)
                 PROVE  instLock'[I(q)] = instLock[I(q)]
      OBVIOUS
    <2>1. instLock[I(q)] = q
      BY DEF RequestInv, Progress
    <2>2. CASE TakeInstanceLock(p)
      BY <2>1, <2>2, HelperAssumption DEF TakeInstanceLock
    <2>3. CASE UpdateWrite(p)
      <3>1. pc[p] = "update-write" /\ Holds(p)
        BY <2>3 DEF UpdateWrite, Holds, UnderLock
      <3>2. I(p) # I(q)
        BY <3>1, Disjoint
      <3>3. instLock' = instLock \/ instLock' = [instLock EXCEPT ![I(p)] = None]
        BY <2>3 DEF UpdateWrite
      <3>4. I(q) \in Inst
        BY RequestTypes DEF Holds, UnderLock, Working, Steps
      <3> QED
        BY <3>2, <3>3, <3>4
    <2>4. CASE ~TakeInstanceLock(p) /\ ~UpdateWrite(p)
      BY <2>4 DEF TakePolicyLock, LoadInstance, RejectEdit, RejectApply,
           RollbackFails, WriteFails, RewritePolicies, UpdateRead, Project
    <2> QED
      BY <2>2, <2>3, <2>4
  <1>3. \A q \in Proc \ {p} : Progress(q)'
    BY <1>1, <1>2, Others
  <1>4. Progress(p)'
    <2> USE <1>1 DEF Progress, Holds, UnderLock, I, C, Action, Goto
    <2>0. Progress(p)
      BY DEF RequestInv
    <2>1. CASE TakePolicyLock(p)
      BY <2>0, <2>1 DEF TakePolicyLock
    <2>2. CASE LoadInstance(p)
      BY <2>0, <2>2 DEF LoadInstance
    <2>3. CASE TakeInstanceLock(p)
      BY <2>0, <2>3, RequestTypes DEF TakeInstanceLock
    <2>4. CASE RejectEdit(p) \/ WriteFails(p)
      BY <2>4 DEF RejectEdit, WriteFails
    <2>5. CASE RejectApply(p)
      BY <2>0, <2>5 DEF RejectApply
    <2>6. CASE RollbackFails(p)
      BY <2>0, <2>6 DEF RollbackFails
    <2>7. CASE RewritePolicies(p)
      BY <2>0, <2>7 DEF RewritePolicies
    <2>8. CASE UpdateRead(p)
      BY <2>0, <2>8 DEF UpdateRead
    <2>9. CASE UpdateWrite(p)
      BY <2>0, <2>9 DEF UpdateWrite
    <2>10. CASE Project(p)
      BY <2>0, <2>10 DEF Project
    <2> QED
      BY <2>1, <2>2, <2>3, <2>4, <2>5, <2>6, <2>7, <2>8, <2>9, <2>10
  <1>5. \A q \in Proc : pc'[q] \in Working => pc[q] \in Working /\ req'[q] = req[q]
    BY <1>1
  <1>6. \A c \in Conn : Held(Home[c])' = Held(Home[c])
    BY <1>1 DEF Held
  <1> QED
    BY <1>1, <1>3, <1>4, <1>5, <1>6, Preserved

(* Where the peer of a request at work stands with respect to the promise: *)
(* a peer that a create is still working on was not issued, and a peer that*)
(* a revoke is working on is excused.                                      *)
LEMMA AtWork ==
  ASSUME RequestInv, NEW p \in Proc, pc[p] \in Working
  PROVE  /\ Action(p) = "create" => ~Issued(C(p))
         /\ Action(p) = "revoke" => RevokeSent(C(p))
  <1>1. /\ journal[req[p].id] = [req |-> req[p], status |-> "started"]
        /\ req[p].id \in Id /\ C(p) \in Conn
    BY RequestTypes, Shapes DEF RequestInv, RequestJournaled
  <1>2. journal[req[p].id] # NoRecord
    BY <1>1 DEF NoRecord
  <1>3. ASSUME Action(p) = "create"
        PROVE  ~Issued(C(p))
    <2>1. Creates(req[p].id, C(p))
      BY <1>1, <1>2, <1>3 DEF Creates, Action, C
    <2>2. C(p) \notin Imported /\ \A m \in Id : Creates(m, C(p)) => m = req[p].id
      BY <1>1, <2>1 DEF RequestInv, CreatedOnce
    <2>3. \A m \in Id : Creates(m, C(p)) => journal[m].status # "succeeded"
      BY <1>1, <2>2
    <2> QED
      BY <2>2, <2>3 DEF Issued, Recorded, Creates
  <1>4. ASSUME Action(p) = "revoke"
        PROVE  RevokeSent(C(p))
    BY <1>1, <1>2, <1>4 DEF RevokeSent, Recorded, Action, C
  <1> QED
    BY <1>3, <1>4

(* Steps under the instance lock that change what the file or               *)
(* suspended.json holds.                                                   *)
LEMMA PeerFiles ==
  ASSUME RequestInv, NEW p \in Proc, [Next]_vars,
         ReadConfig(p) \/ SaveSuspended(p) \/ Replace(p) \/ Sync(p)
         \/ RestoreFile(p) \/ Resync(p) \/ Undo(p) \/ CleanSuspended(p)
  PROVE  Keeps
  <1> USE Shapes
  <1>1. /\ UNCHANGED <<journal, req, instLock>>
        /\ Holds(p) /\ pc[p] \in Working
        /\ \A q \in Proc \ {p} : pc'[q] = pc[q] /\ base'[q] = base[q] /\ upd'[q] = upd[q]
    BY DEF ReadConfig, SaveSuspended, Replace, Sync, RestoreFile, Resync, Undo,
           CleanSuspended, Goto, Holds, UnderLock, Working, Steps, files, memory
  <1>2. /\ I(p) \in Inst /\ C(p) \in Conn /\ I(p) = Home[C(p)]
        /\ Action(p) \in {"create", "disable", "enable", "revoke"}
    BY <1>1, RequestTypes DEF I, C, Actions, RequestInv, Progress
  <1>3. /\ config' = config \/ \A i \in Inst \ {I(p)} : config'[i] = config[i]
        /\ susp \ {C(p)} \subseteq susp'
    BY <1>2 DEF ReadConfig, SaveSuspended, Replace, Sync, RestoreFile, Resync, Undo, CleanSuspended
  <1>4. \A q \in Proc \ {p} : Progress(q)'
    BY <1>1, <1>3, Others
  <1>5. Progress(p)
    BY DEF RequestInv
  <1>6. Progress(p)'
    <2> USE <1>1, <1>2, <1>5 DEF Progress, Holds, UnderLock, Goto
    <2>0. I(p)' = I(p) /\ C(p)' = C(p) /\ Action(p)' = Action(p)
      BY DEF I, C, Action
    <2> USE <2>0
    <2>1. CASE ReadConfig(p)
      <3>1. base'[p] = config[I(p)] /\ config' = config /\ susp' = susp
        BY <2>1 DEF ReadConfig
      <3>2. CASE Action(p) = "revoke" /\ C(p) \notin config[I(p)].peers
        BY <2>1, <3>1, <3>2 DEF ReadConfig
      <3>3. CASE ~(Action(p) = "revoke" /\ C(p) \notin config[I(p)].peers)
        <4>1. upd'[p].peers = IF Action(p) \in {"create", "enable"}
                               THEN config[I(p)].peers \cup {C(p)} ELSE config[I(p)].peers \ {C(p)}
          <5>1. PICK u \in Edited(p) : upd' = [upd EXCEPT ![p] = u]
            BY <2>1, <3>3 DEF ReadConfig
          <5>2. u.peers = IF Action(p) \in {"create", "enable"}
                           THEN config[I(p)].peers \cup {C(p)} ELSE config[I(p)].peers \ {C(p)}
            BY ONLY <5>1, u \in Edited(p) DEF Edited
          <5> QED
            BY <5>1, <5>2
        <4>2. pc'[p] = IF Action(p) = "disable" THEN "save-suspended" ELSE "mv"
          BY <2>1, <3>3 DEF ReadConfig
        <4>3. /\ Action(p) = "disable" => C(p) \in config[I(p)].peers
              /\ Action(p) = "enable" => C(p) \in susp
          BY <2>1 DEF ReadConfig, Editable
        <4> QED
          BY <3>1, <4>1, <4>2, <4>3
      <3> QED
        BY <3>2, <3>3
    <2>2. CASE SaveSuspended(p)
      BY <2>2 DEF SaveSuspended, memory
    <2>3. CASE Replace(p)
      BY <2>3 DEF Replace, memory
    <2>4. CASE Sync(p)
      <3>1. /\ pc[p] = "sync" /\ UNCHANGED <<config, susp, base, upd>>
            /\ pc' = [pc EXCEPT ![p] = AfterApply(p)] \/ pc' = [pc EXCEPT ![p] = "rollback"]
        BY <2>4 DEF Sync, memory
      <3>2. CASE pc' = [pc EXCEPT ![p] = "rollback"]
        BY <3>1, <3>2
      <3>3. CASE pc' = [pc EXCEPT ![p] = AfterApply(p)]
        BY <3>1, <3>3 DEF AfterApply
      <3> QED
        BY <3>1, <3>2, <3>3
    <2>5. CASE RestoreFile(p)
      BY <2>5 DEF RestoreFile, memory
    <2>6. CASE Resync(p)
      BY <2>6 DEF Resync, memory
    <2>7. CASE Undo(p)
      BY <2>7 DEF Undo, memory
    <2>8. CASE CleanSuspended(p)
      BY <2>8 DEF CleanSuspended, memory
    <2> QED
      BY <2>1, <2>2, <2>3, <2>4, <2>5, <2>6, <2>7, <2>8
  <1>7. ASSUME NEW c \in Conn, Issued(c), ~RevokeSent(c), c \notin stuck', c \in Held(Home[c])
        PROVE  c \in Held(Home[c])'
    <2>1. Home[c] \in Inst /\ (c # C(p) \/ (Action(p) # "create" /\ Action(p) # "revoke"))
      BY <1>1, <1>7, AtWork, HelperAssumption
    <2>2. c \in config[Home[c]].peers \cup susp
      BY <1>7 DEF Held
    <2>3. c \in config'[Home[c]].peers \cup susp'
      <3>1. CASE ReadConfig(p) \/ SaveSuspended(p) \/ Sync(p) \/ Resync(p)
        BY <2>2, <3>1 DEF ReadConfig, SaveSuspended, Sync, Resync
      <3>2. CASE Replace(p)
        <4>1. /\ config'[I(p)] = upd[p] /\ susp' = susp
              /\ \A i \in Inst \ {I(p)} : config'[i] = config[i]
          BY <1>2, <3>2 DEF Replace
        <4>2. /\ upd[p].peers = IF Action(p) \in {"create", "enable"}
                                THEN config[I(p)].peers \cup {C(p)}
                                ELSE config[I(p)].peers \ {C(p)}
              /\ Action(p) \in {"disable", "enable"} => C(p) \in susp
          BY <1>5, <3>2 DEF Replace, Progress
        <4> QED
          BY <1>2, <2>1, <2>2, <4>1, <4>2
      <3>3. CASE RestoreFile(p)
        BY <1>2, <1>3, <1>5, <2>1, <2>2, <3>3 DEF RestoreFile, Progress
      <3>4. CASE Undo(p)
        <4>1. config' = config /\ susp \ {C(p)} \subseteq susp'
          BY <1>3, <3>4 DEF Undo
        <4>2. Action(p) = "disable" /\ c = C(p) => C(p) \in config[I(p)].peers
          BY <1>5, <1>7, <3>4, HistoryGrows DEF Undo, Progress
        <4>3. Action(p) # "disable" => susp' = susp
          BY <3>4 DEF Undo
        <4> QED
          BY <1>2, <2>2, <4>1, <4>2, <4>3
      <3>5. CASE CleanSuspended(p)
        BY <1>2, <1>3, <1>5, <2>1, <2>2, <3>5 DEF CleanSuspended, Progress
      <3> QED
        BY <3>1, <3>2, <3>3, <3>4, <3>5
    <2> QED
      BY <1>7, <2>3 DEF Held
  <1>8. \A q \in Proc : pc'[q] \in Working => pc[q] \in Working /\ req'[q] = req[q]
    BY <1>1
  <1> QED
    BY <1>1, <1>4, <1>6, <1>7, <1>8, Preserved

(* A request begins: an RPC, or a disable of Enforce. *)
LEMMA Began ==
  ASSUME RequestInv, [Next]_vars, NEW p \in Proc, NEW r \in Request,
         pc[p] \notin Working, journal[r.id] = NoRecord,
         journal' = [journal EXCEPT ![r.id] = [req |-> r, status |-> "started"]],
         req' = [req EXCEPT ![p] = r], Goto(p, "begun"),
         UNCHANGED <<config, susp, instLock, base, upd>>,
         r.action = "create" => NeverCreated(r.conn)
  PROVE  Keeps
  <1> USE Shapes
  <1>1. r.id \in Id /\ r.conn \in Conn /\ pc'[p] = "begun" /\ "begun" \in Working
    BY DEF Request, Goto, Working, Steps, Id, Actions
  <1>2. \A q \in Proc : Progress(q)'
    <2>1. \A q \in Proc \ {p} : pc'[q] = pc[q] /\ req'[q] = req[q]
      BY DEF Goto
    <2>2. \A q \in Proc \ {p} : Progress(q)'
      BY <2>1, Others
    <2>3. Progress(p)'
      BY <1>1 DEF Progress, Holds, UnderLock
    <2> QED
      BY <2>2, <2>3
  <1>3. \A k \in Id \ {r.id} : journal'[k] = journal[k]
    OBVIOUS
  <1>4. journal'[r.id] = [req |-> r, status |-> "started"] /\ journal'[r.id] # NoRecord
    BY <1>1 DEF NoRecord
  <1>5. \A q \in Proc : pc[q] \in Working =>
          req[q].id \in Id /\ journal[req[q].id] # NoRecord /\ req[q].id # r.id
    <2> SUFFICES ASSUME NEW q \in Proc, pc[q] \in Working
                 PROVE  req[q].id \in Id /\ journal[req[q].id] # NoRecord
      OBVIOUS
    <2>1. /\ req[q].id \in Id
          /\ journal[req[q].id] = [req |-> req[q], status |-> "started"]
      BY RequestTypes DEF RequestInv, RequestJournaled
    <2> QED
      BY <2>1 DEF NoRecord
  <1>6. /\ \A q \in Proc : RequestJournaled(q)'
        /\ ExecutedOnce'
    <2>1. \A q \in Proc \ {p} : pc'[q] = pc[q] /\ req'[q] = req[q]
      BY DEF Goto
    <2>2. req'[p] = r
      OBVIOUS
    <2>3. ASSUME NEW q \in Proc \ {p}
          PROVE  RequestJournaled(q)'
      <3>1. RequestJournaled(q) /\ pc'[q] = pc[q] /\ req'[q] = req[q]
        BY <2>1 DEF RequestInv
      <3>2. pc[q] \in Working => journal'[req[q].id] = journal[req[q].id]
        BY <1>3, <1>5
      <3> QED
        BY <3>1, <3>2 DEF RequestJournaled
    <2>4. RequestJournaled(p)'
      BY <1>4, <2>2 DEF RequestJournaled
    <2>5. ExecutedOnce'
      BY <1>5, <2>1, <2>2 DEF RequestInv, ExecutedOnce
    <2> QED
      BY <2>3, <2>4, <2>5
  <1>7. CreatedOnce'
    <2>1. \A k \in Id, c \in Conn :
            Creates(k, c)' => Creates(k, c) \/ (k = r.id /\ r.action = "create" /\ r.conn = c)
      BY <1>3, <1>4 DEF Creates
    <2>2. r.action = "create" =>
            r.conn \notin Imported /\ \A k \in Id : ~Creates(k, r.conn)
      BY DEF NeverCreated, Creates
    <2> QED
      BY <2>1, <2>2 DEF RequestInv, CreatedOnce
  <1>8. PeerKept => PeerKept'
    <2>1. \A c \in Conn : Issued(c)' => Issued(c)
      BY <1>3, <1>4 DEF Issued, Recorded
    <2>2. \A c \in Conn : RevokeSent(c) => RevokeSent(c)'
      BY <1>3 DEF RevokeSent, Recorded
    <2> QED
      BY <2>1, <2>2, HistoryGrows DEF PeerKept, Held
  <1> QED
    BY <1>2, <1>6, <1>7, <1>8, TypeStep DEF RequestInv, Keeps

(* A request ends, with a result in the journal unless that cannot be written. *)
LEMMA Concluded ==
  ASSUME RequestInv, [Next]_vars, NEW p \in Proc, NEW s \in {"started", "succeeded", "failed"},
         pc[p] = IF s = "succeeded" THEN "record" ELSE "fail", Conclude(p, s)
  PROVE  Keeps
  <1> USE Shapes
  <1>1. /\ pc[p] \in Working /\ req[p].id \in Id /\ C(p) \in Conn /\ I(p) = Home[C(p)]
        /\ journal[req[p].id] = [req |-> req[p], status |-> "started"]
        /\ UNCHANGED <<config, susp>>
    BY RequestTypes DEF Working, Steps, RequestInv, RequestJournaled, I, C, Conclude, files
  <1>2. /\ \A k \in Id \ {req[p].id} : journal'[k] = journal[k]
        /\ journal'[req[p].id] = [req |-> req[p], status |-> s]
    BY <1>1 DEF Conclude
  <1>3. /\ \A q \in Proc \ {p} : /\ pc'[q] = pc[q] /\ req'[q] = req[q]
                                 /\ base'[q] = base[q] /\ upd'[q] = upd[q]
        /\ pc'[p] \in {"idle", "loop"}
    BY DEF Conclude, Goto
  <1>4. \A q \in Proc : Progress(q)'
    <2>1. ASSUME NEW q \in Proc \ {p}, Holds(q)
          PROVE  instLock'[I(q)] = instLock[I(q)]
      <3>1. instLock[I(q)] = q /\ I(q) \in Inst
        BY <2>1, RequestTypes DEF RequestInv, Progress, Holds, UnderLock, Working, Steps
      <3> QED
        BY <3>1 DEF Conclude, Unlocked
    <2>2. \A q \in Proc \ {p} : Progress(q)'
      BY <1>1, <1>3, <2>1, Others
    <2>3. Progress(p)'
      BY <1>3 DEF Progress, Holds, UnderLock
    <2> QED
      BY <2>2, <2>3
  <1>5. /\ \A q \in Proc : RequestJournaled(q)'
        /\ ExecutedOnce'
    <2>1. pc'[p] \notin Working
      BY <1>3 DEF Working
    <2>2. \A q \in Proc \ {p} : pc[q] \in Working => req[q].id # req[p].id /\ req[q].id \in Id
      BY <1>1, RequestTypes DEF RequestInv, ExecutedOnce
    <2>3. ASSUME NEW q \in Proc \ {p}
          PROVE  RequestJournaled(q)'
      <3>1. RequestJournaled(q) /\ pc'[q] = pc[q] /\ req'[q] = req[q]
        BY <1>3 DEF RequestInv
      <3>2. pc[q] \in Working => journal'[req[q].id] = journal[req[q].id]
        BY <1>2, <2>2
      <3> QED
        BY <3>1, <3>2 DEF RequestJournaled
    <2>4. ExecutedOnce'
      BY <1>3, <2>1 DEF RequestInv, ExecutedOnce
    <2> QED
      BY <2>1, <2>3, <2>4 DEF RequestJournaled
  <1>6. \A k \in Id, c \in Conn : Creates(k, c)' = Creates(k, c)
    BY <1>1, <1>2 DEF Creates, NoRecord
  <1>7. CreatedOnce'
    BY <1>6 DEF RequestInv, CreatedOnce
  <1>8. PeerKept => PeerKept'
    <2> SUFFICES ASSUME PeerKept, NEW c \in Conn, Issued(c)', ~RevokeSent(c)',
                        c \notin stuck \cup touched
                 PROVE  c \in Held(Home[c])'
      BY HistoryGrows DEF PeerKept
    <2>1. ~RevokeSent(c)
      <3>1. journal'[req[p].id] # NoRecord
        BY <1>2 DEF NoRecord
      <3>2. \A k \in Id : journal[k] # NoRecord =>
              /\ journal'[k] # NoRecord /\ journal'[k].req = journal[k].req
              /\ journal'[k].status \in {s, journal[k].status}
        BY <1>1, <1>2, <3>1
      <3> QED
        BY <3>2 DEF RevokeSent, Recorded
    <2>2. Issued(c) \/ (s = "succeeded" /\ Action(p) = "create" /\ c = C(p))
      BY <1>2 DEF Issued, Recorded, Action, C
    <2>3. CASE Issued(c)
      BY <1>1, <2>1, <2>3 DEF PeerKept, Held
    <2>4. CASE s = "succeeded" /\ Action(p) = "create" /\ c = C(p)
      <3>1. c \in config[Home[c]].peers
        BY <1>1, <2>4 DEF RequestInv, Progress
      <3> QED
        BY <1>1, <3>1 DEF Held
    <2> QED
      BY <2>2, <2>3, <2>4
  <1> QED
    BY <1>4, <1>5, <1>7, <1>8, TypeStep DEF RequestInv, Keeps

(* Enforce before and after its requests, discovery, a kill, and what      *)
(* happens outside Helper.                                                 *)
LEMMA PeerEnvironment ==
  ASSUME RequestInv, [Next]_vars, ~EditsRace,
         \/ \E p \in Proc : StartEnforce(p) \/ EnforceSave(p) \/ Discover(p) \/ Crash(p)
         \/ \E p \in Proc, c \in Conn, r \in Reasons :
              EnforceDue(p, c, r) /\ EnforceReplay(p, c, r)
         \/ \E i \in Inst : ExternalEdit(i) \/ ContainerRestart(i)
         \/ Tick \/ UNCHANGED vars
  PROVE  Keeps
  <1> USE Shapes
  <1>1. ASSUME UNCHANGED <<susp, journal>>,
               \A i \in Inst : config'[i].peers = config[i].peers,
               \A q \in Proc :
                 \/ pc'[q] \in {"idle", "loop", "discover"}
                 \/ /\ pc'[q] = pc[q] /\ req'[q] = req[q]
                    /\ base'[q] = base[q] /\ upd'[q] = upd[q]
                    /\ Holds(q) => instLock'[I(q)] = instLock[I(q)]
        PROVE  Keeps
    <2>1. ASSUME NEW q \in Proc
          PROVE  Progress(q)'
      <3>1. CASE pc'[q] \in {"idle", "loop", "discover"}
        BY <3>1 DEF Progress, Holds, UnderLock
      <3>2. CASE pc'[q] \notin {"idle", "loop", "discover"}
        <4>1. Holds(q) => I(q) \in Inst
          BY RequestTypes DEF Holds, UnderLock, Working, Steps
        <4> QED
          BY <1>1, <3>2, <4>1, Frame
      <3> QED
        BY <3>1, <3>2
    <2>2. \A q \in Proc : pc'[q] \in Working => pc[q] \in Working /\ req'[q] = req[q]
      BY <1>1 DEF Working
    <2>3. \A c \in Conn : Held(Home[c])' = Held(Home[c])
      BY <1>1, HelperAssumption DEF Held
    <2>4. \A c \in Conn : Issued(c)' = Issued(c) /\ RevokeSent(c)' = RevokeSent(c)
      BY <1>1, <2>2, JournalFrame
    <2>5. PeerKept => PeerKept'
      BY <2>3, <2>4, HistoryGrows DEF PeerKept
    <2> QED
      BY <1>1, <2>1, <2>2, <2>5, JournalFrame, TypeStep DEF RequestInv, Keeps
  <1>2. ASSUME NEW p \in Proc,
               StartEnforce(p) \/ EnforceSave(p) \/ DiscoverRead(p) \/ DiscoverSave(p)
        PROVE  Keeps
    BY <1>1, <1>2 DEF StartEnforce, EnforceSave, DiscoverRead, DiscoverSave, Goto, files
  <1>3. ASSUME NEW p \in Proc, Crash(p)
        PROVE  Keeps
    <2>1. /\ UNCHANGED <<susp, journal, config>> /\ pc'[p] = "idle"
          /\ \A q \in Proc \ {p} : /\ pc'[q] = pc[q] /\ req'[q] = req[q]
                                   /\ base'[q] = base[q] /\ upd'[q] = upd[q]
      BY <1>3 DEF Crash, Goto, files
    <2>2. ASSUME NEW q \in Proc \ {p}, Holds(q)
          PROVE  instLock'[I(q)] = instLock[I(q)]
      <3>1. instLock[I(q)] = q /\ I(q) \in Inst
        BY <2>2, RequestTypes DEF RequestInv, Progress, Holds, UnderLock, Working, Steps
      <3> QED
        BY <1>3, <3>1 DEF Crash, Unlocked
    <2> QED
      BY <1>1, <2>1, <2>2
  <1>4. ASSUME NEW p \in Proc, NEW c \in Conn, NEW r \in Reasons,
               EnforceDue(p, c, r), EnforceReplay(p, c, r)
        PROVE  Keeps
    BY <1>1, <1>4 DEF EnforceDue, EnforceReplay, files
  <1>5. ASSUME NEW i \in Inst, ExternalEdit(i)
        PROVE  Keeps
    <2>1. /\ UNCHANGED <<susp, journal, instLock, pc, req, base, upd>>
          /\ instLock[i] = None
          /\ \A j \in Inst \ {i} : config'[j] = config[j]
          /\ \A c \in config[i].peers : c \in config'[i].peers \/ c \in touched'
      BY <1>5 DEF ExternalEdit, memory
    <2>2. ASSUME NEW q \in Proc
          PROVE  Progress(q)'
      <3>1. ASSUME Holds(q)
            PROVE  config'[I(q)] = config[I(q)]
        <4>1. instLock[I(q)] = q /\ I(q) \in Inst
          BY <3>1, RequestTypes DEF RequestInv, Progress, Holds, UnderLock, Working, Steps
        <4> QED
          BY <2>1, <4>1, HelperAssumption
      <3> QED
        BY <2>1, <3>1, Frame
    <2>3. ASSUME PeerKept, NEW c \in Conn, Issued(c), ~RevokeSent(c),
                 c \notin stuck' \cup touched'
          PROVE  c \in Held(Home[c])'
      <3>1. c \in Held(Home[c])
        BY <2>3, HistoryGrows DEF PeerKept
      <3>2. Home[c] \in Inst
        BY HelperAssumption
      <3> QED
        BY <2>1, <2>3, <3>1, <3>2 DEF Held
    <2>4. PeerKept => PeerKept'
      BY <2>1, <2>3, JournalFrame DEF PeerKept
    <2> QED
      BY <2>1, <2>2, <2>4, JournalFrame, TypeStep DEF RequestInv, Keeps
  <1>6. ASSUME NEW i \in Inst, ContainerRestart(i)
        PROVE  Keeps
    BY <1>1, <1>6 DEF ContainerRestart, memory
  <1>7. CASE Tick \/ UNCHANGED vars
    BY <1>1, <1>7 DEF Tick, vars, files, memory
  <1> QED
    BY <1>2, <1>3, <1>4, <1>5, <1>6, <1>7 DEF Discover

LEMMA PeerStep ==
  ASSUME RequestInv, [Next]_vars, ~EditsRace
  PROVE  Keeps
  <1>1. ASSUME NEW p \in Proc, Call(p)
        PROVE  Keeps
    <2>1. PICK k \in OpId, a \in Rpc, c \in Conn :
            /\ a = "create" => NeverCreated(c)
            /\ \E f \in {config[Home[c]], stored[Home[c]]} :
                 Begin(p, [id |-> k, action |-> a, conn |-> c, fp |-> f])
      BY <1>1 DEF Call
    <2>2. PICK f \in {config[Home[c]], stored[Home[c]]} :
            Begin(p, [id |-> k, action |-> a, conn |-> c, fp |-> f])
      BY <2>1
    <2> DEFINE r == [id |-> k, action |-> a, conn |-> c, fp |-> f]
    <2>3. r \in Request
      BY HelperAssumption, Shapes DEF TypeOK, Request, Id
    <2>4. r.action = "create" => NeverCreated(r.conn)
      BY <2>1
    <2>5. Begin(p, r)
      BY <2>2
    <2> HIDE DEF r
    <2> QED
      BY <2>3, <2>4, <2>5, Began DEF Begin, files, memory, Working
  <1>2. ASSUME NEW p \in Proc, Mutation(p)
        PROVE  Keeps
    <2>1. CASE RecordSucceeded(p)
      BY <2>1, Concluded DEF RecordSucceeded
    <2>2. CASE RecordFailed(p)
      BY <2>2, Concluded DEF RecordFailed
    <2> QED
      BY <1>2, <2>1, <2>2, PeerControl, PeerFiles DEF Mutation
  <1>3. ASSUME NEW p \in Proc, NEW c \in Conn, NEW r \in Reasons, EnforceDue(p, c, r)
        PROVE  Keeps
    <2>1. CASE EnforceDisable(p, c, r)
      <3>1. EnforceRequest(c) \in Request /\ EnforceRequest(c).id = <<c, minute>>
        BY <1>3, HelperAssumption, Shapes
           DEF EnforceDue, EnforceRequest, Request, TypeOK, Id, EnforceId, Actions
      <3>2. EnforceRequest(c).action # "create"
        BY DEF EnforceRequest
      <3> QED
        BY <1>3, <2>1, <3>1, <3>2, Began DEF EnforceDue, EnforceDisable, files, Working
    <2>2. CASE EnforceReplay(p, c, r)
      BY <1>3, <2>2, PeerEnvironment
    <2> QED
      BY <1>3, <2>1, <2>2 DEF EnforceDue
  <1> QED
    BY <1>1, <1>2, <1>3, PeerEnvironment DEF Next, Enforce

(* Every request at work is journaled under its own id, and at each of its *)
(* steps holds the locks and finds the files as that step needs them,      *)
(* whatever requests run side by side, fail or are killed.                 *)
LEMMA RequestInvHolds ==
  ASSUME ~EditsRace
  PROVE  Spec => []RequestInv
  <1>1. Init => RequestInv
    BY PeerInvInit DEF PeerInv
  <1>2. RequestInv /\ [Next]_vars => RequestInv'
    BY PeerStep DEF Keeps
  <1> QED
    BY <1>1, <1>2, PTL DEF Spec

(* A request at work also finds its peer where no failure can lose it, but *)
(* for the one that an Apply's misreported mv or failed rollback leaves.   *)
THEOREM PeerInvHolds ==
  ASSUME ~EditsRace
  PROVE  Spec => []PeerInv
  <1>1. PeerInv /\ [Next]_vars => PeerInv'
    BY PeerStep DEF Keeps, PeerInv
  <1> QED
    BY <1>1, PeerInvInit, PTL DEF Spec

(* A peer that was issued or imported and that nobody asked to revoke is   *)
(* in the configuration or in suspended.json, whatever requests run side   *)
(* by side, fail or are killed: an outside edit apart, an Apply of this    *)
(* very peer that reports an error and leaves its file is the one step by  *)
(* which the code can lose it.                                             *)
THEOREM PeersAreKept ==
  ASSUME ~EditsRace
  PROVE  Spec => []PeerKept
  <1>1. PeerInv => PeerKept
    BY DEF PeerInv
  <1> QED
    BY <1>1, PeerInvHolds, PTL

(* Where no Apply ends so and no edit touches a peer, none is removed      *)
(* silently.                                                               *)
THEOREM NothingRemovedSilently ==
  ASSUME ~EditsRace
  PROVE  Spec => [](stuck \cup touched = {} => NoSilentRemoval)
  <1>1. PeerKept => (stuck \cup touched = {} => NoSilentRemoval)
    BY DEF PeerKept, NoSilentRemoval
  <1> QED
    BY <1>1, PeersAreKept, PTL
=============================================================================
