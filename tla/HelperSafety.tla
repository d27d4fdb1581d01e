---------------------------- MODULE HelperSafety ----------------------------
(***************************************************************************)
(* More theorems about Helper: its journal and its instance locks, then    *)
(* revocations and suspensions, addresses, the interface, what Enforce     *)
(* reports, and the fingerprints.                                          *)
(***************************************************************************)
EXTENDS HelperProofs

-----------------------------------------------------------------------------
(* What a step does to the journal: a request begins, a request ends, or   *)
(* the journal and the requests at work stay as they are.                  *)

Begins(p, r) ==
  /\ pc[p] \notin Working /\ pc' = [pc EXCEPT ![p] = "begun"]
  /\ req' = [req EXCEPT ![p] = r]
  /\ journal[r.id] = NoRecord
  /\ journal' = [journal EXCEPT ![r.id] = [req |-> r, status |-> "started"]]
  /\ r.action = "create" => NeverCreated(r.conn)
  /\ UNCHANGED <<files, policyLock, instLock, base, upd>>

Ends(p, s) ==
  /\ pc[p] = IF s = "succeeded" THEN "record" ELSE "fail"
  /\ Conclude(p, s)

Quiet ==
  /\ UNCHANGED journal
  /\ \A p \in Proc : pc'[p] \in Working => pc[p] \in Working /\ req'[p] = req[p]

LEMMA StepKinds ==
  ASSUME RequestInv, [Next]_vars
  PROVE  \/ Quiet
         \/ \E p \in Proc, r \in Request : Begins(p, r)
         \/ \E p \in Proc, s \in {"started", "succeeded", "failed"} : Ends(p, s)
  <1> USE Shapes
  <1>1. ASSUME NEW p \in Proc, Call(p)
        PROVE  \E r \in Request : Begins(p, r)
    <2>1. PICK k \in OpId, a \in Rpc, c \in Conn :
            /\ a = "create" => NeverCreated(c)
            /\ \E f \in {config[Home[c]], stored[Home[c]]} :
                 Begin(p, [id |-> k, action |-> a, conn |-> c, fp |-> f])
      BY <1>1 DEF Call
    <2>2. PICK f \in {config[Home[c]], stored[Home[c]]} :
            Begin(p, [id |-> k, action |-> a, conn |-> c, fp |-> f])
      BY <2>1
    <2> DEFINE r == [id |-> k, action |-> a, conn |-> c, fp |-> f]
    <2>3. r \in Request
      BY HelperAssumption DEF TypeOK, Request, Id
    <2>4. r.action = "create" => NeverCreated(r.conn)
      BY <2>1
    <2>5. Begin(p, r)
      BY <2>2
    <2> HIDE DEF r
    <2>6. Begins(p, r)
      BY <2>4, <2>5 DEF Begin, Begins, Goto, memory, Working
    <2> QED
      BY <2>3, <2>6
  <1>2. ASSUME NEW p \in Proc, Mutation(p)
        PROVE  Quiet \/ \E s \in {"started", "succeeded", "failed"} : Ends(p, s)
    <2>1. CASE RecordSucceeded(p) \/ RecordFailed(p)
      BY <2>1 DEF RecordSucceeded, RecordFailed, Ends
    <2>2. CASE ~(RecordSucceeded(p) \/ RecordFailed(p))
      <3>1. UNCHANGED <<journal, req>> /\ pc[p] \in Working
        BY <1>2, <2>2
           DEF Mutation, TakePolicyLock, LoadInstance, TakeInstanceLock, RejectEdit,
               ReadConfig, SaveSuspended, RejectApply, Replace, Sync, RestoreFile, Resync,
               RollbackFails, Undo, CleanSuspended, RewritePolicies, UpdateRead,
               UpdateWrite, WriteFails, Project, Working, Steps, files, memory
      <3>2. \A q \in Proc \ {p} : pc'[q] = pc[q]
        BY <1>2, <2>2
           DEF Mutation, TakePolicyLock, LoadInstance, TakeInstanceLock, RejectEdit,
               ReadConfig, SaveSuspended, RejectApply, Replace, Sync, RestoreFile, Resync,
               RollbackFails, Undo, CleanSuspended, RewritePolicies, UpdateRead,
               UpdateWrite, WriteFails, Project, Goto
      <3> QED
        BY <3>1, <3>2 DEF Quiet
    <2> QED
      BY <2>1, <2>2
  <1>3. ASSUME NEW p \in Proc, NEW c \in Conn, NEW r \in Reasons, EnforceDue(p, c, r)
        PROVE  Quiet \/ \E x \in Request : Begins(p, x)
    <2>1. CASE EnforceDisable(p, c, r)
      <3>1. EnforceRequest(c) \in Request /\ EnforceRequest(c).id = <<c, minute>>
        BY <1>3, HelperAssumption
           DEF EnforceDue, EnforceRequest, Request, TypeOK, Id, EnforceId, Actions
      <3>2. EnforceRequest(c).action # "create"
        BY DEF EnforceRequest
      <3>3. Begins(p, EnforceRequest(c))
        BY <1>3, <2>1, <3>1, <3>2 DEF EnforceDue, EnforceDisable, Begins, Goto, Working
      <3> QED
        BY <3>1, <3>3
    <2>2. CASE EnforceReplay(p, c, r)
      BY <1>3, <2>2 DEF EnforceDue, EnforceReplay, Quiet
    <2> QED
      BY <1>3, <2>1, <2>2 DEF EnforceDue
  <1>4. ASSUME NEW p \in Proc, StartEnforce(p) \/ EnforceSave(p) \/ Discover(p)
        PROVE  Quiet
    BY <1>4 DEF StartEnforce, EnforceSave, Discover, DiscoverRead, DiscoverSave, Goto,
                Quiet, Working
  <1>5. ASSUME NEW p \in Proc, Crash(p)
        PROVE  Quiet
    BY <1>5 DEF Crash, Goto, Quiet, Working
  <1>6. CASE Tick \/ UNCHANGED vars \/ \E i \in Inst : ExternalEdit(i) \/ ContainerRestart(i)
    BY <1>6 DEF Tick, ExternalEdit, ContainerRestart, vars, Quiet
  <1> QED
    BY <1>1, <1>2, <1>3, <1>4, <1>5, <1>6 DEF Next, Enforce

(* A record stays, with its request, and a result stays the result.        *)
LEMMA JournalGrows ==
  ASSUME RequestInv, [Next]_vars, NEW k \in Id, journal[k] # NoRecord
  PROVE  /\ journal'[k] # NoRecord /\ journal'[k].req = journal[k].req
         /\ journal[k].status \in {"started", "succeeded", "failed"}
         /\ journal[k].status # "started" => journal'[k] = journal[k]
  <1> USE Shapes
  <1>1. journal[k].status \in {"started", "succeeded", "failed"}
    BY DEF Record
  <1>2. CASE Quiet
    BY <1>1, <1>2 DEF Quiet
  <1>3. ASSUME NEW p \in Proc, NEW r \in Request, Begins(p, r)
        PROVE  journal'[k] = journal[k]
    BY <1>3 DEF Begins
  <1>4. ASSUME NEW p \in Proc, NEW s \in {"started", "succeeded", "failed"}, Ends(p, s)
        PROVE  \/ journal'[k] = journal[k]
               \/ /\ journal[k] = [req |-> req[p], status |-> "started"]
                  /\ journal'[k] = [req |-> req[p], status |-> s]
    BY <1>4 DEF Ends, Conclude, RequestInv, RequestJournaled, Working, Steps
  <1>5. ASSUME NEW p \in Proc, NEW s \in {"started", "succeeded", "failed"},
               journal[k] = [req |-> req[p], status |-> "started"],
               journal'[k] = [req |-> req[p], status |-> s]
        PROVE  /\ journal'[k] # NoRecord /\ journal'[k].req = journal[k].req
               /\ journal[k].status = "started"
    BY <1>5 DEF NoRecord
  <1>6. CASE journal'[k] = journal[k]
    BY <1>1, <1>6
  <1>7. ASSUME NEW p \in Proc, NEW s \in {"started", "succeeded", "failed"}, Ends(p, s)
        PROVE  /\ journal'[k] # NoRecord /\ journal'[k].req = journal[k].req
               /\ journal[k].status # "started" => journal'[k] = journal[k]
    <2>1. CASE journal'[k] = journal[k]
      BY <1>6, <2>1
    <2>2. CASE /\ journal[k] = [req |-> req[p], status |-> "started"]
               /\ journal'[k] = [req |-> req[p], status |-> s]
      BY <1>5, <2>2
    <2> QED
      BY <1>4, <1>7, <2>1, <2>2
  <1> QED
    BY <1>1, <1>2, <1>3, <1>6, <1>7, StepKinds

(* A result that is in the journal stays the result, for any number of     *)
(* processes, operations and kills.                                        *)
THEOREM ResultStaysHolds ==
  ASSUME ~EditsRace
  PROVE  Spec => ResultStays
  <1>1. RequestInv /\ [Next]_vars =>
          [\A k \in Id : journal[k] # NoRecord /\ journal[k].status # "started" =>
             journal'[k] = journal[k]]_vars
    BY JournalGrows
  <1> QED
    BY <1>1, RequestInvHolds, PTL DEF Spec, ResultStays

-----------------------------------------------------------------------------
(* What a step of one process can do to the others and to a configuration: *)
(* it leaves their memory alone, and only the holder of the instance lock  *)
(* writes the file; an outside edit brings in strangers only.              *)

Acts(p) == Call(p) \/ Mutation(p) \/ Enforce(p) \/ Discover(p) \/ Crash(p)

Same(q) ==
  /\ pc'[q] = pc[q] /\ req'[q] = req[q] /\ base'[q] = base[q] /\ upd'[q] = upd[q]
  /\ copy'[q] = copy[q] /\ mine'[q] = mine[q] /\ todo'[q] = todo[q]
  /\ reason'[q] = reason[q]

LEMMA ActsAlone ==
  ASSUME RequestInv, NEW p \in Proc, Acts(p), NEW q \in Proc, q # p
  PROVE  Same(q)
  <1> USE DEF Same, Goto, memory, files
  <1>0. /\ pc \in [Proc -> Steps] /\ req \in [Proc -> Request \cup {NoRequest}]
        /\ base \in [Proc -> Content] /\ upd \in [Proc -> Content]
        /\ copy \in [Proc -> [Inst -> Content \cup {Absent}]]
        /\ mine \in [Proc -> [Conn -> Status \cup {None}]]
        /\ todo \in [Proc -> SUBSET Conn]
        /\ reason \in [Proc -> Reasons \cup {None}]
    BY DEF RequestInv, TypeOK
  <1>1. CASE Call(p)
    BY <1>0, <1>1 DEF Call, Begin
  <1>2. CASE TakePolicyLock(p) \/ LoadInstance(p) \/ TakeInstanceLock(p) \/ RejectEdit(p)
             \/ RejectApply(p) \/ RollbackFails(p) \/ WriteFails(p) \/ Project(p)
    BY <1>0, <1>2 DEF TakePolicyLock, LoadInstance, TakeInstanceLock, RejectEdit,
                      RejectApply, RollbackFails, WriteFails, Project
  <1>3. CASE ReadConfig(p)
    BY <1>0, <1>3 DEF ReadConfig
  <1>4. CASE SaveSuspended(p) \/ Replace(p) \/ RestoreFile(p) \/ Resync(p) \/ Undo(p)
             \/ CleanSuspended(p) \/ RewritePolicies(p)
    BY <1>0, <1>4 DEF SaveSuspended, Replace, RestoreFile, Resync, Undo, CleanSuspended,
                      RewritePolicies
  <1>5. CASE Sync(p)
    BY <1>0, <1>5 DEF Sync
  <1>6. CASE UpdateRead(p) \/ UpdateWrite(p)
    BY <1>0, <1>6 DEF UpdateRead, UpdateWrite
  <1>7. ASSUME NEW s \in {"started", "succeeded", "failed"}, Conclude(p, s)
        PROVE  Same(q)
    BY <1>0, <1>7 DEF Conclude
  <1>8. CASE Enforce(p)
    <2>1. CASE StartEnforce(p) \/ EnforceSave(p)
      BY <1>0, <2>1 DEF StartEnforce, EnforceSave
    <2>2. ASSUME NEW c \in Conn, NEW r \in Reasons, EnforceDue(p, c, r)
          PROVE  Same(q)
      BY <1>0, <2>2 DEF EnforceDue, EnforceDisable, EnforceReplay
    <2> QED
      BY <1>8, <2>1, <2>2 DEF Enforce
  <1>9. CASE Discover(p) \/ Crash(p)
    BY <1>0, <1>9 DEF Discover, DiscoverRead, DiscoverSave, Crash
  <1> QED
    BY <1>1, <1>2, <1>3, <1>4, <1>5, <1>6, <1>7, <1>8, <1>9
       DEF Acts, Mutation, RecordSucceeded, RecordFailed

\* Steps of the world outside the processes.
World == Tick \/ \E i \in Inst : ExternalEdit(i) \/ ContainerRestart(i)

LEMMA Actors ==
  ASSUME RequestInv, [Next]_vars
  PROVE  \/ \E p \in Proc : Acts(p) /\ \A q \in Proc \ {p} : Same(q)
         \/ (World \/ UNCHANGED vars) /\ \A q \in Proc : Same(q)
  <1>1. (World \/ UNCHANGED vars) => \A q \in Proc : Same(q)
    BY DEF World, Tick, ExternalEdit, ContainerRestart, vars, memory, Same
  <1> QED
    BY <1>1, ActsAlone DEF Next, Acts, World

\* The only steps that change a configuration, and what they do to it.
Writes(p, i) ==
  /\ I(p) = i /\ Holds(p) /\ instLock[i] = p
  /\ \/ Replace(p) /\ config'[i] = upd[p]
     \/ RestoreFile(p) /\ config'[i] = base[p]

LEMMA ConfigSteps ==
  ASSUME RequestInv, [Next]_vars, NEW i \in Inst
  PROVE  \/ config'[i] = config[i]
         \/ \E p \in Proc : Writes(p, i)
         \/ /\ ExternalEdit(i)
            /\ config'[i].peers \subseteq config[i].peers \cup (Strangers(i) \cap touched')
  <1> USE Shapes
  <1>1. ASSUME NEW p \in Proc, Replace(p) \/ RestoreFile(p)
        PROVE  config'[i] = config[i] \/ Writes(p, i)
    <2>1. Holds(p) /\ I(p) \in Inst
      BY <1>1, RequestTypes DEF Replace, RestoreFile, Holds, UnderLock, Working, Steps
    <2>2. instLock[I(p)] = p
      BY <2>1 DEF RequestInv, Progress
    <2> QED
      BY <1>1, <2>1, <2>2 DEF Writes, Replace, RestoreFile
  <1>2. ASSUME NEW j \in Inst, ExternalEdit(j)
        PROVE  \/ config'[i] = config[i]
               \/ /\ i = j
                  /\ config'[i].peers \subseteq config[i].peers \cup (Strangers(i) \cap touched')
    BY <1>2 DEF ExternalEdit
  <1>3. ASSUME NEW p \in Proc, Acts(p), ~Replace(p), ~RestoreFile(p)
        PROVE  UNCHANGED config
    BY <1>3 DEF Acts, Call, Begin, Mutation, TakePolicyLock, LoadInstance, TakeInstanceLock,
         RejectEdit, ReadConfig, SaveSuspended, RejectApply, Sync, Resync, RollbackFails,
         Undo, CleanSuspended, RewritePolicies, UpdateRead, UpdateWrite, RecordSucceeded,
         RecordFailed, Conclude, WriteFails, Project, Enforce, StartEnforce, EnforceDue,
         EnforceSave, Discover, DiscoverRead, DiscoverSave, Crash, files
  <1>4. CASE Tick \/ UNCHANGED vars \/ \E j \in Inst : ContainerRestart(j)
    BY <1>4 DEF Tick, ContainerRestart, vars, files
  <1> QED
    BY <1>1, <1>2, <1>3, <1>4, Actors DEF World

(* Mutations of an instance are serialized and, unless an edit falls into  *)
(* the locked section itself, a request replaces exactly the file its      *)
(* caller knew.                                                            *)
THEOREM ExpectedIsReplaced ==
  ASSUME ~EditsRace
  PROVE  Spec => []ReplacesWhatWasExpected
  <1>1. Init => ReplacesWhatWasExpected
    BY DEF Init, ReplacesWhatWasExpected
  <1>2. ASSUME RequestInv, ReplacesWhatWasExpected, [Next]_vars
        PROVE  ReplacesWhatWasExpected'
    <2> USE <1>2, Shapes
    <2> SUFFICES ASSUME NEW p \in Proc, pc'[p] \in {"save-suspended", "mv"}
                 PROVE  config'[I(p)'] = req'[p].fp
      BY DEF ReplacesWhatWasExpected
    <2>1. CASE ReadConfig(p)
      BY <2>1 DEF ReadConfig, Editable, I
    <2>2. ASSUME ~ReadConfig(p)
          PROVE  pc[p] \in {"save-suspended", "mv"} /\ req'[p] = req[p]
      <3>1. CASE Same(p)
        BY <3>1 DEF Same
      <3>2. CASE Acts(p)
        BY <2>2, <3>2
           DEF Acts, Call, Begin, Mutation, TakePolicyLock, LoadInstance, TakeInstanceLock,
               RejectEdit, SaveSuspended, RejectApply, Replace, Sync, RestoreFile, Resync,
               RollbackFails, Undo, CleanSuspended, RewritePolicies, UpdateRead, UpdateWrite,
               RecordSucceeded, RecordFailed, Conclude, WriteFails, Project, Enforce,
               StartEnforce, EnforceDue, EnforceDisable, EnforceReplay, EnforceSave, Discover,
               DiscoverRead, DiscoverSave, Crash, Goto, AfterApply
      <3> QED
        BY <3>1, <3>2, Actors
    <2>3. ASSUME pc[p] \in {"save-suspended", "mv"}, req'[p] = req[p]
          PROVE  config'[I(p)'] = req'[p].fp
      <3>1. Holds(p) /\ I(p) \in Inst /\ I(p)' = I(p)
        BY <2>3, RequestTypes DEF Holds, UnderLock, Working, Steps, I
      <3>2. instLock[I(p)] = p /\ p # None
        BY <3>1, HelperAssumption DEF RequestInv, Progress
      <3>3. ~ExternalEdit(I(p))
        BY <3>2 DEF ExternalEdit
      <3>4. ASSUME NEW q \in Proc, Writes(q, I(p))
            PROVE  FALSE
        BY <2>3, <3>2, <3>4 DEF Writes, Replace, RestoreFile, Goto
      <3> QED
        BY <2>3, <3>1, <3>3, <3>4, ConfigSteps DEF ReplacesWhatWasExpected
    <2> QED
      BY <2>1, <2>2, <2>3
  <1> QED
    BY <1>1, <1>2, RequestInvHolds, PTL DEF Spec

-----------------------------------------------------------------------------
(* What a revocation and a suspension leave behind.  Past: one of them is  *)
(* recorded, or has changed the files and is on its way to its record.     *)

Late == {"policies", "update-read", "update-write", "record"}

Past(c, a) ==
  \/ Recorded(c, a, {"succeeded"})
  \/ \E p \in Proc : pc[p] \in Late /\ Action(p) = a /\ C(p) = c

Removed(c) == Past(c, "revoke") \/ (Past(c, "disable") /\ ~EnableSent(c))

\* Steps that have read the file, and those of them between the decision to
\* change it and its being changed, or changed back, for good.
Decided == UnderLock \ {"locked"}
Changing == {"save-suspended", "mv", "sync", "rollback", "resync"}

\* A peer with a trace of itself in the files, the journal or a request.
InUse(c) ==
  \/ c \in config[Home[c]].peers \cup susp
  \/ Past(c, "disable") \/ Past(c, "revoke")
  \/ \E p \in Proc : pc[p] \in Decided /\ C(p) = c

Known(c) == c \in Imported \cup touched \/ \E k \in Id : Creates(k, c)

(* A peer whose creation is still to be decided has no trace anywhere, and *)
(* a peer on its way into or out of the file was not removed before: so a  *)
(* removed peer finds no way back.                                         *)
RemovalInv ==
  /\ RequestInv
  /\ \A c \in Conn : /\ InUse(c) => Known(c)
                     /\ Removed(c) => c \notin config[Home[c]].peers
                     /\ Past(c, "revoke") => c \notin susp
  /\ \A p \in Proc :
       /\ pc[p] \in {"begun", "loaded", "locked"} /\ Action(p) = "create" => ~InUse(C(p))
       /\ pc[p] \in Changing =>
            /\ ~Removed(C(p))
            /\ \A c \in base[p].peers \cup upd[p].peers : Home[c] = I(p) => ~Removed(c)
       /\ pc[p] = "clean-suspended" /\ Action(p) = "revoke" =>
            C(p) \notin config[I(p)].peers

(* A request at work names a peer somebody sent an operation for.          *)
LEMMA AtWorkSent ==
  ASSUME RequestInv, NEW p \in Proc, pc[p] \in Working
  PROVE  /\ C(p) \in Conn /\ I(p) = Home[C(p)] /\ I(p) \in Inst
         /\ Action(p) = "create" => Creates(req[p].id, C(p)) /\ Known(C(p))
         /\ Action(p) = "enable" => EnableSent(C(p))
  <1>1. /\ journal[req[p].id] = [req |-> req[p], status |-> "started"]
        /\ req[p].id \in Id /\ C(p) \in Conn /\ I(p) \in Inst
    BY RequestTypes, Shapes DEF RequestInv, RequestJournaled
  <1>2. journal[req[p].id] # NoRecord
    BY <1>1 DEF NoRecord
  <1> QED
    BY <1>1, <1>2 DEF Creates, Known, EnableSent, Recorded, Action, C, I

LEMMA HistoryStays ==
  ASSUME RequestInv, [Next]_vars, NEW c \in Conn
  PROVE  /\ Known(c) => Known(c)'
         /\ EnableSent(c) => EnableSent(c)'
  <1>1. Known(c) => Known(c)'
    BY JournalGrows, HistoryGrows DEF Known, Creates
  <1>2. ASSUME EnableSent(c)
        PROVE  EnableSent(c)'
    <2>1. PICK k \in Id : /\ journal[k] # NoRecord
                          /\ journal[k].req.action = "enable" /\ journal[k].req.conn = c
      BY <1>2 DEF EnableSent, Recorded
    <2>2. journal'[k] # NoRecord /\ journal'[k].req = journal[k].req
      BY <2>1, JournalGrows
    <2>3. journal'[k].status \in {"started", "succeeded", "failed"}
      BY <2>2, TypeStep, Shapes DEF TypeOK, Record
    <2> QED
      BY <2>1, <2>2, <2>3 DEF EnableSent, Recorded
  <1> QED
    BY <1>1, <1>2

(* Which steps bring a process to a step of its request.                   *)
LEMMA Arrivals ==
  ASSUME RequestInv, [Next]_vars, NEW p \in Proc
  PROVE  /\ pc'[p] \in {"begun", "loaded", "locked"} =>
              \/ pc[p] \in {"begun", "loaded", "locked"} /\ req'[p] = req[p]
              \/ \E r \in Request : Begins(p, r)
         /\ pc'[p] \in Decided => /\ req'[p] = req[p]
                                  /\ pc[p] \in Decided \/ ReadConfig(p)
         /\ pc'[p] \in Changing => /\ req'[p] = req[p]
                                   /\ pc[p] \in Changing \/ ReadConfig(p)
         /\ pc'[p] = "clean-suspended" =>
              /\ req'[p] = req[p]
              /\ pc[p] = "clean-suspended" \/ ReadConfig(p) \/ Sync(p)
         /\ pc'[p] \in Late =>
              /\ req'[p] = req[p]
              /\ \/ pc[p] \in Late \/ Project(p)
                 \/ Sync(p) /\ Action(p) \in {"create", "disable"}
                 \/ CleanSuspended(p)
  <1> USE Shapes
  <1>1. CASE Same(p)
    BY <1>1 DEF Same
  <1>2. ASSUME NEW q \in Proc, NEW r \in Request, Begins(q, r)
        PROVE  (pc'[p] = pc[p] /\ req'[p] = req[p]) \/ (p = q /\ pc'[p] = "begun")
    BY <1>2 DEF Begins
  <1>3. ASSUME NEW q \in Proc, NEW s \in {"started", "succeeded", "failed"}, Ends(q, s)
        PROVE  (pc'[p] = pc[p] /\ req'[p] = req[p]) \/ pc'[p] \in {"idle", "loop"}
    BY <1>3 DEF Ends, Conclude, Goto
  <1>4. CASE Quiet /\ Acts(p)
    <2>1. pc'[p] \in Working => req'[p] = req[p]
      BY <1>4 DEF Quiet
    <2>2. CASE Call(p)
      BY <1>4, <2>2, <2>1 DEF Quiet, Call, Begin, Goto, Working, Steps
    <2>3. CASE Mutation(p)
      <3>1. CASE TakePolicyLock(p) \/ LoadInstance(p)
        BY <2>1, <3>1 DEF TakePolicyLock, LoadInstance, Goto, Decided, UnderLock, Changing,
                          Late, Working, Steps
      <3>2. CASE TakeInstanceLock(p) \/ RejectEdit(p) \/ RejectApply(p) \/ RollbackFails(p)
                 \/ WriteFails(p) \/ Undo(p) \/ Project(p)
        BY <2>1, <3>2 DEF TakeInstanceLock, RejectEdit, RejectApply, RollbackFails, WriteFails,
             Undo, Project, Goto, Decided, UnderLock, Changing, Late, Working, Steps
      <3>3. CASE ReadConfig(p)
        BY <2>1, <3>3 DEF ReadConfig, Goto, Decided, UnderLock, Changing, Late, Working, Steps
      <3>4. CASE SaveSuspended(p) \/ Replace(p) \/ RestoreFile(p) \/ Resync(p)
        BY <2>1, <3>4 DEF SaveSuspended, Replace, RestoreFile, Resync, Goto, Decided,
             UnderLock, Changing, Late, Working, Steps
      <3>5. CASE Sync(p)
        BY <2>1, <3>5 DEF Sync, AfterApply, Goto, Decided, UnderLock, Changing, Late,
             Working, Steps
      <3>6. CASE CleanSuspended(p) \/ RewritePolicies(p) \/ UpdateRead(p) \/ UpdateWrite(p)
        BY <2>1, <3>6 DEF CleanSuspended, RewritePolicies, UpdateRead, UpdateWrite, Goto,
             Decided, UnderLock, Changing, Late, Working, Steps
      <3>7. CASE RecordSucceeded(p) \/ RecordFailed(p)
        BY <3>7, <1>3 DEF RecordSucceeded, RecordFailed, Conclude, Goto, Decided, UnderLock,
             Changing, Late
      <3> QED
        BY <2>3, <3>1, <3>2, <3>3, <3>4, <3>5, <3>6, <3>7 DEF Mutation
    <2>4. CASE Enforce(p)
      <3>1. pc[p] \notin Working
        BY <2>4 DEF Enforce, StartEnforce, EnforceDue, EnforceSave, Working
      <3>2. pc'[p] \notin Working
        BY <1>4, <3>1 DEF Quiet
      <3> QED
        BY <3>2 DEF Working, Steps, Decided, UnderLock, Changing, Late
    <2>5. CASE Discover(p) \/ Crash(p)
      BY <2>5 DEF Discover, DiscoverRead, DiscoverSave, Crash, Goto, Decided, UnderLock,
           Changing, Late
    <2> QED
      BY <1>4, <2>2, <2>3, <2>4, <2>5 DEF Acts
  <1>5. Same(p) \/ Acts(p)
    BY Actors
  <1>6. CASE \E q \in Proc, r \in Request : Begins(q, r)
    BY <1>2, <1>6 DEF Decided, UnderLock, Changing, Late
  <1>7. CASE \E q \in Proc, s \in {"started", "succeeded", "failed"} : Ends(q, s)
    BY <1>3, <1>7 DEF Decided, UnderLock, Changing, Late
  <1> QED
    BY <1>1, <1>4, <1>5, <1>6, <1>7, StepKinds

\* The moment a peer is removed for good: a disable has cut it off, a revoke
\* has forgotten its section.
Removing(p) ==
  \/ Action(p) = "disable" /\ Sync(p) /\ pc'[p] = "policies"
  \/ Action(p) = "revoke" /\ CleanSuspended(p)

LEMMA PastSteps ==
  ASSUME RequestInv, [Next]_vars, NEW c \in Conn, NEW a \in {"disable", "revoke"}, Past(c, a)'
  PROVE  Past(c, a) \/ \E p \in Proc : C(p) = c /\ Action(p) = a /\ Removing(p)
  <1> USE Shapes
  <1>1. ASSUME NEW k \in Id, journal'[k] # NoRecord, journal'[k].status = "succeeded",
               journal'[k].req.action = a, journal'[k].req.conn = c
        PROVE  Past(c, a)
    <2>1. CASE journal'[k] = journal[k]
      BY <1>1, <2>1 DEF Past, Recorded
    <2>2. ASSUME NEW p \in Proc, NEW r \in Request, Begins(p, r)
          PROVE  journal'[k] = journal[k]
      BY <1>1, <2>2 DEF Begins
    <2>3. ASSUME NEW p \in Proc, NEW s \in {"started", "succeeded", "failed"}, Ends(p, s),
                 journal'[k] # journal[k]
          PROVE  Past(c, a)
      <3>1. journal'[k] = [req |-> req[p], status |-> s]
        BY <2>3 DEF Ends, Conclude
      <3>2. s = "succeeded" /\ pc[p] = "record" /\ Action(p) = a /\ C(p) = c
        BY <1>1, <2>3, <3>1 DEF Ends, Action, C
      <3> QED
        BY <3>2 DEF Past, Late
    <2> QED
      BY <2>1, <2>2, <2>3, StepKinds DEF Quiet
  <1>2. ASSUME NEW p \in Proc, pc'[p] \in Late, Action(p)' = a, C(p)' = c
        PROVE  Past(c, a) \/ (C(p) = c /\ Action(p) = a /\ Removing(p))
    <2>1. Action(p) = a /\ C(p) = c
      BY <1>2, Arrivals DEF Action, C
    <2>2. CASE pc[p] \in Late
      BY <2>1, <2>2 DEF Past
    <2>3. ~Project(p)
      BY <2>1 DEF Project, RequestInv, Progress
    <2>4. CASE Sync(p) /\ Action(p) \in {"create", "disable"}
      BY <1>2, <2>1, <2>4 DEF Removing, Sync, AfterApply, Goto, Late
    <2>5. CASE CleanSuspended(p)
      BY <2>1, <2>5 DEF Removing, CleanSuspended, RequestInv, Progress
    <2> QED
      BY <1>2, <2>1, <2>2, <2>3, <2>4, <2>5, Arrivals
  <1> QED
    BY <1>1, <1>2 DEF Past, Recorded

LEMMA RemovedSteps ==
  ASSUME RequestInv, [Next]_vars, NEW c \in Conn, Removed(c)'
  PROVE  Removed(c) \/ \E p \in Proc : C(p) = c /\ Removing(p)
  BY PastSteps, HistoryStays DEF Removed

(* An edit from outside brings in what no request is or was about.         *)
LEMMA StrangersAreNew ==
  ASSUME RequestInv, NEW i \in Inst, NEW c \in Strangers(i)
  PROVE  /\ c \in Conn /\ c \notin Imported \cup touched
         /\ \A p \in Proc : pc[p] \in Working => C(p) # c
         /\ \A a \in {"disable", "revoke"} : ~Past(c, a)
         /\ ~Removed(c)
  <1>1. /\ c \in Conn /\ c \notin Imported \cup touched
        /\ \A k \in Id : journal[k] # NoRecord => journal[k].req.conn # c
    BY DEF Strangers
  <1>2. ASSUME NEW p \in Proc, pc[p] \in Working
        PROVE  C(p) # c
    <2>1. /\ req[p].id \in Id
          /\ journal[req[p].id] = [req |-> req[p], status |-> "started"]
      BY <1>2, RequestTypes, Shapes DEF RequestInv, RequestJournaled
    <2>2. journal[req[p].id] # NoRecord
      BY <2>1 DEF NoRecord
    <2> QED
      BY <1>1, <2>1, <2>2 DEF C
  <1>3. \A a \in {"disable", "revoke"} : ~Past(c, a)
    BY <1>1, <1>2 DEF Past, Recorded, Late, Working, Steps
  <1> QED
    BY <1>1, <1>2, <1>3 DEF Removed

(* A peer enters a configuration, or suspended.json, only through a request*)
(* for it that is about to change the file or to change it back, or from   *)
(* outside.                                                                *)
LEMMA Comings ==
  ASSUME RequestInv, [Next]_vars, NEW c \in Conn
  PROVE  /\ c \in config'[Home[c]].peers =>
              \/ c \in config[Home[c]].peers
              \/ \E p \in Proc : /\ C(p) = c /\ Holds(p) /\ pc[p] \in {"mv", "rollback"}
                                 /\ c \in base[p].peers \cup upd[p].peers
              \/ c \in Strangers(Home[c]) \cap touched'
         /\ c \in susp' =>
              c \in susp \/ \E p \in Proc : C(p) = c /\ Holds(p) /\ pc[p] = "save-suspended"
  <1> USE Shapes
  <1>1. ASSUME NEW p \in Proc, Writes(p, Home[c]), c \in config'[Home[c]].peers
        PROVE  \/ c \in config[Home[c]].peers
               \/ /\ C(p) = c /\ Holds(p) /\ pc[p] \in {"mv", "rollback"}
                  /\ c \in base[p].peers \cup upd[p].peers
    <2>0. Progress(p) /\ I(p) = Home[c] /\ Holds(p)
      BY <1>1 DEF Writes, RequestInv
    <2>1. CASE Replace(p)
      <3>1. pc[p] = "mv" /\ config'[Home[c]] = upd[p]
        BY <1>1, <2>1 DEF Writes, Replace, RestoreFile
      <3> QED
        BY <1>1, <2>0, <3>1 DEF Progress
    <2>2. CASE RestoreFile(p)
      <3>1. pc[p] = "rollback" /\ config'[Home[c]] = base[p]
        BY <1>1, <2>2 DEF Writes, Replace, RestoreFile
      <3> QED
        BY <1>1, <2>0, <3>1 DEF Progress
    <2> QED
      BY <1>1, <2>1, <2>2 DEF Writes
  <1>2. Home[c] \in Inst
    BY HelperAssumption
  <1>3. ASSUME NEW p \in Proc, Acts(p), ~SaveSuspended(p)
        PROVE  susp' \subseteq susp
    BY <1>3 DEF Acts, Call, Begin, Mutation, TakePolicyLock, LoadInstance, TakeInstanceLock,
         RejectEdit, ReadConfig, RejectApply, Replace, RestoreFile, Sync, Resync,
         RollbackFails, Undo, CleanSuspended, RewritePolicies, UpdateRead, UpdateWrite,
         RecordSucceeded, RecordFailed, Conclude, WriteFails, Project, Enforce, StartEnforce,
         EnforceDue, EnforceSave, Discover, DiscoverRead, DiscoverSave, Crash, files
  <1>4. ASSUME NEW p \in Proc, SaveSuspended(p)
        PROVE  susp' = susp \cup {C(p)} /\ Holds(p) /\ pc[p] = "save-suspended"
    BY <1>4 DEF SaveSuspended, Holds, UnderLock
  <1>5. World \/ UNCHANGED vars => UNCHANGED susp
    BY DEF World, Tick, ExternalEdit, ContainerRestart, vars, files
  <1> QED
    BY <1>1, <1>2, <1>3, <1>4, <1>5, Actors, ConfigSteps

(* Only a creation that has read the file and an outside edit bring a new  *)
(* peer into use.                                                          *)
LEMMA InUseSteps ==
  ASSUME RequestInv, [Next]_vars, NEW c \in Conn, InUse(c)'
  PROVE  \/ InUse(c) \/ c \in Strangers(Home[c]) \cap touched'
         \/ \E p \in Proc : C(p) = c /\ ReadConfig(p) /\ Action(p) = "create"
  <1>1. c \in config'[Home[c]].peers \cup susp' =>
          InUse(c) \/ c \in Strangers(Home[c]) \cap touched'
    BY Comings DEF InUse, Decided, UnderLock
  <1>2. ASSUME NEW a \in {"disable", "revoke"}, Past(c, a)'
        PROVE  InUse(c)
    BY <1>2, PastSteps DEF InUse, Removing, Sync, CleanSuspended, Decided, UnderLock
  <1>3. ASSUME NEW p \in Proc, pc'[p] \in Decided, C(p)' = c
        PROVE  InUse(c) \/ (C(p) = c /\ ReadConfig(p) /\ Action(p) = "create")
    <2>1. C(p) = c /\ (pc[p] \in Decided \/ ReadConfig(p))
      BY <1>3, Arrivals DEF C
    <2>2. CASE ReadConfig(p) /\ Action(p) # "create"
      <3>1. C(p) \in config[I(p)].peers \cup susp
        BY <2>2 DEF ReadConfig, Editable
      <3> QED
        BY <2>1, <3>1 DEF InUse, I, C
    <2> QED
      BY <2>1, <2>2 DEF InUse
  <1> QED
    BY <1>1, <1>2, <1>3 DEF InUse

(* Memory changes only in ReadConfig, or as a request ends.                *)
LEMMA PlansStay ==
  ASSUME RequestInv, [Next]_vars, NEW p \in Proc, pc'[p] \in Changing, ~ReadConfig(p)
  PROVE  base'[p] = base[p] /\ upd'[p] = upd[p]
  <1> USE Shapes
  <1>1. CASE Same(p)
    BY <1>1 DEF Same
  <1>2. CASE Acts(p)
    <2>1. pc[p] \in Changing
      BY Arrivals
    <2>2. SaveSuspended(p) \/ RejectApply(p) \/ Replace(p) \/ Sync(p) \/ RestoreFile(p)
          \/ Resync(p) \/ RollbackFails(p) \/ WriteFails(p) \/ Crash(p)
      BY <1>2, <2>1
         DEF Acts, Call, Begin, Mutation, TakePolicyLock, LoadInstance, TakeInstanceLock,
             RejectEdit, ReadConfig, Undo, CleanSuspended, RewritePolicies, UpdateRead,
             UpdateWrite, RecordSucceeded, RecordFailed, Project, Enforce, StartEnforce,
             EnforceDue, EnforceSave, Discover, DiscoverRead, DiscoverSave, Changing
    <2>3. ~Crash(p)
      BY DEF Crash, Goto, Changing
    <2> QED
      BY <2>2, <2>3 DEF SaveSuspended, RejectApply, Replace, Sync, RestoreFile, Resync,
                        RollbackFails, WriteFails, memory
  <1> QED
    BY <1>1, <1>2, Actors

LEMMA PlansMade ==
  ASSUME RequestInv, NEW p \in Proc, ReadConfig(p), pc'[p] \in Changing
  PROVE  /\ base'[p] = config[I(p)]
         /\ upd'[p].peers = IF Action(p) \in {"create", "enable"}
                            THEN config[I(p)].peers \cup {C(p)}
                            ELSE config[I(p)].peers \ {C(p)}
         /\ Action(p) = "revoke" => C(p) \in config[I(p)].peers
  <1> USE Shapes
  <1>1. PICK u \in Edited(p) : upd' = [upd EXCEPT ![p] = u]
    BY DEF ReadConfig, Goto, Changing
  <1>2. u.peers = IF Action(p) \in {"create", "enable"}
                  THEN config[I(p)].peers \cup {C(p)} ELSE config[I(p)].peers \ {C(p)}
    BY ONLY <1>1, u \in Edited(p) DEF Edited
  <1> QED
    BY <1>1, <1>2 DEF ReadConfig, Goto, Changing

LEMMA RemovalInit == Init => RemovalInv
  <1> SUFFICES ASSUME Init PROVE RemovalInv
    OBVIOUS
  <1>1. RequestInv
    BY PeerInvInit DEF PeerInv
  <1>2. /\ \A p \in Proc : pc[p] = "idle"
        /\ \A k \in Id : journal[k] = NoRecord
    BY DEF Init
  <1>3. \A c \in Conn, a \in {"disable", "revoke"} : ~Past(c, a)
    BY <1>2 DEF Past, Recorded, Late
  <1>4. \A c \in Conn : InUse(c) => Known(c)
    BY <1>2, <1>3, HelperAssumption DEF InUse, Known, Init, Decided, UnderLock
  <1> QED
    BY <1>1, <1>2, <1>3, <1>4 DEF RemovalInv, Removed, Changing

(* Two requests for one peer are never both under its instance lock. *)
LEMMA OnePeerOneRequest ==
  ASSUME RequestInv, NEW p \in Proc, NEW q \in Proc, C(p) = C(q), Holds(p), Holds(q)
  PROVE  p = q
  BY Disjoint

LEMMA RemovalStep ==
  ASSUME ~EditsRace, RemovalInv, [Next]_vars
  PROVE  RemovalInv'
  <1> USE DEF RemovalInv
  <1>0. RequestInv'
    BY PeerStep DEF Keeps
  <1> USE Shapes
  <1>10. /\ \A c \in Conn : Home[c] \in Inst
         /\ \A c \in Conn : c \in Strangers(Home[c]) =>
              /\ ~Removed(c) /\ ~Known(c) /\ (\A p \in Proc : pc[p] \in Working => C(p) # c)
              /\ ~Past(c, "revoke")
    <2>1. \A c \in Conn : Home[c] \in Inst
      BY HelperAssumption
    <2>2. ASSUME NEW c \in Conn, c \in Strangers(Home[c])
          PROVE  ~Known(c)
      BY <2>2 DEF Strangers, Known, Creates
    <2> QED
      BY <2>1, <2>2, StrangersAreNew
  <1>1. \A q \in Proc : Removing(q) =>
          Holds(q) /\ pc[q] \in {"sync", "clean-suspended"} /\ C(q) \in Conn /\ I(q) = Home[C(q)]
    BY AtWorkSent DEF Removing, Sync, CleanSuspended, Holds, UnderLock, Working, Steps
  <1>2. ASSUME NEW c \in Conn, InUse(c)'
        PROVE  Known(c)'
    <2>1. Known(c) \/ c \in touched'
      BY <1>2, InUseSteps, AtWorkSent DEF ReadConfig, Working, Steps
    <2> QED
      BY <2>1, HistoryStays DEF Known
  <1>3. ASSUME NEW c \in Conn, Removed(c)'
        PROVE  c \notin config'[Home[c]].peers
    <2>1. CASE Removed(c)
      BY <2>1, <1>3, <1>10, Comings DEF Changing
    <2>2. ASSUME NEW p \in Proc, C(p) = c, Removing(p)
          PROVE  c \notin config'[Home[c]].peers
      <3>1. Holds(p) /\ I(p) = Home[c] /\ Progress(p) /\ UNCHANGED config
        BY <1>1, <2>2 DEF Removing, Sync, CleanSuspended, RequestInv
      <3>2. CASE Sync(p) /\ Action(p) = "disable"
        BY <2>2, <3>1, <3>2 DEF Progress, Sync
      <3>3. CASE CleanSuspended(p) /\ Action(p) = "revoke"
        BY <2>2, <3>1, <3>3 DEF CleanSuspended
      <3> QED
        BY <2>2, <3>2, <3>3 DEF Removing
    <2> QED
      BY <1>3, <2>1, <2>2, RemovedSteps
  <1>4. ASSUME NEW c \in Conn, Past(c, "revoke")'
        PROVE  c \notin susp'
    <2>1. CASE Past(c, "revoke")
      BY <2>1, Comings DEF Changing, Removed
    <2>2. ASSUME NEW p \in Proc, C(p) = c, Action(p) = "revoke", Removing(p)
          PROVE  c \notin susp'
      BY <2>2 DEF Removing, CleanSuspended
    <2> QED
      BY <1>4, <2>1, <2>2, PastSteps
  <1>5. ASSUME NEW p \in Proc, pc'[p] \in {"begun", "loaded", "locked"}, Action(p)' = "create",
               NEW c \in Conn, C(p)' = c
        PROVE  ~InUse(c)'
    <2>1. CASE pc[p] \in {"begun", "loaded", "locked"} /\ req'[p] = req[p]
      <3>1. C(p) = c /\ Action(p) = "create" /\ ~InUse(c) /\ pc[p] \in Working
        BY <1>5, <2>1 DEF C, Action, Working, Steps
      <3>2. ASSUME NEW q \in Proc, C(q) = c, ReadConfig(q), Action(q) = "create"
            PROVE  FALSE
        <4>1. pc[q] \in Working
          BY <3>2 DEF ReadConfig, Working, Steps
        <4>2. Creates(req[p].id, c) /\ Creates(req[q].id, c) /\ req[p].id \in Id /\ req[q].id \in Id
          BY <3>1, <3>2, <4>1, AtWorkSent, RequestTypes
        <4>3. req[p].id = req[q].id
          BY <4>2 DEF RequestInv, CreatedOnce
        <4>4. p = q
          BY <3>1, <4>1, <4>3 DEF RequestInv, ExecutedOnce
        <4> QED
          BY <1>5, <3>2, <4>4 DEF ReadConfig, Goto
      <3> QED
        BY <3>1, <3>2, <1>10, InUseSteps
    <2>2. ASSUME NEW r \in Request, Begins(p, r)
          PROVE  ~InUse(c)'
      <3>1. ~Known(c)
        BY <1>5, <2>2 DEF Begins, NeverCreated, Known, Creates, C, Action
      <3>2. ~InUse(c)
        BY <3>1
      <3>3. ASSUME NEW q \in Proc, C(q) = c, ReadConfig(q), Action(q) = "create"
            PROVE  FALSE
        BY <3>1, <3>3, AtWorkSent DEF ReadConfig, Working, Steps
      <3>4. c \notin Strangers(Home[c]) \cap touched'
        <4>1. ~(World \/ UNCHANGED vars)
          BY <2>2, Shapes DEF World, Tick, ExternalEdit, ContainerRestart, vars, Begins, Working
        <4>2. ASSUME NEW q \in Proc, Acts(q)
              PROVE  UNCHANGED touched
          BY <4>2 DEF Acts, Call, Begin, Mutation, TakePolicyLock, LoadInstance,
             TakeInstanceLock, RejectEdit, ReadConfig, SaveSuspended, RejectApply, Replace,
             Sync, RestoreFile, Resync, RollbackFails, Undo, CleanSuspended, RewritePolicies,
             UpdateRead, UpdateWrite, RecordSucceeded, RecordFailed, Conclude, WriteFails,
             Project, Enforce, StartEnforce, EnforceDue, EnforceSave, Discover, DiscoverRead,
             DiscoverSave, Crash, env, history
        <4> QED
          BY <3>1, <4>1, <4>2, Actors DEF Strangers
      <3> QED
        BY <3>2, <3>3, <3>4, InUseSteps
    <2> QED
      BY <1>5, <2>1, <2>2, Arrivals
  <1>6. ASSUME NEW p \in Proc, pc'[p] \in Changing
        PROVE  /\ (~Removed(C(p)))'
               /\ \A c \in (base[p].peers \cup upd[p].peers)' :
                    Home[c] = I(p)' => (~Removed(c))'
    <2>1. C(p)' = C(p) /\ I(p)' = I(p) /\ (pc[p] \in Changing \/ ReadConfig(p)) /\ Holds(p)
      BY <1>6, Arrivals DEF C, I, Changing, ReadConfig, Holds, UnderLock
    <2>2. C(p) \in Conn /\ I(p) = Home[C(p)] /\ (Action(p) = "enable" => EnableSent(C(p)))
      BY <2>1, AtWorkSent DEF Changing, ReadConfig, Working, Steps
    <2>3. ~Removed(C(p))
      <3>1. CASE ReadConfig(p)
        <4>1. CASE Action(p) = "create"
          BY <2>2, <3>1, <4>1 DEF ReadConfig, Removed, InUse
        <4>2. CASE Action(p) = "enable"
          BY <2>2, <3>1, <4>2 DEF ReadConfig, Editable, Removed
        <4>3. CASE Action(p) \in {"disable", "revoke"} /\ C(p) \in config[I(p)].peers
          BY <2>2, <4>3
        <4>4. CASE Action(p) = "revoke" /\ C(p) \notin config[I(p)].peers
          BY <1>6, <3>1, <4>4 DEF ReadConfig, Goto, Changing
        <4> QED
          BY <3>1, <4>1, <4>2, <4>3, <4>4 DEF ReadConfig, Editable
      <3> QED
        BY <2>1, <3>1
    <2>4. ASSUME NEW c \in base'[p].peers \cup upd'[p].peers, Home[c] = I(p)
          PROVE  c \in Conn /\ ~Removed(c)
      <3>1. c \in Conn
        BY <1>0, <2>4 DEF RequestInv, TypeOK, Content
      <3>2. CASE ReadConfig(p)
        <4>0. /\ base'[p] = config[I(p)]
              /\ upd'[p].peers \in {config[I(p)].peers \cup {C(p)}, config[I(p)].peers \ {C(p)}}
          BY <1>6, <3>2, PlansMade
        <4>1. c \in config[I(p)].peers \/ c = C(p)
          BY <2>4, <4>0
        <4> QED
          BY <2>3, <2>4, <3>1, <4>1
      <3>3. CASE ~ReadConfig(p)
        BY <1>6, <2>1, <2>4, <3>1, <3>3, PlansStay
      <3> QED
        BY <3>2, <3>3
    <2>5. ASSUME NEW c \in Conn, Home[c] = I(p), ~Removed(c)
          PROVE  (~Removed(c))'
      <3>1. ASSUME NEW q \in Proc, C(q) = c, Removing(q)
            PROVE  FALSE
        <4>1. q = p
          BY <1>1, <2>1, <2>5, <3>1, Disjoint
        <4> QED
          BY <1>6, <3>1, <4>1 DEF Removing, CleanSuspended, Goto, Changing
      <3> QED
        BY <2>5, <3>1, RemovedSteps
    <2> QED
      BY <2>1, <2>2, <2>3, <2>4, <2>5
  <1>7. ASSUME NEW p \in Proc, pc'[p] = "clean-suspended", Action(p)' = "revoke"
        PROVE  (C(p) \notin config[I(p)].peers)'
    <2>1. /\ C(p)' = C(p) /\ I(p)' = I(p) /\ Action(p) = "revoke"
          /\ pc[p] = "clean-suspended" \/ ReadConfig(p) \/ Sync(p)
      BY <1>7, Arrivals DEF C, I, Action
    <2>2. Holds(p) /\ C(p) \in Conn /\ I(p) = Home[C(p)] /\ Progress(p)
      BY <2>1, AtWorkSent DEF RequestInv, ReadConfig, Sync, Holds, UnderLock, Working, Steps
    <2>3. CASE pc[p] = "clean-suspended"
      BY <2>1, <2>2, <2>3, <1>10, Comings, OnePeerOneRequest DEF Working, Steps
    <2>4. CASE ReadConfig(p)
      BY <1>7, <2>1, <2>4 DEF ReadConfig, Goto
    <2>5. CASE Sync(p)
      BY <2>1, <2>2, <2>5 DEF Sync, Progress
    <2> QED
      BY <2>1, <2>3, <2>4, <2>5
  <1>8. \A p \in Proc : pc'[p] \in Working => C(p)' \in Conn
    BY <1>0, AtWorkSent DEF RequestInv, TypeOK, Request, C
  <1>9. ASSUME NEW p \in Proc, pc'[p] \in {"begun", "loaded", "locked"}, Action(p)' = "create"
        PROVE  (~InUse(C(p)))'
    <2>1. C(p)' \in Conn
      BY <1>8, <1>9 DEF Working, Steps
    <2> QED
      BY <1>5, <1>9, <2>1
  <1> QED
    BY <1>0, <1>2, <1>3, <1>4, <1>5, <1>6, <1>7, <1>9

LEMMA RemovalInvHolds ==
  ASSUME ~EditsRace
  PROVE  Spec => []RemovalInv
  BY RemovalInit, RemovalStep, PTL DEF Spec

(* A revocation that is journaled as succeeded is final: the peer is in no *)
(* file, whatever requests run side by side, fail, are rolled back or are  *)
(* killed, and whatever is added or removed outside.                       *)
THEOREM RevokeIsFinalHolds ==
  ASSUME ~EditsRace
  PROVE  Spec => []RevokeIsFinal
  <1>1. RemovalInv => RevokeIsFinal
    BY DEF RemovalInv, RevokeIsFinal, Removed, Past, Held
  <1> QED
    BY <1>1, RemovalInvHolds, PTL

-----------------------------------------------------------------------------
(* Addresses.  Every address that is in use, or comes back into use if the *)
(* change under way is undone, is in use once.                             *)

Claimed(i) ==
  {c \in Conn : /\ Home[c] = i
                /\ \/ c \in config[i].peers \cup susp
                   \/ \E p \in Proc : /\ pc[p] \in Changing /\ I(p) = i
                                      /\ c \in base[p].peers \cup upd[p].peers}

Distinct == \A i \in Inst : \A c, d \in Claimed(i) \ touched : c # d => addr[c] # addr[d]
AddressInv == RemovalInv /\ Distinct

LEMMA AddressInit == Init => Distinct
  <1> SUFFICES ASSUME Init, NEW i \in Inst, NEW c \in Claimed(i), NEW d \in Claimed(i), c # d
               PROVE  addr[c] # addr[d]
    BY DEF Distinct
  <1>1. \A e \in Claimed(i) : e \in Imported /\ Home[e] = i
    BY DEF Claimed, Init, Changing
  <1> QED
    BY <1>1 DEF Init

LEMMA AddrSteps ==
  ASSUME RequestInv, [Next]_vars
  PROVE  \/ \A c \in Conn \ touched' : addr'[c] = addr[c]
         \/ \E p \in Proc : /\ ReadConfig(p) /\ Action(p) = "create"
                            /\ \E a \in Addr \ Reserved(I(p)) :
                                 addr' = [addr EXCEPT ![C(p)] = a]
  <1>1. ASSUME NEW p \in Proc, Acts(p), ~ReadConfig(p)
        PROVE  UNCHANGED addr
    BY <1>1 DEF Acts, Call, Begin, Mutation, TakePolicyLock, LoadInstance, TakeInstanceLock,
         RejectEdit, SaveSuspended, RejectApply, Replace, RestoreFile, Sync, Resync,
         RollbackFails, Undo, CleanSuspended, RewritePolicies, UpdateRead, UpdateWrite,
         RecordSucceeded, RecordFailed, Conclude, WriteFails, Project, Enforce, StartEnforce,
         EnforceDue, EnforceSave, Discover, DiscoverRead, DiscoverSave, Crash, files
  <1>2. ASSUME NEW p \in Proc, ReadConfig(p)
        PROVE  \/ UNCHANGED addr
               \/ Action(p) = "create" /\ \E a \in Addr \ Reserved(I(p)) :
                                           addr' = [addr EXCEPT ![C(p)] = a]
    BY <1>2 DEF ReadConfig
  <1>3. World \/ UNCHANGED vars => \A c \in Conn \ touched' : addr'[c] = addr[c]
    BY DEF World, Tick, ExternalEdit, ContainerRestart, vars, files
  <1> QED
    BY <1>1, <1>2, <1>3, Actors

(* Only a creation that has just been given its address and an outside edit*)
(* claim anything new: every other step keeps or gives up claims.          *)
LEMMA Claims ==
  ASSUME RequestInv, [Next]_vars, NEW i \in Inst, NEW c \in Claimed(i)'
  PROVE  \/ c \in Claimed(i) \/ c \in touched'
         \/ \E p \in Proc : ReadConfig(p) /\ Action(p) = "create" /\ C(p) = c
  <1> USE Shapes
  <1>0. c \in Conn /\ Home[c] = i
    BY DEF Claimed
  <1>1. ASSUME NEW p \in Proc, C(p) = c, Holds(p),
               \/ pc[p] \in {"mv", "rollback"} /\ c \in base[p].peers \cup upd[p].peers
               \/ pc[p] = "save-suspended"
        PROVE  c \in Claimed(i)
    <2>1. I(p) = i /\ Progress(p)
      BY <1>0, <1>1 DEF I, C, RequestInv
    <2>2. c \in base[p].peers \cup upd[p].peers
      BY <1>1, <2>1 DEF Progress
    <2> QED
      BY <1>0, <1>1, <2>1, <2>2 DEF Claimed, Changing
  <1>2. CASE c \in config'[i].peers \cup susp'
    <2>1. CASE c \in config[i].peers \cup susp
      BY <1>0, <2>1 DEF Claimed
    <2> QED
      BY <1>0, <1>1, <1>2, <2>1, Comings
  <1>3. ASSUME NEW p \in Proc, pc'[p] \in Changing, I(p)' = i,
               c \in base'[p].peers \cup upd'[p].peers
        PROVE  c \in Claimed(i) \/ (ReadConfig(p) /\ Action(p) = "create" /\ C(p) = c)
    <2>1. I(p) = i
      BY <1>3, Arrivals DEF I
    <2>2. CASE ReadConfig(p)
      <3>1. c \in config[i].peers \/ (c = C(p) /\ Action(p) \in {"create", "enable"})
        <4>1. /\ base'[p] = config[I(p)]
              /\ Action(p) \in {"create", "enable"} =>
                   upd'[p].peers = config[I(p)].peers \cup {C(p)}
              /\ Action(p) \notin {"create", "enable"} =>
                   upd'[p].peers = config[I(p)].peers \ {C(p)}
          BY <1>3, <2>2, PlansMade
        <4> QED
          BY <1>3, <2>1, <4>1
      <3>2. CASE c \in config[i].peers
        BY <1>0, <3>2 DEF Claimed
      <3>3. CASE c = C(p) /\ Action(p) = "enable"
        BY <1>0, <2>2, <3>3 DEF ReadConfig, Editable, Claimed
      <3> QED
        BY <1>3, <2>2, <3>1, <3>2, <3>3
    <2>3. CASE ~ReadConfig(p)
      <3>1. pc[p] \in Changing /\ base'[p] = base[p] /\ upd'[p] = upd[p]
        BY <1>3, <2>3, Arrivals, PlansStay
      <3> QED
        BY <1>0, <1>3, <2>1, <3>1 DEF Claimed
    <2> QED
      BY <2>2, <2>3
  <1> QED
    BY <1>2, <1>3 DEF Claimed

LEMMA AddressStep == AddressInv /\ [Next]_vars => Distinct'
  <1> SUFFICES ASSUME RemovalInv, Distinct, [Next]_vars, NEW i \in Inst,
                      NEW c \in Claimed(i)', NEW d \in Claimed(i)', c # d,
                      c \notin touched', d \notin touched'
               PROVE  addr'[c] # addr'[d]
    BY DEF AddressInv, Distinct
  <1>0. RequestInv /\ addr \in [Conn -> Addr \cup {None}]
    BY DEF RemovalInv, RequestInv, TypeOK
  <1>1. c \in Conn /\ d \in Conn /\ Home[c] = i /\ Home[d] = i
    BY DEF Claimed
  <1>2. ASSUME NEW p \in Proc, ReadConfig(p), Action(p) = "create"
        PROVE  /\ C(p) \notin Claimed(i)
               /\ I(p) = i => \A e \in Claimed(i) : addr[e] \in Reserved(i)
    <2>1. /\ Holds(p) /\ pc[p] = "locked" /\ C(p) \in Conn /\ I(p) = Home[C(p)]
      BY <1>0, <1>2, AtWorkSent DEF ReadConfig, Holds, UnderLock, Working, Steps
    <2>2. ASSUME I(p) = i
          PROVE  \A e \in Claimed(i) : e \in config[i].peers \cup susp /\ Home[e] = i
      <3>1. ASSUME NEW q \in Proc, pc[q] \in Changing, I(q) = i
            PROVE  FALSE
        BY <1>0, <2>1, <2>2, <3>1, Disjoint DEF Holds, UnderLock, Changing
      <3> QED
        BY <3>1 DEF Claimed
    <2>3. C(p) \notin config[Home[C(p)]].peers \cup susp
      BY <1>2, <2>1 DEF RemovalInv, InUse
    <2>4. C(p) \notin Claimed(i)
      BY <2>1, <2>2, <2>3 DEF Claimed
    <2> QED
      BY <2>2, <2>4 DEF Reserved
  <1>3. CASE addr'[c] = addr[c] /\ addr'[d] = addr[d] /\ c \in Claimed(i) /\ d \in Claimed(i)
    BY <1>3, HistoryGrows DEF Distinct
  <1>4. ASSUME NEW p \in Proc, ReadConfig(p), Action(p) = "create",
               NEW a \in Addr \ Reserved(I(p)), addr' = [addr EXCEPT ![C(p)] = a]
        PROVE  addr'[c] # addr'[d]
    <2>1. C(p) \in Conn /\ I(p) = Home[C(p)]
      BY <1>0, <1>4, AtWorkSent DEF ReadConfig, Working, Steps
    <2>2. \A e \in {c, d} : e = C(p) \/ (e \in Claimed(i) /\ addr'[e] = addr[e])
      <3>1. ASSUME NEW q \in Proc, ReadConfig(q)
            PROVE  q = p
        <4>1. pc[p] = "locked" /\ pc'[p] # "locked" /\ pc[q] = "locked" /\ pc'[q] # "locked"
          BY <1>0, <1>4, <3>1, Shapes DEF ReadConfig, Goto
        <4> QED
          BY <1>0, <4>1, Actors DEF Same, World
      <3> QED
        BY <1>0, <1>1, <1>4, <2>1, <3>1, Claims
    <2> QED
      BY <1>0, <1>1, <1>2, <1>4, <2>1, <2>2, HistoryGrows DEF Distinct
  <1>5. ASSUME NEW p \in Proc, ReadConfig(p), Action(p) = "create"
        PROVE  addr'[c] # addr'[d]
    <2>1. \E a \in Addr \ Reserved(I(p)) : addr' = [addr EXCEPT ![C(p)] = a]
      BY <1>5 DEF ReadConfig
    <2> QED
      BY <1>4, <1>5, <2>1
  <1> QED
    BY <1>0, <1>1, <1>3, <1>5, AddrSteps, Claims

(* No two peers of an instance, active or suspended, have one address,     *)
(* whatever is created, suspended, rolled back or killed meanwhile and     *)
(* whatever peers are added from outside, those themselves excepted.       *)
THEOREM AddressesUniqueHolds ==
  ASSUME ~EditsRace
  PROVE  Spec => []AddressesUnique
  <1>1. AddressInv => AddressesUnique
    <2> SUFFICES ASSUME AddressInv PROVE AddressesUnique
      OBVIOUS
    <2>1. \A i \in Inst : Held(i) \subseteq Claimed(i)
      BY DEF AddressInv, RemovalInv, RequestInv, TypeOK, Content, Held, Claimed
    <2> QED
      BY <2>1 DEF AddressInv, Distinct, AddressesUnique
  <1>2. Spec => []Distinct
    BY RemovalInvHolds, AddressInit, AddressStep, PTL DEF Spec, AddressInv
  <1> QED
    BY <1>1, <1>2, RemovalInvHolds, PTL DEF AddressInv

-----------------------------------------------------------------------------
(* The running interface.  But for the instances in unsynced, it lags      *)
(* behind the file only while a change is applied or taken back, and then  *)
(* by nothing but that change.                                             *)

Applying == {"sync", "rollback", "resync"}
Lagging(i) == \E p \in Proc : pc[p] \in Applying /\ I(p) = i

KernelInv ==
  /\ RemovalInv
  /\ \A i \in Inst : i \in unsynced \/ kernel[i] = config[i].peers \/ Lagging(i)
  /\ \A p \in Proc : pc[p] \in Applying /\ I(p) \notin unsynced =>
       kernel[I(p)] \in {base[p].peers, upd[p].peers}

LEMMA KernelInit == Init => KernelInv
  <1> SUFFICES ASSUME Init PROVE KernelInv
    OBVIOUS
  <1>1. /\ \A p \in Proc : pc[p] \notin Applying
        /\ \A i \in Inst : kernel[i] = config[i].peers
    BY DEF Init, Applying
  <1> QED
    BY <1>1, RemovalInit DEF KernelInv

LEMMA ApplyBegins ==
  ASSUME RequestInv, [Next]_vars, NEW p \in Proc, pc'[p] \in Applying
  PROVE  /\ req'[p] = req[p] /\ base'[p] = base[p] /\ upd'[p] = upd[p]
         /\ pc[p] \in Applying \/ Replace(p)
  <1> USE Shapes
  <1>1. req'[p] = req[p] /\ base'[p] = base[p] /\ upd'[p] = upd[p]
    BY Arrivals, PlansStay DEF Applying, Changing, ReadConfig, Goto
  <1>2. CASE Same(p)
    BY <1>2 DEF Same
  <1>3. ASSUME Acts(p), pc[p] \notin Applying
        PROVE  Replace(p)
    BY <1>3
       DEF Acts, Call, Begin, Mutation, TakePolicyLock, LoadInstance, TakeInstanceLock,
           RejectEdit, ReadConfig, SaveSuspended, RejectApply, Sync, RestoreFile, Resync,
           RollbackFails, Undo, CleanSuspended, RewritePolicies, UpdateRead, UpdateWrite,
           RecordSucceeded, RecordFailed, Conclude, WriteFails, Project, Enforce,
           StartEnforce, EnforceDue, EnforceDisable, EnforceReplay, EnforceSave, Discover,
           DiscoverRead, DiscoverSave, Crash, Goto, Applying
  <1> QED
    BY <1>1, <1>2, <1>3, Actors

\* A request leaves Apply with the interface synchronized, or is known not to.
LEMMA ApplyEnds ==
  ASSUME RequestInv, [Next]_vars, NEW p \in Proc, pc[p] \in Applying
  PROVE  \/ pc'[p] \in Applying
         \/ Sync(p) /\ kernel' = [kernel EXCEPT ![I(p)] = upd[p].peers]
         \/ Resync(p)
         \/ I(p) \in unsynced'
  <1> USE Shapes
  <1>1. CASE Same(p)
    BY <1>1 DEF Same
  <1>2. CASE Acts(p)
    <2>1. Sync(p) \/ RestoreFile(p) \/ Resync(p) \/ RollbackFails(p) \/ Crash(p)
      BY <1>2
         DEF Acts, Call, Begin, Mutation, TakePolicyLock, LoadInstance, TakeInstanceLock,
             RejectEdit, ReadConfig, SaveSuspended, RejectApply, Replace, Undo,
             CleanSuspended, RewritePolicies, UpdateRead, UpdateWrite, RecordSucceeded,
             RecordFailed, WriteFails, Project, Enforce, StartEnforce, EnforceDue, EnforceSave,
             Discover, DiscoverRead, DiscoverSave, Applying
    <2>2. CASE Sync(p)
      BY <2>2 DEF Sync, Goto, Applying
    <2>3. CASE RestoreFile(p)
      BY <2>3 DEF RestoreFile, Goto, Applying
    <2>4. CASE RollbackFails(p)
      BY <2>4 DEF RollbackFails
    <2>5. CASE Crash(p)
      BY <2>5 DEF Crash, Applying
    <2> QED
      BY <2>1, <2>2, <2>3, <2>4, <2>5
  <1> QED
    BY <1>1, <1>2, Actors

LEMMA KernelSteps ==
  ASSUME RequestInv, [Next]_vars, NEW i \in Inst
  PROVE  \/ kernel'[i] = kernel[i] /\ (i \in unsynced => i \in unsynced')
         \/ \E p \in Proc : /\ I(p) = i /\ Holds(p)
                            /\ \/ Sync(p) /\ kernel'[i] = upd[p].peers
                               \/ Resync(p) /\ kernel'[i] = base[p].peers
         \/ kernel'[i] = config[i].peers /\ UNCHANGED config
  <1>0. kernel \in [Inst -> SUBSET Conn]
    BY DEF RequestInv, TypeOK
  <1>1. ASSUME NEW p \in Proc, Sync(p) \/ Resync(p)
        PROVE  \/ kernel'[i] = kernel[i] /\ (i \in unsynced => i \in unsynced')
               \/ /\ I(p) = i /\ Holds(p)
                  /\ \/ Sync(p) /\ kernel'[i] = upd[p].peers
                     \/ Resync(p) /\ kernel'[i] = base[p].peers
    <2>1. Holds(p)
      BY <1>1 DEF Sync, Resync, Holds, UnderLock
    <2>2. CASE Sync(p)
      <3>1. \/ UNCHANGED <<kernel, unsynced>>
            \/ /\ kernel' = [kernel EXCEPT ![I(p)] = upd[p].peers]
               /\ unsynced' = unsynced \ {I(p)}
        BY <2>2 DEF Sync
      <3> QED
        BY <1>0, <2>1, <2>2, <3>1
    <2>3. CASE Resync(p)
      BY <1>0, <2>1, <2>3 DEF Resync
    <2> QED
      BY <1>1, <2>2, <2>3
  <1>2. ASSUME NEW p \in Proc, Acts(p), ~Sync(p), ~Resync(p)
        PROVE  UNCHANGED kernel /\ unsynced \subseteq unsynced'
    <2>1. CASE Crash(p) \/ Replace(p) \/ RollbackFails(p)
      BY <2>1 DEF Crash, Replace, RollbackFails, files
    <2>2. CASE ~(Crash(p) \/ Replace(p) \/ RollbackFails(p))
      BY <1>2, <2>2
         DEF Acts, Call, Begin, Mutation, TakePolicyLock, LoadInstance, TakeInstanceLock,
             RejectEdit, ReadConfig, SaveSuspended, RejectApply, RestoreFile, Undo,
             CleanSuspended, RewritePolicies, UpdateRead, UpdateWrite, RecordSucceeded,
             RecordFailed, Conclude, WriteFails, Project, Enforce, StartEnforce, EnforceDue,
             EnforceSave, Discover, DiscoverRead, DiscoverSave, files, env, history
    <2> QED
      BY <2>1, <2>2
  <1>3. ASSUME NEW j \in Inst, ContainerRestart(j)
        PROVE  \/ kernel'[i] = kernel[i] /\ (i \in unsynced => i \in unsynced')
               \/ kernel'[i] = config[i].peers /\ UNCHANGED config
    BY <1>0, <1>3 DEF ContainerRestart
  <1>4. Tick \/ UNCHANGED vars => UNCHANGED <<kernel, unsynced>>
    BY DEF Tick, vars, files, env, history
  <1>5. ASSUME NEW j \in Inst, ExternalEdit(j)
        PROVE  UNCHANGED kernel /\ unsynced \subseteq unsynced'
    BY <1>5 DEF ExternalEdit
  <1> QED
    BY <1>1, <1>2, <1>3, <1>4, <1>5, Actors DEF World

LEMMA KernelStep ==
  ASSUME ~EditsRace, KernelInv, [Next]_vars
  PROVE  KernelInv'
  <1>0. RemovalInv /\ RequestInv /\ RemovalInv'
    BY RemovalStep DEF KernelInv, RemovalInv
  <1> USE <1>0, Shapes
  <1>1. \A p \in Proc : pc[p] \in Applying \cup {"mv", "clean-suspended"} =>
          Holds(p) /\ C(p) \in Conn /\ I(p) = Home[C(p)] /\ I(p) \in Inst /\ Progress(p)
    BY AtWorkSent DEF RequestInv, Applying, Holds, UnderLock, Working, Steps
  <1>2. ASSUME NEW i \in Inst, \A p \in Proc : ~(pc'[p] \in Applying /\ I(p)' = i),
               i \notin unsynced'
        PROVE  kernel'[i] = config'[i].peers
    <2>1. ASSUME NEW p \in Proc, pc[p] \in Applying, I(p) = i
          PROVE  kernel'[i] = config'[i].peers
      <3>1. I(p) \in Inst /\ Progress(p) /\ kernel \in [Inst -> SUBSET Conn]
        BY <1>1, <2>1 DEF RequestInv, TypeOK
      <3>2. pc'[p] \notin Applying
        BY <1>2, <2>1, ApplyBegins DEF I
      <3>3. CASE Sync(p) /\ kernel' = [kernel EXCEPT ![I(p)] = upd[p].peers]
        BY <2>1, <3>1, <3>3 DEF Sync, Progress
      <3>4. CASE Resync(p)
        BY <2>1, <3>1, <3>4 DEF Resync, Progress
      <3> QED
        BY <1>2, <2>1, <3>2, <3>3, <3>4, ApplyEnds
    <2>2. ASSUME ~Lagging(i)
          PROVE  kernel'[i] = config'[i].peers
      <3>1. ASSUME NEW p \in Proc, Writes(p, i)
            PROVE  FALSE
        <4>1. Replace(p)
          BY <2>2, <3>1 DEF Writes, RestoreFile, Lagging, Applying
        <4>2. I(p)' = i /\ (pc'[p] = "sync" \/ i \in unsynced')
          BY <3>1, <4>1 DEF Writes, Replace, Goto, I
        <4> QED
          BY <1>2, <4>2 DEF Applying
      <3>2. ASSUME ExternalEdit(i)
            PROVE  config'[i].peers = config[i].peers
        <4>1. PICK gone \in SUBSET config[i].peers, new \in SUBSET Strangers(i), l \in Layout :
                /\ config' = [config EXCEPT ![i] =
                                [peers |-> (@.peers \ gone) \cup new, layout |-> l]]
                /\ unsynced' = IF gone \cup new = {} THEN unsynced ELSE unsynced \cup {i}
          BY <3>2 DEF ExternalEdit
        <4>2. gone \cup new = {}
          BY <1>2, <4>1
        <4> QED
          BY <4>1, <4>2 DEF RequestInv, TypeOK
      <3>3. config'[i].peers = config[i].peers
        BY <3>1, <3>2, ConfigSteps
      <3>4. ASSUME NEW p \in Proc, Sync(p) \/ Resync(p)
            PROVE  I(p) # i
        BY <2>2, <3>4 DEF Sync, Resync, Lagging, Applying
      <3>5. i \notin unsynced => kernel[i] = config[i].peers
        BY <2>2 DEF KernelInv
      <3> QED
        BY <1>2, <3>3, <3>4, <3>5, KernelSteps
    <2> QED
      BY <2>1, <2>2 DEF Lagging
  <1>3. ASSUME NEW p \in Proc, pc'[p] \in Applying
        PROVE  /\ I(p)' = I(p) /\ base'[p] = base[p] /\ upd'[p] = upd[p] /\ I(p) \in Inst
               /\ I(p) \notin unsynced' => kernel'[I(p)] \in {base[p].peers, upd[p].peers}
    <2>1. /\ req'[p] = req[p] /\ base'[p] = base[p] /\ upd'[p] = upd[p]
          /\ pc[p] \in Applying \/ Replace(p)
      BY <1>3, ApplyBegins
    <2>2. /\ pc[p] \in Applying \cup {"mv"} /\ Holds(p) /\ C(p) \in Conn
          /\ I(p) = Home[C(p)] /\ I(p) \in Inst /\ Progress(p)
      BY <1>1, <2>1 DEF Replace
    <2>3. ASSUME pc[p] = "mv"
          PROVE  /\ config[I(p)].peers = base[p].peers
                 /\ I(p) \notin unsynced => kernel[I(p)] = base[p].peers
      <3>1. ASSUME NEW q \in Proc, pc[q] \in Applying, I(q) = I(p)
            PROVE  FALSE
        <4>1. Holds(q) /\ p # q
          BY <1>1, <2>3, <3>1 DEF Applying
        <4> QED
          BY <2>2, <3>1, <4>1, Disjoint
      <3>2. I(p) \notin unsynced => kernel[I(p)] = config[I(p)].peers
        BY <2>2, <3>1 DEF KernelInv, Lagging
      <3> QED
        BY <2>2, <2>3, <3>2 DEF Progress
    <2>4. I(p) \notin unsynced => kernel[I(p)] \in {base[p].peers, upd[p].peers}
      BY <2>2, <2>3 DEF KernelInv
    <2>5. I(p) \notin unsynced' => kernel'[I(p)] \in {base[p].peers, upd[p].peers}
      <3>1. ASSUME NEW q \in Proc, I(q) = I(p), Holds(q)
            PROVE  q = p
        BY <2>2, <3>1, Disjoint
      <3>2. config[I(p)].peers \in {base[p].peers, upd[p].peers}
        BY <2>2, <2>3 DEF Progress, Applying
      <3> QED
        BY <2>2, <2>4, <3>1, <3>2, KernelSteps
    <2>6. I(p)' = I(p)
      BY <2>1 DEF I
    <2> QED
      BY <2>1, <2>2, <2>5, <2>6
  <1> QED
    BY <1>2, <1>3 DEF KernelInv, Lagging

LEMMA KernelInvHolds ==
  ASSUME ~EditsRace
  PROVE  Spec => []KernelInv
  BY KernelInit, KernelStep, PTL DEF Spec

(* When nobody is mutating an instance, its interface runs the peers of its*)
(* file, unless the file was replaced and the interface not told: whatever *)
(* syncconf does, a change is made or taken back in both.                  *)
THEOREM KernelFollowsFileHolds ==
  ASSUME ~EditsRace
  PROVE  Spec => []KernelFollowsFile
  <1>1. ASSUME KernelInv
        PROVE  KernelFollowsFile
    <2> SUFFICES ASSUME NEW i \in Inst, NEW p \in Proc, pc[p] \in Applying, I(p) = i
                 PROVE  instLock[i] # None
      BY <1>1 DEF KernelInv, KernelFollowsFile, Lagging
    <2>1. Holds(p) /\ Progress(p)
      BY <1>1 DEF KernelInv, RemovalInv, RequestInv, Applying, Holds, UnderLock
    <2> QED
      BY <2>1, HelperAssumption DEF Progress
  <1> QED
    BY <1>1, KernelInvHolds, PTL

(* The interface does not serve a peer whose revocation is journaled as    *)
(* succeeded, not even while a later change of its instance is rolled back,*)
(* unless the file of the instance was replaced and the interface not told.*)
THEOREM RevokedIsCutHolds ==
  ASSUME ~EditsRace
  PROVE  Spec => []RevokedIsCut
  <1>1. ASSUME KernelInv
        PROVE  RevokedIsCut
    <2> SUFFICES ASSUME NEW c \in Conn, Removed(c), Home[c] \notin unsynced
                 PROVE  c \notin kernel[Home[c]]
      BY DEF RevokedIsCut, Removed, Past
    <2>1. Home[c] \in Inst
      BY HelperAssumption
    <2> QED
      BY <1>1, <2>1 DEF KernelInv, RemovalInv, Lagging, Applying, Changing
  <1> QED
    BY <1>1, KernelInvHolds, PTL

-----------------------------------------------------------------------------
(* Enforce.  The policies lock: whoever is past it holds it, and Enforce   *)
(* finds the policies as it read them, except those of what it suspends    *)
(* itself; what it reports as cut off has a disable in the journal.        *)

Locking(p) ==
  \/ pc[p] = "loop"
  \/ pc[p] \in Working /\ (Enforcing(p) \/ (pc[p] # "begun" /\ Action(p) # "create"))

Reporting(p) == pc[p] = "loop" \/ (pc[p] \in Working /\ Enforcing(p))

\* What Enforce is going to save agrees with the file or with the journal, and
\* the policies it has not decided yet are as it read them.
Report(p) ==
  /\ \A c \in Conn : mine[p][c] \in {"expired", "quota-exceeded"} =>
       policies[c] = mine[p][c] \/ Recorded(c, "disable", {"succeeded"})
  /\ \A c \in todo[p] : mine[p][c] = "active"
  /\ pc[p] # "loop" => /\ C(p) \notin todo[p] /\ mine[p][C(p)] = "active"
                       /\ Action(p) = "disable"

PolicyInv ==
  /\ RequestInv
  /\ \A p \in Proc : /\ Locking(p) => policyLock = p
                     /\ Reporting(p) => Report(p)

LEMMA CallsAreNotEnforce ==
  ASSUME RequestInv, NEW p \in Proc, Call(p)
  PROVE  pc'[p] = "begun" /\ ~Enforcing(p)'
  <1> USE Shapes
  <1>1. PICK k \in OpId, a \in Rpc, c \in Conn :
          \E f \in {config[Home[c]], stored[Home[c]]} :
            Begin(p, [id |-> k, action |-> a, conn |-> c, fp |-> f])
    BY DEF Call
  <1>2. pc'[p] = "begun" /\ req'[p].id = k
    BY <1>1 DEF Begin, Goto
  <1>3. k \notin EnforceId
    BY HelperAssumption DEF EnforceId, Minute
  <1> QED
    BY <1>2, <1>3 DEF Enforcing

LEMMA PolicyLockKept ==
  ASSUME PolicyInv, NEW p \in Proc, Acts(p), NEW q \in Proc, Locking(q)'
  PROVE  policyLock' = q
  <1> USE Shapes, HelperAssumption DEF PolicyInv
  <1>1. CASE q # p
    <2>1. Locking(q) /\ policyLock = q /\ policyLock \in Proc \cup {None} /\ q # None
      BY <1>1, ActsAlone DEF Same, Locking, Enforcing, Action
    <2>2. CASE TakePolicyLock(p) \/ StartEnforce(p)
      BY <1>1, <2>1, <2>2 DEF TakePolicyLock, StartEnforce
    <2>3. CASE EnforceSave(p)
      BY <1>1, <2>1, <2>3 DEF EnforceSave, Locking
    <2>4. CASE RecordSucceeded(p) \/ RecordFailed(p) \/ Crash(p)
      BY <1>1, <2>1, <2>4 DEF RecordSucceeded, RecordFailed, Conclude, Crash
    <2>5. CASE ~(TakePolicyLock(p) \/ StartEnforce(p) \/ EnforceSave(p)
                 \/ RecordSucceeded(p) \/ RecordFailed(p) \/ Crash(p))
      BY <2>1, <2>5
         DEF Acts, Call, Begin, Mutation, LoadInstance, TakeInstanceLock, RejectEdit, ReadConfig,
             SaveSuspended, RejectApply, Replace, RestoreFile, Sync, Resync, RollbackFails, Undo,
             CleanSuspended, RewritePolicies, UpdateRead, UpdateWrite, WriteFails, Project,
             Enforce, EnforceDue, Discover, DiscoverRead, DiscoverSave
    <2> QED
      BY <2>2, <2>3, <2>4, <2>5
  <1>2. CASE q = p
    <2>1. CASE Call(p)
      BY <1>2, <2>1, CallsAreNotEnforce DEF Locking, Working
    <2>2. CASE TakePolicyLock(p) \/ StartEnforce(p)
      BY <1>2, <2>2 DEF TakePolicyLock, StartEnforce
    <2>3. CASE LoadInstance(p)
      BY <1>2, <2>3 DEF LoadInstance, Goto, Locking, Enforcing, Action, Working, Steps
    <2>4. CASE RecordSucceeded(p) \/ RecordFailed(p)
      <3>1. PICK s \in {"started", "succeeded", "failed"} : Conclude(p, s)
        BY <2>4 DEF RecordSucceeded, RecordFailed
      <3>2. pc[p] \in Working
        BY <2>4 DEF RecordSucceeded, RecordFailed, Working, Steps
      <3>3. CASE Enforcing(p)
        BY <1>2, <3>1, <3>2, <3>3 DEF Conclude, Locking
      <3>4. CASE ~Enforcing(p)
        BY <1>2, <3>1, <3>4 DEF Conclude, Goto, Locking, Working
      <3> QED
        BY <3>3, <3>4
    <2>5. ASSUME NEW c \in Conn, NEW r \in Reasons, EnforceDue(p, c, r)
          PROVE  policyLock' = q
      BY <1>2, <2>5 DEF EnforceDue, Locking
    <2>6. CASE EnforceSave(p) \/ Discover(p) \/ Crash(p)
      BY <1>2, <2>6 DEF EnforceSave, Discover, DiscoverRead, DiscoverSave, Crash, Goto, Locking,
                        Working
    <2>7. CASE Mutation(p) /\ ~(TakePolicyLock(p) \/ LoadInstance(p) \/ RecordSucceeded(p)
                                \/ RecordFailed(p))
      <3>1. /\ UNCHANGED <<policyLock, req>>
            /\ pc[p] \in Working /\ pc[p] # "begun"
        BY <2>7
           DEF Mutation, TakeInstanceLock, RejectEdit, ReadConfig, SaveSuspended, RejectApply,
               Replace, Sync, RestoreFile, Resync, RollbackFails, Undo, CleanSuspended,
               RewritePolicies, UpdateRead, UpdateWrite, WriteFails, Project, Working, Steps
      <3>2. pc'[p] # "loop"
        BY <2>7
           DEF Mutation, TakeInstanceLock, RejectEdit, ReadConfig, SaveSuspended, RejectApply,
               Replace, Sync, AfterApply, RestoreFile, Resync, RollbackFails, Undo,
               CleanSuspended, RewritePolicies, UpdateRead, UpdateWrite, WriteFails, Project, Goto
      <3> QED
        BY <1>2, <3>1, <3>2 DEF Locking, Enforcing, Action
    <2> QED
      BY <2>1, <2>2, <2>3, <2>4, <2>5, <2>6, <2>7 DEF Acts, Enforce
  <1> QED
    BY <1>1, <1>2

LEMMA RecordedStays ==
  ASSUME RequestInv, [Next]_vars, NEW c \in Conn, Recorded(c, "disable", {"succeeded"})
  PROVE  Recorded(c, "disable", {"succeeded"})'
  BY JournalGrows DEF Recorded

\* The holder of the policies lock is the only one to write policies.json.
LEMMA PolicySteps ==
  ASSUME RequestInv, [Next]_vars
  PROVE  \/ UNCHANGED policies
         \/ \E p \in Proc : /\ Locking(p) /\ Acts(p)
                            /\ RewritePolicies(p) \/ Project(p) \/ EnforceSave(p)
  <1>1. ASSUME NEW p \in Proc, RewritePolicies(p) \/ Project(p) \/ EnforceSave(p)
        PROVE  Locking(p) /\ Acts(p)
    <2>1. Progress(p)
      BY DEF RequestInv
    <2> QED
      BY <1>1, <2>1 DEF Locking, RewritePolicies, Project, EnforceSave, Acts, Mutation, Enforce,
                        Progress, Working, Steps
  <1>2. ASSUME NEW p \in Proc, Acts(p), ~(RewritePolicies(p) \/ Project(p) \/ EnforceSave(p))
        PROVE  UNCHANGED policies
    BY <1>2 DEF Acts, Call, Begin, Mutation, TakePolicyLock, LoadInstance, TakeInstanceLock,
         RejectEdit, ReadConfig, SaveSuspended, RejectApply, Replace, RestoreFile, Sync, Resync,
         RollbackFails, Undo, CleanSuspended, UpdateRead, UpdateWrite, RecordSucceeded,
         RecordFailed, Conclude, WriteFails, Enforce, StartEnforce, EnforceDue, Discover,
         DiscoverRead, DiscoverSave, Crash, files
  <1>3. World \/ UNCHANGED vars => UNCHANGED policies
    BY DEF World, Tick, ExternalEdit, ContainerRestart, vars, files
  <1> QED
    BY <1>1, <1>2, <1>3, Actors

LEMMA ReportOfOthers ==
  ASSUME PolicyInv, [Next]_vars, NEW q \in Proc, Same(q), Reporting(q),
         UNCHANGED policies \/ \E p \in Proc : Locking(p) /\ p # q
  PROVE  Report(q)'
  <1>1. Report(q) /\ policyLock = q
    BY DEF PolicyInv, Locking, Reporting
  <1>2. UNCHANGED policies
    BY <1>1 DEF PolicyInv
  <1>3. /\ mine'[q] = mine[q] /\ todo'[q] = todo[q] /\ pc'[q] = pc[q]
        /\ C(q)' = C(q) /\ Action(q)' = Action(q)
    BY DEF Same, C, Action
  <1> QED
    BY <1>1, <1>2, <1>3, RecordedStays DEF Report, PolicyInv

(* Enforce's own steps. *)
LEMMA ReportOfOne ==
  ASSUME PolicyInv, [Next]_vars, NEW p \in Proc, Acts(p), Reporting(p)'
  PROVE  Report(p)'
  <1> USE Shapes DEF PolicyInv
  <1>0. /\ mine \in [Proc -> [Conn -> Status \cup {None}]]
        /\ todo \in [Proc -> SUBSET Conn] /\ policies \in [Conn -> Status \cup {None}]
    BY DEF TypeOK
  <1>1. CASE StartEnforce(p)
    <2>1. /\ mine'[p] = policies /\ UNCHANGED policies /\ pc'[p] = "loop"
          /\ todo'[p] = {c \in Conn : policies[c] = "active"}
      BY <1>0, <1>1 DEF StartEnforce, Goto, files
    <2> QED
      BY <2>1 DEF Report
  <1>2. ASSUME NEW c \in Conn, NEW r \in Reasons, EnforceDue(p, c, r)
        PROVE  Report(p)'
    <2>1. /\ Report(p) /\ pc[p] = "loop" /\ c \in todo[p] /\ UNCHANGED policies
          /\ todo'[p] = todo[p] \ {c}
      BY <1>0, <1>2 DEF EnforceDue, Reporting, files
    <2>2. CASE EnforceDisable(p, c, r)
      <3>1. /\ mine'[p] = mine[p] /\ pc'[p] = "begun"
            /\ C(p)' = c /\ Action(p)' = "disable"
        BY <2>2 DEF EnforceDisable, EnforceRequest, Goto, C, Action
      <3> QED
        BY <2>1, <3>1, RecordedStays DEF Report
    <2>3. CASE EnforceReplay(p, c, r)
      <3>1. pc'[p] = "loop" /\ \A d \in Conn \ {c} : mine'[p][d] = mine[p][d]
        BY <1>0, <2>1, <2>3 DEF EnforceReplay
      <3>2. \/ mine' = mine
            \/ journal[<<c, minute>>] = [req |-> EnforceRequest(c), status |-> "succeeded"]
        BY <2>3 DEF EnforceReplay
      <3>3. CASE mine' = mine
        BY <2>1, <3>1, <3>3, RecordedStays DEF Report
      <3>4. CASE journal[<<c, minute>>] = [req |-> EnforceRequest(c), status |-> "succeeded"]
        <4>1. <<c, minute>> \in Id /\ journal[<<c, minute>>] # NoRecord
          BY <2>3 DEF EnforceReplay, Id, EnforceId, TypeOK
        <4>2. Recorded(c, "disable", {"succeeded"})
          BY <3>4, <4>1 DEF Recorded, EnforceRequest
        <4>3. \A d \in Conn : d = c => Recorded(d, "disable", {"succeeded"})'
          BY <4>2, RecordedStays
        <4> QED
          BY <1>0, <2>1, <3>1, <4>3, RecordedStays DEF Report
      <3> QED
        BY <3>2, <3>3, <3>4
    <2> QED
      BY <1>2, <2>2, <2>3 DEF EnforceDue
  <1>3. ASSUME NEW s \in {"started", "succeeded", "failed"}, Ends(p, s)
        PROVE  Report(p)'
    <2>1. pc[p] \in Working /\ Enforcing(p)
      BY <1>3 DEF Ends, Conclude, Goto, Reporting, Working, Steps
    <2>2. Report(p) /\ pc[p] # "loop"
      BY <2>1 DEF Reporting, Working
    <2>3. /\ pc'[p] = "loop" /\ UNCHANGED <<policies, todo>>
          /\ \/ mine' = mine
             \/ s = "succeeded" /\ mine' = [mine EXCEPT ![p][C(p)] = reason[p]]
      BY <1>3, <2>1 DEF Ends, Conclude, Goto, files
    <2>4. CASE mine' = mine
      BY <2>2, <2>3, <2>4, RecordedStays DEF Report
    <2>5. ASSUME s = "succeeded", mine' = [mine EXCEPT ![p][C(p)] = reason[p]]
          PROVE  Report(p)'
      <3>1. PICK c \in Conn : C(p) = c
        BY <2>1, AtWorkSent
      <3>2. \A d \in Conn \ {c} : mine'[p][d] = mine[p][d]
        BY <1>0, <2>5, <3>1
      <3>3. /\ journal'[req[p].id] = [req |-> req[p], status |-> "succeeded"]
            /\ req[p].id \in Id
        BY <1>3, <2>1, <2>5, RequestTypes DEF Ends, Conclude
      <3>4. req[p].action = "disable" /\ req[p].conn = c
        BY <2>2, <3>1 DEF Report, Action, C
      <3>5. \E k \in Id : /\ journal'[k] # NoRecord /\ journal'[k].status = "succeeded"
                         /\ journal'[k].req.action = "disable" /\ journal'[k].req.conn = c
        BY <3>3, <3>4 DEF NoRecord
      <3>6. \A d \in Conn : d = c => Recorded(d, "disable", {"succeeded"})'
        BY <3>5 DEF Recorded
      <3>7. c \notin todo[p]
        BY <2>2, <3>1 DEF Report
      <3> QED
        BY <1>0, <2>2, <2>3, <3>2, <3>6, <3>7, RecordedStays DEF Report
    <2> QED
      BY <2>3, <2>4, <2>5
  <1>4. CASE Mutation(p) /\ ~(RecordSucceeded(p) \/ RecordFailed(p))
    <2>1. /\ UNCHANGED <<req, mine, todo>> /\ pc[p] \in Working
          /\ UNCHANGED policies \/ RewritePolicies(p) \/ Project(p)
      BY <1>4
         DEF Mutation, TakePolicyLock, LoadInstance, TakeInstanceLock, RejectEdit, ReadConfig,
             SaveSuspended, RejectApply, Replace, Sync, RestoreFile, Resync, RollbackFails, Undo,
             CleanSuspended, RewritePolicies, UpdateRead, UpdateWrite, WriteFails, Project,
             Working, Steps, files, memory
    <2>2. pc'[p] # "loop"
      BY <1>4, <2>1
         DEF Mutation, TakePolicyLock, LoadInstance, TakeInstanceLock, RejectEdit, ReadConfig,
             SaveSuspended, RejectApply, Replace, Sync, AfterApply, RestoreFile, Resync,
             RollbackFails, Undo, CleanSuspended, RewritePolicies, UpdateRead, UpdateWrite,
             WriteFails, Project, Goto
    <2>3. Report(p) /\ pc[p] # "loop" /\ C(p)' = C(p) /\ Action(p)' = Action(p)
      BY <2>1, <2>2 DEF Reporting, Enforcing, Working, C, Action
    <2>4. \A c \in Conn : policies'[c] = policies[c] \/ c = C(p)
      <3>1. ~Project(p)
        BY <2>3 DEF Report, Project, RequestInv, Progress
      <3> QED
        BY <1>0, <2>1, <3>1 DEF RewritePolicies
    <2>5. mine[p][C(p)] = "active"
      BY <2>3 DEF Report
    <2> QED
      BY <2>1, <2>2, <2>3, <2>4, <2>5, RecordedStays DEF Report
  <1>5. ~(Call(p) \/ EnforceSave(p) \/ Discover(p) \/ Crash(p))
    BY CallsAreNotEnforce
       DEF EnforceSave, Discover, DiscoverRead, DiscoverSave, Crash, Goto, Reporting, Working
  <1> QED
    BY <1>1, <1>2, <1>3, <1>4, <1>5 DEF Acts, Enforce, RecordSucceeded, RecordFailed, Ends

LEMMA PolicyInvHolds ==
  ASSUME ~EditsRace
  PROVE  Spec => []PolicyInv
  <1>1. Init => PolicyInv
    <2> SUFFICES ASSUME Init PROVE PolicyInv
      OBVIOUS
    <2>1. \A p \in Proc : pc[p] = "idle"
      BY DEF Init
    <2> QED
      BY <2>1, PeerInvInit DEF PeerInv, PolicyInv, Locking, Reporting, Working
  <1>2. ASSUME PolicyInv, [Next]_vars
        PROVE  PolicyInv'
    <2> USE <1>2
    <2>0. RequestInv /\ RequestInv'
      BY PeerStep DEF Keeps, PolicyInv
    <2>1. ASSUME NEW q \in Proc, Locking(q)'
          PROVE  policyLock' = q
      <3>1. CASE World \/ UNCHANGED vars
        <4>1. Same(q) /\ UNCHANGED policyLock
          BY <3>1 DEF World, Tick, ExternalEdit, ContainerRestart, vars, memory, Same
        <4> QED
          BY <2>1, <4>1 DEF PolicyInv, Same, Locking, Enforcing, Action
      <3> QED
        BY <2>0, <2>1, <3>1, PolicyLockKept, Actors
    <2>2. ASSUME NEW q \in Proc, Reporting(q)'
          PROVE  Report(q)'
      <3>1. CASE Acts(q)
        BY <2>2, <3>1, ReportOfOne
      <3>2. CASE ~Acts(q)
        <4>1. Same(q)
          BY <2>0, <3>2, Actors
        <4>2. Reporting(q)
          BY <2>2, <4>1 DEF Same, Reporting, Enforcing
        <4>3. UNCHANGED policies \/ \E p \in Proc : Locking(p) /\ p # q
          BY <2>0, <3>2, PolicySteps
        <4> QED
          BY <4>1, <4>2, <4>3, ReportOfOthers
      <3> QED
        BY <3>1, <3>2
    <2> QED
      BY <2>0, <2>1, <2>2 DEF PolicyInv
  <1> QED
    BY <1>1, <1>2, PTL DEF Spec

(* A peer that a disable has cut off is out of the interface, too, until   *)
(* somebody sends an enable, even if a process is killed, mv misleads or a *)
(* rollback fails: no change of its instance begun later knows the peer.   *)
Suspended(c) == Past(c, "disable") /\ ~EnableSent(c)

OutInv == RemovalInv /\ \A c \in Conn : Suspended(c) => c \notin kernel[Home[c]]

LEMMA OutInvHolds ==
  ASSUME ~EditsRace
  PROVE  Spec => []OutInv
  <1>1. Init => OutInv
    <2> SUFFICES ASSUME Init PROVE OutInv
      OBVIOUS
    <2>1. \A c \in Conn : ~Suspended(c)
      BY DEF Init, Suspended, Past, Recorded, Late
    <2> QED
      BY <2>1, RemovalInit DEF OutInv
  <1>2. ASSUME OutInv, [Next]_vars
        PROVE  OutInv'
    <2>0. RequestInv /\ RemovalInv /\ RemovalInv'
      BY <1>2, RemovalStep DEF OutInv, RemovalInv
    <2> USE <1>2, <2>0, Shapes
    <2> SUFFICES ASSUME NEW c \in Conn, Suspended(c)' PROVE c \notin kernel'[Home[c]]
      BY DEF OutInv
    <2>1. Home[c] \in Inst
      BY HelperAssumption
    <2>2. CASE Suspended(c)
      <3>1. c \notin kernel[Home[c]] /\ Removed(c) /\ c \notin config[Home[c]].peers
        BY <2>2 DEF OutInv, RemovalInv, Suspended, Removed
      <3>2. ASSUME NEW p \in Proc, I(p) = Home[c], Sync(p) \/ Resync(p)
            PROVE  c \notin base[p].peers \cup upd[p].peers
        BY <3>1, <3>2 DEF RemovalInv, Sync, Resync, Changing
      <3> QED
        BY <2>1, <3>1, <3>2, KernelSteps
    <2>3. ASSUME NEW p \in Proc, C(p) = c, Action(p) = "disable", Removing(p)
          PROVE  c \notin kernel'[Home[c]]
      <3>1. Sync(p) /\ pc'[p] = "policies"
        BY <2>3 DEF Removing
      <3>2. Progress(p) /\ I(p) = Home[c] /\ kernel \in [Inst -> SUBSET Conn]
        BY <2>3, AtWorkSent, <3>1 DEF RequestInv, TypeOK, Sync, Working, Steps
      <3>3. kernel' = [kernel EXCEPT ![I(p)] = upd[p].peers]
        BY <3>1 DEF Sync, Goto
      <3>4. c \notin upd[p].peers
        BY <2>3, <3>1, <3>2 DEF Sync, Progress
      <3> QED
        BY <2>1, <3>2, <3>3, <3>4
    <2>4. Suspended(c) \/ \E p \in Proc : C(p) = c /\ Action(p) = "disable" /\ Removing(p)
      BY PastSteps, HistoryStays DEF Suspended
    <2> QED
      BY <2>2, <2>3, <2>4
  <1> QED
    BY <1>1, <1>2, PTL DEF Spec

(* What Enforce is about to record as expired or over quota, by its own    *)
(* decision, is cut off in the file and in the interface, unless somebody  *)
(* asked to enable the peer: no kill, failed rollback or failed write, and *)
(* no request or enforcement run beside it, makes it report what it did    *)
(* not do.                                                                 *)
THEOREM EnforcedIsOutHolds ==
  ASSUME ~EditsRace
  PROVE  Spec => []EnforcedIsOut
  <1>1. ASSUME PolicyInv, OutInv
        PROVE  EnforcedIsOut
    <2> SUFFICES ASSUME NEW p \in Proc, pc[p] = "loop", NEW c \in Conn,
                        mine[p][c] \in {"expired", "quota-exceeded"},
                        policies[c] # mine[p][c], ~EnableSent(c)
                 PROVE  c \notin config[Home[c]].peers \cup kernel[Home[c]]
      BY DEF EnforcedIsOut
    <2>1. Recorded(c, "disable", {"succeeded"})
      BY <1>1 DEF PolicyInv, Reporting, Report
    <2>2. Suspended(c) /\ Removed(c)
      BY <2>1 DEF Suspended, Removed, Past
    <2> QED
      BY <1>1, <2>2 DEF OutInv, RemovalInv
  <1> QED
    BY <1>1, PolicyInvHolds, OutInvHolds, PTL

-----------------------------------------------------------------------------
(* Fingerprints.  The recorded one is that of the file, or of the file     *)
(* before the change under way.  A killed or edited file leaves it behind, *)
(* and so does UpdateInstance of another instance (see README).            *)

Updating == {"sync", "rollback", "resync", "clean-suspended", "policies",
             "update-read", "update-write"}

Tracked(p) ==
  /\ pc[p] # "discover"
  /\ pc[p] \in {"save-suspended", "mv", "resync"} => config[I(p)] = base[p]
  /\ pc[p] \in Changing => stored[I(p)] = base[p]
  /\ pc[p] \in Updating \ {"rollback", "resync"} => config[I(p)] = upd[p]
  /\ pc[p] = "update-write" => copy[p][I(p)] \in Content

FingerprintInv ==
  /\ RequestInv
  /\ \A p \in Proc : Tracked(p)
  /\ \A i \in Inst :
       /\ stored[i] \in Content
       /\ stored[i] = config[i] \/ \E p \in Proc : pc[p] \in Updating /\ I(p) = i

LEMMA StoredSteps ==
  ASSUME FingerprintInv, [Next]_vars
  PROVE  UNCHANGED stored \/ \E p \in Proc : UpdateWrite(p) /\ Acts(p)
  <1>1. ASSUME NEW p \in Proc, Acts(p), ~UpdateWrite(p)
        PROVE  UNCHANGED stored
    BY <1>1
       DEF Acts, Call, Begin, Mutation, TakePolicyLock, LoadInstance, TakeInstanceLock,
           RejectEdit, ReadConfig, SaveSuspended, RejectApply, Replace, RestoreFile, Sync, Resync,
           RollbackFails, Undo, CleanSuspended, RewritePolicies, UpdateRead, RecordSucceeded,
           RecordFailed, Conclude, WriteFails, Project, Enforce, StartEnforce, EnforceDue,
           EnforceSave, Discover, DiscoverRead, DiscoverSave, Crash, files, FingerprintInv, Tracked
  <1>2. World \/ UNCHANGED vars => UNCHANGED stored
    BY DEF World, Tick, ExternalEdit, ContainerRestart, vars, files
  <1> QED
    BY <1>1, <1>2, Actors DEF FingerprintInv

\* No kill, no outside edit, no Apply that ended in an error and left its file.
Undisturbed == crashes = 0 /\ edits = 0 /\ stuck = {}

LEMMA CountersGrow ==
  ASSUME RequestInv, [Next]_vars, Undisturbed'
  PROVE  Undisturbed
  <1>1. ASSUME NEW p \in Proc, Acts(p), ~Crash(p)
        PROVE  UNCHANGED <<crashes, edits>>
    BY <1>1
       DEF Acts, Call, Begin, Mutation, TakePolicyLock, LoadInstance, TakeInstanceLock,
           RejectEdit, ReadConfig, SaveSuspended, RejectApply, Replace, RestoreFile, Sync, Resync,
           RollbackFails, Undo, CleanSuspended, RewritePolicies, UpdateRead, UpdateWrite,
           RecordSucceeded, RecordFailed, Conclude, WriteFails, Project, Enforce, StartEnforce,
           EnforceDue, EnforceSave, Discover, DiscoverRead, DiscoverSave, env
  <1>2. Tick \/ UNCHANGED vars \/ (\E i \in Inst : ContainerRestart(i)) => UNCHANGED <<crashes, edits>>
    BY DEF Tick, ContainerRestart, vars, env
  <1>3. ASSUME NEW p \in Proc, Crash(p)
        PROVE  crashes' # 0 /\ UNCHANGED edits
    BY <1>3, HelperAssumption DEF Crash, RequestInv, TypeOK
  <1>4. ASSUME NEW i \in Inst, ExternalEdit(i)
        PROVE  edits' # 0 /\ UNCHANGED crashes
    BY <1>4, HelperAssumption DEF ExternalEdit, RequestInv, TypeOK
  <1> QED
    BY <1>1, <1>2, <1>3, <1>4, Actors, HistoryGrows DEF World, Undisturbed

LEMMA FingerprintStep ==
  ASSUME \A i, j \in Inst : i = j, ~WriteMayFail, ~Discovery, ~EditsRace
  PROVE  FingerprintInv /\ Undisturbed' /\ [Next]_vars => FingerprintInv'
  <1> SUFFICES ASSUME FingerprintInv, crashes' = 0, edits' = 0, stuck' = {}, [Next]_vars
               PROVE  FingerprintInv'
    BY DEF Undisturbed
  <1>0. RequestInv /\ RequestInv'
    BY PeerStep DEF FingerprintInv, Keeps
  <1> USE <1>0, Shapes
  <1>1. /\ \A p \in Proc : ~Crash(p) /\ ~WriteFails(p) /\ ~DiscoverRead(p)
        /\ \A i \in Inst : ~ExternalEdit(i)
        /\ \A p \in Proc : ~DiscoverSave(p)
    BY DEF TypeOK, Crash, WriteFails, DiscoverRead, ExternalEdit, DiscoverSave, FingerprintInv,
           Tracked
  <1>9. ASSUME NEW p \in Proc
        PROVE  /\ RollbackFails(p) => pc[p] = "resync"
               /\ Replace(p) => pc'[p] = "sync"
    <2>1. RollbackFails(p) => pc[p] = "resync"
      BY DEF RollbackFails
    <2>2. Replace(p) => pc'[p] = "sync"
      BY DEF Replace, Goto
    <2> QED
      BY <2>1, <2>2
  <1>2. \A p \in Proc : pc[p] \in Updating \cup Changing \cup {"locked"} =>
          Holds(p) /\ I(p) \in Inst
    BY AtWorkSent DEF Updating, Changing, Holds, UnderLock, Working, Steps
  <1>3. /\ stored \in [Inst -> Content \cup {Absent}]
        /\ copy \in [Proc -> [Inst -> Content \cup {Absent}]] /\ Absent \notin Content
    BY HelperAssumption DEF TypeOK, Absent, Content
  <1>4. ASSUME NEW p \in Proc, UpdateWrite(p)
        PROVE  /\ pc[p] = "update-write" /\ Holds(p) /\ I(p) \in Inst
               /\ pc'[p] = "record" /\ UNCHANGED config
               /\ \A i \in Inst : stored'[i] = upd[p] /\ stored'[i] = config[i]
    <2>1. pc[p] = "update-write" /\ Holds(p) /\ I(p) \in Inst
      BY <1>2, <1>4 DEF UpdateWrite, Updating
    <2>2. copy[p][I(p)] # Absent /\ config[I(p)] = upd[p]
      BY <1>3, <2>1 DEF FingerprintInv, Tracked, Updating
    <2>3. stored' = [copy[p] EXCEPT ![I(p)] = upd[p]] /\ pc'[p] = "record" /\ UNCHANGED config
      BY <1>4, <2>2 DEF UpdateWrite, Goto
    <2>4. stored'[I(p)] = upd[p]
      BY <1>3, <2>1, <2>3
    <2> QED
      BY <2>1, <2>2, <2>3, <2>4
  <1>5. ASSUME NEW q \in Proc, Same(q)
        PROVE  Tracked(q)'
    <2>1. Tracked(q) /\ I(q)' = I(q)
      BY <1>5 DEF FingerprintInv, Same, I
    <2>2. ASSUME pc[q] \in Updating \cup Changing
          PROVE  config'[I(q)] = config[I(q)] /\ stored'[I(q)] = stored[I(q)]
      <3>1. Holds(q) /\ I(q) \in Inst
        BY <1>2, <2>2
      <3>2. ASSUME NEW p \in Proc, Writes(p, I(q))
            PROVE  FALSE
        BY <1>5, <3>1, <3>2, Disjoint DEF Writes, Replace, RestoreFile, Goto, Same
      <3>3. ASSUME NEW p \in Proc, UpdateWrite(p)
            PROVE  FALSE
        BY <1>4, <1>5, <3>1, <3>3, Disjoint DEF Same
      <3> QED
        BY <1>1, <3>1, <3>2, <3>3, ConfigSteps, StoredSteps
    <2>3. pc'[q] = pc[q] /\ base'[q] = base[q] /\ upd'[q] = upd[q] /\ copy'[q] = copy[q]
      BY <1>5 DEF Same
    <2> QED
      BY <2>1, <2>2, <2>3 DEF Tracked, Updating, Changing
  <1>6. ASSUME NEW p \in Proc, Acts(p)
        PROVE  Tracked(p)'
    <2>1. Tracked(p)
      BY DEF FingerprintInv
    <2> USE DEF Tracked, Updating, Changing, Goto, memory, files
    <2>3. CASE ReadConfig(p)
      <3>1. stored[I(p)] = config[I(p)]
        <4>1. pc[p] = "locked" /\ Holds(p) /\ I(p) \in Inst
          BY <1>2, <2>3 DEF ReadConfig
        <4>2. ASSUME NEW q \in Proc, pc[q] \in Updating, I(q) = I(p)
              PROVE  FALSE
          BY <1>2, <4>1, <4>2, Disjoint
        <4> QED
          BY <4>1, <4>2 DEF FingerprintInv
      <3>2. I(p)' = I(p) /\ base'[p] = config[I(p)] /\ UNCHANGED <<config, stored>>
        BY <2>3 DEF ReadConfig, I
      <3>3. \/ pc'[p] \in {"save-suspended", "mv"}
            \/ pc'[p] = "clean-suspended" /\ upd'[p] = config[I(p)]
        BY <2>3 DEF ReadConfig
      <3> QED
        BY <3>1, <3>2, <3>3
    <2>4. CASE SaveSuspended(p) \/ Resync(p) \/ CleanSuspended(p) \/ RewritePolicies(p)
      BY <2>1, <2>4 DEF SaveSuspended, Resync, CleanSuspended, RewritePolicies, I
    <2>5. CASE Replace(p) \/ RestoreFile(p)
      <3>1. I(p) \in Inst
        BY <1>2, <2>5 DEF Replace, RestoreFile
      <3> QED
        BY <2>1, <2>5, <3>1 DEF Replace, RestoreFile, I
    <2>6. CASE Sync(p)
      <3>1. UNCHANGED <<config, stored, base, upd, req, copy>> /\ pc[p] = "sync"
        BY <2>6 DEF Sync
      <3>2. pc'[p] \in {"rollback", "update-read", "policies", "clean-suspended"}
        BY <2>6 DEF Sync, AfterApply
      <3> QED
        BY <2>1, <3>1, <3>2 DEF I
    <2>7. CASE UpdateRead(p)
      <3>1. I(p) \in Inst /\ stored[I(p)] \in Content
        BY <1>0, <2>7, RequestTypes DEF UpdateRead, FingerprintInv, Working, Steps
      <3>2. copy'[p] = stored
        BY <1>3, <2>7 DEF UpdateRead
      <3> QED
        BY <2>1, <2>7, <3>1, <3>2 DEF UpdateRead, I
    <2>8. CASE UpdateWrite(p)
      BY <1>4, <2>8
    <2>9. ASSUME ~(ReadConfig(p) \/ SaveSuspended(p) \/ Resync(p) \/ CleanSuspended(p)
                   \/ RewritePolicies(p) \/ Replace(p) \/ RestoreFile(p) \/ Sync(p)
                   \/ UpdateRead(p) \/ UpdateWrite(p) \/ RollbackFails(p))
          PROVE  pc'[p] \in {"begun", "loaded", "locked", "project", "record", "fail", "undo",
                             "idle", "loop"}
      BY <1>1, <1>6, <2>9
         DEF Acts, Call, Begin, Mutation, TakePolicyLock, LoadInstance, TakeInstanceLock,
             RejectEdit, RejectApply, Undo, RecordSucceeded, RecordFailed, Conclude, Project, Enforce,
             StartEnforce, EnforceDue, EnforceDisable, EnforceReplay, EnforceSave, Discover
    <2>10. CASE RollbackFails(p)
      BY <2>10 DEF RollbackFails
    <2> QED
      BY <2>3, <2>4, <2>5, <2>6, <2>7, <2>8, <2>9, <2>10
  <1>7. ASSUME NEW i \in Inst, \A q \in Proc : ~(pc'[q] \in Updating /\ I(q)' = i)
        PROVE  stored'[i] = config'[i]
    <2>1. CASE \E p \in Proc : UpdateWrite(p)
      BY <1>4, <2>1
    <2>2. ASSUME ~(\E p \in Proc : UpdateWrite(p))
          PROVE  stored'[i] = config'[i]
      <3>1. UNCHANGED stored
        BY <2>2, StoredSteps
      <3>2. ASSUME NEW p \in Proc, pc[p] \in Updating, I(p) = i
            PROVE  stored'[i] = config'[i]
        <4>1. Acts(p)
          BY <1>7, <3>2, Actors DEF Same, I
        <4>2. CASE Resync(p) \/ RollbackFails(p)
          BY <1>9, <3>1, <3>2, <4>2
             DEF Resync, RollbackFails, files, FingerprintInv, Tracked, Changing
        <4>3. CASE ~(Resync(p) \/ RollbackFails(p))
          <5>1. Sync(p) \/ RestoreFile(p) \/ CleanSuspended(p) \/ RewritePolicies(p) \/ UpdateRead(p)
            BY <1>1, <2>2, <3>2, <4>1, <4>3
               DEF Acts, Call, Begin, Mutation, TakePolicyLock, LoadInstance, TakeInstanceLock,
                   RejectEdit, ReadConfig, SaveSuspended, RejectApply, Replace, Undo,
                   RecordSucceeded, RecordFailed, Project, Enforce, StartEnforce, EnforceDue,
                   EnforceSave, Discover, Updating
          <5>2. pc'[p] \in Updating /\ I(p)' = I(p)
            BY <5>1 DEF Sync, AfterApply, RestoreFile, CleanSuspended, RewritePolicies, UpdateRead,
                        Goto, Updating, I, memory
          <5> QED
            BY <1>7, <3>2, <5>2
        <4> QED
          BY <4>2, <4>3
      <3>3. ASSUME \A p \in Proc : ~(pc[p] \in Updating /\ I(p) = i)
            PROVE  stored'[i] = config'[i]
        <4>1. stored[i] = config[i]
          BY <3>3 DEF FingerprintInv
        <4>2. ASSUME NEW p \in Proc, Writes(p, i)
              PROVE  FALSE
          BY <1>7, <3>3, <4>2 DEF Writes, Replace, RestoreFile, Goto, Updating, I
        <4> QED
          BY <1>1, <3>1, <4>1, <4>2, ConfigSteps
      <3> QED
        BY <3>2, <3>3
    <2> QED
      BY <2>1, <2>2
  <1>8. \A i \in Inst : stored'[i] \in Content
    <2>1. ASSUME NEW p \in Proc, UpdateWrite(p), NEW i \in Inst
          PROVE  stored'[i] \in Content
      BY <1>4, <2>1
    <2> QED
      BY <2>1, StoredSteps DEF FingerprintInv
  <1> QED
    BY <1>5, <1>6, <1>7, <1>8, Actors DEF FingerprintInv

(* On a node with one instance, without discovery and failing writes of    *)
(* Helper state, the fingerprint Helper keeps, which Enforce sends with its*)
(* disable, is that of the file whenever nobody is mutating the instance,  *)
(* as long as no process is killed, nobody edits the file outside and no   *)
(* Apply has ended in an error and left its file in place (`stuck`).       *)
THEOREM FingerprintCurrentHolds ==
  ASSUME \A i, j \in Inst : i = j, ~WriteMayFail, ~Discovery, ~EditsRace
  PROVE  Spec => [](crashes = 0 /\ edits = 0 => FingerprintCurrent)
  <1>1. ASSUME Init
        PROVE  FingerprintInv
    <2>1. /\ \A p \in Proc : pc[p] = "idle"
          /\ stored = config
      BY <1>1 DEF Init
    <2>2. RequestInv
      BY <1>1, PeerInvInit DEF PeerInv
    <2> QED
      BY <2>1, <2>2, Shapes DEF FingerprintInv, Tracked, Changing, Updating
  <1>2. RequestInv /\ (Undisturbed => FingerprintInv) /\ [Next]_vars
          => (Undisturbed => FingerprintInv)'
    BY CountersGrow, FingerprintStep
  <1>3. ASSUME FingerprintInv
        PROVE  FingerprintCurrent
    <2> SUFFICES ASSUME NEW i \in Inst, NEW p \in Proc, pc[p] \in Updating, I(p) = i
                 PROVE  instLock[i] # None
      BY <1>3 DEF FingerprintInv, FingerprintCurrent
    <2>1. Holds(p) /\ Progress(p)
      BY <1>3 DEF FingerprintInv, RequestInv, Updating, Holds, UnderLock
    <2> QED
      BY <2>1, HelperAssumption DEF Progress
  <1>4. RequestInv /\ crashes = 0 /\ edits = 0 /\ ~Undisturbed => FingerprintCurrent
    BY HelperAssumption DEF Undisturbed, FingerprintCurrent, RequestInv, TypeOK
  <1> QED
    BY <1>1, <1>2, <1>3, <1>4, RequestInvHolds, PTL DEF Spec
=============================================================================
