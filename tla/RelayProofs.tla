---------------------------- MODULE RelayProofs -----------------------------
(***************************************************************************)
(* Proofs about Relay.  JournalInv, what a process that holds the lock     *)
(* knows, gives the types, the single pending record and the refinement of *)
(* RelayAtomic.  ServiceInv adds the service, as long as nginx does not    *)
(* die under a request.                                                    *)
(***************************************************************************)
EXTENDS Relay, RelayRoutesProofs

-----------------------------------------------------------------------------
(* The files a change asks for are files.                                  *)

LEMMA FilesEdit ==
  ASSUME NEW f \in Files, NEW g \in Files
  PROVE  /\ [f EXCEPT !.config = g.config] \in Files
         /\ [f EXCEPT !.unit = g.unit] \in Files
         /\ [f EXCEPT !.routes = g.routes] \in Files
BY DEF Files

LEMMA NoFilesType == NoFiles \in Files /\ NoSnapshot \in Snapshot
BY DEF NoFiles, Files, NoSnapshot, Snapshot

-----------------------------------------------------------------------------
(* Types.                                                                  *)

LEMMA CapturedType ==
  ASSUME TypeOK PROVE Captured \in Snapshot
BY DEF TypeOK, Captured, Snapshot, Enabled, Files

\* A process at work has typed files to put in place, or to put back.
LEMMA Goals ==
  ASSUME JournalInv, NEW p \in Proc
  PROVE  /\ before[p] \in Snapshot /\ before[p].files \in Files
         /\ pc[p] \in Applying =>
              /\ req[p].change \in Change
              /\ Target(p) \in Files
              /\ ~Uninstalls(p) => Target(p).config \in Config
              /\ Target(p).unit = ~Uninstalls(p)
<1>1. before[p] \in Snapshot /\ before[p].files \in Files
  BY DEF JournalInv, TypeOK, Snapshot
<1>2. ASSUME pc[p] \in Applying
      PROVE  req[p].change \in Change /\ Applicable(req[p].change, before[p].files)
  BY <1>2 DEF JournalInv, Journaled, FilesAt, Feasible, Request, Applying
<1> QED BY <1>1, <1>2, DeployedType DEF Target, Uninstalls

LEMMA ExitType ==
  ASSUME TypeOK, NEW p \in Proc, Exit(p)
  PROVE  /\ lock' \in Proc \cup {None} /\ pc' \in [Proc -> Steps]
         /\ req' \in [Proc -> Request \cup {NoRequest}]
         /\ before' \in [Proc -> Snapshot]
         /\ fixing' \in [Proc -> OpId \cup {None}]
BY NoFilesType DEF TypeOK, Exit, Goto, Steps

LEMMA TypeInit == Init => TypeOK
<1> SUFFICES ASSUME Init PROVE TypeOK
  OBVIOUS
<1>1. files \in Files /\ journal \in [OpId -> Record] /\ before \in [Proc -> Snapshot]
  BY NoFilesType DEF Init, Settled, Record
<1>2. crashes \in 0..MaxCrashes
  BY RelayAssumption DEF Init
<1> QED BY <1>1, <1>2 DEF Init, TypeOK, Config, Steps

LEMMA TypeApply ==
  ASSUME JournalInv, NEW p \in Proc, Apply(p)
  PROVE  TypeOK'
<1> USE DEF JournalInv, Goto, memory, host, env
<1>0. TypeOK /\ files \in Files
  BY DEF TypeOK
<1>1. CASE Stop(p)
  BY <1>0, <1>1 DEF Stop, StopService, TypeOK, Config, Steps
<1>2. CASE WriteConfig(p)
  BY <1>0, <1>2, Goals, FilesEdit DEF WriteConfig, TypeOK, Steps, Applying
<1>3. CASE WriteUnit(p)
  BY <1>0, <1>3, Goals, FilesEdit DEF WriteUnit, TypeOK, Steps, Applying
<1>4. CASE WriteRoutes(p)
  BY <1>0, <1>4, Goals, FilesEdit DEF WriteRoutes, TypeOK, Steps, Applying
<1>5. CASE Start(p)
  <2>1. ~Uninstalls(p) => files.config \in Config
    BY <1>5, Goals DEF Start, Applying, FilesAt
  <2> QED BY <1>0, <1>5, <2>1
          DEF Start, StartService, ReloadService, TypeOK, Steps
<1>6. CASE Verify(p)
  BY <1>0, <1>6 DEF Verify, TypeOK, Steps, Back
<1>7. CASE Confirm(p)
  <2>1. journal' \in [OpId -> Record]
    BY <1>0, <1>7, NoFilesType DEF Confirm, TypeOK, Settled, Record
  <2>2. CASE Exit(p)
    BY <1>0, <1>7, <2>1, <2>2, ExitType DEF Confirm, TypeOK
  <2>3. CASE ~Exit(p)
    BY <1>0, <1>7, <2>1, <2>3 DEF Confirm, TypeOK, Steps, Back
  <2> QED BY <2>2, <2>3
<1>8. CASE ApplyFails(p)
  BY <1>0, <1>8 DEF ApplyFails, TypeOK, Steps, Back
<1> QED BY <1>1, <1>2, <1>3, <1>4, <1>5, <1>6, <1>7, <1>8 DEF Apply

LEMMA TypeRollback ==
  ASSUME JournalInv, NEW p \in Proc, Rollback(p)
  PROVE  TypeOK'
<1> USE DEF JournalInv, Goto, memory, host, env
<1>0. TypeOK /\ files \in Files
  BY DEF TypeOK
<1>1. CASE BackStop(p)
  BY <1>0, <1>1 DEF BackStop, StopService, TypeOK, Config, Steps, Back
<1>2. CASE BackConfig(p)
  BY <1>0, <1>2, Goals, FilesEdit DEF BackConfig, TypeOK, Steps, Back
<1>3. CASE BackUnit(p)
  BY <1>0, <1>3, Goals, FilesEdit DEF BackUnit, TypeOK, Steps, Back
<1>4. CASE BackRoutes(p)
  BY <1>0, <1>4, Goals, FilesEdit DEF BackRoutes, TypeOK, Steps, Back
<1>5. CASE BackStart(p)
  <2>1. Installed(before[p].files) => files.config \in Config
    BY <1>5, Goals DEF BackStart, FilesAt, Installed, Files
  <2> QED BY <1>0, <1>5, <2>1 DEF BackStart, StartService, TypeOK, Steps, Back
<1>6. CASE BackEnable(p)
  <2>1. link' \in BOOLEAN
    BY <1>0, <1>6 DEF BackEnable, TypeOK
  <2> QED BY <1>0, <1>6, <2>1 DEF BackEnable, TypeOK, Steps, Back
<1>7. CASE BackRecord(p)
  <2>1. Settled("failed") \in Record
    BY NoFilesType DEF Settled, Record
  <2>2. CASE fixing[p] # None
    BY <1>0, <1>7, <2>1, <2>2, NoFilesType DEF BackRecord, TypeOK, Steps
  <2>3. CASE fixing[p] = None
    BY <1>0, <1>7, <2>1, <2>3, ExitType DEF BackRecord, TypeOK
  <2> QED BY <2>2, <2>3
<1>8. CASE GiveUp(p)
  BY <1>0, <1>8, ExitType DEF GiveUp, TypeOK
<1> QED BY <1>1, <1>2, <1>3, <1>4, <1>5, <1>6, <1>7, <1>8 DEF Rollback

LEMMA TypeStep == JournalInv /\ [Next]_vars => TypeOK'
<1> SUFFICES ASSUME JournalInv, [Next]_vars PROVE TypeOK'
  OBVIOUS
<1> USE DEF JournalInv, Goto, memory, host, env
<1>0. TypeOK /\ files \in Files
  BY DEF TypeOK
<1>1. ASSUME NEW p \in Proc, Call(p) PROVE TypeOK'
  <2>1. PICK k \in OpId, ch \in Change :
          \E f \in {files} \cup {journal[m].before.files : m \in {n \in OpId : Pending(n)}} :
            Begin(p, [id |-> k, change |-> ch, fp |-> f])
    BY <1>1 DEF Call
  <2>2. PICK f \in {files} \cup {journal[m].before.files : m \in {n \in OpId : Pending(n)}} :
          Begin(p, [id |-> k, change |-> ch, fp |-> f])
    BY <2>1
  <2>3. f \in Files
    BY <1>0, <2>2 DEF TypeOK, Record, Snapshot
  <2>4. [id |-> k, change |-> ch, fp |-> f] \in Request
    BY <2>3 DEF Request
  <2> QED BY <1>0, <2>2, <2>4 DEF Begin, TypeOK, Steps
<1>2. ASSUME NEW p \in Proc, NEW k \in OpId, Recover(p, k) PROVE TypeOK'
  <2>1. journal[k].before \in Snapshot
    BY <1>0 DEF TypeOK, Record
  <2> QED BY <1>0, <1>2, <2>1 DEF Recover, TypeOK, Steps, Back
<1>3. ASSUME NEW p \in Proc, Recovered(p) PROVE TypeOK'
  BY <1>0, <1>3 DEF Recovered, TypeOK, Steps
<1>4. ASSUME NEW p \in Proc, Refuse(p) PROVE TypeOK'
  BY <1>0, <1>4, ExitType DEF Refuse, TypeOK
<1>5. ASSUME NEW p \in Proc, Accept(p) PROVE TypeOK'
  <2>1. Captured \in Snapshot
    BY <1>0, CapturedType
  <2>2. journal' \in [OpId -> Record]
    BY <1>0, <1>5, <2>1 DEF Accept, TypeOK, Record
  <2>3. CASE Exit(p)
    BY <1>0, <1>5, <2>2, <2>3, ExitType DEF Accept, TypeOK
  <2>4. CASE ~Exit(p)
    BY <1>0, <1>5, <2>1, <2>2, <2>4 DEF Accept, TypeOK, Steps
  <2> QED BY <2>3, <2>4
<1>6. ASSUME NEW p \in Proc, Crash(p) PROVE TypeOK'
  <2>1. crashes' \in 0..MaxCrashes
    BY <1>0, <1>6, RelayAssumption DEF Crash, TypeOK
  <2> QED BY <1>0, <1>6, <2>1, ExitType DEF Crash, TypeOK
<1>7. CASE Reboot
  <2>1. crashes' \in 0..MaxCrashes
    BY <1>0, <1>7, RelayAssumption DEF Reboot, TypeOK
  <2>2. service' \in {"inactive", "active"} /\ serving' \in Config
    BY <1>0, <1>7 DEF Reboot, Installed, Files, Config
  <2> QED BY <1>0, <1>7, <2>1, <2>2, NoFilesType DEF Reboot, TypeOK, Steps
<1>8. CASE NginxDies
  BY <1>0, <1>8 DEF NginxDies, TypeOK, Config
<1>9. CASE NginxRestarts
  BY <1>0, <1>9 DEF NginxRestarts, TypeOK, Installed, Files
<1>10. CASE UNCHANGED vars
  BY <1>0, <1>10 DEF vars, TypeOK
<1> QED
  BY <1>1, <1>2, <1>3, <1>4, <1>5, <1>6, <1>7, <1>8, <1>9, <1>10,
     TypeApply, TypeRollback DEF Next

-----------------------------------------------------------------------------
(* Only the holder of the lock is at work, so the others need no care.     *)

Quiet(q) ==
  pc'[q] = "idle" /\ fixing'[q] = None

LEMMA Alone ==
  ASSUME JournalInv, NEW p \in Proc, pc[p] # "idle" \/ lock = None,
         NEW q \in Proc, q # p
  PROVE  pc[q] = "idle" /\ fixing[q] = None
BY RelayAssumption DEF JournalInv, Journaled, Back

LEMMA QuietIsFine ==
  ASSUME NEW q \in Proc, Quiet(q)
  PROVE  Journaled(q)' /\ FilesAt(q)' /\ ServiceAt(q)'
BY DEF Quiet, Journaled, Misled, FilesAt, ServiceAt, Applying, Back

LEMMA OthersQuiet ==
  ASSUME JournalInv, NEW p \in Proc, NEW q \in Proc, q # p,
         \/ Call(p) \/ Recovered(p) \/ Refuse(p) \/ Accept(p)
         \/ \E k \in OpId : Recover(p, k)
         \/ Apply(p) \/ Rollback(p) \/ Crash(p)
  PROVE  Quiet(q)
<1> USE DEF Goto, memory
<1>0. TypeOK
  BY DEF JournalInv
<1>1. CASE Call(p)
  BY <1>0, <1>1, Alone DEF Call, Begin, Quiet, TypeOK
<1>2. CASE Recovered(p) \/ Refuse(p) \/ Accept(p) \/ \E k \in OpId : Recover(p, k)
  BY <1>0, <1>2, Alone DEF Recovered, Refuse, Accept, Recover, Exit, Quiet, TypeOK
<1>3. CASE Apply(p)
  <2>1. pc[p] # "idle"
    BY <1>3 DEF Apply, Stop, WriteConfig, WriteUnit, WriteRoutes, Start, Verify,
                Confirm, ApplyFails
  <2> QED BY <1>0, <1>3, <2>1, Alone
     DEF Apply, Stop, WriteConfig, WriteUnit, WriteRoutes, Start, Verify, Confirm,
         ApplyFails, Exit, Quiet, TypeOK
<1>4. CASE Rollback(p)
  <2>1. pc[p] # "idle"
    BY <1>4 DEF Rollback, BackStop, BackConfig, BackUnit, BackRoutes, BackStart,
                BackEnable, BackRecord, GiveUp, Back
  <2> QED BY <1>0, <1>4, <2>1, Alone
     DEF Rollback, BackStop, BackConfig, BackUnit, BackRoutes, BackStart, BackEnable,
         BackRecord, GiveUp, Exit, Quiet, TypeOK
<1>5. CASE Crash(p)
  BY <1>0, <1>5, Alone DEF Crash, Exit, Quiet, TypeOK
<1> QED BY <1>1, <1>2, <1>3, <1>4, <1>5

-----------------------------------------------------------------------------
(* The holder of the lock: its record and the files, step by step.         *)

\* The steps that leave the journal alone and stay in the same operation.
Continues(p) ==
  /\ UNCHANGED <<journal, lock, req, before, fixing>>
  /\ pc'[p] \in Applying \cup Back

LEMMA ContinuesJournaled ==
  ASSUME JournalInv, NEW p \in Proc, pc[p] \in Applying \cup Back, Continues(p),
         pc'[p] \in Applying => pc[p] \in Applying
  PROVE  Journaled(p)' /\ OneAtATime'
<1>1. /\ UNCHANGED Work(p) /\ \A k : Pending(k)' <=> Pending(k)
      /\ Misled(p)' <=> Misled(p)
  BY DEF Continues, Work, Pending, Misled, JournalInv, Journaled, Applying, Back
<1>2. pc[p] # "idle" /\ pc'[p] # "request"
  BY DEF Continues, Applying, Back
<1>3. (pc'[p] \notin Back => fixing[p] = None)
  BY DEF JournalInv, Journaled, Continues, Applying, Back
<1> QED BY <1>1, <1>2, <1>3 DEF JournalInv, Journaled, Continues, OneAtATime

LEMMA JournalApply ==
  ASSUME JournalInv, NEW p \in Proc, Apply(p)
  PROVE  Journaled(p)' /\ FilesAt(p)' /\ OneAtATime'
<1> USE DEF Goto, memory, host
<1>0. TypeOK /\ files \in Files /\ Journaled(p) /\ FilesAt(p)
  BY DEF JournalInv, TypeOK
<1>1. CASE Confirm(p)
  <2>1. Pending(req[p].id) /\ req[p].id \in OpId /\ lock = p /\ req[p] \in Request
        /\ fixing[p] = None
    BY <1>0, <1>1 DEF Confirm, Journaled, Work, Applying, Back, Request
  <2>2. \A k \in OpId : Pending(k)' => Pending(k)
    BY <1>0, <1>1 DEF Confirm, Pending, TypeOK, Settled
  <2>3. OneAtATime'
    BY <1>0, <1>1, <2>2 DEF JournalInv, Confirm, OneAtATime, TypeOK,
                            Settled, NoSnapshot
  <2>4. CASE Exit(p)
    <3>1. Quiet(p)
      BY <1>0, <2>4 DEF Exit, Quiet, TypeOK
    <3> QED BY <2>3, <3>1, QuietIsFine
  <2>5. CASE ~Exit(p)
    <3>1. /\ pc'[p] = "back-stop" /\ UNCHANGED <<lock, req, fixing>>
          /\ Work(p)' = req[p].id
      BY <1>0, <1>1, <2>1, <2>5 DEF Confirm, TypeOK, Work
    <3>2. journal'[req[p].id].status = "succeeded" /\ \A k \in OpId : ~Pending(k)'
      BY <1>0, <1>1, <2>1 DEF Confirm, Settled, TypeOK, Pending, JournalInv, OneAtATime
    <3>3. Misled(p)'
      BY <3>1, <3>2 DEF Misled, Pending, Back
    <3> QED BY <2>1, <2>3, <3>1, <3>2, <3>3 DEF Journaled, FilesAt, Applying, Back
  <2> QED BY <2>3, <2>4, <2>5
<1>2. CASE ~Confirm(p)
  <2>1. /\ pc[p] \in Applying /\ Continues(p)
        /\ UNCHANGED Target(p) /\ (Uninstalls(p)' <=> Uninstalls(p))
    BY <1>0, <1>2 DEF Apply, Stop, WriteConfig, WriteUnit, WriteRoutes, Start, Verify,
                 ApplyFails, Applying, Back, Continues, TypeOK, Target, Uninstalls
  <2>2. Journaled(p)' /\ OneAtATime'
    BY <2>1, ContinuesJournaled
  <2>3. Feasible(p)'
    BY <1>0, <2>1 DEF FilesAt, Feasible, Continues
  <2> HIDE DEF host
  <2>4. CASE Stop(p)
    BY <1>0, <2>1, <2>2, <2>3, <2>4 DEF Stop, FilesAt, TypeOK, Applying, Back
  <2>5. CASE WriteConfig(p)
    BY <1>0, <2>1, <2>2, <2>3, <2>5 DEF WriteConfig, FilesAt, TypeOK, Applying, Back, Files
  <2>6. CASE WriteUnit(p)
    BY <1>0, <2>1, <2>2, <2>3, <2>6 DEF WriteUnit, FilesAt, TypeOK, Applying, Back, Files
  <2>7. CASE WriteRoutes(p)
    <3>1. Target(p) \in Files
      BY <2>1, Goals
    <3>2. files' = Target(p)
      BY <1>0, <2>7, <3>1 DEF WriteRoutes, FilesAt, Files
    <3> QED BY <1>0, <2>1, <2>2, <2>3, <2>7, <3>2 DEF WriteRoutes, FilesAt, TypeOK, Applying, Back
  <2>8. CASE Start(p)
    <3>1. files' = Target(p) /\ (~Uninstalls(p) => link')
      BY <1>0, <2>8 DEF Start, StartService, ReloadService, FilesAt, host
    <3> QED BY <1>0, <2>1, <2>2, <2>3, <2>8, <3>1 DEF Start, FilesAt, TypeOK, Applying, Back
  <2>9. CASE Verify(p)
    BY <1>0, <2>1, <2>2, <2>3, <2>9 DEF Verify, FilesAt, TypeOK, Applying, Back, host
  <2>10. CASE ApplyFails(p)
    BY <1>0, <2>1, <2>2, <2>3, <2>10 DEF ApplyFails, FilesAt, TypeOK, Applying, Back
  <2> QED BY <1>2, <2>2, <2>4, <2>5, <2>6, <2>7, <2>8, <2>9, <2>10 DEF Apply
<1> QED BY <1>1, <1>2

LEMMA JournalRollback ==
  ASSUME JournalInv, NEW p \in Proc, Rollback(p)
  PROVE  Journaled(p)' /\ FilesAt(p)' /\ OneAtATime'
<1> USE DEF Goto, memory
<1>0. TypeOK /\ files \in Files /\ Journaled(p) /\ FilesAt(p) /\ pc[p] \in Back
  BY DEF JournalInv, TypeOK, Rollback, BackStop, BackConfig, BackUnit, BackRoutes,
         BackStart, BackEnable, BackRecord, GiveUp, Back
<1>1. before[p] \in Snapshot /\ before[p].files \in Files
  BY Goals
<1>2. /\ Work(p) \in OpId
      /\ ~Misled(p) => Pending(Work(p)) /\ journal[Work(p)].before = before[p]
  BY <1>0 DEF Journaled, Misled, Work, TypeOK, Request, Back
<1>3. CASE BackRecord(p)
  <2>1. journal' = [journal EXCEPT ![Work(p)] = Settled("failed")]
    BY <1>0, <1>3 DEF BackRecord, Work
  <2>2. /\ \A k \in OpId : Pending(k)' <=> Pending(k) /\ k # Work(p)
        /\ OneAtATime'
    BY <1>0, <1>2, <2>1 DEF JournalInv, Pending, OneAtATime, TypeOK,
                            Settled, NoSnapshot
  <2>3. CASE fixing[p] = None
    <3>1. Quiet(p)
      BY <1>0, <1>3, <2>3 DEF BackRecord, Exit, Quiet, TypeOK
    <3> QED BY <2>2, <3>1, QuietIsFine
  <2>4. CASE fixing[p] # None
    <3>1. /\ pc'[p] = "recover" /\ fixing'[p] = None
          /\ UNCHANGED <<lock, req>>
      BY <1>0, <1>3, <2>4 DEF BackRecord, TypeOK
    <3> QED BY <1>0, <2>2, <3>1 DEF Journaled, Misled, FilesAt, Applying, Back
  <2> QED BY <2>3, <2>4
<1>4. CASE GiveUp(p)
  <2>1. Quiet(p)
    BY <1>0, <1>4 DEF GiveUp, Exit, Quiet, TypeOK
  <2>2. OneAtATime'
    BY <1>4 DEF JournalInv, GiveUp, OneAtATime, Pending
  <2> QED BY <2>1, <2>2, QuietIsFine
<1>5. CASE ~BackRecord(p) /\ ~GiveUp(p)
  <2>1. Continues(p) /\ pc'[p] \in Back
    BY <1>0, <1>5 DEF Rollback, BackStop, BackConfig, BackUnit, BackRoutes, BackStart,
                      BackEnable, Back, Continues, TypeOK
  <2>2. Journaled(p)' /\ OneAtATime'
    BY <1>0, <2>1, ContinuesJournaled DEF Applying, Back
  <2>3. CASE BackStop(p)
    BY <1>0, <2>2, <2>3 DEF BackStop, FilesAt, TypeOK, Applying, Back
  <2>4. CASE BackConfig(p)
    BY <1>0, <2>2, <1>1, <2>4 DEF BackConfig, FilesAt, TypeOK, Applying, Back, Files
  <2>5. CASE BackUnit(p)
    BY <1>0, <2>2, <1>1, <2>5 DEF BackUnit, FilesAt, TypeOK, Applying, Back, Files
  <2>6. CASE BackRoutes(p)
    <3>1. files' = before[p].files
      BY <1>0, <1>1, <2>6 DEF BackRoutes, FilesAt, Files
    <3> QED BY <1>0, <2>2, <2>6, <3>1 DEF BackRoutes, FilesAt, TypeOK, Applying, Back
  <2>7. CASE BackStart(p)
    BY <1>0, <2>2, <2>7 DEF BackStart, StartService, FilesAt, TypeOK, Applying, Back, host
  <2>8. CASE BackEnable(p)
    <3>1. before[p].enabled => before[p].files.unit
      BY DEF JournalInv, BootNeedsUnit
    <3>2. Enabled' = before[p].enabled
      BY <1>0, <1>1, <2>8, <3>1 DEF BackEnable, FilesAt, Enabled, Snapshot, Files, TypeOK
    <3> QED BY <1>0, <2>2, <2>8, <3>2 DEF BackEnable, FilesAt, TypeOK, Applying, Back
  <2> QED BY <1>5, <2>2, <2>3, <2>4, <2>5, <2>6, <2>7, <2>8 DEF Rollback
<1> QED BY <1>3, <1>4, <1>5

\* What begins or ends an operation, and the environment.
LEMMA JournalControl ==
  ASSUME JournalInv, NEW p \in Proc,
         \/ Call(p) \/ Recovered(p) \/ Refuse(p) \/ Accept(p)
         \/ \E k \in OpId : Recover(p, k)
         \/ Crash(p)
  PROVE  Journaled(p)' /\ FilesAt(p)' /\ OneAtATime'
<1> USE DEF Goto, memory, host
<1>0. TypeOK /\ TypeOK' /\ Journaled(p)
  BY TypeStep DEF JournalInv, Next
<1>1. ASSUME UNCHANGED journal PROVE OneAtATime'
  BY <1>1 DEF JournalInv, OneAtATime, Pending
<1>2. CASE Call(p)
  <2>1. /\ pc'[p] = "recover" /\ lock' = p /\ fixing'[p] = None
        /\ req'[p] # NoRequest /\ UNCHANGED journal
    BY <1>0, <1>2, RelayAssumption
       DEF Call, Begin, TypeOK, NoRequest, Journaled, Back
  <2>2. req'[p] \in Request
    BY <1>0, <2>1 DEF TypeOK
  <2> QED BY <1>1, <2>1, <2>2 DEF Journaled, Misled, FilesAt, Applying, Back
<1>3. CASE Recovered(p)
  <2>1. /\ pc'[p] = "request" /\ fixing'[p] = None /\ lock' = p
        /\ req'[p] \in Request /\ UNCHANGED journal /\ \A k \in OpId : ~Pending(k)
    BY <1>0, <1>3 DEF Recovered, TypeOK, Journaled, Back
  <2>2. \A k \in OpId : ~Pending(k)'
    BY <2>1 DEF Pending
  <2> QED BY <1>1, <2>1, <2>2 DEF Journaled, Misled, FilesAt, Applying, Back
<1>4. CASE Refuse(p) \/ Crash(p)
  <2>1. Quiet(p) /\ UNCHANGED journal
    BY <1>0, <1>4 DEF Refuse, Crash, Exit, Quiet, TypeOK
  <2> QED BY <1>1, <2>1, QuietIsFine
<1>5. ASSUME NEW k \in OpId, Recover(p, k)
      PROVE  Journaled(p)' /\ FilesAt(p)' /\ OneAtATime'
  <2>1. /\ pc'[p] = "back-stop" /\ fixing'[p] = k /\ lock' = p
        /\ req'[p] \in Request /\ before'[p] = journal[k].before
        /\ UNCHANGED journal /\ Pending(k)
    BY <1>0, <1>5 DEF Recover, TypeOK, Journaled
  <2>2. Pending(k)' /\ Work(p)' = k
    BY <2>1, RelayAssumption DEF Pending, Work
  <2> QED BY <1>1, <2>1, <2>2 DEF Journaled, Misled, FilesAt, Applying, Back
<1>6. CASE Accept(p)
  <2>1. /\ \A k \in OpId : ~Pending(k)
        /\ req[p] \in Request /\ lock = p /\ fixing[p] = None
    BY <1>0, <1>6 DEF Accept, Journaled, Back
  <2>2. journal' = [journal EXCEPT ![req[p].id] = [status |-> "pending", before |-> Captured]]
    BY <1>6 DEF Accept
  <2>3. \A k \in OpId : Pending(k)' <=> k = req[p].id
    BY <1>0, <2>1, <2>2 DEF Pending, TypeOK
  <2>4. OneAtATime'
    BY <2>3 DEF OneAtATime
  <2>6. CASE Exit(p)
    <3>1. Quiet(p)
      BY <1>0, <2>6 DEF Exit, Quiet, TypeOK
    <3> QED BY <2>4, <3>1, QuietIsFine
  <2>7. CASE ~Exit(p)
    <3>1. /\ before'[p] = Captured /\ UNCHANGED <<lock, req, fixing>>
          /\ pc'[p] = IF Uninstalls(p) THEN "stop" ELSE "config"
      BY <1>0, <1>6, <2>7 DEF Accept, TypeOK
    <3>2. journal'[req[p].id].before = Captured /\ req[p].id \in OpId
      BY <1>0, <2>1, <2>2 DEF TypeOK, Request
    <3>3. Feasible(p)'
      BY <1>6, <3>1 DEF Accept, Acceptable, Feasible, Captured
    <3>4. Uninstalls(p)' <=> Uninstalls(p)
      BY <3>1 DEF Uninstalls
    <3>5. Work(p)' = req[p].id /\ Pending(Work(p))'
      BY <2>1, <2>3, <3>1, <3>2 DEF Work
    <3>6. Journaled(p)'
      BY <2>1, <3>1, <3>2, <3>5 DEF Journaled, Misled, Applying, Back
    <3>7. FilesAt(p)'
      BY <3>1, <3>3, <3>4 DEF FilesAt, Applying, Back
    <3> QED BY <2>4, <3>6, <3>7
  <2> QED BY <2>6, <2>7
<1> QED BY <1>2, <1>3, <1>4, <1>5, <1>6

LEMMA JournalWriters ==
  ASSUME [Next]_vars
  PROVE  UNCHANGED journal \/ \E p \in Proc : Accept(p) \/ Confirm(p) \/ BackRecord(p)
BY DEF Next, Call, Begin, Recovered, Refuse, Recover, Crash, Reboot, NginxDies,
       NginxRestarts, vars, Apply, Stop, WriteConfig, WriteUnit, WriteRoutes, Start,
       Verify, ApplyFails, Rollback, BackStop, BackConfig, BackUnit, BackRoutes,
       BackStart, BackEnable, GiveUp

\* Where the snapshots of records and processes come from.
Taken == IF \E p \in Proc : Accept(p) THEN {NoSnapshot, Captured} ELSE {NoSnapshot}

LEMMA Snapshots ==
  ASSUME JournalInv, [Next]_vars
  PROVE  /\ \A k \in OpId : journal'[k].before \in Taken \cup {journal[k].before}
         /\ \A q \in Proc : before'[q] \in Taken \cup {before[q]}
                              \cup {journal[k].before : k \in OpId}
<1> USE DEF memory, Taken
<1>0. journal \in [OpId -> Record] /\ before \in [Proc -> Snapshot]
  BY DEF JournalInv, TypeOK
<1>1. ASSUME NEW k \in OpId
      PROVE  journal'[k].before \in Taken \cup {journal[k].before}
  <2>1. ASSUME NEW p \in Proc, Accept(p)
        PROVE  journal'[k].before \in {journal[k].before, Captured}
    BY <1>0, <2>1 DEF Accept
  <2>2. ASSUME NEW p \in Proc, Confirm(p) \/ BackRecord(p)
        PROVE  journal'[k].before \in {journal[k].before, NoSnapshot}
    BY <1>0, <2>2 DEF Confirm, BackRecord, Settled
  <2> QED BY <2>1, <2>2, JournalWriters
<1>2. ASSUME NEW q \in Proc, NEW p \in Proc, Exit(p) \/ UNCHANGED before
      PROVE  before'[q] \in {before[q], NoSnapshot}
  BY <1>0, <1>2 DEF Exit
<1>3. ASSUME NEW p \in Proc, Accept(p), NEW q \in Proc
      PROVE  before'[q] \in {before[q], NoSnapshot, Captured}
  BY <1>0, <1>2, <1>3 DEF Accept
<1>4. ASSUME NEW p \in Proc, NEW k \in OpId, Recover(p, k), NEW q \in Proc
      PROVE  before'[q] \in {before[q], journal[k].before}
  BY <1>0, <1>4 DEF Recover
<1>5. ASSUME NEW p \in Proc, Apply(p) \/ Call(p) \/ Recovered(p) \/ Refuse(p) \/ Crash(p)
      PROVE  Exit(p) \/ UNCHANGED before
  BY <1>5 DEF Apply, Stop, WriteConfig, WriteUnit, WriteRoutes, Start, Verify, Confirm,
              ApplyFails, Call, Begin, Recovered, Refuse, Crash
<1>6. ASSUME NEW p \in Proc, Rollback(p), ~BackRecord(p)
      PROVE  Exit(p) \/ UNCHANGED before
  BY <1>6 DEF Rollback, BackStop, BackConfig, BackUnit, BackRoutes, BackStart, BackEnable,
              GiveUp
<1>7. ASSUME NEW p \in Proc, BackRecord(p), NEW q \in Proc
      PROVE  before'[q] \in {before[q], NoSnapshot}
  BY <1>0, <1>7 DEF BackRecord, Exit
<1>8. ASSUME Reboot \/ NginxDies \/ NginxRestarts \/ UNCHANGED vars, NEW q \in Proc
      PROVE  before'[q] \in {before[q], NoSnapshot}
  BY <1>8 DEF Reboot, NginxDies, NginxRestarts, vars
<1>9. ASSUME NEW q \in Proc
      PROVE  before'[q] \in Taken \cup {before[q]} \cup {journal[k].before : k \in OpId}
  BY <1>2, <1>3, <1>4, <1>5, <1>6, <1>7, <1>8 DEF Next
<1> QED BY <1>1, <1>9

LEMMA BootStep ==
  ASSUME JournalInv, [Next]_vars
  PROVE  BootNeedsUnit'
<1>1. /\ NoSnapshot.enabled => NoSnapshot.files.unit
      /\ Captured.enabled => Captured.files.unit
  BY DEF NoSnapshot, Captured, Enabled
<1>2. Taken \subseteq {NoSnapshot, Captured}
  BY DEF Taken
<1> QED BY <1>1, <1>2, Snapshots DEF JournalInv, BootNeedsUnit

LEMMA JournalStep == JournalInv /\ [Next]_vars => JournalInv'
<1> SUFFICES ASSUME JournalInv, [Next]_vars PROVE JournalInv'
  OBVIOUS
<1>1. TypeOK'
  BY TypeStep
<1>6. BootNeedsUnit'
  BY BootStep
<1>2. ASSUME NEW p \in Proc,
             \/ Call(p) \/ Recovered(p) \/ Refuse(p) \/ Accept(p)
             \/ \E k \in OpId : Recover(p, k)
             \/ Apply(p) \/ Rollback(p) \/ Crash(p)
      PROVE  JournalInv'
  <2>1. Journaled(p)' /\ FilesAt(p)' /\ OneAtATime'
    BY <1>2, JournalControl, JournalApply, JournalRollback
  <2>2. ASSUME NEW q \in Proc, q # p PROVE Journaled(q)' /\ FilesAt(q)'
    BY <1>2, <2>2, OthersQuiet, QuietIsFine
  <2> QED BY <1>1, <1>6, <2>1, <2>2 DEF JournalInv
<1>3. CASE Reboot
  <2>1. ASSUME NEW q \in Proc PROVE Quiet(q)
    BY <1>3 DEF Reboot, Quiet
  <2>2. OneAtATime'
    BY <1>3 DEF Reboot, JournalInv, OneAtATime, Pending
  <2> QED BY <1>1, <1>6, <2>1, <2>2, QuietIsFine DEF JournalInv
<1>4. CASE UNCHANGED <<files, link, journal, lock, pc, req, before, fixing>>
  <2>1. \A k : Pending(k)' <=> Pending(k)
    BY <1>4 DEF Pending
  <2>2. OneAtATime'
    BY <1>4, <2>1 DEF JournalInv, OneAtATime
  <2>3. ASSUME NEW q \in Proc PROVE Journaled(q)' /\ FilesAt(q)'
    <3>1. Journaled(q) /\ FilesAt(q)
      BY DEF JournalInv
    <3>2. UNCHANGED <<Work(q), Target(q)>> /\ (Misled(q)' <=> Misled(q))
      BY <1>4, <2>1 DEF Work, Target, Misled
    <3>3. /\ Uninstalls(q)' <=> Uninstalls(q)
          /\ Feasible(q)' <=> Feasible(q)
          /\ UNCHANGED Enabled
      BY <1>4 DEF Uninstalls, Feasible, Enabled
    <3> QED BY <1>4, <2>1, <3>1, <3>2, <3>3 DEF Journaled, FilesAt
  <2> QED BY <1>1, <1>6, <2>2, <2>3 DEF JournalInv
<1>5. CASE NginxDies \/ NginxRestarts \/ UNCHANGED vars
  BY <1>4, <1>5 DEF NginxDies, NginxRestarts, vars, host, memory
<1> QED BY <1>2, <1>3, <1>5 DEF Next

LEMMA JournalInit == Init => JournalInv
<1> SUFFICES ASSUME Init PROVE JournalInv
  OBVIOUS
<1>1. ASSUME NEW p \in Proc PROVE Journaled(p) /\ FilesAt(p)
  BY DEF Init, Journaled, Misled, FilesAt, Applying, Back
<1>2. OneAtATime /\ BootNeedsUnit
  BY DEF Init, OneAtATime, BootNeedsUnit, Pending, Settled, NoSnapshot
<1> QED BY <1>1, <1>2, TypeInit DEF JournalInv

(* Every variable of Relay keeps its type.                                 *)
THEOREM RelayTypes == Spec => []TypeOK
<1>1. JournalInv => TypeOK
  BY DEF JournalInv
<1> QED BY <1>1, JournalInit, JournalStep, PTL DEF Spec

(* No kill, reboot or failed rollback ever leaves two operations pending.  *)
THEOREM OnePending == Spec => []OneAtATime
<1>1. JournalInv => OneAtATime
  BY DEF JournalInv
<1> QED BY <1>1, JournalInit, JournalStep, PTL DEF Spec

-----------------------------------------------------------------------------
(* The refinement.  While an operation is open nothing that happens to the *)
(* files can be seen; it is settled when they are the target or the        *)
(* snapshot.                                                               *)

\* One operation at most is open, what is seen is what it is rolled back to,
\* and the process that works on it has that at hand.
OpenFacts ==
  /\ \A p \in Proc : pc[p] \in Applying \cup Back =>
       Work(p) \in OpId /\ Open(Work(p)) /\ Before(Work(p)) = before[p]
  /\ \A k \in OpId : Pending(k) => Before(k) = journal[k].before
  /\ \A k, m \in OpId : Open(k) /\ Open(m) => k = m
  /\ \A k \in OpId : Open(k) => Seen = Before(k)
  /\ (\A k \in OpId : ~Open(k)) => Seen = Captured

LEMMA OpenIsKnown == JournalInv => OpenFacts
<1> SUFFICES ASSUME JournalInv PROVE OpenFacts
  OBVIOUS
<1>1. ASSUME NEW p \in Proc, NEW q \in Proc, Misled(p), Misled(q) PROVE p = q
  BY <1>1 DEF JournalInv, Journaled, Misled, Back
<1>2. ASSUME NEW p \in Proc, pc[p] \in Applying \cup Back
      PROVE  Work(p) \in OpId /\ Open(Work(p)) /\ Before(Work(p)) = before[p]
  <2>1. Work(p) \in OpId
    BY <1>2 DEF JournalInv, Journaled, TypeOK, Request, Work, Applying, Back
  <2>2. CASE Pending(Work(p))
    BY <1>2, <2>1, <2>2 DEF JournalInv, Journaled, Misled, Open, Before
  <2>3. CASE ~Pending(Work(p))
    <3>1. Misled(p)
      BY <1>2, <2>3 DEF JournalInv, Journaled, Misled
    <3>2. (CHOOSE q \in Proc : Misled(q) /\ Work(q) = Work(p)) = p
      BY <1>1, <3>1
    <3> QED BY <2>1, <2>3, <3>1, <3>2 DEF Open, Before
  <2> QED BY <2>2, <2>3
<1>3. \A k \in OpId : Pending(k) => Before(k) = journal[k].before
  BY DEF Before
<1>4. ASSUME NEW k \in OpId, NEW m \in OpId, Open(k), Open(m) PROVE k = m
  BY <1>1, <1>4 DEF JournalInv, OneAtATime, Journaled, Open
<1>5. ASSUME NEW k \in OpId, Open(k) PROVE Seen = Before(k)
  <2>1. (CHOOSE m \in OpId : Open(m)) = k
    BY <1>4, <1>5
  <2> QED BY <1>5, <2>1 DEF Seen
<1>6. (\A k \in OpId : ~Open(k)) => Seen = Captured
  BY DEF Seen
<1> QED BY <1>2, <1>3, <1>4, <1>5, <1>6 DEF OpenFacts

LEMMA OpenIsKnownNext == JournalInv' => OpenFacts'
BY OpenIsKnown, PTL

\* Files and boot setting change under an open operation only.
LEMMA HiddenWork ==
  ASSUME JournalInv, [Next]_vars, \A k \in OpId : ~Open(k)
  PROVE  UNCHANGED <<files, Enabled>>
<1> USE DEF host, memory
<1>1. ASSUME NEW p \in Proc, Apply(p) \/ Rollback(p) PROVE FALSE
  <2>1. pc[p] \in Applying \cup Back
    BY <1>1 DEF Apply, Stop, WriteConfig, WriteUnit, WriteRoutes, Start, Verify,
                Confirm, ApplyFails, Rollback, BackStop, BackConfig, BackUnit,
                BackRoutes, BackStart, BackEnable, BackRecord, GiveUp, Applying, Back
  <2> QED BY <2>1, OpenIsKnown DEF OpenFacts
<1>2. ASSUME NEW p \in Proc,
             \/ Call(p) \/ Recovered(p) \/ Refuse(p) \/ Accept(p)
             \/ \E k \in OpId : Recover(p, k)
             \/ Crash(p)
      PROVE  UNCHANGED <<files, link>>
  BY <1>2 DEF Call, Begin, Recovered, Refuse, Accept, Recover, Crash
<1>3. CASE Reboot \/ NginxDies \/ NginxRestarts \/ UNCHANGED vars
  BY <1>3 DEF Reboot, NginxDies, NginxRestarts, vars, Enabled
<1> QED BY <1>1, <1>2, <1>3 DEF Next, Enabled

\* A rollback under a success record goes on until it is recorded or killed.
LEMMA MisledStays ==
  ASSUME JournalInv, [Next]_vars, UNCHANGED journal, ~torn', NEW q \in Proc
  PROVE  /\ Misled(q)' <=> Misled(q)
         /\ Misled(q) => UNCHANGED <<Work(q), before[q]>>
<1> USE DEF Goto, memory, host, env
<1>0. TypeOK /\ \A k : Pending(k)' <=> Pending(k)
  BY DEF JournalInv, Pending
<1>1. ASSUME NEW p \in Proc, p # q,
             \/ Call(p) \/ Recovered(p) \/ Refuse(p) \/ Accept(p)
             \/ \E k \in OpId : Recover(p, k)
             \/ Apply(p) \/ Rollback(p) \/ Crash(p)
      PROVE  ~Misled(q) /\ ~Misled(q)'
  <2>1. pc'[q] = "idle"
    BY <1>1, OthersQuiet DEF Quiet
  <2>2. pc[q] = "idle"
    <3>1. pc[p] # "idle" \/ lock = None
      BY <1>1 DEF Call, Begin, Recovered, Refuse, Accept, Recover, Crash,
                  Apply, Stop, WriteConfig, WriteUnit, WriteRoutes, Start, Verify,
                  Confirm, ApplyFails, Rollback, BackStop, BackConfig, BackUnit,
                  BackRoutes, BackStart, BackEnable, BackRecord, GiveUp, Back
    <3> QED BY <1>1, <3>1, Alone
  <2> QED BY <2>1, <2>2 DEF Misled, Back
<1>2. ASSUME \/ Call(q) \/ Recovered(q) \/ Refuse(q) \/ Accept(q)
             \/ \E k \in OpId : Recover(q, k)
      PROVE  ~Misled(q) /\ ~Misled(q)'
  <2>1. ASSUME NEW k \in OpId, Recover(q, k) PROVE ~Misled(q)'
    <3>1. Work(q)' = k /\ Pending(k)
      BY <1>0, <2>1, RelayAssumption DEF Recover, TypeOK, Work
    <3> QED BY <1>0, <3>1 DEF Misled
  <2>2. pc[q] \notin Back
    BY <1>2 DEF Call, Begin, Recovered, Refuse, Accept, Recover, Back
  <2>3. ASSUME Call(q) \/ Recovered(q) \/ Refuse(q) \/ Accept(q) PROVE pc'[q] \notin Back
    BY <1>0, <2>3 DEF Call, Begin, Recovered, Refuse, Accept, Exit, TypeOK, Back
  <2> QED BY <1>2, <2>1, <2>2, <2>3 DEF Misled
<1>3. CASE Apply(q)
  <2>1. pc[q] \in Applying /\ Pending(Work(q))
    BY <1>3 DEF Apply, Stop, WriteConfig, WriteUnit, WriteRoutes, Start, Verify,
                Confirm, ApplyFails, Applying, JournalInv, Journaled
  <2>2. CASE Confirm(q)
    <3>1. Work(q) = req[q].id /\ Work(q) \in OpId
      BY <2>1, OpenIsKnown DEF JournalInv, Journaled, Work, OpenFacts, Applying, Back
    <3>2. journal'[Work(q)].status = "succeeded"
      BY <1>0, <2>2, <3>1 DEF Confirm, TypeOK, Settled
    <3> QED BY <1>0, <2>1, <3>2 DEF Pending
  <2>3. CASE ~Confirm(q)
    <3>1. UNCHANGED Work(q)
      BY <1>3, <2>3 DEF Apply, Stop, WriteConfig, WriteUnit, WriteRoutes, Start, Verify,
                        ApplyFails, Work
    <3> QED BY <1>0, <2>1, <3>1 DEF Misled
  <2> QED BY <2>2, <2>3
<1>4. CASE Rollback(q)
  <2>1. CASE GiveUp(q)
    <3>1. pc'[q] = "idle" /\ ~Misled(q)
      BY <1>0, <2>1 DEF GiveUp, Exit, TypeOK
    <3> QED BY <3>1 DEF Misled, Back
  <2>2. CASE BackRecord(q)
    <3>1. pc'[q] \in {"idle", "recover"}
      BY <1>0, <2>2 DEF BackRecord, Exit, TypeOK
    <3>2. journal'[Work(q)].status = "failed"
      BY <1>0, <2>2, OpenIsKnown DEF BackRecord, Work, TypeOK, Settled, OpenFacts, Back
    <3>3. ~Misled(q)
      BY <2>2, <3>2 DEF JournalInv, Journaled, Misled
    <3> QED BY <3>1, <3>3 DEF Misled, Back
  <2>3. CASE ~GiveUp(q) /\ ~BackRecord(q)
    <3>1. UNCHANGED <<before, fixing, req>> /\ pc[q] \in Back /\ pc'[q] \in Back
      BY <1>0, <1>4, <2>3 DEF Rollback, BackStop, BackConfig, BackUnit, BackRoutes,
                              BackStart, BackEnable, Back, TypeOK
    <3> QED BY <1>0, <3>1 DEF Misled, Work
  <2> QED BY <2>1, <2>2, <2>3
<1>5. CASE Crash(q)
  <2>1. pc'[q] = "idle" /\ ~Misled(q)
    BY <1>0, <1>5 DEF Crash, Exit, TypeOK
  <2> QED BY <2>1 DEF Misled, Back
<1>6. CASE Reboot
  BY <1>6 DEF Reboot, Misled, Back
<1>7. CASE NginxDies \/ NginxRestarts \/ UNCHANGED vars
  <2>1. UNCHANGED <<pc, before, fixing, req>>
    BY <1>7 DEF NginxDies, NginxRestarts, vars
  <2> QED BY <1>0, <2>1 DEF Misled, Work
<1> QED BY <1>1, <1>2, <1>3, <1>4, <1>5, <1>6, <1>7 DEF Next

\* A step that leaves the journal alone is not seen.
LEMMA Unseen ==
  ASSUME JournalInv, [Next]_vars, UNCHANGED journal, ~torn'
  PROVE  UNCHANGED Atomic!vars
<1>0. OpenFacts /\ OpenFacts'
  BY JournalStep, OpenIsKnown, OpenIsKnownNext
<1>1. \A k : Pending(k)' <=> Pending(k)
  BY DEF Pending
<1>2. \A k : Open(k)' <=> Open(k)
  BY <1>1, MisledStays DEF Open
<1>3. UNCHANGED Outcome
  BY <1>2 DEF Outcome
<1>4. CASE \E k \in OpId : Open(k)
  <2>1. PICK k \in OpId : Open(k)
    BY <1>4
  <2>2. Seen = Before(k) /\ Seen' = Before(k)'
    BY <1>0, <1>2, <2>1 DEF OpenFacts
  <2>3. CASE Pending(k)
    <3>1. Before(k) = journal[k].before /\ Before(k)' = journal'[k].before
      BY <1>1, <2>3 DEF Before
    <3> QED BY <1>3, <2>2, <3>1 DEF Atomic!vars
  <2>4. CASE ~Pending(k)
    <3>1. PICK p \in Proc : Misled(p) /\ Work(p) = k
      BY <2>1, <2>4 DEF Open
    <3>2. Misled(p)' /\ UNCHANGED <<Work(p), before[p]>>
      BY <3>1, MisledStays
    <3>3. Before(k) = before[p] /\ Before(k)' = before'[p]
      BY <1>0, <3>1, <3>2 DEF OpenFacts, Misled
    <3> QED BY <1>3, <2>2, <3>2, <3>3 DEF Atomic!vars
  <2> QED BY <2>3, <2>4
<1>5. CASE \A k \in OpId : ~Open(k)
  <2>1. Seen = Captured /\ Seen' = Captured'
    BY <1>0, <1>2, <1>5 DEF OpenFacts
  <2>2. UNCHANGED <<files, Enabled>>
    BY <1>5, HiddenWork
  <2> QED BY <1>3, <2>1, <2>2 DEF Atomic!vars, Captured
<1> QED BY <1>4, <1>5

\* RelayAtomic speaks of the same routes.
LEMMA SameRoutes ==
  /\ Atomic!Change = Change /\ Atomic!NoFiles = NoFiles
  /\ \A t : Atomic!Conflict(t) <=> Conflict(t)
  /\ \A f : Atomic!RoutesOf(f) = RoutesOf(f)
  /\ \A ch, f : Atomic!Applicable(ch, f) <=> Applicable(ch, f)
  /\ \A ch, t : Atomic!Changed(ch, t) = Changed(ch, t)
  /\ \A ch, f : Atomic!Deployed(ch, f) = Deployed(ch, f)
<1> USE DEF Atomic!Known, Known, Atomic!NoRoutes, NoRoutes
<1>1. Atomic!Change = Change /\ Atomic!NoFiles = NoFiles
  BY DEF Atomic!Change, Change, Atomic!Entry, Entry, Atomic!NoFiles, NoFiles
<1>2. \A t : Atomic!Conflict(t) <=> Conflict(t)
  BY DEF Atomic!Conflict, Conflict
<1>3. \A f : Atomic!RoutesOf(f) = RoutesOf(f)
  BY DEF Atomic!RoutesOf, RoutesOf
<1>4. \A ch, f : Atomic!Applicable(ch, f) <=> Applicable(ch, f)
  BY <1>3 DEF Atomic!Applicable, Applicable, Atomic!Installed, Installed
<1>5. \A ch, t : Atomic!Changed(ch, t) = Changed(ch, t)
  BY DEF Atomic!Changed, Changed
<1>6. \A t : Atomic!Rendered(t) = Rendered(t)
  BY DEF Atomic!Rendered, Rendered
<1>7. \A ch, f : Atomic!Deployed(ch, f) = Deployed(ch, f)
  BY <1>3, <1>5, <1>6 DEF Atomic!Deployed, Deployed
<1> QED BY <1>1, <1>2, <1>3, <1>4, <1>5, <1>7

\* Nothing but the operation of the process at work is open.
LEMMA OpenWork ==
  ASSUME JournalInv, NEW p \in Proc, pc[p] \in Applying \cup Back
  PROVE  /\ Work(p) \in OpId /\ Seen = before[p]
         /\ \A m \in OpId : Open(m) <=> m = Work(p)
BY OpenIsKnown DEF OpenFacts

\* The process at work ends its operation: what is seen next is the host.
LEMMA Settles ==
  ASSUME JournalInv, [Next]_vars, NEW p \in Proc, Confirm(p) \/ BackRecord(p),
         pc'[p] \notin Back
  PROVE  (\A m \in OpId : ~Open(m)') /\ Seen' = Captured'
<1>0. TypeOK /\ JournalInv' /\ pc[p] \in Applying \cup Back
  BY JournalStep DEF JournalInv, Confirm, BackRecord, Applying, Back
<1>1. Work(p) \in OpId /\ \A m \in OpId : Open(m) => m = Work(p)
  BY <1>0, OpenWork
<1>2. \E s \in {"succeeded", "failed"} : journal' = [journal EXCEPT ![Work(p)] = Settled(s)]
  BY DEF Confirm, BackRecord, JournalInv, Journaled, Work, Back
<1>3. \A m \in OpId : ~Pending(m)'
  BY <1>0, <1>1, <1>2 DEF Open, Pending, Settled, TypeOK
<1>4. ASSUME NEW q \in Proc PROVE ~Misled(q)'
  <2>1. CASE q = p
    BY <2>1 DEF Misled
  <2>2. CASE q # p
    BY <2>2, OthersQuiet DEF Quiet, Misled, Back, Apply, Rollback
  <2> QED BY <2>1, <2>2
<1>5. \A m \in OpId : ~Open(m)'
  BY <1>3, <1>4 DEF Open
<1> QED BY <1>0, <1>5, OpenIsKnownNext DEF OpenFacts

LEMMA AtomicAccept ==
  ASSUME JournalInv, [Next]_vars, NEW p \in Proc, Accept(p)
  PROVE  UNCHANGED Atomic!vars
<1>0. TypeOK /\ OpenFacts /\ OpenFacts'
  BY JournalStep, OpenIsKnown, OpenIsKnownNext DEF JournalInv
<1>1. \A k \in OpId : ~Open(k)
  <2>1. /\ \A k \in OpId : ~Pending(k)
        /\ pc[p] = "request" /\ lock = p
    BY DEF Accept, JournalInv, Journaled
  <2>2. \A q \in Proc : ~Misled(q)
    BY <2>1 DEF JournalInv, Journaled, Misled, Back
  <2> QED BY <2>1, <2>2 DEF Open
<1>2. PICK k \in OpId : k = req[p].id
  BY DEF Accept, JournalInv, Journaled, Request
<1>3. /\ journal[k].status = "none"
      /\ journal' = [journal EXCEPT ![k] = [status |-> "pending", before |-> Captured]]
  BY <1>2 DEF Accept, Acceptable
<1>4. journal'[k] = [status |-> "pending", before |-> Captured]
  BY <1>0, <1>3 DEF TypeOK
<1>5. Pending(k)'
  BY <1>4 DEF Pending
<1>6. Open(k)' /\ Before(k)' = Captured
  BY <1>4, <1>5 DEF Open, Before
<1>7. Seen' = Captured /\ \A m \in OpId : Open(m)' => m = k
  BY <1>0, <1>6 DEF OpenFacts
<1>8. UNCHANGED Outcome
  BY <1>0, <1>1, <1>3, <1>6, <1>7 DEF Outcome, TypeOK
<1> QED BY <1>0, <1>1, <1>7, <1>8 DEF OpenFacts, Atomic!vars

\* The operation that is confirmed has its target on the host.
LEMMA AtomicConfirm ==
  ASSUME JournalInv, [Next]_vars, NEW p \in Proc, Confirm(p)
  PROVE  UNCHANGED Atomic!vars \/ Atomic!Next
<1> DEFINE k == req[p].id
<1> USE DEF host, memory
<1>0. TypeOK /\ JournalInv'
  BY JournalStep DEF JournalInv
<1>1. /\ pc[p] = "confirm" /\ k \in OpId /\ req[p].change \in Change
      /\ Feasible(p) /\ files = Target(p) /\ (~Uninstalls(p) => link)
      /\ Work(p) = k
  BY DEF Confirm, JournalInv, Journaled, FilesAt, Work, Request, Applying, Back
<1>2. journal' = [journal EXCEPT ![k] = Settled("succeeded")] /\ UNCHANGED <<files, link>>
  BY DEF Confirm
<1>3. Seen = before[p] /\ \A m \in OpId : Open(m) <=> m = k
  BY <1>1, OpenWork DEF Applying
<1>4. CASE pc'[p] \in Back
  <2>1. UNCHANGED <<before, fixing, req>>
    BY <1>0, <1>4 DEF Confirm, Exit, Goto, TypeOK, Back
  <2>2. Work(p)' = k
    BY <1>1, <2>1 DEF Work
  <2>3. Seen' = before[p] /\ \A m \in OpId : Open(m)' <=> m = k
    <3>1. OpenFacts'
      BY <1>0, OpenIsKnownNext
    <3> QED BY <1>4, <2>1, <2>2, <3>1 DEF OpenFacts
  <2>4. UNCHANGED Outcome
    BY <1>0, <1>2, <1>3, <2>3 DEF Outcome, TypeOK
  <2> QED BY <1>3, <2>3, <2>4 DEF Atomic!vars
<1>5. CASE pc'[p] \notin Back
  <2>1. Seen' = Captured' /\ \A m \in OpId : ~Open(m)'
    BY <1>5, Settles
  <2>2. Target(p).unit = ~Uninstalls(p)
    BY <1>1, Goals DEF Applying
  <2>3. Captured'.files = Target(p) /\ Captured'.enabled = (req[p].change.action # "uninstall")
    BY <1>0, <1>1, <1>2, <2>2 DEF Captured, Enabled, TypeOK, Uninstalls
  <2>4. Outcome[k] = "open" /\ Outcome' = [Outcome EXCEPT ![k] = "succeeded"]
    BY <1>0, <1>1, <1>2, <1>3, <2>1 DEF Outcome, TypeOK, Settled
  <2>5. /\ Applicable(req[p].change, Seen.files)
        /\ ~Conflict(Changed(req[p].change, RoutesOf(Seen.files)))
        /\ (Seen.files)' = Deployed(req[p].change, Seen.files)
        /\ (Seen.enabled)' = (req[p].change.action # "uninstall")
    BY <1>1, <1>3, <2>1, <2>3 DEF Feasible, Target
  <2> QED BY <1>1, <2>4, <2>5, SameRoutes DEF Atomic!Next, Atomic!Succeed
<1> QED BY <1>4, <1>5

\* The operation that is recorded as failed has its snapshot on the host.
LEMMA AtomicFail ==
  ASSUME JournalInv, [Next]_vars, NEW p \in Proc, BackRecord(p)
  PROVE  Atomic!Next
<1> DEFINE k == Work(p)
<1> USE DEF host, memory
<1>0. TypeOK
  BY DEF JournalInv
<1>1. /\ k \in OpId /\ files = before[p].files /\ Enabled = before[p].enabled
      /\ Seen = before[p] /\ \A m \in OpId : Open(m) <=> m = k
  BY OpenWork DEF BackRecord, JournalInv, FilesAt, Back
<1>2. journal' = [journal EXCEPT ![k] = Settled("failed")] /\ UNCHANGED <<files, link>>
  BY DEF BackRecord, Work
<1>3. pc'[p] \notin Back
  BY <1>0 DEF BackRecord, Exit, Goto, TypeOK, Back
<1>4. Seen' = Captured' /\ \A m \in OpId : ~Open(m)'
  BY <1>3, Settles
<1>5. Captured'.files = before[p].files /\ Captured'.enabled = before[p].enabled
  BY <1>1, <1>2 DEF Captured, Enabled
<1>6. Outcome[k] = "open" /\ Outcome' = [Outcome EXCEPT ![k] = "failed"]
  BY <1>0, <1>1, <1>2, <1>4 DEF Outcome, TypeOK, Settled
<1> QED BY <1>1, <1>4, <1>5, <1>6 DEF Atomic!Next, Atomic!Fail

LEMMA AtomicStep ==
  JournalInv /\ [Next]_vars => torn' \/ UNCHANGED Atomic!vars \/ Atomic!Next
BY JournalWriters, Unseen, AtomicAccept, AtomicConfirm, AtomicFail

LEMMA AtomicInit == Init => Atomic!Init
<1> SUFFICES ASSUME Init PROVE Atomic!Init
  OBVIOUS
<1>1. \A k \in OpId : ~Open(k) /\ ~Pending(k)
  BY DEF Init, Open, Misled, Pending, Settled, Back
<1>2. Seen = [files |-> NoFiles, active |-> FALSE, enabled |-> FALSE]
  BY <1>1 DEF Init, Seen, Captured, Enabled
<1>3. Outcome = [k \in OpId |-> "open"]
  BY <1>1 DEF Init, Outcome, Settled
<1> QED BY <1>2, <1>3, SameRoutes DEF Atomic!Init

(* Every relay operation is atomic and takes effect at most once, whatever *)
(* fails, is killed or reboots, also when nginx dies meanwhile, but for the*)
(* misreported success record whose rollback does not end either.          *)
THEOREM OperationsAreAtomic == Spec => IsAtomic
<1> QED BY AtomicStep, AtomicInit, JournalInit, JournalStep, PTL DEF Spec, IsAtomic

-----------------------------------------------------------------------------
(* The service, when nginx does not die under a request.                   *)

LEMMA ServiceApply ==
  ASSUME ServiceInv, NEW p \in Proc, Apply(p)
  PROVE  ServiceAt(p)' /\ Running'
<1> USE DEF Goto, memory, host
<1>0. TypeOK /\ Journaled(p) /\ FilesAt(p) /\ ServiceAt(p) /\ JournalInv
  BY DEF ServiceInv, JournalInv
<1>1. CASE Confirm(p)
  <2>1. ServiceAt(p)'
    BY <1>0, <1>1 DEF Confirm, Exit, ServiceAt, TypeOK
  <2>2. Running'
    BY <1>0, <1>1 DEF Confirm, ServiceAt, Running, TypeOK
  <2> QED BY <2>1, <2>2
<1>2. CASE ~Confirm(p)
  <2>1. /\ pc[p] \in Applying /\ Continues(p) /\ (Uninstalls(p)' <=> Uninstalls(p))
    BY <1>0, <1>2 DEF Apply, Stop, WriteConfig, WriteUnit, WriteRoutes, Start, Verify,
                 ApplyFails, Applying, Back, Continues, TypeOK, Uninstalls
  <2>2. \E k \in OpId : Pending(k)'
    BY <1>0, <2>1 DEF Journaled, Continues, Work, Pending, TypeOK, Request, Applying, Back
  <2>3. Running'
    BY <2>2 DEF Running
  <2>4. CASE Stop(p)
    BY <1>0, <2>1, <2>3, <2>4 DEF Stop, StopService, FilesAt, ServiceAt, TypeOK, Continues
  <2>5. CASE WriteConfig(p)
    BY <1>0, <2>1, <2>3, <2>5 DEF WriteConfig, ServiceAt, TypeOK, Continues
  <2>6. CASE WriteUnit(p)
    BY <1>0, <2>1, <2>3, <2>6 DEF WriteUnit, ServiceAt, TypeOK, Continues
  <2>7. CASE WriteRoutes(p)
    BY <1>0, <2>1, <2>3, <2>7 DEF WriteRoutes, ServiceAt, TypeOK, Continues
  <2>8. CASE Start(p)
    <3>1. pc[p] = "start" /\ pc'[p] = "verify"
      BY <1>0, <2>8 DEF Start, TypeOK
    <3>2. CASE Uninstalls(p)
      BY <1>0, <2>1, <2>3, <2>8, <3>1, <3>2 DEF Start, ServiceAt
    <3>3. CASE ~Uninstalls(p)
      <4>1. service' = "active" /\ serving' = files.config /\ UNCHANGED files
        BY <1>0, <2>8, <3>1, <3>3 DEF Start, StartService, ReloadService, ServiceAt, TypeOK
      <4> QED BY <2>1, <2>3, <3>1, <3>3, <4>1 DEF ServiceAt
    <3> QED BY <3>2, <3>3
  <2>9. CASE Verify(p)
    <3>1. /\ pc[p] = "verify" /\ UNCHANGED <<files, service, serving>>
          /\ pc'[p] = IF Verified(p) THEN "confirm" ELSE "back-stop"
      BY <1>0, <2>9 DEF Verify, TypeOK
    <3>2. Installed(files)' <=> Installed(files)
      BY <3>1 DEF Installed
    <3> QED BY <1>0, <2>1, <2>3, <3>1, <3>2 DEF Verified, ServiceAt, Installed, Uninstalls
  <2>10. CASE ApplyFails(p)
    BY <1>0, <2>1, <2>3, <2>10 DEF ApplyFails, ServiceAt, TypeOK, Continues
  <2> QED BY <1>2, <2>4, <2>5, <2>6, <2>7, <2>8, <2>9, <2>10 DEF Apply
<1> QED BY <1>1, <1>2

LEMMA ServiceRollback ==
  ASSUME ServiceInv, NEW p \in Proc, Rollback(p)
  PROVE  ServiceAt(p)' /\ Running'
<1> USE DEF Goto, memory, host
<1>0. /\ TypeOK /\ Journaled(p) /\ FilesAt(p) /\ ServiceAt(p) /\ JournalInv
      /\ pc[p] \in Back
  BY DEF ServiceInv, JournalInv, Rollback, BackStop, BackConfig, BackUnit, BackRoutes,
         BackStart, BackEnable, BackRecord, GiveUp, Back
<1>1. before[p].active => Installed(before[p].files)
  BY DEF ServiceInv, ActiveWasInstalled
<1>2. CASE BackRecord(p)
  <2>1. ServiceAt(p)'
    BY <1>0, <1>2 DEF BackRecord, Exit, ServiceAt, TypeOK
  <2>2. Running'
    BY <1>0, <1>1, <1>2 DEF BackRecord, FilesAt, ServiceAt, Running, Installed
  <2> QED BY <2>1, <2>2
<1>3. CASE ~BackRecord(p)
  <2>1. UNCHANGED journal
    BY <1>3 DEF Rollback, BackStop, BackConfig, BackUnit, BackRoutes, BackStart,
                BackEnable, GiveUp
  <2>2. CASE GiveUp(p)
    <3>1. ServiceAt(p)'
      BY <1>0, <2>2 DEF GiveUp, Exit, ServiceAt, TypeOK
    <3>2. UNCHANGED <<files, service, serving>>
      BY <2>2 DEF GiveUp
    <3>3. Running'
      BY <2>1, <3>2 DEF ServiceInv, Running, Pending, Installed
    <3> QED BY <3>1, <3>3
  <2>3. CASE ~GiveUp(p)
    <3>1. ServiceAt(p)'
      <4>1. CASE BackStop(p)
        BY <1>0, <4>1 DEF BackStop, StopService, ServiceAt, TypeOK
      <4>2. CASE BackConfig(p)
        BY <1>0, <4>2 DEF BackConfig, ServiceAt, TypeOK
      <4>3. CASE BackUnit(p)
        BY <1>0, <4>3 DEF BackUnit, ServiceAt, TypeOK
      <4>4. CASE BackRoutes(p)
        BY <1>0, <4>4 DEF BackRoutes, ServiceAt, TypeOK
      <4>5. CASE BackStart(p)
        <5>1. /\ pc[p] = "back-start" /\ pc'[p] = "back-enable"
              /\ service' = (IF before[p].active THEN "active" ELSE "inactive")
              /\ serving' = IF before[p].active THEN before[p].files.config ELSE {}
              /\ UNCHANGED before
          BY <1>0, <1>1, <4>5 DEF BackStart, StartService, FilesAt, ServiceAt, TypeOK
        <5> QED BY <5>1 DEF ServiceAt
      <4>6. CASE BackEnable(p)
        BY <1>0, <4>6 DEF BackEnable, ServiceAt, TypeOK
      <4> QED BY <1>3, <2>3, <4>1, <4>2, <4>3, <4>4, <4>5, <4>6 DEF Rollback
    <3>2. /\ pc'[p] \in {"back-config", "back-unit", "back-routes", "back-start",
                         "back-enable", "back-record"}
          /\ UNCHANGED before
      BY <1>0, <1>3, <2>3 DEF Rollback, BackStop, BackConfig, BackUnit, BackRoutes,
                              BackStart, BackEnable, TypeOK
    <3>3. FilesAt(p)'
      BY JournalRollback, <1>0
    <3>4. CASE pc'[p] \in {"back-enable", "back-record"}
      <4>1. files' = before[p].files
        BY <3>2, <3>3, <3>4 DEF FilesAt
      <4> QED BY <1>1, <3>1, <3>2, <3>4, <4>1 DEF ServiceAt, Running, Installed
    <3>5. CASE pc'[p] \notin {"back-enable", "back-record"}
      BY <3>1, <3>2, <3>5 DEF ServiceAt, Running
    <3> QED BY <3>1, <3>4, <3>5
  <2> QED BY <2>2, <2>3
<1> QED BY <1>2, <1>3

LEMMA ServiceControl ==
  ASSUME ServiceInv, NEW p \in Proc,
         \/ Call(p) \/ Recovered(p) \/ Refuse(p) \/ Accept(p)
         \/ \E k \in OpId : Recover(p, k)
         \/ Crash(p)
  PROVE  ServiceAt(p)' /\ Running'
<1> USE DEF Goto, memory, host
<1>0. TypeOK /\ Journaled(p) /\ JournalInv /\ Running
  BY DEF ServiceInv, JournalInv
<1>1. CASE Accept(p)
  <2>1. (\A k \in OpId : ~Pending(k)) /\ req[p].id \in OpId
    BY <1>0, <1>1 DEF Accept, Journaled, Request
  <2>2. Running'
    <3>1. UNCHANGED host /\ (Installed(files)' <=> Installed(files))
      BY <1>1 DEF Accept, Installed
    <3> QED BY <1>0, <2>1, <3>1 DEF Running
  <2>3. CASE Exit(p)
    BY <1>0, <2>2, <2>3 DEF Exit, ServiceAt, TypeOK
  <2>4. CASE ~Exit(p)
    <3>1. /\ before'[p] = Captured /\ UNCHANGED <<req, service, serving, files>>
          /\ pc'[p] = IF Uninstalls(p) THEN "stop" ELSE "config"
      BY <1>0, <1>1, <2>4 DEF Accept, TypeOK
    <3>2. Uninstalls(p)' <=> Uninstalls(p)
      BY <3>1 DEF Uninstalls
    <3>3. before'[p].active = (service = "active")
      BY <3>1 DEF Captured
    <3> QED BY <2>2, <3>1, <3>2, <3>3 DEF ServiceAt
  <2> QED BY <2>3, <2>4
<1>2. CASE ~Accept(p)
  <2>1. UNCHANGED <<host, journal>>
    BY <1>2 DEF Call, Begin, Recovered, Refuse, Recover, Crash
  <2>2. Running'
    BY <1>0, <2>1 DEF Running, Pending, Installed
  <2>3. pc'[p] \in {"recover", "request", "idle", "back-stop"}
    BY <1>0, <1>2 DEF Call, Begin, Recovered, Refuse, Recover, Crash, Exit, TypeOK
  <2> QED BY <2>2, <2>3 DEF ServiceAt
<1> QED BY <1>1, <1>2

\* Running is what makes the snapshot of a new request one to go back to.
LEMMA ActiveStep ==
  ASSUME ServiceInv, [Next]_vars
  PROVE  ActiveWasInstalled'
<1>1. ASSUME NEW p \in Proc, Accept(p)
      PROVE  Captured.active => Installed(Captured.files)
  BY <1>1 DEF ServiceInv, JournalInv, Accept, Journaled, Running, Captured
<1>2. \A b \in Taken : b.active => Installed(b.files)
  BY <1>1 DEF Taken, NoSnapshot
<1> QED BY <1>2, Snapshots DEF ServiceInv, ActiveWasInstalled

LEMMA ServiceStep == ServiceInv /\ ~ServiceRaces /\ [Next]_vars => ServiceInv'
<1> SUFFICES ASSUME ServiceInv, ~ServiceRaces, [Next]_vars PROVE ServiceInv'
  OBVIOUS
<1>1. JournalInv' /\ ActiveWasInstalled' /\ JournalInv
  BY JournalStep, ActiveStep DEF ServiceInv
<1>2. ASSUME NEW p \in Proc,
             \/ Call(p) \/ Recovered(p) \/ Refuse(p) \/ Accept(p)
             \/ \E k \in OpId : Recover(p, k)
             \/ Apply(p) \/ Rollback(p) \/ Crash(p)
      PROVE  ServiceInv'
  <2>1. ServiceAt(p)' /\ Running'
    BY <1>2, ServiceControl, ServiceApply, ServiceRollback
  <2>2. ASSUME NEW q \in Proc, q # p PROVE ServiceAt(q)'
    BY <1>1, <1>2, <2>2, OthersQuiet, QuietIsFine
  <2> QED BY <1>1, <2>1, <2>2 DEF ServiceInv
<1>3. CASE Reboot
  <2>1. ASSUME NEW q \in Proc PROVE Quiet(q)
    BY <1>3 DEF Reboot, Quiet
  <2>2. Running'
    BY <1>3 DEF Reboot, Running, Installed
  <2> QED BY <1>1, <2>1, <2>2, QuietIsFine DEF ServiceInv
<1>4. CASE NginxDies \/ NginxRestarts
  <2>1. ASSUME NEW q \in Proc PROVE ServiceAt(q)'
    <3>1. pc[q] = "idle" /\ UNCHANGED pc
      BY <1>1, <1>4, RelayAssumption
         DEF NginxDies, NginxRestarts, JournalInv, Journaled
    <3> QED BY <3>1 DEF ServiceAt
  <2>2. Running'
    BY <1>4 DEF NginxDies, NginxRestarts, ServiceInv, Running, Pending, Installed
  <2> QED BY <1>1, <2>1, <2>2 DEF ServiceInv
<1>5. CASE UNCHANGED vars
  <2>1. Running'
    BY <1>5 DEF vars, host, ServiceInv, Running, Pending, Installed
  <2>2. ASSUME NEW q \in Proc PROVE ServiceAt(q)'
    BY <1>5 DEF vars, host, memory, ServiceInv, ServiceAt, Installed, Uninstalls
  <2> QED BY <1>1, <2>1, <2>2 DEF ServiceInv
<1> QED BY <1>2, <1>3, <1>4, <1>5 DEF Next

LEMMA ServiceInit == Init => ServiceInv
BY JournalInit DEF Init, ServiceInv, ServiceAt, Running, ActiveWasInstalled, Settled,
                   NoSnapshot

(* Between requests an active service forwards exactly what its file says. *)
THEOREM FileIsServed ==
  ASSUME ~ServiceRaces PROVE Spec => []ServesItsFile
<1>1. ServiceInv => ServesItsFile
  BY DEF ServiceInv, Running, ServesItsFile
<1> QED BY <1>1, ServiceInit, ServiceStep, PTL DEF Spec

LEMMA RestoreStep ==
  ASSUME ServiceInv, [Next]_vars,
         NEW k \in OpId, Open(k), journal'[k].status = "failed"
  PROVE  LET b == Before(k) IN
           /\ files' = b.files
           /\ Enabled' = b.enabled
           /\ (service' = "active") = b.active
           /\ serving' = IF b.active THEN b.files.config ELSE {}
<1> USE DEF host, memory
<1>1. TypeOK /\ JournalInv
  BY DEF ServiceInv, JournalInv
<1>2. journal[k].status # "failed"
  BY DEF Open, Pending, ServiceInv, JournalInv, Journaled
<1>3. PICK p \in Proc : BackRecord(p)
  <2>1. ASSUME UNCHANGED journal PROVE FALSE
    BY <1>2, <2>1
  <2>2. ASSUME NEW p \in Proc, Accept(p) PROVE FALSE
    BY <1>1, <1>2, <2>2 DEF Accept, TypeOK
  <2>3. ASSUME NEW p \in Proc, Confirm(p) PROVE FALSE
    BY <1>1, <1>2, <2>3 DEF Confirm, TypeOK, Settled
  <2> QED BY <2>1, <2>2, <2>3, JournalWriters
<1>4. pc[p] = "back-record" /\ Open(Work(p)) /\ Work(p) \in OpId
  BY <1>1, <1>3, OpenIsKnown DEF BackRecord, OpenFacts, Back
<1>5. Before(k) = before[p]
  BY <1>1, <1>4, OpenIsKnown DEF OpenFacts, Back
<1>6. /\ files = before[p].files
      /\ Enabled = before[p].enabled /\ before[p] \in Snapshot
      /\ service = IF before[p].active THEN "active" ELSE "inactive"
      /\ serving = IF before[p].active THEN before[p].files.config ELSE {}
  BY <1>1, <1>4 DEF ServiceInv, JournalInv, FilesAt, ServiceAt, TypeOK
<1>7. UNCHANGED <<files, service, serving, Enabled>>
  BY <1>3 DEF BackRecord, Enabled
<1> QED BY <1>5, <1>6, <1>7 DEF Snapshot

(* A rolled back operation leaves nothing behind.                          *)
THEOREM RollbackIsExact ==
  ASSUME ~ServiceRaces PROVE Spec => RestoredExactly
<1>1. ServiceInv /\ [Next]_vars =>
        \A k \in OpId : Open(k) /\ journal'[k].status = "failed" =>
          LET b == Before(k) IN
            /\ files' = b.files
            /\ Enabled' = b.enabled
            /\ (service' = "active") = b.active
            /\ serving' = IF b.active THEN b.files.config ELSE {}
  BY RestoreStep
<1> QED BY <1>1, ServiceInit, ServiceStep, PTL DEF Spec, RestoredExactly
=============================================================================
