------------------------------- MODULE Helper -------------------------------
(***************************************************************************)
(* The root-owned Helper of one VPN node: awgctl processes (one per SSH    *)
(* RPC, one per `awgctl enforce`) that share root-only JSON files, the     *)
(* persistent configuration of every Instance and the runtime peers of its *)
(* interface (internal/helper/service.go, state.go, runtime.go).           *)
(*                                                                         *)
(* A step is one durable write, one lock operation or one runtime command, *)
(* so that a crash may fall between any two of them.  A peer is named by   *)
(* the connection that owns it: Helper generates one key pair per create.  *)
(***************************************************************************)
EXTENDS Naturals, FiniteSets

CONSTANTS
  Proc,            \* awgctl processes that may run at once
  Conn,            \* connections, each with its own peer
  Inst,            \* instances of this node
  Home,            \* the instance a connection belongs to
  Imported,        \* connections whose peers the configuration has at the start
  Addr,            \* client addresses of an instance subnet
  OpId,            \* operation ids the Panel uses
  Layout,          \* what a configuration holds beside its set of peers
  Reasons,         \* why Enforce suspends: "expired", "quota-exceeded"
  Rpc,             \* the RPC actions callers send in this instance
  MaxMinute,       \* bound: minutes of the enforcement clock
  MaxCrashes,      \* bound: killed processes and node restarts
  MaxEdits,        \* bound: configuration edits made outside AWG Control
  EditsRace,       \* such an edit may fall into the locked section of a request
  ManualEnforce,   \* `awgctl enforce` may also be started by hand
  Discovery,       \* discovery runs in this instance
  MayVanish,       \* instances whose container discovery may find stopped
  MoveMayMislead,  \* `mv` may report an error after it replaced the file
  RollbackMayFail, \* the compensation of a failed Apply may fail itself
  WriteMayFail,    \* a write of Helper state may fail (disk full)
  None

Actions == {"create", "disable", "enable", "revoke", "apply-policy"}
Status == {"active", "suspended", "expired", "quota-exceeded"}

ASSUME HelperAssumption ==
  /\ Home \in [Conn -> Inst]
  /\ Imported \subseteq Conn
  /\ Reasons \subseteq {"expired", "quota-exceeded"}
  /\ Rpc \subseteq Actions
  /\ MayVanish \subseteq Inst
  /\ OpId \cap (Conn \X Nat) = {}
  /\ Layout # {}
  /\ MaxMinute \in Nat /\ MaxCrashes \in Nat /\ MaxEdits \in Nat
  /\ {EditsRace, ManualEnforce, Discovery, MoveMayMislead, RollbackMayFail,
      WriteMayFail} \subseteq BOOLEAN
  /\ None \notin Proc /\ None \notin Addr /\ None \notin Status /\ None \notin Layout

(***************************************************************************)
(* A configuration is its set of peers and a layout: the order of the      *)
(* sections, the Interface section, comments.  Its SHA-256 fingerprint     *)
(* tells two contents apart exactly when they differ, so it is the content.*)
(***************************************************************************)
Content == [peers: SUBSET Conn, layout: Layout]
Absent == [peers |-> {}, layout |-> None]
Blank == [peers |-> {}, layout |-> CHOOSE l \in Layout : TRUE]

Minute == 0..MaxMinute
EnforceId == Conn \X Minute
Id == OpId \cup EnforceId
Request == [id: Id, action: Actions, conn: Conn, fp: Content \cup {Absent}]
NoRequest == [id |-> None]
Record == [req: Request, status: {"started", "succeeded", "failed"}]
NoRecord == [status |-> "none"]

VARIABLES
  \* files and runtime, shared by every process
  config,      \* Inst -> Content: the persistent configuration
  kernel,      \* Inst -> peers of the running interface
  susp,        \* suspended.json: connections whose section is stored
  policies,    \* policies.json: Conn -> status of its policy
  stored,      \* instances.json: Inst -> fingerprint last recorded
  journal,     \* journal.json: Id -> record
  addr,        \* Conn -> the address written in its peer section
  \* locks
  policyLock,  \* holder of locks/policies.lock
  instLock,    \* Inst -> holder of locks/instance-<id>.lock
  \* memory of each process
  pc, req,
  base,        \* the configuration read under the instance lock
  upd,         \* the configuration it will write
  copy,        \* instances.json as read for an update or by discovery
  mine,        \* the policies Enforce read
  todo,        \* active policies Enforce has still to look at
  reason,      \* the reason of the suspension Enforce is executing
  \* environment
  minute, lastRun, crashes, edits,
  \* history, read by no request
  stuck,       \* connections whose Apply ended in an error and left its file
  unsynced,    \* instances whose file was replaced and the interface not told
  touched      \* connections whose peer an outside edit added or removed

files == <<config, kernel, susp, policies, stored, addr>>
memory == <<base, upd, copy, mine, todo, reason>>
history == <<stuck, unsynced, touched>>
env == <<minute, lastRun, crashes, edits, history>>
vars == <<files, journal, policyLock, instLock, pc, req, memory, env>>

Steps == {"idle", "begun", "loaded", "locked", "save-suspended", "mv", "sync",
          "rollback", "resync", "undo", "clean-suspended", "policies",
          "update-read", "update-write", "record", "fail", "project",
          "loop", "discover"}

\* The steps at which a process executes the request in req.
Working == Steps \ {"idle", "loop", "discover"}

I(p) == Home[req[p].conn]
C(p) == req[p].conn
Action(p) == req[p].action
Enforcing(p) == req[p].id \in EnforceId
Goto(p, step) == pc' = [pc EXCEPT ![p] = step]

Init ==
  /\ \E l \in Layout : config =
       [i \in Inst |-> [peers |-> {c \in Imported : Home[c] = i}, layout |-> l]]
  /\ kernel = [i \in Inst |-> config[i].peers]
  /\ susp = {}
  /\ policies = [c \in Conn |-> None]
  /\ stored = config
  /\ journal = [k \in Id |-> NoRecord]
  /\ addr \in {f \in [Conn -> Addr \cup {None}] :
                /\ \A c \in Conn : f[c] = None <=> c \notin Imported
                /\ \A c, d \in Imported :
                     c # d /\ Home[c] = Home[d] => f[c] # f[d]}
  /\ policyLock = None
  /\ instLock = [i \in Inst |-> None]
  /\ pc = [p \in Proc |-> "idle"]
  /\ req = [p \in Proc |-> NoRequest]
  /\ base = [p \in Proc |-> Blank]
  /\ upd = [p \in Proc |-> Blank]
  /\ copy = [p \in Proc |-> [i \in Inst |-> Absent]]
  /\ mine = [p \in Proc |-> [c \in Conn |-> None]]
  /\ todo = [p \in Proc |-> {}]
  /\ reason = [p \in Proc |-> None]
  /\ minute = 0 /\ lastRun = None /\ crashes = 0 /\ edits = 0
  /\ stuck = {} /\ unsynced = {} /\ touched = {}

-----------------------------------------------------------------------------
(* An RPC arrives.  replay() appends a "started" record unless the id is   *)
(* known; a known id is answered from its record and changes nothing.      *)
(* The Panel sends the fingerprint it was last given; it makes a fresh     *)
(* connection id for every create.                                         *)

NeverCreated(c) ==
  /\ c \notin Imported \cup touched
  /\ \A k \in Id : journal[k] # NoRecord =>
       ~(journal[k].req.action = "create" /\ journal[k].req.conn = c)

\* Mutant of Begin: replay() does not look the id up.
BeginAgain(p, r) ==
  /\ pc[p] = "idle"
  /\ journal' = [journal EXCEPT ![r.id] = [req |-> r, status |-> "started"]]
  /\ req' = [req EXCEPT ![p] = r]
  /\ Goto(p, "begun")
  /\ UNCHANGED <<files, policyLock, instLock, memory, env>>

Begin(p, r) ==
  /\ pc[p] = "idle"
  /\ journal[r.id] = NoRecord
  /\ journal' = [journal EXCEPT ![r.id] = [req |-> r, status |-> "started"]]
  /\ req' = [req EXCEPT ![p] = r]
  /\ Goto(p, "begun")
  /\ UNCHANGED <<files, policyLock, instLock, memory, env>>

Call(p) ==
  \E k \in OpId, a \in Rpc, c \in Conn :
    /\ a = "create" => NeverCreated(c)
    /\ \E f \in {config[Home[c]], stored[Home[c]]} :
         Begin(p, [id |-> k, action |-> a, conn |-> c, fp |-> f])

\* LockPolicies of a mutation or of apply-policy; create does not take it
\* and Enforce holds it already.
TakePolicyLock(p) ==
  /\ pc[p] = "begun" /\ Action(p) # "create"
  /\ policyLock = IF Enforcing(p) THEN p ELSE None
  /\ policyLock' = p
  /\ IF Action(p) = "apply-policy" THEN Goto(p, "project")
     ELSE Goto(p, IF stored[I(p)] = Absent THEN "fail" ELSE "loaded")
  /\ UNCHANGED <<files, journal, instLock, req, memory, env>>

LoadInstance(p) ==
  /\ pc[p] = "begun" /\ Action(p) = "create"
  /\ Goto(p, IF stored[I(p)] = Absent THEN "fail" ELSE "loaded")
  /\ UNCHANGED <<files, journal, policyLock, instLock, req, memory, env>>

\* Mutant of TakeInstanceLock: a lock that does not exclude.
ShareInstanceLock(p) ==
  /\ pc[p] = "loaded"
  /\ instLock' = [instLock EXCEPT ![I(p)] = p]
  /\ Goto(p, "locked")
  /\ UNCHANGED <<files, journal, policyLock, req, memory, env>>

TakeInstanceLock(p) ==
  /\ pc[p] = "loaded"
  /\ instLock[I(p)] = None
  /\ instLock' = [instLock EXCEPT ![I(p)] = p]
  /\ Goto(p, "locked")
  /\ UNCHANGED <<files, journal, policyLock, req, memory, env>>

-----------------------------------------------------------------------------
(* ReadConfig, the fingerprint check and the edit of the parsed document.  *)
(* Suspended peers keep their addresses: create allocates against the      *)
(* peers of the configuration together with the suspended ones.            *)

\* Mutant of Reserved: the suspended peers are not passed to the allocator.
ReservedByActive(i) == {addr[c] : c \in config[i].peers}

Reserved(i) ==
  {addr[c] : c \in {d \in config[i].peers \cup susp : Home[d] = i}}

Edited(p) ==
  {[peers |-> IF Action(p) \in {"create", "enable"}
              THEN config[I(p)].peers \cup {C(p)}
              ELSE config[I(p)].peers \ {C(p)},
    layout |-> l] : l \in Layout}

Editable(p) ==
  /\ config[I(p)] = req[p].fp
  /\ \/ Action(p) = "create"  /\ Addr \ Reserved(I(p)) # {}
     \/ Action(p) = "disable" /\ C(p) \in config[I(p)].peers
     \/ Action(p) = "enable"  /\ C(p) \in susp \ config[I(p)].peers
     \/ Action(p) = "revoke"  /\ C(p) \in config[I(p)].peers \cup susp

\* What ReadConfig asks for is not met, or reading the file, the snapshot or
\* the parser fails.
RejectEdit(p) ==
  /\ pc[p] = "locked"
  /\ Goto(p, "fail")
  /\ UNCHANGED <<files, journal, policyLock, instLock, req, memory, env>>

\* A revoke of a peer that is only suspended leaves the file as it is and
\* skips Apply.
ReadConfig(p) ==
  /\ pc[p] = "locked"
  /\ Editable(p)
  /\ base' = [base EXCEPT ![p] = config[I(p)]]
  /\ \/ /\ Action(p) = "revoke" /\ C(p) \notin config[I(p)].peers
        /\ upd' = [upd EXCEPT ![p] = config[I(p)]]
        /\ Goto(p, "clean-suspended")
        /\ UNCHANGED addr
     \/ /\ ~(Action(p) = "revoke" /\ C(p) \notin config[I(p)].peers)
        /\ \E u \in Edited(p) : upd' = [upd EXCEPT ![p] = u]
        /\ Goto(p, IF Action(p) = "disable" THEN "save-suspended" ELSE "mv")
        /\ IF Action(p) = "create"
           THEN \E a \in Addr \ Reserved(I(p)) : addr' = [addr EXCEPT ![C(p)] = a]
           ELSE UNCHANGED addr
  /\ UNCHANGED <<config, kernel, susp, policies, stored, journal, policyLock,
                 instLock, req, copy, mine, todo, reason, env>>

\* Disable stores the section before it leaves the configuration.
SaveSuspended(p) ==
  /\ pc[p] = "save-suspended"
  /\ susp' = susp \cup {C(p)}
  /\ Goto(p, "mv")
  /\ UNCHANGED <<config, kernel, policies, stored, addr, journal, policyLock,
                 instLock, req, memory, env>>

-----------------------------------------------------------------------------
(* Apply: strip validates, mv replaces the file, syncconf and the check of *)
(* the runtime peers follow; either failing starts the rollback.  A failed *)
(* mv does not, and each command runs under a timeout of its own, so that  *)
(* it may report an error after its effect.                                *)

AfterApply(p) ==
  IF Action(p) = "create" THEN "update-read"
  ELSE IF Action(p) = "disable" THEN "policies" ELSE "clean-suspended"

RejectApply(p) ==
  /\ pc[p] = "mv"
  /\ Goto(p, "undo")
  /\ UNCHANGED <<files, journal, policyLock, instLock, req, memory, env>>

Replace(p) ==
  /\ pc[p] = "mv"
  /\ config' = [config EXCEPT ![I(p)] = upd[p]]
  /\ \/ Goto(p, "sync") /\ UNCHANGED <<stuck, unsynced>>
     \/ /\ MoveMayMislead
        /\ Goto(p, "undo")
        /\ stuck' = stuck \cup {C(p)}
        /\ unsynced' = unsynced \cup {I(p)}
  /\ UNCHANGED <<kernel, susp, policies, stored, addr, journal, policyLock,
                 instLock, req, memory, minute, lastRun, crashes, edits, touched>>

\* Mutant of Sync: the runtime is given the peers to add, none is removed.
SyncAdds(p) ==
  /\ pc[p] = "sync"
  /\ \/ /\ kernel' = [kernel EXCEPT ![I(p)] = @ \cup upd[p].peers]
        /\ unsynced' = unsynced \ {I(p)}
        /\ Goto(p, AfterApply(p)) \/ Goto(p, "rollback")
     \/ /\ Goto(p, "rollback")
        /\ UNCHANGED <<kernel, unsynced>>
  /\ UNCHANGED <<config, susp, policies, stored, addr, journal, policyLock, instLock,
                 req, memory, minute, lastRun, crashes, edits, stuck, touched>>

Sync(p) ==
  /\ pc[p] = "sync"
  /\ \/ /\ kernel' = [kernel EXCEPT ![I(p)] = upd[p].peers]
        /\ unsynced' = unsynced \ {I(p)}
        /\ Goto(p, AfterApply(p)) \/ Goto(p, "rollback")
     \/ /\ Goto(p, "rollback")
        /\ UNCHANGED <<kernel, unsynced>>
  /\ UNCHANGED <<config, susp, policies, stored, addr, journal, policyLock, instLock,
                 req, memory, minute, lastRun, crashes, edits, stuck, touched>>

RestoreFile(p) ==
  /\ pc[p] = "rollback"
  /\ config' = [config EXCEPT ![I(p)] = base[p]]
  /\ Goto(p, "resync")
  /\ UNCHANGED <<kernel, susp, policies, stored, addr, journal, policyLock,
                 instLock, req, memory, env>>

\* Mutant of Resync: the rollback restores the file only.
ResyncSkipped(p) ==
  /\ pc[p] = "resync"
  /\ Goto(p, "undo")
  /\ UNCHANGED <<files, journal, policyLock, instLock, req, memory, env>>

Resync(p) ==
  /\ pc[p] = "resync"
  /\ kernel' = [kernel EXCEPT ![I(p)] = base[p].peers]
  /\ unsynced' = unsynced \ {I(p)}
  /\ Goto(p, "undo")
  /\ UNCHANGED <<config, susp, policies, stored, addr, journal, policyLock, instLock,
                 req, memory, minute, lastRun, crashes, edits, stuck, touched>>

\* A rollback that fails leaves the new file, or the restored one beside an
\* interface that was not told.
RollbackFails(p) ==
  /\ RollbackMayFail
  /\ pc[p] \in {"rollback", "resync"}
  /\ Goto(p, "undo")
  /\ stuck' = IF pc[p] = "rollback" THEN stuck \cup {C(p)} ELSE stuck
  /\ unsynced' = unsynced \cup {I(p)}
  /\ UNCHANGED <<files, journal, policyLock, instLock, req, memory, minute, lastRun,
                 crashes, edits, touched>>

\* Mutant of Undo: a failed enable loses its entry, too.
UndoAny(p) ==
  /\ pc[p] = "undo"
  /\ susp' = susp \ {C(p)}
  /\ Goto(p, "fail")
  /\ UNCHANGED <<config, kernel, policies, stored, addr, journal, policyLock,
                 instLock, req, memory, env>>

\* A failed disable takes its entry out of suspended.json again; that this
\* write may fail, too, is ignored.
Undo(p) ==
  /\ pc[p] = "undo"
  /\ \/ susp' = IF Action(p) = "disable" THEN susp \ {C(p)} ELSE susp
     \/ WriteMayFail /\ UNCHANGED susp
  /\ Goto(p, "fail")
  /\ UNCHANGED <<config, kernel, policies, stored, addr, journal, policyLock,
                 instLock, req, memory, env>>

-----------------------------------------------------------------------------
(* Bookkeeping after a successful Apply.                                   *)

\* Mutant of CleanSuspended: a revoke leaves the stored section.
CleanEnabled(p) ==
  /\ pc[p] = "clean-suspended"
  /\ susp' = IF Action(p) = "enable" THEN susp \ {C(p)} ELSE susp
  /\ Goto(p, "policies")
  /\ UNCHANGED <<config, kernel, policies, stored, addr, journal, policyLock,
                 instLock, req, memory, env>>

CleanSuspended(p) ==
  /\ pc[p] = "clean-suspended"
  /\ susp' = susp \ {C(p)}
  /\ Goto(p, "policies")
  /\ UNCHANGED <<config, kernel, policies, stored, addr, journal, policyLock,
                 instLock, req, memory, env>>

\* Mutant of PolicyAfter: the action is stored in place of a status.
PolicyNamedByAction(a) == IF a = "revoke" THEN None ELSE a

PolicyAfter(a) ==
  IF a = "revoke" THEN None ELSE IF a = "disable" THEN "suspended" ELSE "active"

RewritePolicies(p) ==
  /\ pc[p] = "policies"
  /\ policies' = IF policies[C(p)] = None THEN policies
                 ELSE [policies EXCEPT ![C(p)] = PolicyAfter(Action(p))]
  /\ Goto(p, "update-read")
  /\ UNCHANGED <<config, kernel, susp, stored, addr, journal, policyLock,
                 instLock, req, memory, env>>

\* UpdateInstance reads instances.json and writes all of it back; no file
\* lock covers the pair, only the instance lock of this one instance.
UpdateRead(p) ==
  /\ pc[p] = "update-read"
  /\ copy' = [copy EXCEPT ![p] = stored]
  /\ Goto(p, "update-write")
  /\ UNCHANGED <<files, journal, policyLock, instLock, req, base, upd, mine,
                 todo, reason, env>>

\* Mutant of UpdateWrite: the fingerprint of the file before the change.
UpdateWithBase(p) ==
  /\ pc[p] = "update-write"
  /\ IF copy[p][I(p)] = Absent
     THEN /\ Goto(p, "fail")
          /\ UNCHANGED <<stored, instLock>>
     ELSE /\ stored' = [copy[p] EXCEPT ![I(p)] = base[p]]
          /\ instLock' = IF Action(p) = "create" THEN instLock
                         ELSE [instLock EXCEPT ![I(p)] = None]
          /\ Goto(p, "record")
  /\ UNCHANGED <<config, kernel, susp, policies, addr, journal, policyLock,
                 req, memory, env>>

\* A mutation gives the instance lock back here, create only at its end.
UpdateWrite(p) ==
  /\ pc[p] = "update-write"
  /\ IF copy[p][I(p)] = Absent
     THEN /\ Goto(p, "fail")
          /\ UNCHANGED <<stored, instLock>>
     ELSE /\ stored' = [copy[p] EXCEPT ![I(p)] = upd[p]]
          /\ instLock' = IF Action(p) = "create" THEN instLock
                         ELSE [instLock EXCEPT ![I(p)] = None]
          /\ Goto(p, "record")
  /\ UNCHANGED <<config, kernel, susp, policies, addr, journal, policyLock,
                 req, memory, env>>

\* Mutants of Unlocked: every lock goes with the process, or none.
UnlockedAll(p) == [i \in Inst |-> None]
UnlockedNone(p) == instLock

Unlocked(p) == [i \in Inst |-> IF instLock[i] = p THEN None ELSE instLock[i]]

\* The end of a request: the journal gets its result, the locks are released
\* and the process exits; Enforce goes on with its next policy.
Conclude(p, status) ==
  /\ journal' = [journal EXCEPT ![req[p].id] = [req |-> req[p], status |-> status]]
  /\ instLock' = Unlocked(p)
  /\ req' = [req EXCEPT ![p] = NoRequest]
  /\ base' = [base EXCEPT ![p] = Blank]
  /\ upd' = [upd EXCEPT ![p] = Blank]
  /\ copy' = [copy EXCEPT ![p] = [i \in Inst |-> Absent]]
  /\ reason' = [reason EXCEPT ![p] = None]
  /\ IF Enforcing(p)
     THEN /\ Goto(p, "loop")
          /\ mine' = IF status = "succeeded"
                     THEN [mine EXCEPT ![p][C(p)] = reason[p]] ELSE mine
          /\ UNCHANGED policyLock
     ELSE /\ Goto(p, "idle")
          /\ policyLock' = IF policyLock = p THEN None ELSE policyLock
          /\ UNCHANGED mine
  /\ UNCHANGED <<files, todo, env>>

RecordSucceeded(p) == pc[p] = "record" /\ Conclude(p, "succeeded")

\* Whether the failure could be recorded is ignored: the id may stay "started".
RecordFailed(p) ==
  /\ pc[p] = "fail"
  /\ Conclude(p, "failed") \/ (WriteMayFail /\ Conclude(p, "started"))

\* STATE_WRITE_FAILED: the write is atomic, so the file keeps its content.
WriteFails(p) ==
  /\ WriteMayFail
  /\ pc[p] \in {"save-suspended", "clean-suspended", "policies", "update-write",
                "project", "record"}
  /\ Goto(p, "fail")
  /\ UNCHANGED <<files, journal, policyLock, instLock, req, memory, env>>

-----------------------------------------------------------------------------
(* apply-policy: the Panel's projection replaces policies.json, except that*)
(* "active" does not lift a suspension this node decided itself.           *)

Project(p) ==
  /\ pc[p] = "project"
  /\ \E input \in [Conn -> {None, "active", "suspended"} \cup Reasons] :
       policies' = [c \in Conn |->
         IF input[c] = "active" /\ policies[c] \in {"expired", "quota-exceeded"}
         THEN policies[c] ELSE input[c]]
  /\ Goto(p, "record")
  /\ UNCHANGED <<config, kernel, susp, stored, addr, journal, policyLock,
                 instLock, req, memory, env>>

-----------------------------------------------------------------------------
(* Enforce keeps the policies lock from its first read to its final save.  *)
(* The timer starts it at most once a minute.                              *)

StartEnforce(p) ==
  /\ pc[p] = "idle"
  /\ Reasons # {}
  /\ ManualEnforce \/ lastRun # minute
  /\ policyLock = None
  /\ policyLock' = p
  /\ mine' = [mine EXCEPT ![p] = policies]
  /\ todo' = [todo EXCEPT ![p] = {c \in Conn : policies[c] = "active"}]
  /\ lastRun' = minute
  /\ Goto(p, "loop")
  /\ UNCHANGED <<files, journal, instLock, req, base, upd, copy, reason,
                 minute, crashes, edits, history>>

EnforceRequest(c) ==
  [id |-> <<c, minute>>, action |-> "disable", conn |-> c, fp |-> stored[Home[c]]]

\* The policy of c is found due for reason r: a disable under the id
\* enforce:<connection>:<minute>.
EnforceDisable(p, c, r) ==
  /\ journal[<<c, minute>>] = NoRecord
  /\ journal' = [journal EXCEPT ![<<c, minute>>] =
                   [req |-> EnforceRequest(c), status |-> "started"]]
  /\ req' = [req EXCEPT ![p] = EnforceRequest(c)]
  /\ reason' = [reason EXCEPT ![p] = r]
  /\ Goto(p, "begun")
  /\ UNCHANGED mine

\* Mutant of EnforceReplay: every known id counts as done.
EnforceReplayAny(p, c, r) ==
  /\ journal[<<c, minute>>] # NoRecord
  /\ mine' = [mine EXCEPT ![p][c] = r]
  /\ UNCHANGED <<journal, req, reason, pc>>

\* The id is known: a succeeded record of the same request counts as done,
\* every other record as a failure of this round.
EnforceReplay(p, c, r) ==
  /\ journal[<<c, minute>>] # NoRecord
  /\ mine' = IF journal[<<c, minute>>] =
                  [req |-> EnforceRequest(c), status |-> "succeeded"]
             THEN [mine EXCEPT ![p][c] = r] ELSE mine
  /\ UNCHANGED <<journal, req, reason, pc>>

EnforceDue(p, c, r) ==
  /\ pc[p] = "loop"
  /\ c \in todo[p]
  /\ stored[Home[c]] # Absent
  /\ todo' = [todo EXCEPT ![p] = @ \ {c}]
  /\ EnforceDisable(p, c, r) \/ EnforceReplay(p, c, r)
  /\ UNCHANGED <<files, policyLock, instLock, base, upd, copy, env>>

EnforceSave(p) ==
  /\ pc[p] = "loop"
  /\ policies' = mine[p] \/ (WriteMayFail /\ UNCHANGED policies)
  /\ policyLock' = None
  /\ mine' = [mine EXCEPT ![p] = [c \in Conn |-> None]]
  /\ todo' = [todo EXCEPT ![p] = {}]
  /\ Goto(p, "idle")
  /\ UNCHANGED <<config, kernel, susp, stored, addr, journal, instLock, req,
                 base, upd, copy, reason, env>>

-----------------------------------------------------------------------------
(* discover: reads instances.json and every configuration, then saves the  *)
(* list, under no lock.  An instance whose container is not running is not *)
(* in the list any more; seen again it gets a new id.                      *)

DiscoverRead(p) ==
  /\ Discovery
  /\ pc[p] = "idle"
  /\ \E gone \in SUBSET MayVanish :
       copy' = [copy EXCEPT ![p] = [i \in Inst |->
         IF stored[i] = Absent \/ i \in gone THEN Absent ELSE config[i]]]
  /\ Goto(p, "discover")
  /\ UNCHANGED <<files, journal, policyLock, instLock, req, base, upd, mine,
                 todo, reason, env>>

DiscoverSave(p) ==
  /\ pc[p] = "discover"
  /\ stored' = copy[p]
  /\ copy' = [copy EXCEPT ![p] = [i \in Inst |-> Absent]]
  /\ Goto(p, "idle")
  /\ UNCHANGED <<config, kernel, susp, policies, addr, journal, policyLock,
                 instLock, req, base, upd, mine, todo, reason, env>>

-----------------------------------------------------------------------------
(* The environment.                                                        *)

\* A process is killed: flock releases what it held, the files stay.
Crash(p) ==
  /\ pc[p] # "idle"
  /\ crashes < MaxCrashes
  /\ crashes' = crashes + 1
  /\ policyLock' = IF policyLock = p THEN None ELSE policyLock
  /\ instLock' = Unlocked(p)
  /\ req' = [req EXCEPT ![p] = NoRequest]
  /\ base' = [base EXCEPT ![p] = Blank]
  /\ upd' = [upd EXCEPT ![p] = Blank]
  /\ copy' = [copy EXCEPT ![p] = [i \in Inst |-> Absent]]
  /\ mine' = [mine EXCEPT ![p] = [c \in Conn |-> None]]
  /\ todo' = [todo EXCEPT ![p] = {}]
  /\ reason' = [reason EXCEPT ![p] = None]
  /\ unsynced' = IF pc[p] \in {"sync", "rollback", "resync"}
                 THEN unsynced \cup {I(p)} ELSE unsynced
  /\ Goto(p, "idle")
  /\ UNCHANGED <<files, journal, minute, lastRun, edits, stuck, touched>>

\* Peers Helper and the Panel know nothing of.
Strangers(i) ==
  {c \in Conn \ (Imported \cup touched) :
     Home[c] = i /\ \A k \in Id : journal[k] # NoRecord => journal[k].req.conn # c}

\* An administrator edits the configuration with the native tools: other
\* sections, peers removed, new ones added under any address, one that is
\* reserved for a suspended peer included.
ExternalEdit(i) ==
  /\ edits < MaxEdits
  /\ EditsRace \/ instLock[i] = None
  /\ edits' = edits + 1
  /\ \E gone \in SUBSET config[i].peers, new \in SUBSET Strangers(i), l \in Layout :
       /\ config' = [config EXCEPT ![i] =
                      [peers |-> (@.peers \ gone) \cup new, layout |-> l]]
       /\ touched' = touched \cup gone \cup new
       /\ unsynced' = IF gone \cup new = {} THEN unsynced ELSE unsynced \cup {i}
       /\ \E a \in [new -> Addr] :
            addr' = [c \in Conn |-> IF c \in new THEN a[c] ELSE addr[c]]
  /\ UNCHANGED <<kernel, susp, policies, stored, journal, policyLock, instLock, pc,
                 req, memory, minute, lastRun, crashes, stuck>>

\* The interface comes up again from the persistent configuration.
ContainerRestart(i) ==
  /\ kernel' = [kernel EXCEPT ![i] = config[i].peers]
  /\ unsynced' = unsynced \ {i}
  /\ UNCHANGED <<config, susp, policies, stored, addr, journal, policyLock, instLock, pc,
                 req, memory, minute, lastRun, crashes, edits, stuck, touched>>

Tick ==
  /\ minute < MaxMinute
  /\ minute' = minute + 1
  /\ UNCHANGED <<files, journal, policyLock, instLock, pc, req, memory,
                 lastRun, crashes, edits, history>>

-----------------------------------------------------------------------------
Mutation(p) ==
  \/ TakePolicyLock(p) \/ LoadInstance(p) \/ TakeInstanceLock(p)
  \/ RejectEdit(p) \/ ReadConfig(p) \/ SaveSuspended(p)
  \/ RejectApply(p) \/ Replace(p) \/ Sync(p)
  \/ RestoreFile(p) \/ Resync(p) \/ RollbackFails(p) \/ Undo(p)
  \/ CleanSuspended(p) \/ RewritePolicies(p) \/ UpdateRead(p) \/ UpdateWrite(p)
  \/ RecordSucceeded(p) \/ RecordFailed(p) \/ WriteFails(p) \/ Project(p)

Enforce(p) ==
  \/ StartEnforce(p)
  \/ \E c \in Conn, r \in Reasons : EnforceDue(p, c, r)
  \/ EnforceSave(p)

Discover(p) == DiscoverRead(p) \/ DiscoverSave(p)

Next ==
  \/ \E p \in Proc : Call(p) \/ Mutation(p) \/ Enforce(p) \/ Discover(p) \/ Crash(p)
  \/ \E i \in Inst : ExternalEdit(i) \/ ContainerRestart(i)
  \/ Tick

Spec == Init /\ [][Next]_vars

\* An awgctl process runs its request to the end (the scheduler does not
\* forget it) and flock serves every waiter; nobody has to send a request.
FairSpec ==
  /\ Spec
  /\ \A p \in Proc :
       /\ WF_vars(Mutation(p)) /\ WF_vars(EnforceSave(p)) /\ WF_vars(DiscoverSave(p))
       /\ SF_vars(TakePolicyLock(p)) /\ SF_vars(TakeInstanceLock(p))

-----------------------------------------------------------------------------
(* Types of the state, and that a process at work has a request.           *)
TypeOK ==
  /\ config \in [Inst -> Content]
  /\ kernel \in [Inst -> SUBSET Conn]
  /\ susp \subseteq Conn
  /\ policies \in [Conn -> Status \cup {None}]
  /\ stored \in [Inst -> Content \cup {Absent}]
  /\ journal \in [Id -> Record \cup {NoRecord}]
  /\ addr \in [Conn -> Addr \cup {None}]
  /\ policyLock \in Proc \cup {None}
  /\ instLock \in [Inst -> Proc \cup {None}]
  /\ pc \in [Proc -> Steps]
  /\ req \in [Proc -> Request \cup {NoRequest}]
  /\ \A p \in Proc : pc[p] \in Working => req[p] \in Request
  /\ base \in [Proc -> Content]
  /\ upd \in [Proc -> Content]
  /\ copy \in [Proc -> [Inst -> Content \cup {Absent}]]
  /\ mine \in [Proc -> [Conn -> Status \cup {None}]]
  /\ todo \in [Proc -> SUBSET Conn]
  /\ reason \in [Proc -> Reasons \cup {None}]
  /\ minute \in Minute /\ lastRun \in Minute \cup {None}
  /\ crashes \in 0..MaxCrashes /\ edits \in 0..MaxEdits
  /\ stuck \subseteq Conn /\ unsynced \subseteq Inst /\ touched \subseteq Conn

Recorded(c, a, s) ==
  \E k \in Id : /\ journal[k] # NoRecord /\ journal[k].status \in s
                 /\ journal[k].req.action = a /\ journal[k].req.conn = c

Issued(c) == c \in Imported \/ Recorded(c, "create", {"succeeded"})
EnableSent(c) == Recorded(c, "enable", {"started", "succeeded", "failed"})
RevokeSent(c) == Recorded(c, "revoke", {"started", "succeeded", "failed"})

Held(i) == {c \in config[i].peers \cup susp : Home[c] = i}

(* Mutations of one instance are serialized and an outside edit is never   *)
(* overwritten: the file a request is about to replace is the one its      *)
(* caller knew, byte for byte.                                             *)
ReplacesWhatWasExpected ==
  \A p \in Proc : pc[p] \in {"save-suspended", "mv"} => config[I(p)] = req[p].fp

(* No peer is removed silently: a peer that was issued or imported and that*)
(* nobody asked to revoke is in the configuration or in suspended.json,    *)
(* whatever fails or is killed in between.                                 *)
NoSilentRemoval ==
  \A c \in Conn : Issued(c) /\ ~RevokeSent(c) => c \in Held(Home[c])

(* So it is, but for an Apply of this peer that reports an error and leaves*)
(* its file in place: mv erred after its effect or the rollback failed.    *)
PeerKept ==
  \A c \in Conn :
    Issued(c) /\ ~RevokeSent(c) /\ c \notin stuck \cup touched => c \in Held(Home[c])

(* No two peers of an instance, active or suspended, have one address; a   *)
(* peer added outside takes what address it likes.                         *)
AddressesUnique ==
  \A i \in Inst : \A c, d \in Held(i) \ touched : c # d => addr[c] # addr[d]

(* Revoking is irreversible: once a revoke is journaled as succeeded, the  *)
(* peer is in no file, ever again ...                                      *)
RevokeIsFinal ==
  \A c \in Conn : Recorded(c, "revoke", {"succeeded"}) => c \notin Held(Home[c])

(* ... and the running interface does not serve it ...                     *)
RevokedAtOnce ==
  \A c \in Conn : Recorded(c, "revoke", {"succeeded"}) => c \notin kernel[Home[c]]

(* ... but for an instance whose file was changed earlier, by a request    *)
(* that was killed or ended in an error or from outside, without the       *)
(* interface being told, and only until the next Apply or restart tells it.*)
RevokedIsCut ==
  \A c \in Conn :
    Recorded(c, "revoke", {"succeeded"}) /\ Home[c] \notin unsynced
      => c \notin kernel[Home[c]]

(* When nobody is mutating an instance, its interface runs the peers of its*)
(* file, with the same exception: a failed syncconf is rolled back in both.*)
KernelFollowsFile ==
  \A i \in Inst : instLock[i] = None /\ i \notin unsynced => kernel[i] = config[i].peers

(* ... and the fingerprint Helper keeps for the instance, the one Enforce  *)
(* uses, is that of the file, unless an Apply for the instance reported an *)
(* error and left its file in place.                                       *)
FingerprintCurrent ==
  \A i \in Inst :
    instLock[i] = None /\ (\A c \in stuck : Home[c] # i) => stored[i] = config[i]

(* What Enforce is about to record as cut off is cut off, in the file and  *)
(* in the interface, unless somebody asked to enable it again.             *)
EnforcedIsOut ==
  \A p \in Proc : pc[p] = "loop" =>
    \A c \in Conn :
      /\ mine[p][c] \in {"expired", "quota-exceeded"} /\ policies[c] # mine[p][c]
      /\ ~EnableSent(c)
      => c \notin config[Home[c]].peers \cup kernel[Home[c]]

(* An operation id is executed at most once: two processes never work on   *)
(* one id, and a result that is in the journal stays the result.           *)
ExecutedOnce ==
  \A p, q \in Proc : pc[p] \in Working /\ pc[q] \in Working /\ p # q =>
    req[p].id # req[q].id

ResultStays ==
  [][\A k \in Id : journal[k] # NoRecord /\ journal[k].status # "started" =>
       journal'[k] = journal[k]]_vars

(* Every request comes to its end: no cycle of waiting for the policies    *)
(* lock and the instance locks.                                            *)
RequestsEnd == \A p \in Proc : pc[p] = "begun" ~> pc[p] \in {"idle", "loop"}

-----------------------------------------------------------------------------
(***************************************************************************)
(* The inductive invariant the proofs share, relating the step each        *)
(* request has reached to the journal, the locks and the files; with it,   *)
(* PeerKept is inductive, too.                                             *)
(***************************************************************************)

\* The steps under the instance lock; create keeps it to its last one.
UnderLock == {"locked", "save-suspended", "mv", "sync", "rollback", "resync",
              "undo", "clean-suspended", "policies", "update-read", "update-write"}
Holds(p) == pc[p] \in UnderLock \/ (pc[p] = "record" /\ Action(p) = "create")

(* A request at work is in the journal as started, under its own id only.  *)
RequestJournaled(p) ==
  pc[p] \in Working =>
    journal[req[p].id] = [req |-> req[p], status |-> "started"]

Creates(k, c) ==
  journal[k] # NoRecord /\ journal[k].req.action = "create" /\ journal[k].req.conn = c

(* A connection is created by one operation. *)
CreatedOnce ==
  \A c \in Conn : \A k, m \in Id :
    Creates(k, c) => c \notin Imported /\ (Creates(m, c) => k = m)

(* Where the peer of a request is, at each step of the request.            *)
Progress(p) ==
  /\ Holds(p) => instLock[I(p)] = p /\ Action(p) # "apply-policy"
  /\ pc[p] = "loaded" => Action(p) # "apply-policy"
  /\ pc[p] = "save-suspended" => Action(p) = "disable"
  /\ pc[p] = "clean-suspended" => Action(p) \in {"enable", "revoke"}
  /\ pc[p] = "policies" => Action(p) # "create"
  /\ pc[p] = "project" => Action(p) = "apply-policy"
  /\ pc[p] \in {"save-suspended", "mv", "sync", "rollback"} =>
       upd[p].peers = IF Action(p) \in {"create", "enable"}
                      THEN base[p].peers \cup {C(p)} ELSE base[p].peers \ {C(p)}
  /\ \/ pc[p] \in {"save-suspended", "mv", "resync"}
     \/ pc[p] = "undo" /\ C(p) \notin stuck
     => config[I(p)].peers = base[p].peers
  /\ pc[p] \in {"sync", "rollback"} => config[I(p)].peers = upd[p].peers
  /\ \/ pc[p] = "clean-suspended" /\ Action(p) = "enable"
     \/ pc[p] \in {"update-read", "update-write", "record"} /\ Action(p) = "create"
     => C(p) \in config[I(p)].peers
  /\ pc[p] \in {"mv", "sync", "rollback", "resync", "undo"}
       /\ Action(p) \in {"disable", "enable"} => C(p) \in susp
  /\ pc[p] \in {"save-suspended", "mv", "sync", "rollback", "resync", "undo"}
       /\ Action(p) = "disable" => C(p) \in base[p].peers

RequestInv ==
  /\ TypeOK
  /\ \A p \in Proc : RequestJournaled(p) /\ Progress(p)
  /\ ExecutedOnce
  /\ CreatedOnce

PeerInv == RequestInv /\ PeerKept
=============================================================================
