# A TLA+ verification of AWG Control

AWG Control lets an administrator issue, suspend and revoke VPN connections on
several nodes from one Panel. The Panel (TypeScript, Fastify, SQLite) reaches
every node over SSH and runs one command there, the root-owned Helper `awgctl`
(Go), which edits the WireGuard/AmneziaWG configuration inside a container.
Optionally a relay host in front of the nodes forwards UDP ports with an nginx
of its own, managed by the same binary.

This directory holds the TLA+ model of that system, the TLC runs that check it on
small instances, and proofs for TLAPS, the TLA+ proof system.

| | |
|---|---|
| `Helper.tla`, `MCHelper.tla`, `Helper*.cfg` | the Helper of one node |
| `HelperProofs.tla` | its types, the invariant of its requests and "no peer is lost", proved |
| `HelperSafety.tla` | its other safety: journal, fingerprints, revocation, addresses, interface, enforcement, proved |
| `RelayRoutes.tla` | the data of a relay: route table, files, what an operation makes of them |
| `RelayAtomic.tla` | abstract specification: an operation happens at once or not at all |
| `Relay.tla`, `MCRelay.tla`, `Relay*.cfg` | the relay helper, step by step |
| `RelayProofs.tla` | that `Relay` implements `RelayAtomic`, and its safety, proved |
| `Panel.tla`, `MCPanel.tla`, `PanelCore.cfg` | the Panel's connections, discovery and policy worker, and the node behind calls that get lost |
| `PanelProofs.tla`, `PanelAgreement.tla` | its safety; that Panel and node agree at rest; proved |
| `RelayPanel.tla`, `MCRelayPanel.tla`, `RelayPanelCore.cfg` | the Panel's relay operations and the relay host behind calls that get lost |
| `RelayRoutesProofs.tla`, `RelayPanelProofs.tla` | lemmas about relay data; safety of the Panel's rows and records against the host, proved |
| `Sessions.tla`, `Metering.tla` | logins, sessions and operations done once; traffic counters |
| `Server.tla`, `MCServer.tla`, `ServerCore.cfg` | the Panel process that composes these two with its worker |
| `ServerProofs.tla` | their safety, proved |
| `PROJECT.json` | components, runs, mutants, source map, findings, hazards, theorems |

To check a run: `tlc -config HelperCore.cfg MCHelper.tla`; to check proofs:
`tlapm PanelProofs.tla`, and so for `HelperSafety` and the other modules named
`...Proofs`.

Paths below are relative to `src/`.

## 1. Inventory

### Helper requests (`internal/helper/service.go`)

*State.* None in memory that outlives a request: each SSH RPC is a process of
its own that reads and rewrites files. *Operations.* `create`, `disable`, `enable`,
`revoke`, `apply-policy`, `discover`, `stats`, `export`, `restore-all-suspended`.
A mutation goes through `replay` (journal), the policies lock, the instance lock,
read and fingerprint check, edit, `Apply` in the container, bookkeeping, final
journal record. *Hard.* Two requests on one instance or one connection; a failure
in any of some ten writes, some compensated and some not; a kill between two
of them; a retry under the same operation id. *Correct when* no peer
disappears unless somebody asked for its revocation, a revoked peer never comes
back, addresses are unique, an operation id is executed once, nothing is
overwritten that the caller did not know.

### Helper enforcement (`Service.Enforce`, `deploy/systemd/awg-control-enforce.timer`)

*State.* The policies it has read, in memory, from start to its final save.
*Operations.* Once a minute: for every active policy that is expired or over quota, a
disable under the id `enforce:<connection>:<minute>`. *Hard.* It holds the
policies lock while requests wait for it and takes instance locks inside; its
snapshot is written back at the end; the id may have been used before in the
same minute. *Correct when* a policy recorded as expired belongs to a peer that
is really cut off.

### Helper state store (`internal/helper/state.go`)

*State.* `instances.json`, `suspended.json`, `policies.json`, `journal.json`,
snapshot files, one lock file per lock. *Operations.* Atomic replacement of a
file (temporary file, fsync, rename), flock, journal append. *Hard.* Three files and
three kinds of locks without a common transaction; `UpdateInstance` rewrites the file of
all instances under the lock of one. *Correct when* the files agree with each
other whenever nobody holds their locks.

### Helper container runtime (`internal/helper/runtime.go`)

*State.* The configuration file in the container and the peers of the running
interface. *Operations.* `Discover`, `ReadConfig`, `Apply` (strip, `mv`,
`syncconf`, check) and its rollback. *Hard.* `mv` and `syncconf` are two commands; a
rollback is two more and may fail. *Correct when* the interface runs what the
file says whenever no request is at work.

### Configuration documents (`internal/configdoc/document.go`)

Parsing and editing of the configuration text, choice of a free client address.
No state; boundaries of the subnet arithmetic and the full pool are the
hard part.

### Relay helper (`internal/relay/service.go`, `runtime.go`)

*State.* `nginx.conf`, the systemd unit, `routes.json`, the enablement of the
unit, the nginx worker that runs, a journal whose records carry a snapshot,
one lock file. *Operations.* install, update, apply, disable, remove, uninstall,
status. *Hard.* One request is about a dozen file and systemd operations; any may
fail with or without effect, the compensation may fail, the process may be
killed or the host rebooted; systemd restarts nginx on its own. *Correct when*
an operation is atomic and nginx forwards what the routes say.

### Wire protocol and command line (`internal/protocol`, `cmd/awgctl`)

Decoding and validation of one JSON request on standard input. No state.

### Panel connections and issuance (`apps/api/src/http/routes.ts`, `repository.ts`, `helper/client.ts`)

*State.* SQLite: connections, policies, idempotency records, operations, audit.
*Operations.* Issue, suspend, resume, revoke, override, each one Helper call with
database transactions before and after it. *Hard.* Every handler
awaits SSH between reading a row and writing it; the answer may be
lost after the Helper did its work; the process may be restarted in between.
*Correct when* the Panel's status of a connection and the node's agree in the
end, and a revoked connection stays revoked.

### Panel worker (`worker.ts`)

Polls nodes for traffic, evaluates expiry and quota, and sends policy
projections, concurrently with requests. *Correct when* it never overwrites a newer
decision of an administrator and traffic totals never lose or repeat bytes.

### Panel nodes and instance catalog (`routes.ts`, `repository.ts`)

Discovery results are merged into instance rows; containers vanish and are
reborn under new ids. *Correct when* connections stay with the instance their
peers live on.

### Panel relay operations (`relay/service.ts`, `relay/repository.ts`)

Durable relay operations, reconciliation of those without an answer, drift
detection by a status poll. *Correct when* an operation is recorded as failed only
if it did not happen.

### Administrator authentication (`http/auth.ts`, `security/crypto.ts`)

Login, TOTP, sessions, throttling. *Hard.* A login awaits a slow password hash
between reading the administrator and creating the session. *Correct when* no session
outlives the credentials it was created from.

### Server, database, configuration; web interface; installers

Wiring, migrations, presentation, one-shot shell scripts. *Hard.* A restart loses every
request and call in memory and keeps the database; that is in every Panel module.

### How the parts interact

    web -> Panel handlers --+                         +-> Relay helper (relay host)
                            +-> SSH, one process per -+
           Panel worker   --+   call, may be lost     +-> Helper requests (node) --+
                                                                                   +-> files, locks,
                                        systemd timer --> Helper enforcement    ---+   container

The Panel and a Helper share no memory: operation ids (retries) and configuration
fingerprints (staleness) are all that ties a call to the node's state. On a node,
requests and enforcement share files and locks only. On a relay host, requests
share files with systemd.

## 2. Plan

In order of what is lost when it goes wrong. Done: 1 to 6.

1. **Helper**: requests, enforcement, discovery, state store and container
   runtime of one node in one module, because their interleavings on shared files
   are the subject. One action per durable write, lock or runtime command.
2. **HelperProofs**: types; no peer is lost. **HelperSafety**: the other safety properties.
3. **RelayAtomic, Relay, RelayProofs**: the relay helper against an abstract
   specification of atomic operations.
4. **Panel, PanelProofs, PanelAgreement**: connections, discovery and the policies the worker
   projects, over a transport that loses answers, composed with the node in one
   step per request (the contract whose inside `Helper` has).
5. **RelayPanel, RelayPanelProofs**: the Panel's durable relay operations composed with
   a host that handles a request in one step, as `RelayAtomic` has it.
6. **Sessions, Metering, Server, ServerProofs**: logins, sessions, operations done once,
   traffic counters, and the worker's tick that ties them together.

Open:

7. **Quota**: the byte counters of the Helper's policies (`ApplyPolicy`, `Enforce`) across
   runtime resets, Panel totals and epochs; usage periods of the Panel.
8. **Catalog**: several instances of a node, containers that vanish and return under new
   ids. **Addresses**: the allocator against "the free addresses of the subnet", over
   small prefixes.
9. An abstract **PeerLifecycle** (issued, suspended, revoked) implemented by
   `Helper`.

## 3. Helper

### State and code

| variable | code |
|---|---|
| `config[i]` | the configuration file in the container of instance i, as its set of peers and a `layout` that stands for everything else an edit changes |
| `kernel[i]` | peers of the running interface (`wg show`) |
| `susp` | `suspended.json` |
| `policies` | `policies.json`, the status of each policy |
| `stored[i]` | fingerprint of i in `instances.json`, `Absent` when i is not listed |
| `journal` | `journal.json`: operation id to request and status |
| `addr` | the client address in a peer's section |
| `policyLock`, `instLock[i]` | flock on `locks/policies.lock`, `locks/instance-<id>.lock` |
| `pc`, `req`, `base`, `upd`, `copy`, `mine`, `todo`, `reason` | one awgctl process: where it is, the request, the configuration it read and the one it writes, `instances.json` as it read it, Enforce's local policies and loop |
| `minute`, `lastRun`, `crashes`, `edits` | clock of the timer, counters of the bounded environment |
| `stuck`, `unsynced`, `touched` | history that no request reads: connections whose Apply reported an error and left its file in place; instances whose file was replaced without the interface being told since; connections whose peer an outside edit removed or added |

A SHA-256 fingerprint is modelled by the content itself: it is only ever compared.
The memory of a process is reset when it exits, so that idle processes look alike.
A kill (`Crash`) releases the locks and leaves the files, as flock does.

### Actions and code

A mutation is the sequence of steps `begun`, `loaded`, `locked`, …, each an action:

* `Begin` is `replay`: the id is looked up and a "started" record appended under
  the journal lock. A known id changes nothing, so it is no step. `Call`
  chooses the request: any action of `Rpc`, any connection, and the fingerprint
  of the present file or of the last one Helper recorded (what a Panel knows).
* `TakePolicyLock`, `LoadInstance`, `TakeInstanceLock`: the locks, in the code's
  order; create takes no policies lock.
* `ReadConfig` / `RejectEdit`: read, compare, edit. `RejectEdit` needs no
  reason, because reading and parsing may fail for any.
* `SaveSuspended`, then `Replace`, `Sync` (`mv`, `syncconf`), or `RejectApply`,
  `RestoreFile`, `Resync`, `RollbackFails`, `Undo`: Apply, its rollback, and the
  compensation of the caller. Every command is a `docker exec` under a limit of 15
  seconds (`runtime.go:79-94`), so that it may report an error after its effect. For
  `syncconf` that leads to the rollback; for `mv` it does not (`runtime.go:499-501`):
  `Replace` then goes to `Undo` with the new file in place (`MoveMayMislead`).
* `CleanSuspended`, `RewritePolicies`, `UpdateRead`, `UpdateWrite`,
  `RecordSucceeded` / `RecordFailed`: bookkeeping. `WriteFails` is
  STATE_WRITE_FAILED of any of these writes (that of Enforce's final one is in
  `EnforceSave`).
* `Project` is apply-policy. `StartEnforce`, `EnforceDue`, `EnforceSave` are
  `Enforce`; its disable runs through the same mutation steps.
* `DiscoverRead`, `DiscoverSave`: discover reads and rewrites `instances.json`
  under no lock.
* Environment: `Crash`, `ContainerRestart`, `Tick`, and `ExternalEdit`: native tools edit
  the file, remove any of its peers and add others (`Strangers`: connections that Helper and Panel
  know nothing of) under any address. `RestorePeer` looks at the key only
  (`configdoc/document.go:163-175`), so a suspended peer comes back beside a stranger that has
  taken its address.

Not distinguished: a failing request releases its locks shortly before it writes
its journal record, the model does both in one step (nobody reads the record in
between but a repeated call, which is answered OPERATION_IN_PROGRESS either
way). `restore-all-suspended` is a sequence of enable requests with the stored
fingerprint, which `Call` offers.

### Runs

| run | instance | properties |
|---|---|---|
| `HelperCore` | 2 processes, 2 connections, 2 operations, one outside edit that removes or adds peers, discovery that may drop the instance, `mv` that misreports, rollbacks that fail, no crash | `ReplacesWhatWasExpected`, `RevokedIsCut`, `KernelFollowsFile`, `AddressesUnique`, `ResultStays` |
| `HelperCrash` | 2 processes, 2 connections, 3 operations, one kill, failing writes, `mv` that misreports, rollbacks that fail | `PeerInv` (the inductive invariant), `PeerKept`, `AddressesUnique`, `RevokeIsFinal` |
| `HelperEnforce` | enforcement twice in a minute and over two, beside suspend, resume, revoke and projections; `mv` that misreports, rollbacks that fail | `TypeOK`, `EnforcedIsOut`, `FingerprintCurrent` |
| `HelperLive` | 2 processes, all locks contended, `mv` that misreports, rollbacks that fail | `RequestsEnd` |
| `HelperRollback` | `mv` that misreports, rollbacks that fail; no kill, no failing write | `NoSilentRemoval` is violated |
| `HelperRevokeCrash` | one kill | `RevokedAtOnce` is violated |
| `HelperTwoInstances` | two creates, two instances | `FingerprintCurrent` is violated |

*Bounds.* Two processes: every conflict here is between two (locks are mutually
exclusive, unlocked writes race pairwise). Two connections on an instance are needed
for an address conflict and for a peer that is not the request's own; three
operations for suspend, a failed or killed resume, and its successor (the hazards
need at most two after an imported peer). One kill separates any two writes of a
request and leaves two operations to run into what it left; for `PeerKept` the proof
covers any number. Two minutes and manual enforcement reach the repeated enforcement id. Operation
ids run out, after which nothing happens: hence `CHECK_DEADLOCK FALSE`.
A lock cycle is caught by `RequestsEnd`, which needs waiters to be served.

*Fairness* (`FairSpec`). Weak fairness of a process's own steps: the scheduler runs an
awgctl process until it exits. Strong fairness of taking the two locks: a waiter
of flock gets its turn although others take the lock in between. No fairness for
calls, the timer or faults. The timeouts of the container commands only turn a
step into its failure.

*What it shows.* The serialisation by instance lock, fingerprint and journal is
sound even against discovery under no lock. With a kill, a failing write, a
misreporting `mv` or a failing rollback no two addresses that Helper gave collide and no
revoked peer returns. What the code does not keep is stated as the exception of a property:

* `PeerKept`: a peer is never lost but by an Apply of its own that reported an error and left its
  file in place (`stuck`), or an outside edit. `NoSilentRemoval` is the same
  without the exception, and is violated.
* `KernelFollowsFile`, `RevokedIsCut`: the interface serves the peers of the file, and no revoked one,
  but for an instance whose file was replaced without the interface being told
  (`unsynced`): by a misreporting `mv`, a failed rollback, a kill or an outside edit, and
  only until the next Apply or restart. `RevokedAtOnce` is the same without the exception.
* `FingerprintCurrent`: but for an instance with a connection in `stuck`.
* `AddressesUnique`: but for the peers an outside edit added.

### What changes with the constants

The passing runs leave out combinations for which the code makes no promise:

* `EditsRace = TRUE`: an edit between the read and `mv` is overwritten; nothing
  outside the container can exclude it.
* `EnforcedIsOut` excepts peers somebody asked to enable (`EnableSent`). Enforced,
  re-enabled and enforced again in one minute, the second enforcement finds the id of the
  first as succeeded and records the policy as expired while the peer is active; the next
  minute's run does not look at the policy any more. Without the exception the run fails.
* discovery beside mutations, or a kill or a failing write before `UpdateWrite`:
  `FingerprintCurrent` fails until the next discovery.

## 4. Relay helper

### State and code

| variable | code |
|---|---|
| `files` | `nginx.conf` (as the set of listening ports and their routes), whether the unit file is there, `routes.json`; `Missing` for a file that is not there |
| `link` | the symlink that enables the unit; `Enabled` (what systemctl says) needs the unit, too |
| `service`, `serving` | ActiveState, and the configuration the running nginx loaded |
| `journal` | journal records; the snapshot of a settled record is never read |
| `lock` | the lock file |
| `pc`, `req`, `before`, `fixing` | one awgctl process: step, request, snapshot, the interrupted operation it restores |
| `torn` | history: an operation recorded as succeeded was left half rolled back |

A route stands for its upstream. The text of the nginx configuration is left out,
its content is `Rendered`: a `listen` per enabled route; a disabled route
reserves its port (`Conflict`).

### Actions and code

`Handle` in order: `Call`/`Begin` (lock or RELAY_BUSY), `Recover` and `Recovered`
(the loop over pending records), `Refuse` or `Accept` (validation, snapshot,
pending record), `Stop` (uninstall only), `WriteConfig`, `WriteUnit`,
`WriteRoutes`, `Start` (`Transition`), `Verify` (`status` after the change), `Confirm`.
`ApplyFails`: any of these reports an error, before or after its effect, and leads to
`BackStop` … `BackRecord`, which is `rollback`, shared with recovery. `GiveUp` is a
failing rollback: the record stays pending. `Confirm` writes the success record; that write, too, may
report an error after its rename (`saveJSON`, `service.go:197-205`), and then the operation is rolled
back while its record says "succeeded" (`Misled`). If that rollback ends, the record says "failed" and nothing
is left behind. If it is killed or fails, nothing recovers it: `torn`. `Crash` and `Reboot` may fall
anywhere; a boot starts the unit if it is enabled. `NginxDies` and
`NginxRestarts` are systemd's `Restart=on-failure`; with `ServiceRaces = FALSE`
they happen between requests only.

### Abstract specification

`RelayAtomic` has three variables: the files, the boot setting, the outcome of each
operation. `Succeed(k)` applies an accepted change to all of them at once, `Fail(k)`
none. The refinement mapping looks through the journal: while an operation is
`Open` (its record is pending, or its success record is being rolled back) it has not
happened, and what is seen is the snapshot from before it
(`Seen`); otherwise it is the host. So every half-done state, rollback and
recovery is a stutter, `Confirm` is `Succeed` when the process exits and a stutter when it reports
an error, `BackRecord` is `Fail`. An id whose
outcome is known keeps it: at most once, retries included. `IsAtomic` has one exception, the
case for which the code has no answer: from the step on that sets `torn`, nothing is promised.

### Runs

* `RelayAtomicity`: three operations on two routes and two ports, two processes,
  one kill or reboot at any step, every step may fail, rollbacks may fail, nginx may die between
  requests. `OneAtATime`, `ServesItsFile`, `RestoredExactly`, and `IsAtomic`
  (the refinement). Three operations allow install, one that is interrupted, and one
  that recovers it; the recovery can be interrupted by a failing rollback, and the
  proofs below cover any number of kills. `Bounded` ends behaviours that are `torn` when no
  operation id is left: `IsAtomic` promises nothing there, and the other properties are checked
  as long as operations still follow. Deadlock is checked.
* `RelayServiceRace`: the same with `ServiceRaces = TRUE`: `ServesItsFile` is
  violated.

There is no liveness property: `awgctl` retries nothing itself, and a rollback that
fails for ever is never finished.

## 5. Panel

### State and code

| variable | code |
|---|---|
| `config`, `parked`, `policy`, `journal` | the node: peers of the configuration file (and `edits`, which stands for all other content), sections in `suspended.json`, `policies.json`, the operations in `journal.json` |
| `sent`, `replies` | SSH calls: requests the node has not executed, answers the Panel has not handled |
| `instance` | fingerprint and management mode of the instance row |
| `row[c]` | the connection row: status, managed, imported, `revoked_at`, limits |
| `records` | `idempotency_records` |
| `handlers` | HTTP handlers that await the node, with what they read before |
| `poll` | the projection whose answer the worker awaits |
| `counts` | bounds: faults, polls, discoveries |
| `drifted`, `doubtful`, `enforced`, `given` | history, see below |

A fingerprint is the content it is the digest of, as in `Helper`. A connection and its
peer share a name, because each create makes a new key; peers found on the node
(`Foreign`) get their row by import.

### Actions and code

A handler is cut where it awaits. `CreateConnection`, `ChangeConnection` (suspend,
resume, override, revoke), `ImportPeer` and `Discover` run to the `await`, with
their checks and `beginIdempotency`. `Handle` takes an answer to the handler that
waits for it: `CompleteIssuance` (one transaction), `CompensateIssuance` and
`CompleteCompensation` (the revoke under an id of its own when that transaction
fails), `CompleteChange` (fingerprint, status, record: three transactions, of
which a kill or an error may leave one or two), `CompleteImport`, `CompleteDiscovery`,
`Fail`. `AdoptConnection` and `ManageInstance` await nothing. `GiveUp` is a call
that ends without an answer, by the time limit or otherwise: its request stays in `sent` and may be executed
later or never. `Poll`, `CompletePoll`, `GiveUpPoll` are the worker's projection and
what it copies from the answer. `Restart` forgets handlers, poll and answers.

At the node `Execute` and `Refuse` are a mutating request as a whole (`Execute` with
`ok = FALSE`: made, then a write of bookkeeping failed), `ApplyPolicy` and `Enforce` the
policies, `EditOutside` another tool. A request that only reads is answered with
the state of the moment it reads.

### Run

`PanelCore`: two connections, one of them found on the node; two operation ids, two
records, two handlers at once, one poll, one discovery, one fault (a given up call, a
kill, an edit outside, a failed write, which are interchangeable bounds of the
environment). Two handlers and a poll are what the hazards need: each is one actor's
stale read against another's write, and one lost or late answer. Two
connections tell a peer created by the Panel from one it found. The properties
for any number of these are proved (section 9). Operation ids run out: no deadlock
check.

* `RevokedStaysCut`, `NoOrphan`, `ObservedUntouched`, `EnforcedByNode`: rows against the
  node. `NoOrphan` excepts `doubtful` connections, those whose creation or
  compensation ended without an answer: for them the code reports
  ISSUANCE_COMPENSATION_FAILED or OPERATION_TIMEOUT and cleans up nothing.
* `SucceededHappened`, `IssuedOnce`, `RecordIsFinal`: idempotency.
* `Agreement`: at rest, the fingerprint and every row tell what the node does. It
  is promised only while nothing sets `drifted`: a fault, an edit outside, an
  enforcement, a failed compensation, a change the node makes while an earlier answer is still
  unhandled (`Overtakes`), an import of a peer whose own issuance is under way. All of
  these let Panel and node differ in the code, until the next discovery or for good:

### Behaviour to know of

* `worker.ts:113`: a row revoked while `apply-policy` was awaited becomes "expired"
  again. Its `revoked_at` stays, and the peer stays cut (`RevokedStaysCut`).
* `worker.ts:102`: a projection computed before an override is delivered after it and puts
  "quota-exceeded" back at the node (`service.go:557`); the peer is active, and
  enforcement does not look at it any more.
* `Enforce` changes the node's fingerprint: the Panel's next request for that instance
  is refused until somebody discovers it.
* `routes.ts:736-738`: the answer of a suspend or resume that was handled after another
  request's revocation writes its status over "revoked".
* `routes.ts:398`, `576`, `608`: a peer that is imported while its own issuance is awaited
  makes the insert fail; the compensation revokes it under the imported row.
* A peer removed by other tools: revoke answers PEER_NOT_FOUND for ever, the row stays.
* A compensation, or a suspend and its resume, restores an earlier content, and with it an
  earlier fingerprint: a concurrent change that carries that fingerprint passes the check. Its
  answer and that of the change before it may then be handled in either order, because nothing
  orders the calls for one Instance (`routes.ts:735`, `repository.ts:480`): the older fingerprint
  is written last, and the next request is refused until a discovery. It takes three
  operations, more than `PanelCore` has; the search for an inductive invariant found it, and `Overtakes`
  now excuses it.

## 6. RelayPanel

### State and code

| variable | code |
|---|---|
| `files`, `boot`, `journal` | the relay host as `RelayAtomic` sees it, and the hash and result of each operation it took on |
| `sent`, `replies` | calls, as in `Panel` |
| `relay`, `routes`, `ops` | `relay_servers`, `relay_routes`, `relay_operations` |
| `tasks` | calls of `perform`, of the status check and of DELETE that await an answer |
| `registered`, `faults` | bounds |
| `loose` | a request may still be executed that the Panel has written off |

`Mutate` is `perform` up to its first await, `Discovered` the VPN node's answer for
apply, `Reconcile` `perform` again for an operation that is pending or uncertain. The task acts, looks (status) and commits
(`Settle`, `Commit`); `Verdict` tells a refusal ("failed") from doubt ("uncertain").
`Check` is the worker's or a user's status, `Delete` the handler of
DELETE /relays/:id, `Endpoint` what is written into a client's configuration. Whether the service of
a relay is active is any choice where the code reads it (`RowStatus`): an installed relay that is not
becomes "offline". At the host `Execute`, `Replay` (a known id), `Refuse`, `Busy` and `Report`. A refusal
is of one of three kinds: "refused" for an operation that cannot be made or is journaled as failed;
"doubt" for an end the Panel takes as open; "unrecorded" for a definite refusal of
what could be done, of which the host keeps no record: RELAY_BUSY, RELAY_VALIDATION_FAILED
(`internal/relay/service.go:471-473`, before the journal record) and, for a status,
RELAY_RECOVERY_REQUIRED. After such a refusal the same request, if it was sent before, may still be
executed.

### Run

`RelayPanelCore`: one route, one port, three operation ids, all five mutations
(install, apply, disable, remove, uninstall), one registration, one check beside the operation, one fault.
Three operations are one whose answer is lost, its repeat, and another on
top of either; one fault is enough because the hazards need a single lost answer, and a
repeated fault is the same operation in doubt again. All properties are proved for any
number. Ids run out: no deadlock check.

The host handles a request in one step, written as `RelayAtomic` has it (by construction, so no
property says so); that the code of the host keeps to it is `IsAtomic` of `Relay`. The exception
there, `torn`, is not in this module.

* `RowsOfOneState`, `InStep`, `EndpointServed`: rows against the host.
* `FailedDidNothing`, `SettledStays`, `DeletedUninstalled`: operations and deletion.

`loose` excuses the cases in which the code counts on what may still change:

* `relay/service.ts:373-385`: an unrecorded refusal counts as a definite failure. As the answer to the
  follow-up status (RELAY_BUSY, RELAY_RECOVERY_REQUIRED) it hides that the change was made. As the
  answer to a repeated operation (RELAY_BUSY, RELAY_VALIDATION_FAILED) it hides that the first call may
  still be executed: given up, reconciled, refused by `nginx -t` this time, recorded as failed, executed
  late. `Fail` sets `loose` in these two cases only; an unrecorded refusal of a first call is none.
* `relay-routes.ts:259-270`: DELETE is not excluded by the `running` set of `perform`; an
  operation started after its check is executed on a host the Panel has forgotten.

A status that comes late marks the relay offline with RELAY_STATE_CONFLICT although it was
overtaken by the Panel's own operation (`relay/service.ts:133`); the next check corrects it.

## 7. Server

### State and code

`Sessions`: `secret`, `codes`, `session`, `records` are the columns of the
administrator, the unused recovery codes, the `sessions` rows, `idempotency_records`; `logins`
holds what a login has read before it awaits scrypt, `requests` where the
request of a session is (authenticated by the hook, answered, touched in `onResponse`).
`BeginLogin`/`FinishLogin`, `Authenticate`/handler/`Respond`, `Logout`, `Enroll`,
`Confirm`, `RevokeOne`, `RevokeOthers`, `Create`, `CreateRefused`, `Repeat` are the
handlers. An operation writes record, effect and result in transactions of
their own; n tells how many happen before a kill.

`Metering`: `counter` at the node, `last` and `total` in the row, `stats` the
polls. `Delta` is `updateTraffic` with its reset rule.

`Server` composes both with `PollingWorker.tick`: a guard against overlapping ticks, the
stats call, `updateTraffic`, then `pruneSessions`. `Restart` ends the logins, requests
and polls of the process.

### Run

`ServerCore`: two sessions or logins at once, one secret, one recovery code, one
operation id, two worker calls (so that a tick without its guard would overlap),
three moments of time with lifetimes of one to three, so that a session can
expire, be idle too long, be touched and be pruned in either order; one kill, one restart of the
interface. `MaxLoad` limits how many of these meet in one behaviour to three. Starts with
and without second factor.

* `TypeOK`, `CodeAdmitsOnce`, `OnceOnly`, `CountedOnce`, and `DeadStaysDead`: no late touch or
  confirmation revives a session. All are also proved (section 9).
* `PrunedEventually` under `WF_vars(Tick)`: the timer starts a tick every five
  seconds, and every call of a tick ends at its time limit of 15 or 30 seconds if not before.
  Nothing is assumed of requests, logins or the node's answers.

### Behaviour to know of

* `auth.ts:110`: a login that read "no second factor" and awaits scrypt makes its session
  without one, although it was enabled meanwhile.
* `auth.ts:131`, `147`: a recovery code is consumed although the login is rejected because of
  `rememberDevice`.
* A request the hook has let in is handled even if its session is revoked before.
* A revocation cut off by a kill answers 0 when repeated, whatever it had revoked. A
  create whose insert throws leaves its record "started": its id answers a conflict for ever.

## 8. What the violated runs show

* `HelperRollback`. The `mv` of a disable reports an error after its effect (its `docker exec` runs
  into the limit of 15 seconds): `Apply` returns without a rollback (`runtime.go:499-501`), and
  `applyPeerMutation` takes the entry out of `suspended.json` although the peer has left the configuration: it
  is in neither file. A rollback that fails (`runtime.go:503-505`) ends in the same state.
  `spec.md:188` forbids removing a peer silently. `NothingRemovedSilently` (section 9) says that
  there is no third way.
* `HelperRevokeCrash`. A disable killed between `mv` and `syncconf` leaves the peer
  in the interface; the revoke that follows finds it only in `suspended.json`,
  skips Apply and succeeds: it is revoked and still connected, until the next
  change of that instance. `spec.md:353` calls revoke irreversible.
* `HelperTwoInstances`. `UpdateInstance` rewrites the list of all instances under the
  lock of one; two creates on different instances can undo each other's fingerprint.
  `docs/architecture.md:27-28` calls lock and fingerprint boundaries independent.
* `RelayServiceRace`. A service that waits for its automatic restart is captured as not
  active; restarted with the old file before the new one is written, it is accepted as the
  new one. `spec.md:726-727` promises a check for new workers.

## 9. Proofs

TLAPS proves the following for all values of the constants, from the named assumption of
each module (`HelperAssumption`: `Home` maps connections to instances, bounds are natural
numbers, switches are Booleans, `None` is no process, address, status or layout, and the ids
of requests, UUIDs, are none of the `enforce:...` ids; `RelayAssumption`,
`PanelAssumption`, `RelayPanelAssumption`, `SessionsAssumption`, `MeteringAssumption` and
`ServerAssumption` likewise). Every one is evaluated by TLC in a run.

**Helper.**

* `TypeCorrect`: `Spec => []TypeOK`.
* `RequestInv` (a lemma): a request at work is in the journal as
  "started" under its id (`RequestJournaled`), hence two processes never work on one id
  (`ExecutedOnce`), hence two requests that both hold the lock of an instance are one
  (`Disjoint`); a connection is created by one operation (`CreatedOnce`); and `Progress`,
  which says for each step which locks are held and where the peer is: in the configuration, in
  the one to be written, in the stored sections. One step per action, the process that moves
  and the others apart (`Others`: what another process does does not disturb a request
  under its instance lock).
* `PeerInvHolds`, `PeersAreKept`: `Spec => []PeerKept`, for any number of processes, instances, kills,
  misreported commands, failing writes and rollbacks, outside edits and discoveries. `PeerKept` alone is not
  inductive: that the entry in `suspended.json` may be deleted depends on which step the request is at, and
  on whether its file is back. `PeerInv` is `PeerKept` with `RequestInv`; in `Progress` the
  file of a request that undoes is the one it read unless its connection is `stuck`.
* `NothingRemovedSilently`: `[](stuck \cup touched = {} => NoSilentRemoval)`: what `HelperRollback`
  shows is the only way to lose a peer.

All of the Helper's theorems but `TypeCorrect` assume `~EditsRace`: flock does not exclude native tools, and
an edit between read and `mv` is overwritten or puts a peer where a request does not expect it.
No other fault is excluded, except by `FingerprintCurrentHolds`. `HelperSafety` builds on these.

* `ResultStaysHolds`: a step begins a request under an id the journal does not have, ends one
  whose record is "started", or leaves the journal alone (`StepKinds`).
* `ExpectedIsReplaced`: only a request under the lock of an instance changes what is there
  (`ActsAlone`), and between its read and `mv` the file stays what the caller's
  fingerprint said.
* `RevokeIsFinalHolds`. `RemovalInv`: what a succeeded request removed (`Past`, `Removed`) is in no file, nor in what
  a request under way may still write or restore (`Changing`, `Decided`); and a create for a known
  connection is over before anything else can name it (`Known`, `Late`). An outside edit adds only peers nobody
  has named (`StrangersAreNew`).
* `AddressesUniqueHolds`: the addresses are distinct in `Claimed`, which adds to the
  files the contents a change under way may write or restore, without the peers that were `touched`.
* `KernelFollowsFileHolds`, `RevokedIsCutHolds`. `KernelInv`: but for the instances in `unsynced`,
  the interface lags behind the file only while a request applies or takes back a
  change (`Lagging`), and then runs what it had read or what it writes.
* `EnforcedIsOutHolds`. `PolicyInv`: Enforce holds the policies lock,
  which keeps every other writer away from the policies it has in memory, and what it reports
  is recorded so already or has a succeeded disable in the journal (`Report`);
  `OutInv`: a peer whose disable succeeded and that nobody asked to enable is out of file
  and interface, and of whatever may be written back.
* `FingerprintCurrentHolds`: `[](crashes = 0 /\ edits = 0 => FingerprintCurrent)` on a node with one instance,
  without discovery or failing writes. Each of these leaves a fingerprint
  behind in the code: `UpdateInstance` may be lost or come too late, and that of another
  instance writes back a stale one (`HelperTwoInstances`). `Tracked` says at each step which of the
  two contents the file and `instances.json` have, as long as nothing is `stuck`.

**Relay.**

* `RelayTypes`, `OnePending`: types, and at most one pending record. `JournalInv`:
  a process that is not idle holds the lock, and is therefore alone
  (`Alone`); from its first change on, the pending record it will settle
  carries the snapshot it has in memory (`Journaled`); each file is on its
  way to the target or back, in the order in which the steps replace them (`FilesAt`); a snapshot
  that is enabled has a unit (`BootNeedsUnit`), or `enable` could not be restored.
* `OperationsAreAtomic`: `Spec => IsAtomic`. At most one operation is open, and the process that
  rolls back a success record is alone with it and has its snapshot in memory (`OpenFacts`, `OpenIsKnown`).
  Steps on an open operation do not change what is seen (`HiddenWork`, `MisledStays`, `Unseen`); `Accept` puts
  the host into the record (`AtomicAccept`); `Confirm` finds `files = Target` and the link set
  (`AtomicConfirm`), whether it exits or reports an error; `BackRecord` finds the snapshot restored
  (`AtomicFail`). A kill or a failure during the rollback of a success record sets `torn`. No
  assumption about nginx is needed.
* `FileIsServed`, `RollbackIsExact`: if nginx does not die under a request
  (`~ServiceRaces`). `ServiceInv` adds what the service is at each step
  (`ServiceAt`): stopped during a rollback until it is started with the
  restored file, active with the new file after `Start`; and that a snapshot of an active
  service is one of an installed service (`ActiveWasInstalled`).

TLC checks `PeerInv` in `HelperCrash`; the other invariants named here were checked
on the instances of the runs before they were proved.

**Panel.** For any number of connections, operation ids, handlers, given up calls,
kills, edits, polls and discoveries: `PanelTypes`, `RevokedStaysCutHolds`, `SucceededHappenedHolds`,
`IssuedOnceHolds`, `NoOrphanHolds`, `ObservedUntouchedHolds`, `EnforcedByNodeHolds`,
`RecordIsFinalHolds`. One invariant carries them, `PanelInv`, which TLC finds to
hold on the instance of `PanelCore`. Its parts, and what needs them:

* `Recorded`: every waiting handler has its "started" record, and no two
  handlers one id of a kind. Hence a finished record has no handler left that could change
  it (`RecordIsFinal`), and a configuration is given once (`GivenRecorded`).
* `CreatedByOne`, `SentOnce`, `AnsweredOnce`: one operation creates a peer; its
  request is on its way, or executed and then in the journal, but not both; it
  has at most one answer. Hence a request that was given up creates its
  peer at most once, and a refusal (`RepliesTrue`) still holds when it is handled.
* `Origins`: every peer that appears in a row, an answer or the configuration was there from
  the beginning or was created; with `RevokedGone` (what the journal says was revoked is
  gone) no step brings a revoked peer back, because only its creation could, and that
  is over.
* `ManagedOnly`, `ForeignKept`: requests and policies exist for managed connections only,
  on the node, under way, and in the projection.
* `EnforcedKnown`: a status of enforcement in a policy, a projection, an answer or a row comes from the
  node. `PeerWanted`: a peer without a row has a handler that creates it or takes it back.

The proof first says what the steps do in groups (`StepCases`: a request starts, reads, ends,
the node works, ...), then what can be new after a step (`HandlerCases`, `SentCases`,
`ReplyCases`, `JournalCases`, `RowCases`, `RecordCases`, `NodeCases`, `PolicyCases`), and
from these that each part is kept (`...Kept`).

`PanelAgreement` adds `AgreementHolds`: `Spec => []Agreement`. At rest nothing is
left to say, but between two steps the database lags behind; `AgreementInv` says by how much, under
`~drifted`: the fingerprint is the node's, or an answer with the node's fingerprint is
still to be handled, or a compensation is about to ask for one (`FingerprintKnown`); a row tells what the node
does, or its connection has such an answer or compensation (`RowsKnown`). This needs that
answers are current (`AnswersCurrent`), that each change has a request that waits for it and is answered
once (`ChangesAwaited`), and that a connection under issuance has no row (`IssuedLater`).
`StepKinds` lists the steps that do not drift. TLC checked `AgreementInv` with the bounds of
`PanelCore`, and with three operations.

**RelayPanel.** For any number of routes, ports, operations, calls and faults. `RelayPanelTypes`; `RowsAgree`: `Spec => []RowsOfOneState`, which needs that a relay has
at most one running operation (a second one would commit over it), and that the routes an
operation plans are those of the status it confirms; `VerdictIsFinal`:
`Spec => SettledStays`. `RelayRoutesProofs` has the
types of the operators on relay data, shared with `RelayProofs`.

`InStepHolds`, `FailedDidNothingHolds`, `DeletedUninstalledHolds` and `EndpointServedHolds` state properties
that promise something as long as no written off request can be executed (`~loose`). None of them is
inductive: whether the row is right depends on what is on its way. `CountedOn` says of that, under
`~loose`: at most one operation is unsettled; the host's files are those of the row, or what that
operation makes of them (`FilesKnown`); a request the host has not seen and would accept belongs to the unsettled
operation (`MessageFacts`); an unrecorded refusal of a first try means that nothing was done
and nothing is on its way (`FirstTry`); a failed operation is not done (`FailedUndone`); a relay that is gone is uninstalled.
TLC checked it with the bounds of `RelayPanelCore`. `RelayPanelAssumption` says besides the bounds only that `None` is no
id, row or file.

**Server.** `CountedOnceHolds`: `MeterInv` says that the total accounts for the
readings up to `last`, that what the counters show beyond it has not been counted, and that at most one poll is
under way, because of the guard. `CodeAdmitsOnceHolds`: a code that has admitted is not among
the codes any more, and new codes are never old ones (`CodeInv`). `OnceOnlyHolds`: `OnceInv` ties
effects and answers to the one record of an id. `DeadStaysDeadHolds`: `SessionFades` says that a
step leaves a session alone, removes it, revokes it, gives or takes a pending secret, touches
it while it is live (`Touched` implies `Live`), or makes it for a token that was never handed
out; `FadesFacts` that none of the former revives it. A login under way has no token yet
(`SessionInv`). `ServerTypes` combines these invariants with the bounds of the
counters (`BoundInv`: what the node shows is no more than was carried).

**Model-checked only.** `RequestsEnd` and `PrunedEventually`: liveness under fairness is beyond
the prover. Every invariant and every action property of a passing run is proved.

## 10. Not modelled

* Helper: an outside edit inside the locked section of a request (`EditsRace`), for which only the
  types are checked and proved; a command that takes effect after its time limit and after the
  requests that follow: the deferred `rm -f` of Apply and rollback takes away the temporary file a late `mv` or `syncconf`
  would need (a `syncconf` that has read its file and hangs is left out). Snapshot files (written, pruned, never read), the cap of 10000 journal
  records, byte counters of policies, protocol profiles, `stats` and `export` (they
  change nothing). Waiting for a lock has no timeout in the code; a lock file that
  cannot even be opened (LOCK_FAILED) is left out, or every waiter could
  give up and `RequestsEnd` would hold whatever the order of the locks.
* Relay: decoding, configuration text, the order of routes in the JSON file.
* Panel: a node that takes a request in one step, made or not, or made and reported as failed; what the
  Helper's exceptions leave behind (`stuck`: a disabled peer in neither file; `unsynced`) is not in
  its states. Several instances of a node, containers that vanish and return; names,
  addresses, keys and the text of configurations; audit rows; usage periods,
  `quota_override_used_bytes`, rollups and last handshakes.
* RelayPanel: two relays that serve one Instance (the second commit violates a unique index, and
  that operation stays uncertain); names, SSH keys, host validation.
* Sessions: rate limits, disabling an administrator and changing a password (`cli.ts`),
  rotation of the master key.
* Allocator arithmetic, wire protocol, schemas: functions of one call without state;
  the models take any free address and well-formed requests.
* Web interface, installers, server wiring, migrations: no logic of their own that
  the properties above depend on.
