# Formal models of the Cartyx data infrastructure

This directory holds TLA+ models of the programs in this repository that keep
the JanusGraph/Cassandra databases safe: the off-host backup, its recovery and
retention, the rehearsal of the disaster recovery, the provisioning of
credentials, the role bootstrap, the request boundary of the graph server, backup
and restore of the local stack, and the forwarder that reaches it.
TLC checks them on small instances; TLAPS proves the main results for every
instance.

    tlc -workers 2 -config BackupFaults.cfg MCClusterBackup.tla
    tlapm ClusterBackupProofs.tla

## 1. Inventory of the system

| Part | Source | State it keeps | Operations | Hard behaviour | What makes it correct |
|---|---|---|---|---|---|
| Cluster backup job | `deploy/data/backup-cluster.mjs`, `cluster-api.mjs`, `backup-resources.yaml` | Lease (holder, resourceVersion), `suspend` of Kustomization and HelmRelease, replicas, status phase, R2 objects; `locked`, `needsRecovery`, `cancelled` in the process | backup, `recover`, SIGTERM handler, `resume`, `until` | lost replies, SIGKILL, overlapping jobs, reconcilers in flight | outage only under the Lease; only consistent archives published; everything restored |
| Retention | `retireOldBackups` in `backup-cluster.mjs:34-59` | manifests and archives in R2 | list, delete marker, delete archive | failure between two deletes, a restore reading what is deleted, a clock that advances | 14 days of backups and one per week to day 56 kept; no marker without archive; what else was listed is gone |
| Backup metrics and alerts | `backup-metrics.mjs`, `platform/grafana.yaml:477-541` | status ConfigMap | scrape | status that no one updates any more | every abandoned outage alerts |
| Off-host restore | `restore-cluster.mjs`, `smoke.mjs`, `security.mjs`, `kubernetes.mjs` `cql-security` | archive on the workstation, scratch namespace (Secret, PVC, loader Job, chart), port-forward, result | fetch, verify, create, load, install, check, record | runs with one name, archive retired while it is read, a wait that comes before the pod, tar ended half-way, a transfer that stalls, a check that spoils the next | what is recorded as verified is the whole backup in a namespace of its own; no good backup is rejected |
| Local backup/restore | `backup.mjs`, `backup-upload.mjs`, `scripts/dev-data.mjs` | `.local/backups/operation.lock`, containers, archives | local-backup, local-restore, upload | crash while locked, services stopped | one operation at a time, services started again |
| Credential provisioning | `secrets.mjs`, `kubernetes.mjs` | `.local` files, Kubernetes Secret | provision-secret, provision-backup-secret | crash between files, two operators | an existing password is never replaced |
| Cassandra bootstrap | `charts/cartyx-data/files/cassandra-admin.py`, `templates/bootstrap.yaml`, `local/data.compose.yaml` | roles, logins, probe row in Cassandra | `bootstrap`, `ready`, `security` | retries, statements that fail half-way, overlapping jobs | ready implies locked-down roles; an administrator can always log in |
| Graph request boundary | `images/janusgraph/authorization/src/*.java` | per-channel handshake counters, principal, pipeline | authenticate, authorize, deny | races between requests of one channel, deadline against answer, pending limits | no request runs unauthenticated or under another principal |
| Traversal policy | `IdentityProfileAuthorizer.java`, `IdentityGraphSONSerializer.java` | none (pure) | copy/check a traversal | nesting, predicates, limits | what is accepted contains only allowed steps, everywhere |
| CQL proxy | `local/cql-proxy.py` | two sockets, two threads | connect, copy, shutdown, close | half-close, resets, a slow or absent reader, both directions at once | two ordered, whole streams; the handler ends when a peer has |
| Delivery pipeline | `images/*.mjs`, `.github/workflows`, `clusters/`, `data/` | image tags, digests, Flux objects | build, verify, publish, apply | partial publication | only verified digests are deployed |
| Postgres dump | `platform/postgres-backup.yaml` | dump file, R2 object | pg_dump, gzip, upload | failure masked in a pipe | - |
| Charts, network policies, acceptance scripts | `charts/`, `network-security.mjs`, `preflight.mjs` | declarative or stateless | - | - | - |

How they interact: the backup job owns the environment through the Lease and
drives Flux, Helm and the two database controllers through the API server; Flux
re-applies the HelmRelease from Git, and Helm the replica counts, unless
suspended; the exporter reads the status ConfigMap that the job writes; the
restore reads the R2 objects that the job writes and the retention deletes; the
bootstrap job prepares the roles that JanusGraph's init container and the
readiness probe wait for; the request boundary sits in the JanusGraph pod.

## 2. Plan

Done, in the order of what the databases lose when the part is wrong:

1. `ClusterBackup`, refining `MaintenanceWindow`: the only part that takes the
   databases down. Proofs in `ClusterBackupProofs`.
2. `BackupRetention`, refining `BackupBucket`: the only part that deletes backups,
   with a restore beside it. Proofs in `BackupRetentionProofs`.
3. `CassandraBootstrap`: overlapping bootstrap pods. Proofs in
   `CassandraBootstrapProofs`.
4. `GraphBoundary`, refining `RequestMonitor`: handshake and request-local
   principals. Proofs in `GraphBoundaryProofs`.
5. `CredentialProvisioning`: overlapping and interrupted runs on several
   workstations. Proofs in `CredentialProvisioningProofs`.
6. `LocalBackup`: the lock, the finally blocks, and the two programs beside them
   that take no lock. Proofs in `LocalBackupProofs`.
7. `OffHostRestore`: the rehearsal that says whether a backup is worth anything.
   Proofs in `OffHostRestoreProofs`.
8. `CqlProxy`, refining `DuplexPipe`: one connection of the local forwarder. Proofs
   in `CqlProxyProofs`.

Left, in this order:

- Traversal policy: what `copy` accepts, as a function on bounded traversals
  checked against a declarative definition.
- `provision-backup-secret` beside `provision-secret`.

The modules do not share variables; they meet in objects that each treats as its
environment. The object that matters most has a specification of its own:
`BackupBucket` says what backups, retentions and restores may rely on in the bucket
(a key is stored and completed once; a manifest is withdrawn before its archive is
deleted and never comes back). `BackupKeepsBucket` and `RetentionKeepsBucket` prove
that the two programs that write there keep to it, each alone; `RestoreKeepsBucket`
proves that a rehearsal only reads, and that what `OffHostRestore` lets happen in the
bucket meanwhile is no more than what the other two are proved to do.
`OnePublisherAtATime` proves what lets `BackupRetention` have a single job: uploads and
retentions of one environment never overlap. The other meeting point, the
readiness that `CassandraBootstrap` establishes and the pods of `ClusterBackup` wait
for, is not composed.

## 3. The backup: `ClusterBackup`

One pod is one run of `backup-cluster.mjs`. The program is sequential between
its `await`s, so an action is one awaited call with everything up to the next:
`pc[j]` names the call the pod waits for and `Following` is the order of the
calls. The `seen`, `locked`, `needsRecovery` and `cancelled` of a pod are the
program's variables of those names (`seen` is `const lease`); `unwinding` says
that the `finally` block runs after an error, where another exception ends the
pod with the Lease retained.

| Model | Code |
|---|---|
| `ReadLease`, `CheckHolder`, `Preflight`, `Acquire` | lines 62-93; the Lease is taken with the resourceVersion read at line 62 |
| `Report` | `status()`; the phases are the labels of the calls |
| `PatchFlux`, `PatchHelm`, `Scale`, `Await` | lines 96-116 and `resume()` in `cluster-api.mjs:63-75` |
| `Archive`, `UploadArchive`, `ReadBack`, `Publish`, `Retire` | lines 117-153 |
| `ReportFailure`, `Release` | catch and finally, lines 156-174 |
| `ReleaseRecovered`, `ReportRecovered` | lines 75-76 |
| `Terminate`, `Kill` | SIGTERM handler; SIGKILL, host loss, end of the grace period |
| `StartReconcile`, `FinishFlux`, `FinishHelm`, `Pod*` | Flux, Helm, the workload controllers (external, as the code uses them) |

Failures: a call is `answered`, `refused` (throws, no effect) or `unanswered`
(has its effect, throws); a poll may also end at its deadline. `Failures` says
which occur. `torn[j]` records that a Cassandra pod existed while pod `j` ran
tar. `Careful` says whether operators create recovery jobs as the README of
`deploy/data` asks (holder confirmed inactive, one job) or at any time.

`MaintenanceWindow` is the promise in its shortest form: claim while nothing is
down, take services down only under an owner, publish and give up only once
they are back. `ClusterBackup` implements it with `owner <- lease.holder` and
`down <- Outage`: something is suspended or scaled to zero, or a database that was
asked back is not ready yet.

### Runs

| Run | Instance | Shows |
|---|---|---|
| `backup_faults` | 2 backups, 2 recoveries, all failures, all killable, careful operators | `PublishedIsConsistent`, `ReconcilersHeld`, `OneDriver`, `GraphStopsFirst`, `AbandonedOutageAlerts` |
| `backup_uncoordinated` | 2 backups, 1 recovery created at any time, all failures | `LeaseCoversOutage`, `ExitCodeHonest`, the refinement of `MaintenanceWindow` |
| `backup_liveness` | 2 killable backups, 2 recoveries, API answers | `BackupEndsRestored`, `StrandedIsRecovered` |
| `recovery_race` | no failures at all, 1 recovery created at any time | a counterexample: a torn archive is published |

Bounds. A pod runs once (`restartPolicy: Never`, `backoffLimit: 0`), so the
number of pods is the only bound; versions and everything else are finite
without one. Two backups and two recoveries are what the interleavings need: a
holder, a waiting backup, a recovery and a late or repeated recovery. Deadlock
is not checked: the system stops when all jobs have ended with the Lease
retained and no recovery job is left to create.

Fairness. A pod that is not killed takes its next step (Node resolves every
call: replies, the 15 s timeout, the 3 s poll), and controllers act on what they
see. Starting jobs, signals and reconciliations are not fair. `OperatedSpec`
adds that the operator creates the documented recovery job.

Abstractions. The four reads of the preflight are one step. Readiness is read
from the pods; the lag of a controller's status is not modelled. A request the
client gave up on takes effect then or never, not later. The 700 s grace period
is the nondeterminism of `Kill`. JSON, hashes and names are abstract; a damaged
upload is `stored[j] = "damaged"`.

### Proofs

`ClusterBackupProofs` proves, for all sets of pods, all failures and with or
without careful operators:

- `TypeInvariant`: `Spec => []TypeOK`.
- `LeaseAlwaysCoversOutage`: `Spec => []LeaseCoversOutage`, until the databases are
  ready again. The property is not inductive. `IInv` adds which points a pod of each
  kind can be at (`PointsOK`), that an owner holds the Lease and a holder is an owner
  or has ended (`HolderOK`), that a resourceVersion names one state of the Lease and
  that the holder a recovery acts on has ended (`SeenOK`), and how much the pod in
  charge has restored at each point of `resume()` (`RestoringOK`). A pod that is not in
  charge can only bring services back, which breaks none of this. `ReadyInvariant`
  adds that a database which `resume()` has waited for stays ready (`ReadyOK`).
- `WindowImplemented`: `Spec => ImplementsWindow`, from the same invariants.
- `OnePublisherAtATime`: between the restored environment and the end of
  `retireOldBackups()` there is at most one pod, and it holds the Lease. Recoveries
  that race can start Cassandra under tar, but not this.
- `PublishedIsIntact`: a completion manifest names an archive that is intact in the
  bucket. Without careful operators it may still have been read from a running
  Cassandra, which is what `recovery_race` shows.
- `BackupKeepsBucket`: `Spec => Bucket!BucketSpec`.
- `ExitCodesAreHonest`: on the way from the published manifest to exit code 0 no error
  is forgotten and nobody hands the Lease back to the pod (`HonestOK`).
- `AbandonedOutagesAlert`: from the answered report `preparing` to the end of an
  outage, the wait for readiness included, the phase alerts, because only the holder
  reports `completed` and only once everything is back, and because `recovered` alerts
  as well (`AlertsOK`).

`OnlyKilledPodsStrand` says, if no call fails (`ASSUME Failures = {}`), that a Lease is
stranded only by a pod that was killed: an unhealthy environment, SIGTERM, a lost
race for the Lease and a damaged upload all give it back. It is the safety half of
`BackupEndsRestored`.

With careful operators (`ASSUME Careful`), also for all pods and failures, from
`CarefulInv` and `PublishedOK`: a recovery that runs is the only one and acts on the
Lease of an ended backup as it still is (`RecoveryAlone`), so no pod stops, restores or
publishes while another one does; at each of its points the driving backup has stopped what precedes
it (`StoppedSoFar`); and a pod that published does not upload again.

- `OneDriverAtATime`, `ReconcilersStayHeld`, `GraphAlwaysStopsFirst`,
  `PublishedAlwaysConsistent`. Without careful operators the last one fails:
  `recovery_race`.

The only other assumption is `PodsAssumption` (pod names are distinct). Only
model-checked: `BackupEndsRestored` and `StrandedIsRecovered`.

### What the counterexamples say

`recovery_race`: `recover` checks the pod of a holder it read one call earlier
and does not take the Lease itself. If that backup finishes in between, or if two
recovery jobs overlap, `resume()` runs against the next backup: Cassandra is
started under its tar and the archive is verified and published all the same.
`backup_faults` shows that the documented manual procedure prevents it.

Between taking the Lease and the first status report, and between the last report
and the release, a killed pod leaves a held Lease and no trace in the phases that
alerts look at; only the 26-hour age rule reports it. `AbandonedOutageAlerts` shows
that this never hides an outage: `recovered` counts as a phase that alerts, which is
what makes the late report of a recovery (line 76) harmless.

## 4. The retention: `BackupRetention`

The bucket of one environment over the weeks. `archives` and `manifests` are its
objects, `completed` (history) every manifest ever published, `abandoned` (history)
the archives that a failed job left without a manifest, `day` the
`LastModified` of each, and one variable per local of `retireOldBackups()`:
`todo` is what the loop has not visited, `weeks` its set, `doomed` the key whose
archive goes next. One action per request, since the pod may die or the request
fail between any two.

| Model | Code |
|---|---|
| `Upload`, `Publish` | `backup-cluster.mjs` 145-152 |
| `List` | the paginated listing and the suffix filter, 37-45 |
| `Visit`, with `Keep`, `Week`, `Age`, `Newest` | one turn of the loop, 46-55 |
| `DeleteArchive`, `Finish`, `Fail` with `Unfinished` | 56-59 and the catch at 156 |
| `FetchManifest`, `FetchArchive`, `EndRestore` | `restore-cluster.mjs` 35-93 |
| `NextDay` | `Date.now()`, read anew for every entry |

`retention` checks that every backup the policy of `deploy/data/README.md`
promises (`Promised`, a definition that does not mention the loop) is in the
bucket, that every step keeps the protocol of `BackupBucket` (`ImplementsBucket`),
that what the loop has visited leaves neither manifest nor archive beyond the policy,
the backlog of failed retentions included (`SurplusRetired`), and that a restore finds
the archive of a promised backup.

`SurplusRetired` has an exception that the code has too. An archive whose delete (line
56) fails after its manifest went (55), or that was uploaded and never completed (148-152),
has no manifest, and `retireOldBackups()` takes its list from the manifests (44): no later
retention deletes it. Such an archive is in `abandoned`; `AbandonedStays` proves that it
stays in the bucket for ever. It is never restorable, but it is stored.

Bounds. Four backups over ten days, with every backup kept for two days, one per
week to day seven and weeks of three days with offset one, for 14, 56, 7 and 3: two
backups can share a week, several weeks are judged by one loop, and backups cross
both limits between two retentions and during one. There is no fairness: nothing
here must happen.

Abstractions. Manifests have distinct times because the Lease admits one job at
a time. Days stand for milliseconds; the limits and the length of the week are
constants in the same unit. What the restore does after the checksum is one step.

Proofs, for every age limit, offset and length of the week (`RetentionAssumption`
says only that they are natural numbers and a week is not empty):
`RetentionTypes`, `PolicyIsKept`, `RestoreIsSafe`. The
invariant behind `PolicyIsKept` relates the loop's set of weeks to the bucket: a
week in `weeks` has a visited backup newer than all of `todo`, manifests are
ordered in time, and a backup deleted was not promised then and, because time
only advances and newer backups only take over a week, is not promised later.
`RetentionKeepsBucket` proves `ImplementsBucket`; it needs that the doomed archive is
of a withdrawn manifest (`DoomedOK`). What the protocol is good for is proved once, of
`BackupBucket` itself (`BucketIsSound`): no manifest lacks its archive and none comes
back. `NoDanglingManifest` follows from the two.
`BacklogIsRetired` proves `SurplusRetired`. An archive without a manifest is the one being
deleted or abandoned (`LeftoversOK`), and a weekly backup that the loop keeps is the
newest of its week, since the newest one is promised, hence still listed, and would
have claimed the week before. That a newest one exists is an invariant of its own
(`WeeksCovered`): each publication takes over its week.

## 5. The bootstrap: `CassandraBootstrap`

`admin` and `applied` are what Cassandra has: the administrator (ours, or one
left by other credentials) and the statements of the batch in effect. Each pod
has its place, its attempts, the statement `cqlsh` is at and whether one has
failed in this attempt; `cqlsh -f` goes on after a failed statement, and the
program sees one verdict at its end.

| Model | Code |
|---|---|
| `Login`, `Create`, `NextLogin` | first loop, `cassandra-admin.py` 77-89 |
| `Execute`, `Abort`, `NextRun`, `Outcome` | second loop, 103-111, and `query` 47-60 |
| `Ready` | mode `ready`, 65; the readiness probe and `wait-for-cassandra` |
| `Start`, `Kill` | the Job in `bootstrap.yaml`, one per Helm revision, with retries |
| `StartGraph`, `StartProxy` | what waits in the chart and in Compose |

`bootstrap` lets two pods overlap, queries fail, hang and take effect without an
answer, and pods be killed. Fairness: a running pod takes its next step (a query
ends: `timeout=30`), nothing more.

Bounds. `LoginTries` and `RunTries` stand for 60 and 12, `FaultyTries` for how
many attempts of each loop meet faults, and `Unlucky` for the pods that may meet them
in every attempt. In `Bootstrap.cfg` one pod is unlucky and the other meets faults in
its first attempts only, which leaves it two good logins (one creates the
administrator, the next verifies it) and one good batch. `BootstrapCompletes` is about
the second pod, whatever the first one does or leaves half done; the safety
properties are about both. Two pods give every
pair of places in the batch. Deadlock is not checked: pods end.

Abstractions. The two grants on the state keyspace are one statement. Passwords
are `ours` or `other`. A statement whose client was killed takes effect then or
never.

Proofs, for any number of pods and attempts (`BootstrapAssumption`: the loops make
at least one attempt): `BootstrapTypes`, `NeverLockedOut`, `SuccessMeansProvisioned`,
`OthersAreLeftAlone`. The invariant for success says that in an attempt without a
failure so far every statement before `next` is in effect; effects are never
undone, so other pods cannot break it.
`FailuresAreForeign` is the safety half of `BootstrapCompletes`: a pod that is not
unlucky fails only on a volume with other credentials, if its loops have enough
attempts (`EnoughTries`: two logins without faults, one to create the administrator and
one to verify it, and one batch). 60 and 12 attempts have them when faults reach up to
eleven attempts of each loop. The invariant (`Untroubled`) says how far such a pod must be
at each of its last attempts, whatever others have left behind. That it ends
at all is model-checked.

`bootstrap_ready` is a counterexample: when disabling the default login fails,
`cqlsh` goes on and writes the probe row all the same. `ready` then succeeds, and
JanusGraph starts, with the default login enabled, until a later attempt succeeds;
`SuccessIsComplete` shows that only a pod that reported success excludes this.

## 6. The request boundary: `GraphBoundary`

Channels of the graph server, each served by one event loop and with a pipeline of its
own: `IdentityChannelizer.java:41` builds one `RequestGate` per channel. What channels
share is the `IdentityProfileAuthorizer` behind the gates; the gates inherit from
`WebSocketAuthorizationHandler`, which is `@Sharable` and must not keep a principal in
case it is used so (`ReadShared` is that fault). `pending`, `attempts` and `deadline`
are the fields of `AuthenticationGate`; `held` is what the SASL handler of Gremlin
Server (external) keeps until the login; `work` and `stage` are the messages on
their way through the two gates, so that channels interleave between reading a
principal and using it.

| Model | Code |
|---|---|
| `ReceiveEarly`, `ReceiveLate`, `Exceeded`, `Count`, `Deadline` | `AuthenticationGate`, `IdentityChannelizer.java` 73-106 |
| `Hold`, `Admit`, `Negotiate` | SASL handler, as 68-72 and the tests describe it |
| `Enter`, `Policy`, `RequestAllowed` | `RequestGate` 108-124, `authorizeRequest` |
| `Read`, `Authorize`, `OperationAllowed` | `WebSocketAuthorizationHandler.java` 59-105 |
| `Close`, `Disconnect` | `ctx.close()`, the peer, the idle timeout |

`graph_boundary` runs an operator's and an application's channel with one pending
request and two attempts instead of eight and four: both limits are reached, and
held requests run after the login. Fairness: timers fire and an event loop handles
what it has (`WF` of `Deadline` and `ServerStep`); clients promise nothing.

Abstractions. A message is one of six kinds; what a traversal contains is the
policy's business. Frame checks (`MimeGuard`) and the HTTP handler are left out.

Proofs, for any channels, owners and limits (`BoundaryAssumption`): `BoundaryTypes`,
`OnlyPermittedRequestsRun`, `HandshakeIsBounded`. The invariant says that a channel
has messages under way only once its user is its owner, that from `policy` on the
principal is that user, and that a request past the first gate passed the policy;
for the bound, that at most one held message was not counted as pending.
`AuthenticatedStaysOpen` proves `AuthenticatedIsSpared`: an armed deadline and an attempt
that is counted both find a channel that has not logged in.

`RequestMonitor` is the promise to a client: its messages are decided one by one, in
order, each once and only after its login, and other channels do not matter.
`MonitorImplemented` proves `ImplementsMonitor`, where the queue of a channel is what
is held for it before the login and what is on its way through the gates after it; the
login, which moves the one into the other, is a single step of the monitor.

Of `HandshakeEnds`, `HandshakeStaysLimited` proves the safety half: until the login the
deadline of an open channel stays armed. That it then expires is model-checked.

## 7. Provisioning: `CredentialProvisioning`

Operators run `kubernetes.mjs provision-secret` for one environment, on one
workstation or on several. A workstation has a directory of files (`files`,
created by `secrets.mjs`), the cluster one Secret (`secret`). A file is absent,
`Empty` (created with flag `wx`, not yet written) or holds a content named by the
run that generated it, so a set that mixes two runs can be told from a complete one.

| Model | Code |
|---|---|
| `Check`, `Read` | the lookup of the Secret and the early return, `kubernetes.mjs` 85-100 |
| `Look`, `Reuse`, `MakeDirectory` | what `secrets.mjs` does with the files it finds, 24-33 |
| `AddOpen`, `AddFill`, `OpenNext`, `FillNext`, `Open`, `Write` | `writeKey` and the openssl calls: create, then fill, in `Order` |
| `ReadValue`, `Patch` | adding the missing key, 105-126, with its test of the resourceVersion |
| `Verify`, `Create` | 128-152: every file non-empty, then `create secret generic` |
| `Answer`, `Interrupt` | the API server and kills (external) |

`provisioning` starts from every combination (`Init`) of workstations without
files, with a complete set or with one that predates `appKey`, and no Secret, a
complete one or one without `appKey`; sets left half-way come from `Interrupt`.

Bounds. Two runs share a workstation and a third has its own: overlapping writers
of one directory, and two sources for one Secret. `Order` has one file per kind of
treatment. No fairness.

Abstractions. Random contents are the names of their authors. Certificates, file
modes and the text of the Secret are not modelled.

Proofs, for any number of runs and workstations (`ProvisioningAssumption`: a run
has one workstation, and no run has the name of another content):
`ProvisioningTypes`, `SecretIsAlwaysOneSet`, `SourcesAreKept`,
`SuccessMeansComplete`, `KeysNeverOverwritten`. The invariant says that one run at a
time generates on a workstation and has written what precedes its current file
(`GenerationOK`), that one run at a time adds an `appKey` (`AdditionOK`), that the
files below a complete `tls.p12` are one set (`SetsOK`), and that the Secret lacks
its `appKey` as long as it has the resourceVersion that a run has read (`Facts`).
`OverlappingRunsSucceed` proves `OneSucceeds` if there is a run at all: as long as
there is no Secret, or one without `appKey` and somebody has the files, some run is on
its way to success (`WillCreate`, `WillPatch`). A run that fails undisturbed has met
one that is further, which is then that run.

## 8. The local stack: `LocalBackup`

`backup.mjs` and `backup-upload.mjs` beside `dev-data.mjs up` and `down`, any of
which operators may start at any time and kill. An action is one docker, file or
bucket call; `Call` lets it succeed, fail without effect, or have its effect and
fail. `erring[o]` says that an exception is on its way through the `finally` blocks.

| Model | Code |
|---|---|
| `Lock`, `Unlock` | `mkdirSync(lock)` before the `try`, `rmSync` in its `finally`, `backup.mjs` 27 and 179-181 |
| `RemoveLock` | the operator, when no `backup.mjs` runs (external) |
| `Inspect`, `StopGraph`, `Drain`, `StopCassandra` | 37-51; `dev-data.mjs` 20-22 for `down` |
| `Copy`, `Copied`, `WriteManifest` | tar, stream and exit code, manifest, 52-100 |
| `Start`, `StartGraph` | `compose up --wait` in the `finally`, 103, and `dev-data.mjs` 16-19, as `data.compose.yaml` orders the services |
| `VerifyArchive`, `Extract`, `Rehearse`, `Smoke` | `local-restore`, 105-175 |
| `Check`, `Put`, `ReadBack`, `Mark` | `backup-upload.mjs` 8-63 |

`local_backup` shows that:

- one operation at a time is at work, whoever was refused, failed or was killed
  (`OneOperation`), so a rehearsal reads its own volume although all rehearsals
  share the project `cartyx-restore` (`RehearsedItsOwn`);
- a manifest is true of its archive: the archive is whole, and it was read from a
  drained and stopped Cassandra unless `dev-data.mjs` changed the stack meanwhile
  (`ManifestIsTrue`). The exception is
  real: `db:up` does not look at the lock and can start Cassandra under tar;
- after a backup the stack serves, or somebody was told that it may not
  (`StartedAgain`). The case that needs the second half: `stop` fails after `drain`.
  Cassandra runs on without clients, `compose up` finds it running, `--wait` fails
  and reports so;
- a completion manifest stands for a verified object (`MarkedIsVerified`). A second
  upload of the same backup may write over it and spoil it, but then it has yet to read
  its own object back, or has failed: no upload ends well over a damaged object.

Bounds. Two backups, two restores, two uploads, one `up` and one `down`, each run
once: a holder of the lock, one that is refused, and a third that would profit from
a lock wrongly removed. Without an upload all six others may run. The constraint `Bound`
of `MCLocalBackup` admits uploads in states where at most five runs have begun: one
upload and four others, or both and three others. Uploads change nothing that the other
runs read, and two of them meet only in the object of one backup and its marker.
No fairness; deadlock is not checked, the runs end.

Abstractions. The format, image and checksum comparisons of a restore fail or not;
a docker command dies with the program that called it; containers start from
healthy images; the contents of a volume are whatever its archive held.

Proofs, for any number of runs (`LocalAssumption`: the kinds of runs are disjoint):
`LocalTypes` (which no run repeats), `LockAdmitsOne`, `ManifestsTellTheTruth`, `RehearsalsAreGenuine`. The
invariant adds, for the backup that holds the lock and that `dev-data.mjs` has not
touched, what Cassandra is at each of its places (drained at `stopCassandra`,
stopped and flushed at `copy`, still stopped while tar runs), and that a restore at
`smoke` has its own volume under the project.
`StackIsStartedAgain` proves `StartedAgain`: unless the stack serves or somebody was
told, some backup is between its first stop and its last start. `MarkedStandsForVerified`
proves `MarkedIsVerified`, for any number of uploads of one backup: wherever an object is
damaged, an upload that wrote it is at its read-back or has failed (`Known`), and a
read-back that finds the damage fails.

## 9. The rehearsal: `OffHostRestore`

A run of `restore-cluster.mjs` is a straight line of calls, and what it certifies
rests on their order. `place`, `name` and `target` are its arguments: the workstation,
the name that the clock gives to the namespace, and the backup. `file` is
`backup.tar.gz` in the directory of that name, `scratch` the namespace in the cluster
with its owner (history: whose `create` made it), Secret, volume and two Jobs. Every
file and volume holds (a part of) a named backup, so that a mixture of two runs can be
told from a restore.

| Model | Code |
|---|---|
| `Connect`, `Manifest`, `Open`, `Receive`, `Verify`, `Credentials` | `restore-cluster.mjs` 20-60 |
| `CreateNamespace`, `CreateSecret`, `CreateVolume`, `CreateLoader` | 61-67; the provisioner may bind a directory that is in use |
| `CreatePod`, `LoaderStarts` | the Job controller makes the pod some time after the Job (external); the loader becomes ready once it has found the volume empty and ends otherwise, 66 |
| `AwaitLoader` | 68; fails at once while there is no pod (`early`) |
| `Extract`, `Extracted`, `ExtractFails`, `LoaderEnds` | tar through `kubectl exec`, its exit code, the Job's deadline, 69-71 |
| `RemoveLoader`, `Install`, `StartForward`, `ForwardLost` | 72-81 |
| `Check`, `Checks`, `Passes`, `Pass` | `smoke.mjs verify` and the groups of `security.mjs` in their order; the last makes the server close a connection, which ends `port-forward` |
| `FindBootstrap`, `CreateJob`, `JobEnds`, `AwaitJob`, `DropJob` | `kubernetes.mjs cql-security`, 50-84 |
| `Record`, `Leave` | 85-93 |
| `Retire`, `Kill` | a retention beside the runs; SIGKILL |

`Kubectl` lets a command succeed, fail without effect, or have its effect and fail.
`disturbed` (history) records that a run met such a fault.

`off_host_restore` shows that:

- a namespace holds nothing but the backup of the run that created it, also when two
  runs start in the same millisecond (`NamespaceIsOneRestore`);
- a run that records its result has checked a volume with every byte of its backup
  (`VerifiedIsTheArchive`). The checks themselves could not tell: the fixture is small
  and readable from a part of the data, so the checksum, the loader's test for an empty
  volume and tar's exit code carry this property;
- a run without a fault fails only for its backup, for its name, for a loader that has
  ended, or in the wait for the loader (`GoodRestoreAccepted`): no check spoils a later
  one. The wait is a real case: `kubectl wait -l` (line 68) follows the create of the Job
  at once and fails when no pod has the label yet, so a faultless rehearsal of a good
  backup can end there (`early`). Its volume then holds nothing of the backup; the
  operator starts again, with a new namespace;
- a run ends, even when its transfer into the volume stalls, or hangs for ever in a call
  that has no limit (`RestoreEnds`).

Bounds. Two runs, two workstations, two names, and one backup of each kind: good, with
a damaged archive, made with other images, and without the fixture; a retention may
delete the good one. Two runs are what a collision needs. Workstations and names occur
only as indices that are compared for equality, so `SmallSpec` gives the first run the
first of each; every other start is a renaming of one of these.

Fairness. A run takes its next step where something bounds the call: `--request-timeout`
and `--timeout` of kubectl and helm, the timers of the checks. Not everything is bounded
(`Unlimited`): the S3 client has no request timeout, so the two `GetObject` and their
bodies (35-44) may hang, and in `smoke.mjs` the bytecode traversal and the `close()` calls
(74-92), in `security.mjs` the `close()` at line 48 lie outside the timers. There the
model assumes nothing, and `RestoreEnds` lets a run wait there for ever. `kubectl exec` has
no limit either, and a started extraction may stall; but the loader ends
(`activeDeadlineSeconds: 3600`, `sleep 3600`), and with it tar, so there the run goes on.
Nothing is assumed of the Job controller.

Abstractions. Images and configuration agree with the checkout or not (`Matching`).
The download of the archive is two steps, its start and its end. The checks of
`security.mjs` on certificates and passwords pass on an installed chart. The Job of
`cql-security` completes or not. `createWriteStream` with flag `wx` fails where
another run has the file.

Proofs, for any runs, workstations, names and backups (`RestoreAssumption`: the kinds
are subsets of the backups, and `Nobody` is neither a run nor a backup): `TypeCorrect`,
`OneRestorePerNamespace`, `RecordedIsVerified`, `GoodBackupAccepted`. The invariant
says what each place of a run implies: from `secret` on the run owns its namespace,
from `credentials` on its file is the whole, undamaged archive of its target, and from
`remove` on its volume is that file; a second run of the same name never gets past
the `create`, so that no step of another run touches these. For `GoodBackupAccepted` it
adds how many checks have passed at each place, that an undisturbed run still has
its port-forward there, and that the volume is empty or a directory in use until tar
starts, which is what a run that waited too early leaves. `RestoreKeepsBucket` proves that the bucket keeps the protocol
of `BackupBucket`: no step of a run changes it (`RunsRead`), and `Retire` is a withdrawal
or a deletion in the order of the protocol (`RetireIsTheProtocol`). `RestoreEnds` is
model-checked.

## 10. The forwarder: `CqlProxy`

One connection of `cql-proxy.py`. For each direction (`out` to Cassandra, `in` to the
client) the model has what is on its way to the forwarder (`up`) and from it (`down`),
the data that `copy()` holds (`hand`) and where it is (`worker`); `handler` is the
place of `Handler.handle`. Client and server write, end their streams, read and leave
as they like; a reset (`cut`) may overtake data.

| Model | Code |
|---|---|
| `Connect`, `Start` | `create_connection` and `outbound.start()`, 36-43 |
| `Receive`, `Pass`, `Shutdown` | `recv`, `sendall` piece by piece, the `finally` with `SHUT_WR`, 19-32 |
| `Close`, `Release` | `join`, `upstream.close()` 45-46, and the request's socket closed by `socketserver` |
| `Write`, `Finish`, `Read`, `SeeEnd`, `Leave` | the peers (external) |

`DuplexPipe` is what the peers may expect: two streams, in order and whole, which end
early only where somebody has left. `CqlProxy` implements it; a thread that could not
be started counts as a server that has left.

`cql_proxy` checks the refinement (`ImplementsDuplex`), that whatever is written
arrives while both peers are there (`Delivers`: neither direction waits for the other)
and that the handler ends once a peer has ended its stream or left (`HandlerEnds`).

Bounds. Three writes per peer and sockets that take two: a full buffer, a `recv` that
takes a part and a `sendall` that blocks half-way all occur. Deadlock is not checked:
connections end.

Fairness. Threads run. A peer reads what has arrived and leaves once it has seen the
end of what it reads, as database drivers and Cassandra do; without the second half
the handler rightly waits for ever in a half-open connection.

Abstractions. A piece is the number of its write; `recv` returns any prefix of what
has arrived in whole pieces. Connections share only the number of threads of the
container, whose lack is the failing `Start`.

Proofs, for any number of writes and any room (`ProxyAssumption`): `TypeCorrect` and
`ProxyIsDuplex`, the refinement. Its invariant says that what has been read, what is
under way, what `copy()` holds and what has arrived are together the numbers from 1 to
`sent`, that a stream is shut only after the end of its source and with nothing left
before it, unless somebody has left, and that a reader is reset only where somebody
has. `MemoryIsBounded` proves that `copy()` holds at most one `recv` and that, while
the reader is there, a writer is never more than three buffers ahead of it: the two
sockets and `copy()`. `Delivers` and `HandlerEnds` are model-checked.

## 11. What is only model-checked, and what is not modelled

Liveness under fairness needs ENABLED, which the provers used here do not handle; it
stays with TLC, on the instances above: `BackupEndsRestored`, `StrandedIsRecovered`,
`BootstrapCompletes`, `HandshakeEnds`, `RestoreEnds`, `Delivers` and `HandlerEnds`. For
the first, third and fourth the safety half is proved. Every other property of a
run that is expected to hold is a theorem. The theorems are about the models with
all their constants left open, under the named assumptions.

Not modelled: the copying of traversals (planned), the HTTP handler and the frame
checks of the graph server, `provision-backup-secret` (planned), the delivery pipeline
and the Postgres dump (straight-line scripts around external services; the dump runs
without pipefail, so that a failed `pg_dump` is uploaded all the same), charts,
network policies, `network-security.mjs` and `preflight.mjs` (declarative, or checks
that change nothing).

Definitions marked "Seeded fault" are broken variants of the definition that
follows: substituting them makes the property they are meant for fail, which
shows that the property constrains the code.

