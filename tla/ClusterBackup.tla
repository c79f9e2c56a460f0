--------------------------- MODULE ClusterBackup ---------------------------
(***************************************************************************)
(* The off-host backup of one environment's databases, as the Kubernetes   *)
(* job pods that run deploy/data/backup-cluster.mjs perform it: a backup   *)
(* takes a Lease, suspends Flux and Helm, stops JanusGraph and Cassandra,  *)
(* archives the stopped data directory, restores the services, and only    *)
(* then uploads, verifies and publishes the archive.  A recovery pod (the  *)
(* same program with the argument "recover") undoes what a dead backup     *)
(* left behind.                                                            *)
(*                                                                         *)
(* A pod's program is the sequence of its API calls: pc[j] names the call  *)
(* the pod awaits.  Every call may be refused (it throws, nothing happens) *)
(* or unanswered (it happens, but the reply is lost and it throws).        *)
(***************************************************************************)
EXTENDS Naturals, FiniteSets

CONSTANTS
    BackupPods,    \* pods of backup jobs
    RecoveryPods,  \* pods of jobs started with "recover"
    NoPod,         \* holderIdentity: null
    Failures,      \* which of "refused", "unanswered", "deadline" occur
    Killable,      \* pods that SIGKILL or the loss of their host may end
    Careful        \* recovery jobs are created only as README.md:82-85 says

Pods == BackupPods \cup RecoveryPods

ASSUME PodsAssumption ==
    /\ NoPod \notin Pods
    /\ BackupPods \cap RecoveryPods = {}
    /\ Killable \subseteq Pods
    /\ Careful \in BOOLEAN

Databases == {"janusgraph", "cassandra"}

VARIABLES
    pc,             \* the call each pod awaits
    seen,           \* the Lease each pod read when it started (line 62)
    locked,         \* locked, needsRecovery, cancelled: the program's own
    needsRecovery,
    cancelled,
    unwinding,      \* the pod has reached its finally block after an error
    lease,          \* the Lease: holder and resourceVersion
    flux,           \* the data Kustomization
    helm,           \* the HelmRelease
    replicas,       \* spec.replicas of each database
    dbPods,         \* the database pods
    phase,          \* the phase in the status ConfigMap
    torn,           \* the pod's archive was read while Cassandra ran
    stored,         \* the pod's archive object in R2
    marker          \* the pod's completion manifest in R2

locals   == <<seen, locked, needsRecovery, cancelled, unwinding>>
services == <<flux, helm, replicas, dbPods>>
archives == <<torn, stored, marker>>
vars     == <<pc, locals, lease, services, phase, archives>>

(***************************************************************************)
(* Program points.  Every restore* point belongs to resume().              *)
(***************************************************************************)
Stopping   == {"suspendFlux", "awaitFlux", "suspendHelm", "awaitHelm",
               "capture", "stopGraph", "awaitGraph", "stopCassandra",
               "awaitCassandra", "archiving", "tar"}
Resuming   == {"restoreCassandra", "restoreGraph", "awaitReady",
               "restoreHelm", "restoreFlux"}
Publishing == {"uploading", "upload", "readBack", "publish", "retire",
               "completed"}
Ended      == {"succeeded", "failed", "killed"}
Labels     == {"idle", "readLease", "checkHolder", "preflight", "acquire",
               "preparing", "catch", "release", "releaseRecovered",
               "recovered"}
              \cup Stopping \cup Resuming \cup Publishing \cup Ended

Running(j) == pc[j] \notin {"idle"} \cup Ended

Leases == [holder : Pods \cup {NoPod}, version : Nat]

TypeOK ==
    /\ pc \in [Pods -> Labels]
    /\ seen \in [Pods -> Leases]
    /\ locked \in [Pods -> BOOLEAN]
    /\ needsRecovery \in [Pods -> BOOLEAN]
    /\ cancelled \in [Pods -> BOOLEAN]
    /\ unwinding \in [Pods -> BOOLEAN]
    /\ lease \in Leases
    /\ flux \in [suspend : BOOLEAN, reconciling : BOOLEAN]
    /\ helm \in [suspend : BOOLEAN, reconciling : BOOLEAN]
    /\ replicas \in [Databases -> {0, 1}]
    /\ dbPods \in [Databases -> {"none", "starting", "ready"}]
    /\ phase \in {"none", "preparing", "archiving", "uploading",
                  "completed", "failed", "recovered"}
    /\ torn \in [Pods -> BOOLEAN]
    /\ stored \in [Pods -> {"none", "intact", "damaged"}]
    /\ marker \in [Pods -> BOOLEAN]

Init ==
    /\ pc = [j \in Pods |-> "idle"]
    /\ seen = [j \in Pods |-> [holder |-> NoPod, version |-> 0]]
    /\ locked = [j \in Pods |-> FALSE]
    /\ needsRecovery = [j \in Pods |-> FALSE]
    /\ cancelled = [j \in Pods |-> FALSE]
    /\ unwinding = [j \in Pods |-> FALSE]
    /\ lease = [holder |-> NoPod, version |-> 0]
    /\ flux = [suspend |-> FALSE, reconciling |-> FALSE]
    /\ helm = [suspend |-> FALSE, reconciling |-> FALSE]
    /\ replicas = [d \in Databases |-> 1]
    /\ dbPods = [d \in Databases |-> "ready"]
    /\ phase = "none"
    /\ torn = [j \in Pods |-> FALSE]
    /\ stored = [j \in Pods |-> "none"]
    /\ marker = [j \in Pods |-> FALSE]

-----------------------------------------------------------------------------
(* How a call ends, and where the program goes.                            *)

Outcomes   == {"answered"} \cup (Failures \cap {"refused", "unanswered"})
Applied(o) == o # "refused"

Goto(j, label) == pc' = [pc EXCEPT ![j] = label]

\* Seeded fault: an error does not set the exit code.
ThrowQuietly(j) ==
    Goto(j, IF locked[j] /\ ~unwinding[j] THEN "catch" ELSE "succeeded")

\* An exception: before the Lease is ours the pod just exits; after that the
\* catch block runs, once; thrown inside the finally block it ends the pod.
Throw(j) == Goto(j, IF locked[j] /\ ~unwinding[j] THEN "catch" ELSE "failed")

\* The call after each call, when nothing throws.
Following(label) ==
    CASE label = "preparing"        -> "suspendFlux"
      [] label = "suspendFlux"      -> "awaitFlux"
      [] label = "awaitFlux"        -> "suspendHelm"
      [] label = "suspendHelm"      -> "awaitHelm"
      [] label = "awaitHelm"        -> "capture"
      [] label = "capture"          -> "stopGraph"
      [] label = "stopGraph"        -> "awaitGraph"
      [] label = "awaitGraph"       -> "stopCassandra"
      [] label = "stopCassandra"    -> "awaitCassandra"
      [] label = "awaitCassandra"   -> "archiving"
      [] label = "archiving"        -> "tar"
      [] label = "tar"              -> "restoreCassandra"
      [] label = "restoreCassandra" -> "restoreGraph"
      [] label = "restoreGraph"     -> "awaitReady"
      [] label = "awaitReady"       -> "restoreHelm"
      [] label = "restoreHelm"      -> "restoreFlux"
      [] label = "uploading"        -> "upload"
      [] label = "upload"           -> "readBack"
      [] label = "readBack"         -> "publish"
      [] label = "publish"          -> "retire"
      [] label = "retire"           -> "completed"
      [] label = "completed"        -> "release"

\* After these calls the program calls checkpoint(), which throws on SIGTERM.
Checkpoints == {"capture", "awaitGraph", "awaitCassandra", "tar", "readBack"}

Proceed(j, o) ==
    IF o # "answered" \/ (pc[j] \in Checkpoints /\ cancelled[j])
    THEN Throw(j)
    ELSE Goto(j, Following(pc[j]))

-----------------------------------------------------------------------------
(* The start of a pod, up to the Lease.                                    *)

StartBackup(j) ==
    /\ j \in BackupPods
    /\ pc[j] = "idle"
    /\ Goto(j, "readLease")
    /\ UNCHANGED <<locals, lease, services, phase, archives>>

\* The documented procedure: first confirm that the original backup pod is no
\* longer active, then create one recovery job.
Confirmed ==
    /\ lease.holder # NoPod
    /\ ~Running(lease.holder)
    /\ \A r \in RecoveryPods : ~Running(r)

StartRecovery(j) ==
    /\ j \in RecoveryPods
    /\ pc[j] = "idle"
    /\ Careful => Confirmed
    /\ Goto(j, "readLease")
    /\ UNCHANGED <<locals, lease, services, phase, archives>>

ReadLease(j) ==
    /\ pc[j] = "readLease"
    /\ \/ /\ seen' = [seen EXCEPT ![j] = lease]
          /\ Goto(j, CASE j \in BackupPods   /\ lease.holder = NoPod -> "preflight"
                       [] j \in BackupPods   /\ lease.holder # NoPod -> "failed"
                       [] j \in RecoveryPods /\ lease.holder = NoPod -> "succeeded"
                       [] j \in RecoveryPods /\ lease.holder # NoPod -> "checkHolder")
       \/ /\ "refused" \in Failures
          /\ Throw(j)
          /\ seen' = seen
    /\ UNCHANGED <<locked, needsRecovery, cancelled, unwinding, lease, services, phase, archives>>

\* recover, lines 68-73: the pod that held the Lease when it was read.
CheckHolder(j) ==
    /\ pc[j] = "checkHolder"
    /\ \/ ~Running(seen[j].holder) /\ Goto(j, "restoreCassandra")
       \/ (Running(seen[j].holder) \/ "refused" \in Failures) /\ Throw(j)
    /\ UNCHANGED <<locals, lease, services, phase, archives>>

Healthy ==
    /\ ~flux.suspend /\ ~helm.suspend /\ ~helm.reconciling
    /\ \A d \in Databases : replicas[d] = 1 /\ dbPods[d] = "ready"

Preflight(j) ==
    /\ pc[j] = "preflight"
    /\ \/ Healthy /\ Goto(j, "acquire")
       \/ (~Healthy \/ "refused" \in Failures) /\ Throw(j)
    /\ UNCHANGED <<locals, lease, services, phase, archives>>

\* Seeded fault: the Lease is patched without a resourceVersion.
Unconditional(j) == TRUE

\* A write that names the resourceVersion it read is refused once that changed.
Unchanged(j) == seen[j].version = lease.version

WriteLease(holder) == lease' = [holder |-> holder, version |-> lease.version + 1]

Acquire(j) ==
    /\ pc[j] = "acquire"
    /\ \E o \in Outcomes :
          IF Unchanged(j) /\ Applied(o)
          THEN /\ WriteLease(j)
               /\ locked' = [locked EXCEPT ![j] = (o = "answered")]
               /\ Goto(j, IF o = "answered" THEN "preparing" ELSE "failed")
          ELSE Throw(j) /\ UNCHANGED <<lease, locked>>
    /\ UNCHANGED <<seen, needsRecovery, cancelled, unwinding, services, phase, archives>>

-----------------------------------------------------------------------------
(* The steps of the backup.                                                *)

\* status(): the labels of these calls are the phases they report.
Report(j) ==
    /\ pc[j] \in {"preparing", "archiving", "uploading", "completed"}
    /\ \E o \in Outcomes :
          /\ phase' = IF Applied(o) THEN pc[j] ELSE phase
          /\ needsRecovery' = [needsRecovery EXCEPT
                ![j] = @ \/ (pc[j] = "preparing" /\ o = "answered")]
          /\ torn' = [torn EXCEPT
                ![j] = @ \/ (pc[j] = "archiving" /\ dbPods["cassandra"] # "none")]
          /\ Proceed(j, o)
    /\ UNCHANGED <<seen, locked, cancelled, unwinding, lease, services, stored, marker>>

\* Seeded fault: a recovery reports itself without giving back the Lease.
AfterResumeForgotten(j) ==
    IF j \in RecoveryPods THEN "recovered"
    ELSE IF unwinding[j] THEN "release" ELSE "uploading"

\* resume() ends with Flux: in the backup itself, in its finally block, or in
\* a recovery.
AfterResume(j) ==
    IF j \in RecoveryPods THEN "releaseRecovered"
    ELSE IF unwinding[j] THEN "release" ELSE "uploading"

PatchFlux(j) ==
    /\ pc[j] \in {"suspendFlux", "restoreFlux"}
    /\ \E o \in Outcomes :
          /\ flux' = IF Applied(o)
                     THEN [flux EXCEPT !.suspend = (pc[j] = "suspendFlux")]
                     ELSE flux
          /\ IF pc[j] = "restoreFlux" /\ o = "answered"
             THEN /\ Goto(j, AfterResume(j))
                  /\ needsRecovery' = [needsRecovery EXCEPT ![j] = @ /\ unwinding[j]]
             ELSE /\ Proceed(j, o)
                  /\ UNCHANGED needsRecovery
    /\ UNCHANGED <<seen, locked, cancelled, unwinding, lease, helm, replicas, dbPods, phase, archives>>

PatchHelm(j) ==
    /\ pc[j] \in {"suspendHelm", "restoreHelm"}
    /\ \E o \in Outcomes :
          /\ helm' = IF Applied(o)
                     THEN [helm EXCEPT !.suspend = (pc[j] = "suspendHelm")]
                     ELSE helm
          /\ Proceed(j, o)
    /\ UNCHANGED <<locals, lease, flux, replicas, dbPods, phase, archives>>

\* The database a call scales, and the replicas it asks for.
Scaled(label) ==
    CASE label \in {"stopGraph", "restoreGraph"} -> "janusgraph"
      [] label \in {"stopCassandra", "restoreCassandra"} -> "cassandra"

Scale(j) ==
    /\ pc[j] \in {"stopGraph", "stopCassandra", "restoreGraph", "restoreCassandra"}
    /\ \E o \in Outcomes :
          /\ replicas' = IF Applied(o)
                         THEN [replicas EXCEPT ![Scaled(pc[j])] =
                                 IF pc[j] \in Resuming THEN 1 ELSE 0]
                         ELSE replicas
          /\ Proceed(j, o)
    /\ UNCHANGED <<locals, lease, flux, helm, dbPods, phase, archives>>

\* What each until() polls for.  "capture" is the re-read after both
\* reconcilers are idle.
Reached(label) ==
    CASE label = "awaitFlux"      -> ~flux.reconciling
      [] label = "awaitHelm"      -> ~helm.reconciling
      [] label = "capture"        -> TRUE
      [] label = "awaitGraph"     -> dbPods["janusgraph"] = "none"
      [] label = "awaitCassandra" -> dbPods["cassandra"] = "none"
      [] label = "awaitReady"     -> \A d \in Databases : dbPods[d] = "ready"

\* Seeded fault: until() returns after its first poll, whatever it saw.
AwaitOnce(j) ==
    /\ pc[j] \in {"awaitFlux", "awaitHelm", "capture", "awaitGraph",
                  "awaitCassandra", "awaitReady"}
    /\ Proceed(j, "answered")
    /\ UNCHANGED <<locals, lease, services, phase, archives>>

Await(j) ==
    /\ pc[j] \in {"awaitFlux", "awaitHelm", "capture", "awaitGraph",
                  "awaitCassandra", "awaitReady"}
    /\ \/ Reached(pc[j]) /\ Proceed(j, "answered")
       \/ Failures \cap {"refused", "deadline"} # {} /\ Throw(j)
    /\ UNCHANGED <<locals, lease, services, phase, archives>>

\* tar has run: to its end, or into the SIGTERM that is passed on to it.
Archive(j) ==
    /\ pc[j] = "tar"
    /\ \E o \in Outcomes : Proceed(j, o)
    /\ UNCHANGED <<locals, lease, services, phase, archives>>

\* Multipart upload of the archive; the stored object may not be what was sent.
UploadArchive(j) ==
    /\ pc[j] = "upload"
    /\ \E o \in Outcomes, object \in {"intact", "damaged"} :
          /\ stored' = [stored EXCEPT ![j] = IF Applied(o) THEN object ELSE @]
          /\ Proceed(j, o)
    /\ UNCHANGED <<locals, lease, services, phase, torn, marker>>

\* Seeded fault: the object is downloaded but its hash is not compared.
ReadBackUnchecked(j) ==
    /\ pc[j] = "readBack"
    /\ \E o \in Outcomes : Proceed(j, o)
    /\ UNCHANGED <<locals, lease, services, phase, archives>>

ReadBack(j) ==
    /\ pc[j] = "readBack"
    /\ \E o \in Outcomes : IF stored[j] = "intact" THEN Proceed(j, o) ELSE Throw(j)
    /\ UNCHANGED <<locals, lease, services, phase, archives>>

Publish(j) ==
    /\ pc[j] = "publish"
    /\ \E o \in Outcomes :
          /\ marker' = [marker EXCEPT ![j] = @ \/ Applied(o)]
          /\ Proceed(j, o)
    /\ UNCHANGED <<locals, lease, services, phase, torn, stored>>

\* retireOldBackups() deletes other backups only; Retention models it.
Retire(j) ==
    /\ pc[j] = "retire"
    /\ \E o \in Outcomes : Proceed(j, o)
    /\ UNCHANGED <<locals, lease, services, phase, archives>>

-----------------------------------------------------------------------------
(* catch and finally.                                                      *)

\* Seeded fault: finally releases the Lease without resume().
ReportFailureOnly(j) ==
    /\ pc[j] = "catch"
    /\ phase' = "failed"
    /\ unwinding' = [unwinding EXCEPT ![j] = TRUE]
    /\ Goto(j, "release")
    /\ UNCHANGED <<seen, locked, needsRecovery, cancelled, lease, services, archives>>

\* The report of the failure may itself fail: that error is swallowed.
ReportFailure(j) ==
    /\ pc[j] = "catch"
    /\ \E o \in Outcomes : phase' = IF Applied(o) THEN "failed" ELSE phase
    /\ unwinding' = [unwinding EXCEPT ![j] = TRUE]
    /\ Goto(j, IF needsRecovery[j] THEN "restoreCassandra" ELSE "release")
    /\ UNCHANGED <<seen, locked, needsRecovery, cancelled, lease, services, archives>>

\* The Lease is given back without a resourceVersion.
Release(j) ==
    /\ pc[j] = "release"
    /\ \E o \in Outcomes :
          /\ IF Applied(o) THEN WriteLease(NoPod) ELSE UNCHANGED lease
          /\ Goto(j, IF o = "answered" /\ ~unwinding[j] THEN "succeeded" ELSE "failed")
    /\ UNCHANGED <<locals, services, phase, archives>>

ReleaseRecovered(j) ==
    /\ pc[j] = "releaseRecovered"
    /\ \E o \in Outcomes :
          IF Unchanged(j) /\ Applied(o)
          THEN /\ WriteLease(NoPod)
               /\ Goto(j, IF o = "answered" THEN "recovered" ELSE "failed")
          ELSE Throw(j) /\ UNCHANGED lease
    /\ UNCHANGED <<locals, services, phase, archives>>

ReportRecovered(j) ==
    /\ pc[j] = "recovered"
    /\ \E o \in Outcomes :
          /\ phase' = IF Applied(o) THEN "recovered" ELSE phase
          /\ Goto(j, IF o = "answered" THEN "succeeded" ELSE "failed")
    /\ UNCHANGED <<locals, lease, services, archives>>

JobStep(j) ==
    \/ ReadLease(j) \/ CheckHolder(j) \/ Preflight(j) \/ Acquire(j)
    \/ Report(j) \/ PatchFlux(j) \/ PatchHelm(j) \/ Scale(j) \/ Await(j)
    \/ Archive(j) \/ UploadArchive(j) \/ ReadBack(j) \/ Publish(j) \/ Retire(j)
    \/ ReportFailure(j) \/ Release(j) \/ ReleaseRecovered(j) \/ ReportRecovered(j)

-----------------------------------------------------------------------------
(* Signals.  A recovery never looks at cancelled.                          *)

Terminate(j) ==
    /\ j \in BackupPods
    /\ Running(j) /\ ~cancelled[j]
    /\ cancelled' = [cancelled EXCEPT ![j] = TRUE]
    /\ UNCHANGED <<pc, seen, locked, needsRecovery, unwinding, lease, services, phase, archives>>

Kill(j) ==
    /\ j \in Killable
    /\ Running(j)
    /\ Goto(j, "killed")
    /\ UNCHANGED <<locals, lease, services, phase, archives>>

-----------------------------------------------------------------------------
(* The cluster around the job.  A reconciler starts only while it is not   *)
(* suspended, but finishes what it has started.                            *)

StartReconcile ==
    \/ /\ ~flux.suspend /\ ~flux.reconciling
       /\ flux' = [flux EXCEPT !.reconciling = TRUE]
       /\ UNCHANGED helm
    \/ /\ ~helm.suspend /\ ~helm.reconciling
       /\ helm' = [helm EXCEPT !.reconciling = TRUE]
       /\ UNCHANGED flux

\* Git's HelmRelease says "suspend: false", and Flux applies it.
FinishFlux ==
    /\ flux.reconciling
    /\ flux' = [flux EXCEPT !.reconciling = FALSE]
    /\ helm' = [helm EXCEPT !.suspend = FALSE]
    /\ UNCHANGED <<pc, locals, lease, replicas, dbPods, phase, archives>>

\* The chart asks for one replica of each database.
FinishHelm ==
    /\ helm.reconciling
    /\ helm' = [helm EXCEPT !.reconciling = FALSE]
    /\ replicas' = [d \in Databases |-> 1]
    /\ UNCHANGED <<pc, locals, lease, flux, dbPods, phase, archives>>

PodStart(d) ==
    /\ replicas[d] = 1 /\ dbPods[d] = "none"
    /\ dbPods' = [dbPods EXCEPT ![d] = "starting"]
    /\ torn' = [j \in Pods |-> torn[j] \/ (d = "cassandra" /\ pc[j] = "tar")]
    /\ UNCHANGED <<pc, locals, lease, flux, helm, replicas, phase, stored, marker>>

\* JanusGraph waits for Cassandra.
PodReady(d) ==
    /\ dbPods[d] = "starting"
    /\ d = "janusgraph" => dbPods["cassandra"] = "ready"
    /\ dbPods' = [dbPods EXCEPT ![d] = "ready"]
    /\ UNCHANGED <<pc, locals, lease, flux, helm, replicas, phase, archives>>

PodStop(d) ==
    /\ replicas[d] = 0 /\ dbPods[d] # "none"
    /\ dbPods' = [dbPods EXCEPT ![d] = "none"]
    /\ UNCHANGED <<pc, locals, lease, flux, helm, replicas, phase, archives>>

Reconcile ==
    \/ /\ StartReconcile
       /\ UNCHANGED <<pc, locals, lease, replicas, dbPods, phase, archives>>
    \/ FinishFlux
    \/ FinishHelm

Controllers == Reconcile \/ \E d \in Databases : PodStart(d) \/ PodReady(d) \/ PodStop(d)

Next ==
    \/ \E j \in Pods :
          StartBackup(j) \/ StartRecovery(j) \/ JobStep(j) \/ Terminate(j) \/ Kill(j)
    \/ Controllers

Spec == Init /\ [][Next]_vars

(***************************************************************************)
(* Fairness.  A pod that is not killed gets its replies and its timers      *)
(* (every poll ends, line 45), and the controllers of the cluster do their *)
(* work.  Starting a job, signals and reconciliations are not fair.        *)
(***************************************************************************)
Fairness ==
    /\ \A j \in Pods : WF_vars(JobStep(j))
    /\ WF_vars(FinishFlux) /\ WF_vars(FinishHelm)
    /\ \A d \in Databases :
          WF_vars(PodStart(d)) /\ WF_vars(PodReady(d)) /\ WF_vars(PodStop(d))

FairSpec == Spec /\ Fairness

\* The operator follows README.md: a stranded Lease gets its recovery job.
OperatedSpec == FairSpec /\ \A j \in RecoveryPods : WF_vars(StartRecovery(j))

-----------------------------------------------------------------------------
(* Properties.                                                             *)

\* Something is suspended or scaled down.
Quiesced ==
    \/ flux.suspend \/ helm.suspend
    \/ \E d \in Databases : replicas[d] = 0

\* Or a database that is asked back is not ready yet.
Outage == Quiesced \/ \E d \in Databases : dbPods[d] # "ready"

\* Whatever fails, is killed or is recovered: until the databases are ready
\* again and neither Flux nor Helm is suspended, the Lease is held, so the
\* outage has an owner and no new backup starts on top of it.
LeaseCoversOutage == Outage => lease.holder # NoPod

\* A completion manifest is only ever published for an archive that was read
\* while Cassandra was stopped and that is intact in the bucket.
PublishedIsConsistent ==
    \A j \in Pods : marker[j] => stored[j] = "intact" /\ ~torn[j]

\* From the re-read of the images to the end of tar neither reconciler is
\* active or can become so: nothing scales the databases up under the archive.
ReconcilersHeld ==
    \A j \in Pods :
        pc[j] \in {"capture", "stopGraph", "awaitGraph", "stopCassandra",
                   "awaitCassandra", "archiving", "tar"}
        => /\ flux.suspend /\ ~flux.reconciling
           /\ helm.suspend /\ ~helm.reconciling

\* At any time at most one pod, backup or recovery, is stopping or restoring
\* the environment, or publishing and retiring backups.
Driving(j) == pc[j] \in Stopping \cup Resuming \cup Publishing

OneDriver == \A i, j \in Pods : Driving(i) /\ Driving(j) => i = j

\* Cassandra is never asked to stop while JanusGraph still has a pod, and is
\* asked back before JanusGraph is: the graph never outlives its storage.
GraphStopsFirst == replicas["cassandra"] = 0 => dbPods["janusgraph"] = "none"

\* A backup that exits with code 0 has published its archive and given back
\* the Lease.
ExitCodeHonest ==
    \A j \in BackupPods :
        pc[j] = "succeeded" => marker[j] /\ lease.holder # j

\* The Lease is held by a pod that has ended.
Stranded == lease.holder # NoPod /\ ~Running(lease.holder)

\* Seeded fault: metricsFor() does not count "preparing" as in progress.
AlertingLate == {"failed", "recovered", "archiving", "uploading"}

\* The phases for which Grafana's backup-failed rule fires, at once or when
\* they last for more than an hour.
Alerting == {"failed", "recovered", "preparing", "archiving", "uploading"}

\* An outage that its job abandoned is always in a phase that alerts, though a
\* recovery reports "recovered" only after it has released the Lease, over
\* whatever the next backup has reported meanwhile.
AbandonedOutageAlerts == Stranded /\ Outage => phase \in Alerting

\* A backup that took the Lease ends with everything restored and the Lease
\* given back, also when SIGTERM interrupts it at any point.
BackupEndsRestored ==
    \A j \in BackupPods :
        locked[j] ~>
            \/ pc[j] = "killed"
            \/ (pc[j] \in Ended /\ lease.holder = NoPod /\ ~Outage)

\* A Lease left by a killed pod, and with it the outage, ends through recovery.
StrandedIsRecovered == Stranded ~> (lease.holder = NoPod /\ ~Outage)

-----------------------------------------------------------------------------
(* The Lease implements an exclusive maintenance window, whatever recovery *)
(* jobs the operator starts.                                               *)

Window == INSTANCE MaintenanceWindow WITH
    Jobs      <- BackupPods,
    NoJob     <- NoPod,
    owner     <- lease.holder,
    down      <- Outage,
    published <- {j \in Pods : marker[j]}

\* Every step of the pods and of the cluster is a step of the maintenance
\* window that backup-cluster.mjs:81-93 and 160-172 are to keep exclusive.
ImplementsWindow == Window!WindowSpec

\* The bucket of its environment, as BackupRetention and OffHostRestore see it.
Bucket == INSTANCE BackupBucket WITH
    Keys      <- Pods,
    archives  <- {j \in Pods : stored[j] = "intact"},
    manifests <- {j \in Pods : marker[j]},
    completed <- {j \in Pods : marker[j]}

=============================================================================
