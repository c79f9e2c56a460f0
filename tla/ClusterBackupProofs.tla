------------------------ MODULE ClusterBackupProofs ------------------------
(***************************************************************************)
(* Proofs about ClusterBackup for every set of pods, every choice of       *)
(* failures and killable pods, and with or without careful operators.      *)
(***************************************************************************)
EXTENDS ClusterBackup, TLAPS

\* Where an exception leaves the pod, and where an answered call does.
LEMMA ThrowType ==
    ASSUME TypeOK, NEW j \in Pods, Throw(j)
    PROVE  pc' \in [Pods -> Labels]
BY DEF TypeOK, Throw, Goto, Labels, Ended

LEMMA ProceedType ==
    ASSUME TypeOK, NEW j \in Pods, NEW o, Proceed(j, o),
           pc[j] \in Stopping \cup Resuming \cup Publishing \cup {"preparing"},
           pc[j] = "restoreFlux" => o # "answered"
    PROVE  pc' \in [Pods -> Labels]
<1>1. CASE Throw(j)
  BY <1>1, ThrowType
<1>2. CASE Goto(j, Following(pc[j])) /\ pc[j] # "restoreFlux"
  <2>1. Following(pc[j]) \in Labels
    BY <1>2 DEF Following, Labels, Stopping, Resuming, Publishing, Ended
  <2> QED
    BY <1>2, <2>1 DEF Goto, TypeOK
<1> QED
  BY <1>1, <1>2 DEF Proceed

-----------------------------------------------------------------------------
\* The state stays within its types.
THEOREM TypeInvariant == Spec => []TypeOK
<1>1. Init => TypeOK
  BY PodsAssumption DEF Init, TypeOK, Leases, Labels, Pods, Databases
<1>2. TypeOK /\ [Next]_vars => TypeOK'
  <2> SUFFICES ASSUME TypeOK, [Next]_vars
               PROVE  TypeOK'
    OBVIOUS
  <2> USE DEF vars, locals, services, archives
  <2>1. ASSUME NEW j \in Pods, StartBackup(j)
         PROVE  TypeOK'
    <3>1. pc' \in [Pods -> Labels]
      BY <2>1, ThrowType DEF StartBackup, Goto, Labels, TypeOK, Resuming, Ended
    <3> QED
      BY <2>1, <3>1 DEF StartBackup, TypeOK, WriteLease, Leases, Pods
  <2>2. ASSUME NEW j \in Pods, StartRecovery(j)
         PROVE  TypeOK'
    <3>1. pc' \in [Pods -> Labels]
      BY <2>2, ThrowType DEF StartRecovery, Goto, Labels, TypeOK, Resuming, Ended
    <3> QED
      BY <2>2, <3>1 DEF StartRecovery, TypeOK, WriteLease, Leases, Pods
  <2>3. ASSUME NEW j \in Pods, ReadLease(j)
         PROVE  TypeOK'
    <3>1. pc' \in [Pods -> Labels]
      BY <2>3, ThrowType DEF ReadLease, Goto, Labels, TypeOK, Ended, Pods
    <3> QED
      BY <2>3, <3>1 DEF ReadLease, TypeOK, WriteLease, Leases, Pods
  <2>4. ASSUME NEW j \in Pods, CheckHolder(j)
         PROVE  TypeOK'
    <3>1. pc' \in [Pods -> Labels]
      BY <2>4, ThrowType DEF CheckHolder, Goto, Labels, TypeOK, Resuming, Ended
    <3> QED
      BY <2>4, <3>1 DEF CheckHolder, TypeOK, WriteLease, Leases, Pods
  <2>5. ASSUME NEW j \in Pods, Preflight(j)
         PROVE  TypeOK'
    <3>1. pc' \in [Pods -> Labels]
      BY <2>5, ThrowType DEF Preflight, Goto, Labels, TypeOK, Resuming, Ended
    <3> QED
      BY <2>5, <3>1 DEF Preflight, TypeOK, WriteLease, Leases, Pods
  <2>6. ASSUME NEW j \in Pods, Acquire(j)
         PROVE  TypeOK'
    <3>1. pc' \in [Pods -> Labels]
      BY <2>6, ThrowType DEF Acquire, Goto, Labels, TypeOK, Resuming, Ended
    <3>2. lease' \in Leases
      BY <2>6 DEF Acquire, TypeOK, WriteLease, Leases, Pods
    <3>3. locked' \in [Pods -> BOOLEAN]
      <4>1. PICK o \in Outcomes :
               \/ locked' = [locked EXCEPT ![j] = (o = "answered")]
               \/ locked' = locked
        BY <2>6 DEF Acquire
      <4>2. (o = "answered") \in BOOLEAN
        OBVIOUS
      <4> QED
        BY <4>1, <4>2 DEF TypeOK
    <3> QED
      BY <2>6, <3>1, <3>2, <3>3 DEF Acquire, TypeOK
  <2>7. ASSUME NEW j \in Pods, Report(j)
         PROVE  TypeOK'
    <3>1. pc' \in [Pods -> Labels]
      BY <2>7, ProceedType, ThrowType DEF Report, Goto, AfterResume, Labels, TypeOK, Stopping, Resuming, Publishing
    <3>2. phase' \in {"none", "preparing", "archiving", "uploading",
                      "completed", "failed", "recovered"}
      BY <2>7 DEF Report, TypeOK
    <3>3. needsRecovery' \in [Pods -> BOOLEAN] /\ torn' \in [Pods -> BOOLEAN]
      BY <2>7, Zenon DEF Report, TypeOK
    <3>4. UNCHANGED <<seen, locked, cancelled, unwinding, lease, services, stored, marker>>
      BY <2>7 DEF Report
    <3> QED
      BY <3>1, <3>2, <3>3, <3>4 DEF TypeOK, services
  <2>8. ASSUME NEW j \in Pods, PatchFlux(j)
         PROVE  TypeOK'
    <3>1. pc' \in [Pods -> Labels]
      BY <2>8, ProceedType, ThrowType DEF PatchFlux, Goto, AfterResume, Labels, TypeOK, Stopping, Resuming, Publishing
    <3> QED
      BY <2>8, <3>1 DEF PatchFlux, TypeOK, Leases, Databases
  <2>9. ASSUME NEW j \in Pods, PatchHelm(j)
         PROVE  TypeOK'
    <3>1. pc' \in [Pods -> Labels]
      BY <2>9, ProceedType, ThrowType DEF PatchHelm, Goto, AfterResume, Labels, TypeOK, Stopping, Resuming, Publishing
    <3> QED
      BY <2>9, <3>1 DEF PatchHelm, TypeOK, Leases, Databases
  <2>10. ASSUME NEW j \in Pods, Scale(j)
         PROVE  TypeOK'
    <3>1. pc' \in [Pods -> Labels]
      BY <2>10, ProceedType, ThrowType DEF Scale, Goto, AfterResume, Labels, TypeOK, Stopping, Resuming, Publishing
    <3>2. replicas' \in [Databases -> {0, 1}]
      BY <2>10 DEF Scale, TypeOK
    <3>3. UNCHANGED <<locals, lease, flux, helm, dbPods, phase, archives>>
      BY <2>10 DEF Scale
    <3> QED
      BY <3>1, <3>2, <3>3 DEF TypeOK, locals, archives
  <2>11. ASSUME NEW j \in Pods, Await(j)
         PROVE  TypeOK'
    <3>1. pc' \in [Pods -> Labels]
      BY <2>11, ProceedType, ThrowType DEF Await, Goto, AfterResume, Labels, TypeOK, Stopping, Resuming, Publishing
    <3> QED
      BY <2>11, <3>1 DEF Await, TypeOK, Leases, Databases
  <2>12. ASSUME NEW j \in Pods, Archive(j)
         PROVE  TypeOK'
    <3>1. pc' \in [Pods -> Labels]
      BY <2>12, ProceedType, ThrowType DEF Archive, Goto, AfterResume, Labels, TypeOK, Stopping, Resuming, Publishing
    <3> QED
      BY <2>12, <3>1 DEF Archive, TypeOK, Leases, Databases
  <2>13. ASSUME NEW j \in Pods, UploadArchive(j)
         PROVE  TypeOK'
    <3>1. pc' \in [Pods -> Labels]
      BY <2>13, ProceedType, ThrowType DEF UploadArchive, Goto, AfterResume, Labels, TypeOK, Stopping, Resuming, Publishing
    <3>2. stored' \in [Pods -> {"none", "intact", "damaged"}]
      <4>1. PICK o \in Outcomes, object \in {"intact", "damaged"} :
               stored' = [stored EXCEPT ![j] = IF Applied(o) THEN object ELSE @]
        BY <2>13 DEF UploadArchive
      <4> QED
        BY <4>1 DEF TypeOK
    <3> QED
      BY <2>13, <3>1, <3>2 DEF UploadArchive, TypeOK
  <2>14. ASSUME NEW j \in Pods, ReadBack(j)
         PROVE  TypeOK'
    <3>1. pc' \in [Pods -> Labels]
      BY <2>14, ProceedType, ThrowType DEF ReadBack, Goto, AfterResume, Labels, TypeOK, Stopping, Resuming, Publishing
    <3> QED
      BY <2>14, <3>1 DEF ReadBack, TypeOK, Leases, Databases
  <2>15. ASSUME NEW j \in Pods, Publish(j)
         PROVE  TypeOK'
    <3>1. pc' \in [Pods -> Labels]
      BY <2>15, ProceedType, ThrowType DEF Publish, Goto, AfterResume, Labels, TypeOK, Stopping, Resuming, Publishing
    <3> QED
      BY <2>15, <3>1 DEF Publish, TypeOK, Leases, Databases
  <2>16. ASSUME NEW j \in Pods, Retire(j)
         PROVE  TypeOK'
    <3>1. pc' \in [Pods -> Labels]
      BY <2>16, ProceedType, ThrowType DEF Retire, Goto, AfterResume, Labels, TypeOK, Stopping, Resuming, Publishing
    <3> QED
      BY <2>16, <3>1 DEF Retire, TypeOK, Leases, Databases
  <2>17. ASSUME NEW j \in Pods, ReportFailure(j)
         PROVE  TypeOK'
    <3>1. pc' \in [Pods -> Labels]
      BY <2>17, ThrowType DEF ReportFailure, Goto, Labels, TypeOK, Resuming, Ended
    <3> QED
      BY <2>17, <3>1 DEF ReportFailure, TypeOK, WriteLease, Leases, Pods
  <2>18. ASSUME NEW j \in Pods, Release(j)
         PROVE  TypeOK'
    <3>1. pc' \in [Pods -> Labels]
      BY <2>18, ThrowType DEF Release, Goto, Labels, TypeOK, Resuming, Ended
    <3> QED
      BY <2>18, <3>1 DEF Release, TypeOK, WriteLease, Leases, Pods
  <2>19. ASSUME NEW j \in Pods, ReleaseRecovered(j)
         PROVE  TypeOK'
    <3>1. pc' \in [Pods -> Labels]
      BY <2>19, ThrowType DEF ReleaseRecovered, Goto, Labels, TypeOK, Resuming, Ended
    <3> QED
      BY <2>19, <3>1 DEF ReleaseRecovered, TypeOK, WriteLease, Leases, Pods
  <2>20. ASSUME NEW j \in Pods, ReportRecovered(j)
         PROVE  TypeOK'
    <3>1. pc' \in [Pods -> Labels]
      BY <2>20, ThrowType DEF ReportRecovered, Goto, Labels, TypeOK, Resuming, Ended
    <3> QED
      BY <2>20, <3>1 DEF ReportRecovered, TypeOK, WriteLease, Leases, Pods
  <2>21. ASSUME NEW j \in Pods, Terminate(j)
         PROVE  TypeOK'
    <3>1. pc' \in [Pods -> Labels]
      BY <2>21, ThrowType DEF Terminate, Goto, Labels, TypeOK, Resuming, Ended
    <3> QED
      BY <2>21, <3>1 DEF Terminate, TypeOK, WriteLease, Leases, Pods
  <2>22. ASSUME NEW j \in Pods, Kill(j)
         PROVE  TypeOK'
    <3>1. pc' \in [Pods -> Labels]
      BY <2>22, ThrowType DEF Kill, Goto, Labels, TypeOK, Resuming, Ended
    <3> QED
      BY <2>22, <3>1 DEF Kill, TypeOK, WriteLease, Leases, Pods
  <2>23. CASE FinishFlux
    BY <2>23 DEF FinishFlux, TypeOK
  <2>24. CASE FinishHelm
    BY <2>24 DEF FinishHelm, TypeOK
  <2>25. ASSUME NEW d \in Databases, PodStart(d)
         PROVE  TypeOK'
    BY <2>25 DEF PodStart, TypeOK
  <2>26. ASSUME NEW d \in Databases, PodReady(d)
         PROVE  TypeOK'
    BY <2>26 DEF PodReady, TypeOK
  <2>27. ASSUME NEW d \in Databases, PodStop(d)
         PROVE  TypeOK'
    BY <2>27 DEF PodStop, TypeOK
  <2>28. CASE StartReconcile /\ UNCHANGED <<pc, locals, lease, replicas, dbPods, phase, archives>>
    BY <2>28 DEF StartReconcile, TypeOK
  <2>29. CASE UNCHANGED vars
    BY <2>29 DEF TypeOK
  <2> QED
    BY <2>1, <2>2, <2>3, <2>4, <2>5, <2>6, <2>7, <2>8, <2>9, <2>10, <2>11, <2>12, <2>13, <2>14, <2>15, <2>16, <2>17, <2>18, <2>19, <2>20, <2>21, <2>22, <2>23, <2>24, <2>25, <2>26, <2>27, <2>28, <2>29
       DEF Next, JobStep, Controllers, Reconcile
<1> QED
  BY <1>1, <1>2, PTL DEF Spec

-----------------------------------------------------------------------------
(***************************************************************************)
(* The inductive invariant: the Lease and what has been stopped under it.  *)
(***************************************************************************)

\* The points at which a backup owns the Lease.
Owning == {"preparing", "catch", "release"} \cup Stopping \cup Resuming \cup Publishing

\* Which points backups and recoveries pass, and when a backup is locked.
PointsOK ==
    /\ \A b \in BackupPods :
          /\ pc[b] \notin {"checkHolder", "releaseRecovered", "recovered"}
          /\ locked[b] => pc[b] \in Owning \cup Ended
          /\ pc[b] \in Stopping \cup Resuming => needsRecovery[b]
    /\ \A r \in RecoveryPods :
          /\ pc[r] \in {"idle", "readLease", "checkHolder", "releaseRecovered",
                        "recovered"} \cup Resuming \cup Ended
          /\ ~locked[r]

\* Only an owner or an ended backup holds the Lease, and an owner does hold it.
HolderOK ==
    /\ \A b \in BackupPods : pc[b] \in Owning => lease.holder = b
    /\ lease.holder # NoPod =>
          lease.holder \in BackupPods /\ pc[lease.holder] \in Owning \cup Ended

\* A resourceVersion names one state of the Lease; what a pod has read may be
\* old, but the holder a recovery acts on has ended for good.
SeenOK ==
    \A j \in Pods :
        /\ seen[j].version <= lease.version
        /\ seen[j].version = lease.version => seen[j].holder = lease.holder
        /\ j \in BackupPods /\ pc[j] \in {"preflight", "acquire"} =>
              seen[j].holder = NoPod
        /\ seen[j].holder # NoPod =>
              seen[j].holder \in BackupPods /\ pc[seen[j].holder] \in Owning \cup Ended
        /\ pc[j] = "checkHolder" => seen[j].holder # NoPod
        /\ j \in RecoveryPods /\ pc[j] \in Resuming \cup {"releaseRecovered"} =>
              seen[j].holder \in BackupPods /\ pc[seen[j].holder] \in Ended

\* The pod that answers for the environment: the backup that holds the Lease,
\* or a recovery that has read the Lease as it still is.
InCharge(j) ==
    \/ j \in BackupPods /\ lease.holder = j
    \/ j \in RecoveryPods /\ seen[j].version = lease.version

\* How far the pod in charge has restored the environment.
Restoring(j) ==
    /\ pc[j] \in {"restoreGraph", "awaitReady", "restoreHelm", "restoreFlux"} =>
          replicas["cassandra"] = 1
    /\ pc[j] \in {"awaitReady", "restoreHelm", "restoreFlux"} =>
          replicas["janusgraph"] = 1
    /\ pc[j] = "restoreFlux" => ~helm.suspend
    /\ pc[j] \in {"preparing", "release", "releaseRecovered"} \cup Publishing =>
          ~Quiesced
    /\ pc[j] = "catch" /\ ~needsRecovery[j] => ~Quiesced

RestoringOK == \A j \in Pods : InCharge(j) => Restoring(j)

QuiescedIsHeld == Quiesced => lease.holder # NoPod

IInv ==
    /\ TypeOK
    /\ PointsOK
    /\ HolderOK
    /\ SeenOK
    /\ RestoringOK
    /\ QuiescedIsHeld

-----------------------------------------------------------------------------
(***************************************************************************)
(* IInv is inductive.  There is a lemma for each action of a pod; under it *)
(* one step for each part of the invariant.                                *)
(***************************************************************************)
LEMMA InitIInv == Init => IInv
BY PodsAssumption
   DEF Init, IInv, TypeOK, Leases, Labels, Pods, Databases, PointsOK, HolderOK,
       SeenOK, RestoringOK, Restoring, InCharge, QuiescedIsHeld, Quiesced,
       Owning, Stopping, Resuming, Publishing, Ended

LEMMA StartPreserves ==
    ASSUME IInv, TypeOK', NEW j \in Pods,
           StartBackup(j) \/ StartRecovery(j)
    PROVE  IInv'
<1> USE PodsAssumption DEF TypeOK, Leases, Pods, Databases, Owning, Stopping,
        Resuming, Publishing, Ended, StartBackup, Goto, StartRecovery, locals,
        services, archives
<1>1. PointsOK'
  BY DEF IInv, PointsOK
<1>2. HolderOK'
  BY DEF IInv, HolderOK, PointsOK, SeenOK
<1>3. SeenOK'
  BY DEF IInv, SeenOK, PointsOK, HolderOK
<1>4. RestoringOK'
  BY DEF IInv, RestoringOK, Restoring, InCharge, PointsOK, HolderOK, SeenOK,
         QuiescedIsHeld, Quiesced
<1>5. QuiescedIsHeld'
  BY DEF IInv, QuiescedIsHeld, Quiesced
<1> QED
  BY <1>1, <1>2, <1>3, <1>4, <1>5 DEF IInv

\* What is read is the Lease as it is.
LEMMA ReadLeasePreserves ==
    ASSUME IInv, TypeOK', NEW j \in Pods,
           ReadLease(j)
    PROVE  IInv'
<1> USE PodsAssumption DEF TypeOK, Leases, Pods, Databases, Owning, Stopping,
        Resuming, Publishing, Ended, ReadLease, Goto, Throw, services,
        archives
<1>1. PointsOK'
  BY DEF IInv, PointsOK
<1>2. HolderOK'
  BY DEF IInv, HolderOK, PointsOK, SeenOK
<1>3. SeenOK'
  BY DEF IInv, SeenOK, PointsOK, HolderOK
<1>4. RestoringOK'
  BY DEF IInv, RestoringOK, Restoring, InCharge, PointsOK, HolderOK, SeenOK,
         QuiescedIsHeld, Quiesced
<1>5. QuiescedIsHeld'
  BY DEF IInv, QuiescedIsHeld, Quiesced
<1> QED
  BY <1>1, <1>2, <1>3, <1>4, <1>5 DEF IInv

\* A holder that is not running has ended: it was past its start.
LEMMA CheckHolderPreserves ==
    ASSUME IInv, TypeOK', NEW j \in Pods,
           CheckHolder(j)
    PROVE  IInv'
<1> USE PodsAssumption DEF TypeOK, Leases, Pods, Databases, Owning, Stopping,
        Resuming, Publishing, Ended, CheckHolder, Goto, Running, Throw,
        locals, services, archives
<1>1. PointsOK'
  BY DEF IInv, PointsOK
<1>2. HolderOK'
  BY DEF IInv, HolderOK, PointsOK, SeenOK
<1>3. SeenOK'
  BY DEF IInv, SeenOK, PointsOK, HolderOK
<1>4. RestoringOK'
  BY DEF IInv, RestoringOK, Restoring, InCharge, PointsOK, HolderOK, SeenOK,
         QuiescedIsHeld, Quiesced
<1>5. QuiescedIsHeld'
  BY DEF IInv, QuiescedIsHeld, Quiesced
<1> QED
  BY <1>1, <1>2, <1>3, <1>4, <1>5 DEF IInv

LEMMA PreflightPreserves ==
    ASSUME IInv, TypeOK', NEW j \in Pods,
           Preflight(j)
    PROVE  IInv'
<1> USE PodsAssumption DEF TypeOK, Leases, Pods, Databases, Owning, Stopping,
        Resuming, Publishing, Ended, Preflight, Goto, Throw, locals, services,
        archives
<1>1. PointsOK'
  BY DEF IInv, PointsOK
<1>2. HolderOK'
  BY DEF IInv, HolderOK, PointsOK, SeenOK
<1>3. SeenOK'
  BY DEF IInv, SeenOK, PointsOK, HolderOK
<1>4. RestoringOK'
  BY DEF IInv, RestoringOK, Restoring, InCharge, PointsOK, HolderOK, SeenOK,
         QuiescedIsHeld, Quiesced
<1>5. QuiescedIsHeld'
  BY DEF IInv, QuiescedIsHeld, Quiesced
<1> QED
  BY <1>1, <1>2, <1>3, <1>4, <1>5 DEF IInv

\* The Lease was free when it was read and has not changed: nothing was down.
LEMMA AcquirePreserves ==
    ASSUME IInv, TypeOK', NEW j \in Pods,
           Acquire(j)
    PROVE  IInv'
<1> USE PodsAssumption DEF TypeOK, Leases, Pods, Databases, Owning, Stopping,
        Resuming, Publishing, Ended, Acquire, Applied, Goto, Throw, Unchanged,
        WriteLease, services, archives
<1>1. PointsOK'
  BY DEF IInv, PointsOK
<1>2. HolderOK'
  BY DEF IInv, HolderOK, PointsOK, SeenOK
<1>3. SeenOK'
  BY DEF IInv, SeenOK, PointsOK, HolderOK
<1>4. RestoringOK'
  BY DEF IInv, RestoringOK, Restoring, InCharge, PointsOK, HolderOK, SeenOK,
         QuiescedIsHeld, Quiesced
<1>5. QuiescedIsHeld'
  BY DEF IInv, QuiescedIsHeld, Quiesced, RestoringOK, Restoring, InCharge,
         PointsOK, HolderOK, SeenOK
<1> QED
  BY <1>1, <1>2, <1>3, <1>4, <1>5 DEF IInv

LEMMA ReportPreserves ==
    ASSUME IInv, TypeOK', NEW j \in Pods,
           Report(j)
    PROVE  IInv'
<1> USE PodsAssumption DEF TypeOK, Leases, Pods, Databases, Owning, Stopping,
        Resuming, Publishing, Ended, Report, Applied, Checkpoints, Following,
        Goto, Proceed, Throw, services
<1>1. PointsOK'
  <2>1. PICK o \in Outcomes :
           /\ needsRecovery' = [needsRecovery EXCEPT
                 ![j] = @ \/ (pc[j] = "preparing" /\ o = "answered")]
           /\ Proceed(j, o)
    BY DEF Report
  <2>2. \A b \in Pods : needsRecovery[b] => needsRecovery'[b]
    BY <2>1 DEF IInv
  <2>3. pc[j] = "preparing" /\ o = "answered" => needsRecovery'[j]
    BY <2>1 DEF IInv
  <2> QED
    BY <2>1, <2>2, <2>3 DEF IInv, PointsOK
<1>2. HolderOK'
  BY DEF IInv, HolderOK, PointsOK, SeenOK
<1>3. SeenOK'
  BY DEF IInv, SeenOK, PointsOK, HolderOK
<1>4. RestoringOK'
  BY DEF IInv, RestoringOK, Restoring, InCharge, PointsOK, HolderOK, SeenOK,
         QuiescedIsHeld, Quiesced
<1>5. QuiescedIsHeld'
  BY DEF IInv, QuiescedIsHeld, Quiesced
<1> QED
  BY <1>1, <1>2, <1>3, <1>4, <1>5 DEF IInv

LEMMA PatchFluxPreserves ==
    ASSUME IInv, TypeOK', NEW j \in Pods,
           PatchFlux(j)
    PROVE  IInv'
<1> USE PodsAssumption DEF TypeOK, Leases, Pods, Databases, Owning, Stopping,
        Resuming, Publishing, Ended, PatchFlux, AfterResume, Applied,
        Checkpoints, Following, Goto, Proceed, Throw, archives
<1>1. PointsOK'
  BY DEF IInv, PointsOK
<1>2. HolderOK'
  BY DEF IInv, HolderOK, PointsOK, SeenOK
<1>3. SeenOK'
  BY DEF IInv, SeenOK, PointsOK, HolderOK
<1>4. RestoringOK'
  BY DEF IInv, RestoringOK, Restoring, InCharge, PointsOK, HolderOK, SeenOK,
         QuiescedIsHeld, Quiesced
<1>5. QuiescedIsHeld'
  BY DEF IInv, QuiescedIsHeld, Quiesced, RestoringOK, Restoring, InCharge,
         PointsOK, HolderOK, SeenOK
<1> QED
  BY <1>1, <1>2, <1>3, <1>4, <1>5 DEF IInv

LEMMA PatchHelmPreserves ==
    ASSUME IInv, TypeOK', NEW j \in Pods,
           PatchHelm(j)
    PROVE  IInv'
<1> USE PodsAssumption DEF TypeOK, Leases, Pods, Databases, Owning, Stopping,
        Resuming, Publishing, Ended, PatchHelm, Applied, Checkpoints,
        Following, Goto, Proceed, Throw, locals, archives
<1>1. PointsOK'
  BY DEF IInv, PointsOK
<1>2. HolderOK'
  BY DEF IInv, HolderOK, PointsOK, SeenOK
<1>3. SeenOK'
  BY DEF IInv, SeenOK, PointsOK, HolderOK
<1>4. RestoringOK'
  BY DEF IInv, RestoringOK, Restoring, InCharge, PointsOK, HolderOK, SeenOK,
         QuiescedIsHeld, Quiesced
<1>5. QuiescedIsHeld'
  BY DEF IInv, QuiescedIsHeld, Quiesced, RestoringOK, Restoring, InCharge,
         PointsOK, HolderOK, SeenOK
<1> QED
  BY <1>1, <1>2, <1>3, <1>4, <1>5 DEF IInv

LEMMA ScalePreserves ==
    ASSUME IInv, TypeOK', NEW j \in Pods,
           Scale(j)
    PROVE  IInv'
<1> USE PodsAssumption DEF TypeOK, Leases, Pods, Databases, Owning, Stopping,
        Resuming, Publishing, Ended, Scale, Applied, Checkpoints, Following,
        Goto, Proceed, Scaled, Throw, locals, archives
<1>1. PointsOK'
  BY DEF IInv, PointsOK
<1>2. HolderOK'
  BY DEF IInv, HolderOK, PointsOK, SeenOK
<1>3. SeenOK'
  BY DEF IInv, SeenOK, PointsOK, HolderOK
<1>4. RestoringOK'
  <2> SUFFICES ASSUME NEW i \in Pods, InCharge(i)'
               PROVE  Restoring(i)'
    BY DEF RestoringOK
  <2>1. InCharge(i) /\ Restoring(i)
    BY DEF IInv, RestoringOK, InCharge
  <2>2. CASE pc[j] \in {"stopGraph", "stopCassandra"}
    BY <2>1, <2>2 DEF IInv, PointsOK, HolderOK, SeenOK, InCharge, Restoring
  <2>3. CASE pc[j] \in {"restoreGraph", "restoreCassandra"}
    <3>1. \A d \in Databases : replicas[d] = 1 => replicas'[d] = 1
      BY <2>3 DEF IInv
    <3>2. Quiesced' => Quiesced
      BY <3>1 DEF IInv, Quiesced
    <3>3. CASE i # j
      BY <2>1, <3>1, <3>2, <3>3 DEF IInv, Restoring
    <3>4. CASE i = j
      BY <2>1, <2>3, <3>1, <3>4 DEF IInv, Restoring, PointsOK
    <3> QED
      BY <3>3, <3>4
  <2> QED
    BY <2>2, <2>3
<1>5. QuiescedIsHeld'
  BY DEF IInv, QuiescedIsHeld, Quiesced, RestoringOK, Restoring, InCharge,
         PointsOK, HolderOK, SeenOK
<1> QED
  BY <1>1, <1>2, <1>3, <1>4, <1>5 DEF IInv

LEMMA AwaitPreserves ==
    ASSUME IInv, TypeOK', NEW j \in Pods,
           Await(j)
    PROVE  IInv'
<1> USE PodsAssumption DEF TypeOK, Leases, Pods, Databases, Owning, Stopping,
        Resuming, Publishing, Ended, Await, Checkpoints, Following, Goto,
        Proceed, Throw, locals, services, archives
<1>1. PointsOK'
  BY DEF IInv, PointsOK
<1>2. HolderOK'
  BY DEF IInv, HolderOK, PointsOK, SeenOK
<1>3. SeenOK'
  BY DEF IInv, SeenOK, PointsOK, HolderOK
<1>4. RestoringOK'
  BY DEF IInv, RestoringOK, Restoring, InCharge, PointsOK, HolderOK, SeenOK,
         QuiescedIsHeld, Quiesced
<1>5. QuiescedIsHeld'
  BY DEF IInv, QuiescedIsHeld, Quiesced
<1> QED
  BY <1>1, <1>2, <1>3, <1>4, <1>5 DEF IInv

LEMMA ArchivingPreserves ==
    ASSUME IInv, TypeOK', NEW j \in Pods,
           Archive(j) \/ UploadArchive(j) \/ ReadBack(j) \/ Publish(j) \/ Retire(j)
    PROVE  IInv'
<1> USE PodsAssumption DEF TypeOK, Leases, Pods, Databases, Owning, Stopping,
        Resuming, Publishing, Ended
<1>0. /\ pc[j] = "tar" \/ pc[j] \in Publishing
      /\ \E next \in {"restoreCassandra", "failed", "catch"} \cup Publishing :
            /\ pc' = [pc EXCEPT ![j] = next]
            /\ pc[j] = "tar" => next \notin Publishing
            /\ next = "restoreCassandra" => pc[j] = "tar"
            /\ next = "catch" => locked[j]
      /\ UNCHANGED <<locals, lease, services>>
  <2>1. /\ pc[j] \in {"tar", "upload", "readBack", "publish", "retire"}
        /\ Throw(j) \/ Goto(j, Following(pc[j]))
        /\ UNCHANGED <<locals, lease, services>>
    BY DEF Archive, UploadArchive, ReadBack, Publish, Retire, Proceed
  <2>2. CASE Throw(j)
    <3>1. CASE locked[j] /\ ~unwinding[j]
      BY <2>1, <2>2, <3>1 DEF Throw, Goto
    <3>2. CASE ~(locked[j] /\ ~unwinding[j])
      <4>1. pc' = [pc EXCEPT ![j] = "failed"]
        BY <2>2, <3>2, Zenon DEF Throw, Goto
      <4> QED
        BY <2>1, <4>1
    <3> QED
      BY <3>1, <3>2
  <2>3. CASE Goto(j, Following(pc[j]))
    <3>1. /\ pc[j] = "tar" => Following(pc[j]) = "restoreCassandra"
          /\ pc[j] # "tar" => Following(pc[j]) \in Publishing
      BY <2>1 DEF Following
    <3> QED
      BY <2>1, <2>3, <3>1 DEF Goto
  <2> QED
    BY <2>1, <2>2, <2>3
<1> USE <1>0 DEF locals, services
<1>1. PointsOK'
  BY DEF IInv, PointsOK
<1>2. HolderOK'
  BY DEF IInv, HolderOK, PointsOK, SeenOK
<1>3. SeenOK'
  BY DEF IInv, SeenOK, PointsOK, HolderOK
<1>4. RestoringOK'
  BY DEF IInv, RestoringOK, Restoring, InCharge, PointsOK, HolderOK, Quiesced
<1>5. QuiescedIsHeld'
  BY DEF IInv, QuiescedIsHeld, Quiesced
<1> QED
  BY <1>1, <1>2, <1>3, <1>4, <1>5 DEF IInv

LEMMA ReportFailurePreserves ==
    ASSUME IInv, TypeOK', NEW j \in Pods,
           ReportFailure(j)
    PROVE  IInv'
<1> USE PodsAssumption DEF TypeOK, Leases, Pods, Databases, Owning, Stopping,
        Resuming, Publishing, Ended, ReportFailure, Applied, Goto, services,
        archives
<1>1. PointsOK'
  BY DEF IInv, PointsOK
<1>2. HolderOK'
  BY DEF IInv, HolderOK, PointsOK, SeenOK
<1>3. SeenOK'
  BY DEF IInv, SeenOK, PointsOK, HolderOK
<1>4. RestoringOK'
  BY DEF IInv, RestoringOK, Restoring, InCharge, PointsOK, HolderOK, SeenOK,
         QuiescedIsHeld, Quiesced
<1>5. QuiescedIsHeld'
  BY DEF IInv, QuiescedIsHeld, Quiesced
<1> QED
  BY <1>1, <1>2, <1>3, <1>4, <1>5 DEF IInv

\* Only a pod that has restored everything reaches this point.
LEMMA ReleasePreserves ==
    ASSUME IInv, TypeOK', NEW j \in Pods,
           Release(j)
    PROVE  IInv'
<1> USE PodsAssumption DEF TypeOK, Leases, Pods, Databases, Owning, Stopping,
        Resuming, Publishing, Ended, Release, Applied, Goto, WriteLease,
        locals, services, archives
<1>1. PointsOK'
  BY DEF IInv, PointsOK
<1>2. HolderOK'
  BY DEF IInv, HolderOK, PointsOK, SeenOK
<1>3. SeenOK'
  BY DEF IInv, SeenOK, PointsOK, HolderOK
<1>4. RestoringOK'
  BY DEF IInv, RestoringOK, Restoring, InCharge, PointsOK, HolderOK, SeenOK,
         QuiescedIsHeld, Quiesced
<1>5. QuiescedIsHeld'
  BY DEF IInv, QuiescedIsHeld, Quiesced, RestoringOK, Restoring, InCharge,
         PointsOK, HolderOK, SeenOK
<1> QED
  BY <1>1, <1>2, <1>3, <1>4, <1>5 DEF IInv

\* The resourceVersion shows that the Lease is still the dead holder's.
LEMMA ReleaseRecoveredPreserves ==
    ASSUME IInv, TypeOK', NEW j \in Pods,
           ReleaseRecovered(j)
    PROVE  IInv'
<1> USE PodsAssumption DEF TypeOK, Leases, Pods, Databases, Owning, Stopping,
        Resuming, Publishing, Ended, ReleaseRecovered, Applied, Goto, Throw,
        Unchanged, WriteLease, locals, services, archives
<1>1. PointsOK'
  BY DEF IInv, PointsOK
<1>2. HolderOK'
  BY DEF IInv, HolderOK, PointsOK, SeenOK
<1>3. SeenOK'
  BY DEF IInv, SeenOK, PointsOK, HolderOK
<1>4. RestoringOK'
  BY DEF IInv, RestoringOK, Restoring, InCharge, PointsOK, HolderOK, SeenOK,
         QuiescedIsHeld, Quiesced
<1>5. QuiescedIsHeld'
  BY DEF IInv, QuiescedIsHeld, Quiesced, RestoringOK, Restoring, InCharge,
         PointsOK, HolderOK, SeenOK
<1> QED
  BY <1>1, <1>2, <1>3, <1>4, <1>5 DEF IInv

LEMMA ReportRecoveredPreserves ==
    ASSUME IInv, TypeOK', NEW j \in Pods,
           ReportRecovered(j)
    PROVE  IInv'
<1> USE PodsAssumption DEF TypeOK, Leases, Pods, Databases, Owning, Stopping,
        Resuming, Publishing, Ended, ReportRecovered, Applied, Goto, locals,
        services, archives
<1>1. PointsOK'
  BY DEF IInv, PointsOK
<1>2. HolderOK'
  BY DEF IInv, HolderOK, PointsOK, SeenOK
<1>3. SeenOK'
  BY DEF IInv, SeenOK, PointsOK, HolderOK
<1>4. RestoringOK'
  BY DEF IInv, RestoringOK, Restoring, InCharge, PointsOK, HolderOK, SeenOK,
         QuiescedIsHeld, Quiesced
<1>5. QuiescedIsHeld'
  BY DEF IInv, QuiescedIsHeld, Quiesced
<1> QED
  BY <1>1, <1>2, <1>3, <1>4, <1>5 DEF IInv

LEMMA SignalPreserves ==
    ASSUME IInv, TypeOK', NEW j \in Pods,
           Terminate(j) \/ Kill(j)
    PROVE  IInv'
<1> USE PodsAssumption DEF TypeOK, Leases, Pods, Databases, Owning, Stopping,
        Resuming, Publishing, Ended, Terminate, Running, Kill, Goto, services,
        archives, locals
<1>1. PointsOK'
  BY DEF IInv, PointsOK
<1>2. HolderOK'
  BY DEF IInv, HolderOK, PointsOK, SeenOK
<1>3. SeenOK'
  BY DEF IInv, SeenOK, PointsOK, HolderOK
<1>4. RestoringOK'
  BY DEF IInv, RestoringOK, Restoring, InCharge, PointsOK, HolderOK, SeenOK,
         QuiescedIsHeld, Quiesced
<1>5. QuiescedIsHeld'
  BY DEF IInv, QuiescedIsHeld, Quiesced
<1> QED
  BY <1>1, <1>2, <1>3, <1>4, <1>5 DEF IInv

\* Reconcilers and kubelets only bring services back, and touch no Lease.
LEMMA ControllersPreserve ==
    ASSUME IInv, TypeOK', Controllers
    PROVE  IInv'
<1>1. /\ UNCHANGED <<pc, locals, lease>>
      /\ \A d \in Databases : replicas[d] = 1 => replicas'[d] = 1
      /\ flux'.suspend => flux.suspend
      /\ helm'.suspend => helm.suspend
  BY DEF IInv, TypeOK, Controllers, Reconcile, StartReconcile, FinishFlux, FinishHelm,
         PodStart, PodReady, PodStop
<1>2. Quiesced' => Quiesced
  BY <1>1 DEF IInv, TypeOK, Quiesced
<1>3. PointsOK' /\ HolderOK' /\ SeenOK' /\ QuiescedIsHeld'
  BY <1>1, <1>2 DEF IInv, PointsOK, HolderOK, SeenOK, QuiescedIsHeld, locals
<1>4. RestoringOK'
  BY <1>1, <1>2 DEF IInv, RestoringOK, Restoring, InCharge, Databases, locals
<1> QED
  BY <1>3, <1>4 DEF IInv

LEMMA NextPreserves ==
    ASSUME IInv, TypeOK', [Next]_vars
    PROVE  IInv'
<1>1. CASE Controllers
  BY <1>1, ControllersPreserve
<1>2. CASE UNCHANGED vars
  BY <1>2 DEF IInv, PointsOK, HolderOK, SeenOK, RestoringOK, Restoring, InCharge,
              QuiescedIsHeld, Quiesced, vars, locals, services
<1>3. ASSUME NEW j \in Pods,
             StartBackup(j) \/ StartRecovery(j) \/ JobStep(j) \/ Terminate(j) \/ Kill(j)
      PROVE  IInv'
  BY <1>3, StartPreserves, ReadLeasePreserves, CheckHolderPreserves,
     PreflightPreserves, AcquirePreserves, ReportPreserves,
     PatchFluxPreserves, PatchHelmPreserves, ScalePreserves, AwaitPreserves,
     ArchivingPreserves, ReportFailurePreserves, ReleasePreserves,
     ReleaseRecoveredPreserves, ReportRecoveredPreserves, SignalPreserves
     DEF JobStep
<1> QED
  BY <1>1, <1>2, <1>3 DEF Next

\* What an answer or an exception makes of the program counter.
LEMMA ThrowGoes ==
    ASSUME IInv, NEW j \in Pods, Throw(j)
    PROVE  /\ pc'[j] \in {"catch", "failed"}
           /\ \A i \in Pods \ {j} : pc'[i] = pc[i]
BY DEF Throw, Goto, IInv, TypeOK

LEMMA ProceedGoes ==
    ASSUME IInv, NEW j \in Pods, NEW o, Proceed(j, o)
    PROVE  /\ \/ pc'[j] \in {"catch", "failed"}
              \/ /\ pc'[j] = Following(pc[j])
                 /\ o = "answered"
                 /\ ~(pc[j] \in Checkpoints /\ cancelled[j])
           /\ \A i \in Pods \ {j} : pc'[i] = pc[i]
BY ThrowGoes DEF Proceed, Goto, IInv, TypeOK

LEMMA GotoGoes ==
    ASSUME IInv, NEW j \in Pods, NEW l, Goto(j, l)
    PROVE  /\ pc'[j] = l
           /\ \A i \in Pods \ {j} : pc'[i] = pc[i]
BY DEF Goto, IInv, TypeOK

(***************************************************************************)
(* The databases are ready again before the Lease is given back.           *)
(***************************************************************************)
AllReady == \A d \in Databases : dbPods[d] = "ready"

\* The points that the pod in charge only reaches with the databases ready.
ReadyAt(j) ==
    \/ pc[j] \in {"preparing", "restoreHelm", "restoreFlux", "release", "releaseRecovered"}
                 \cup Publishing
    \/ pc[j] = "catch" /\ ~needsRecovery[j]

\* Nothing makes a database unready but a scale to zero, and a pod in charge
\* that has polled for readiness does not scale any more.
ReadyOK ==
    /\ \A j \in Pods : InCharge(j) /\ ReadyAt(j) => AllReady
    /\ lease.holder = NoPod => AllReady

\* At those points both databases are asked for, too.
LEMMA ReadyScaled ==
    ASSUME IInv, NEW j \in Pods, InCharge(j), ReadyAt(j)
    PROVE  \A d \in Databases : replicas[d] = 1
BY DEF IInv, TypeOK, RestoringOK, Restoring, ReadyAt, Quiesced, Databases

\* Controllers leave ready databases alone.
LEMMA ControllersKeepReady ==
    ASSUME IInv, ReadyOK, Controllers
    PROVE  ReadyOK'
<1>1. /\ UNCHANGED <<pc, locals, lease>>
      /\ (\A d \in Databases : replicas[d] = 1) => (AllReady => AllReady')
  BY DEF IInv, TypeOK, Controllers, Reconcile, StartReconcile, FinishFlux, FinishHelm,
         PodStart, PodReady, PodStop, AllReady
<1>2. ASSUME NEW j \in Pods, InCharge(j), ReadyAt(j)
      PROVE  AllReady'
  BY <1>1, <1>2, ReadyScaled DEF ReadyOK
<1>3. lease.holder = NoPod => \A d \in Databases : replicas[d] = 1
  BY DEF IInv, TypeOK, QuiescedIsHeld, Quiesced
<1> QED
  BY <1>1, <1>2, <1>3 DEF ReadyOK, InCharge, ReadyAt, locals

\* A step of one pod that leaves the Lease alone changes nobody's charge but
\* by reading it.
LEMMA OthersStayReady ==
    ASSUME IInv, ReadyOK, NEW j \in Pods,
           UNCHANGED <<lease, dbPods>>,
           \A i \in Pods \ {j} : pc'[i] = pc[i] /\ seen'[i] = seen[i]
                                  /\ needsRecovery'[i] = needsRecovery[i],
           InCharge(j)' /\ ReadyAt(j)' => AllReady
    PROVE  ReadyOK'
BY DEF ReadyOK, InCharge, ReadyAt, AllReady

\* An exception ends a pod that does not own the Lease; in a backup that stops
\* or restores, it leads to the recovery in its finally block.
LEMMA ThrowLeavesReady ==
    ASSUME IInv, NEW j \in Pods, Throw(j), UNCHANGED needsRecovery,
           pc[j] \notin {"preparing", "catch", "release"} \cup Publishing \cup Ended
    PROVE  ~ReadyAt(j)'
<1>1. pc'[j] \in {"catch", "failed"} /\ needsRecovery'[j] = needsRecovery[j]
  BY ThrowGoes
<1>2. pc'[j] = "catch" => locked[j]
  BY DEF Throw, Goto, IInv, TypeOK
<1>3. locked[j] => pc[j] \in Stopping \cup Resuming /\ j \in BackupPods
  BY DEF IInv, PointsOK, Pods, Owning
<1>4. pc'[j] = "catch" => needsRecovery[j]
  BY <1>2, <1>3 DEF IInv, PointsOK
<1> QED
  BY <1>1, <1>4 DEF ReadyAt, Publishing

LEMMA ReadyStep ==
    ASSUME IInv, ReadyOK, [Next]_vars
    PROVE  ReadyOK'
<1> USE DEF services, locals, archives
<1>0. AllReady' => ReadyOK'
  BY DEF ReadyOK
<1>1. ASSUME NEW j \in Pods, StartBackup(j) \/ StartRecovery(j) \/ Kill(j)
      PROVE  ReadyOK'
  <2>1. ~ReadyAt(j)'
    BY <1>1, GotoGoes DEF StartBackup, StartRecovery, Kill, ReadyAt, Publishing
  <2> QED
    BY <1>1, <2>1, GotoGoes, OthersStayReady DEF StartBackup, StartRecovery, Kill
<1>2. ASSUME NEW j \in Pods, Terminate(j)
      PROVE  ReadyOK'
  BY <1>2 DEF Terminate, ReadyOK, InCharge, ReadyAt, AllReady
<1>3. ASSUME NEW j \in Pods, ReadLease(j) \/ CheckHolder(j) \/ Preflight(j)
      PROVE  ReadyOK'
  <2>1. ~ReadyAt(j)'
    <3>1. CASE Throw(j)
      BY <1>3, <3>1, ThrowLeavesReady
         DEF ReadLease, CheckHolder, Preflight, Publishing, Ended
    <3>2. CASE pc'[j] \in {"preflight", "failed", "succeeded", "checkHolder",
                           "restoreCassandra", "acquire"}
      BY <3>2 DEF ReadyAt, Publishing
    <3> QED
      BY <1>3, <3>1, <3>2, GotoGoes DEF ReadLease, CheckHolder, Preflight, Pods
  <2>2. UNCHANGED <<lease, dbPods, needsRecovery>>
    BY <1>3 DEF ReadLease, CheckHolder, Preflight
  <2>3. \A i \in Pods \ {j} : pc'[i] = pc[i] /\ seen'[i] = seen[i]
    BY <1>3, GotoGoes, ThrowGoes DEF ReadLease, CheckHolder, Preflight, IInv, TypeOK
  <2> QED
    BY <2>1, <2>2, <2>3, OthersStayReady
<1>4. ASSUME NEW j \in Pods, Acquire(j)
      PROVE  ReadyOK'
  <2>1. CASE Throw(j) /\ UNCHANGED lease
    BY <1>4, <2>1, ThrowLeavesReady, ThrowGoes, OthersStayReady DEF Acquire, Publishing, Ended
  <2>2. CASE Unchanged(j)
    <3>1. lease.holder = NoPod
      BY <1>4, <2>2, PodsAssumption
         DEF Acquire, Unchanged, IInv, SeenOK, PointsOK, Resuming, Ended, Pods
    <3> QED
      BY <1>4, <3>1, <1>0 DEF Acquire, ReadyOK, AllReady
  <2> QED
    BY <1>4, <2>1, <2>2 DEF Acquire
<1>5. ASSUME NEW j \in Pods, Report(j)
      PROVE  ReadyOK'
  <2>1. PICK o \in Outcomes :
           /\ needsRecovery' = [needsRecovery EXCEPT
                 ![j] = @ \/ (pc[j] = "preparing" /\ o = "answered")]
           /\ Proceed(j, o)
    BY <1>5 DEF Report
  <2>2. /\ \A i \in Pods \ {j} : needsRecovery'[i] = needsRecovery[i]
        /\ needsRecovery[j] => needsRecovery'[j]
    BY <2>1, Zenon DEF IInv, TypeOK
  <2>3. InCharge(j)' /\ ReadyAt(j)' => AllReady
    <3>1. CASE pc[j] = "archiving"
      <4>1. needsRecovery[j]
        BY <3>1 DEF IInv, PointsOK, Stopping, Resuming, Ended, Pods
      <4>2. pc'[j] \in {"catch", "failed", "tar"}
        BY <2>1, <3>1, ProceedGoes DEF Following
      <4> QED
        BY <2>2, <4>1, <4>2 DEF ReadyAt, Publishing
    <3>2. CASE pc[j] # "archiving"
      BY <1>5, <3>2 DEF Report, ReadyAt, Publishing, InCharge, ReadyOK
    <3> QED
      BY <3>1, <3>2
  <2> QED
    BY <1>5, <2>1, <2>2, <2>3, ProceedGoes, OthersStayReady DEF Report
<1>6. ASSUME NEW j \in Pods, PatchFlux(j)
      PROVE  ReadyOK'
  <2>1. InCharge(j)' /\ ReadyAt(j)' => AllReady
    <3>1. CASE pc[j] = "restoreFlux"
      BY <1>6, <3>1 DEF PatchFlux, ReadyAt, InCharge, ReadyOK
    <3>2. CASE pc[j] = "suspendFlux"
      <4>1. UNCHANGED needsRecovery /\ (Throw(j) \/ pc'[j] = "awaitFlux")
        BY <1>6, <3>2, GotoGoes DEF PatchFlux, Proceed, Following
      <4> QED
        BY <3>2, <4>1, ThrowLeavesReady DEF ReadyAt, Publishing, Ended
    <3> QED
      BY <1>6, <3>1, <3>2 DEF PatchFlux
  <2>2. \A i \in Pods \ {j} : needsRecovery'[i] = needsRecovery[i]
    BY <1>6, Zenon DEF PatchFlux, IInv, TypeOK
  <2>3. \A i \in Pods \ {j} : pc'[i] = pc[i]
    BY <1>6, GotoGoes, ProceedGoes DEF PatchFlux
  <2> QED
    BY <1>6, <2>1, <2>2, <2>3, OthersStayReady DEF PatchFlux
<1>7. ASSUME NEW j \in Pods, PatchHelm(j) \/ Scale(j) \/ Archive(j)
      PROVE  ReadyOK'
  <2>1. InCharge(j)' /\ ReadyAt(j)' => AllReady
    <3>1. CASE pc[j] = "restoreHelm"
      BY <1>7, <3>1 DEF PatchHelm, Scale, Archive, ReadyAt, InCharge, ReadyOK
    <3>2. CASE pc[j] # "restoreHelm"
      <4>1. /\ UNCHANGED needsRecovery
            /\ Throw(j) \/ pc'[j] \in {"awaitHelm", "awaitGraph", "awaitCassandra",
                                       "restoreCassandra", "restoreGraph", "awaitReady"}
            /\ pc[j] \in {"suspendHelm", "stopGraph", "stopCassandra", "restoreGraph",
                          "restoreCassandra", "tar"}
        BY <1>7, <3>2, GotoGoes DEF PatchHelm, Scale, Archive, Proceed, Following
      <4> QED
        BY <4>1, ThrowLeavesReady DEF ReadyAt, Publishing, Ended
    <3> QED
      BY <3>1, <3>2
  <2>2. \A i \in Pods \ {j} : pc'[i] = pc[i]
    BY <1>7, ProceedGoes DEF PatchHelm, Scale, Archive
  <2> QED
    BY <1>7, <2>1, <2>2, OthersStayReady DEF PatchHelm, Scale, Archive
<1>8. ASSUME NEW j \in Pods, Await(j)
      PROVE  ReadyOK'
  <2>1. ReadyAt(j)' => AllReady
    <3>1. CASE Throw(j)
      BY <1>8, <3>1, ThrowLeavesReady DEF Await, Publishing, Ended
    <3>2. CASE pc[j] = "awaitReady" /\ Reached(pc[j])
      BY <3>2 DEF Reached, AllReady
    <3>3. CASE pc[j] # "awaitReady" /\ Goto(j, Following(pc[j]))
      BY <1>8, <3>3, GotoGoes DEF Await, Following, ReadyAt, Publishing
    <3> QED
      BY <1>8, <3>1, <3>2, <3>3 DEF Await, Proceed
  <2>2. \A i \in Pods \ {j} : pc'[i] = pc[i]
    BY <1>8, ProceedGoes, ThrowGoes DEF Await
  <2> QED
    BY <1>8, <2>1, <2>2, OthersStayReady DEF Await
<1>9. ASSUME NEW j \in Pods,
             UploadArchive(j) \/ ReadBack(j) \/ Publish(j) \/ Retire(j)
      PROVE  ReadyOK'
  <2>1. ReadyAt(j)
    BY <1>9 DEF UploadArchive, ReadBack, Publish, Retire, ReadyAt, Publishing
  <2>2. \A i \in Pods \ {j} : pc'[i] = pc[i]
    BY <1>9, ProceedGoes, ThrowGoes DEF UploadArchive, ReadBack, Publish, Retire
  <2> QED
    BY <1>9, <2>1, <2>2, OthersStayReady
       DEF UploadArchive, ReadBack, Publish, Retire, ReadyOK, InCharge
<1>10. ASSUME NEW j \in Pods, ReportFailure(j)
       PROVE  ReadyOK'
  <2>1. InCharge(j)' /\ ReadyAt(j)' => InCharge(j) /\ ReadyAt(j)
    BY <1>10, GotoGoes DEF ReportFailure, InCharge, ReadyAt, Publishing
  <2> QED
    BY <1>10, <2>1, GotoGoes, OthersStayReady DEF ReportFailure, ReadyOK
<1>11. ASSUME NEW j \in Pods, Release(j) \/ ReleaseRecovered(j)
       PROVE  ReadyOK'
  <2>1. CASE UNCHANGED lease
    <3>1. ~ReadyAt(j)'
      <4>1. CASE Throw(j) /\ ReleaseRecovered(j)
        BY <4>1, ThrowLeavesReady DEF ReleaseRecovered, Publishing, Ended
      <4>2. CASE pc'[j] \in {"succeeded", "failed", "recovered"}
        BY <4>2 DEF ReadyAt, Publishing
      <4> QED
        BY <1>11, <4>1, <4>2, GotoGoes DEF Release, ReleaseRecovered
    <3> QED
      BY <1>11, <2>1, <3>1, GotoGoes, ThrowGoes, OthersStayReady
         DEF Release, ReleaseRecovered
  <2>2. CASE Release(j)
    <3>1. InCharge(j) /\ ReadyAt(j)
      BY <2>2 DEF Release, InCharge, ReadyAt, IInv, HolderOK, PointsOK, Owning, Resuming,
                  Ended, Pods
    <3> QED
      BY <2>2, <3>1, <1>0 DEF Release, ReadyOK, AllReady
  <2>3. CASE ReleaseRecovered(j) /\ Unchanged(j)
    <3>1. InCharge(j) /\ ReadyAt(j)
      BY <2>3 DEF ReleaseRecovered, Unchanged, InCharge, ReadyAt, IInv, PointsOK, Pods
    <3> QED
      BY <2>3, <3>1, <1>0 DEF ReleaseRecovered, ReadyOK, AllReady
  <2> QED
    BY <1>11, <2>1, <2>2, <2>3 DEF ReleaseRecovered
<1>12. ASSUME NEW j \in Pods, ReportRecovered(j)
       PROVE  ReadyOK'
  <2>1. ~ReadyAt(j)'
    BY <1>12, GotoGoes DEF ReportRecovered, ReadyAt, Publishing
  <2> QED
    BY <1>12, <2>1, GotoGoes, OthersStayReady DEF ReportRecovered
<1>13. CASE Controllers
  BY <1>13, ControllersKeepReady
<1>14. CASE UNCHANGED vars
  BY <1>14 DEF vars, ReadyOK, InCharge, ReadyAt, AllReady
<1> QED
  BY <1>1, <1>2, <1>3, <1>4, <1>5, <1>6, <1>7, <1>8, <1>9, <1>10, <1>11, <1>12, <1>13,
     <1>14 DEF Next, JobStep

\* So everything is back whenever the pod in charge says so.
LEMMA BackAtWork ==
    ASSUME IInv, ReadyOK, NEW j \in Pods, InCharge(j), ReadyAt(j),
           pc[j] \notin {"restoreHelm", "restoreFlux"}
    PROVE  ~Outage
BY DEF IInv, RestoringOK, Restoring, ReadyOK, ReadyAt, AllReady, Outage

\* Whoever is in charge, an outage is one whose Lease is held.
LEMMA OutageIsHeld == IInv /\ ReadyOK => LeaseCoversOutage
BY DEF IInv, QuiescedIsHeld, ReadyOK, AllReady, LeaseCoversOutage, Outage

LEMMA ReadyInvariant == Spec => [](IInv /\ ReadyOK)
<1>1. Init => IInv
  BY InitIInv
<1>2. IInv /\ TypeOK' /\ [Next]_vars => IInv'
  BY NextPreserves
<1>3. Init => ReadyOK
  BY DEF Init, ReadyOK, AllReady
<1>4. IInv /\ ReadyOK /\ [Next]_vars => ReadyOK'
  BY ReadyStep
<1> QED
  BY <1>1, <1>2, <1>3, <1>4, TypeInvariant, PTL DEF Spec

\* Whatever fails, is killed or is recovered, and whatever recovery jobs the
\* operator starts: until the databases are ready and nothing is suspended,
\* the Lease is held (backup-cluster.mjs:160-172 gives it back only after
\* resume()).
THEOREM LeaseAlwaysCoversOutage == Spec => []LeaseCoversOutage
BY ReadyInvariant, OutageIsHeld, PTL

-----------------------------------------------------------------------------
(***************************************************************************)
(* The Lease implements an exclusive maintenance window.                   *)
(***************************************************************************)
LEMMA InitWindow == Init => Window!WindowInit
BY PodsAssumption
   DEF Init, Window!WindowInit, Outage, Quiesced, Databases, Pods

\* A step that leaves the Lease and the manifests alone: the environment may
\* go down or come back, and then the Lease is held.
LEMMA MaintainStep ==
    ASSUME LeaseCoversOutage, LeaseCoversOutage', UNCHANGED <<lease, marker>>
    PROVE  [Window!WindowNext]_Window!winVars
BY DEF LeaseCoversOutage, Outage, Quiesced, Window!WindowNext, Window!Maintain,
       Window!winVars

LEMMA NextWindow ==
    ASSUME IInv, ReadyOK, LeaseCoversOutage, LeaseCoversOutage', [Next]_vars
    PROVE  [Window!WindowNext]_Window!winVars
<1>1. CASE UNCHANGED <<lease, marker>>
  BY <1>1, MaintainStep
<1>2. ASSUME NEW j \in Pods, Acquire(j)
      PROVE  [Window!WindowNext]_Window!winVars
  <2>1. CASE UNCHANGED lease
    BY <1>2, <2>1, MaintainStep DEF Acquire, archives
  <2>2. CASE lease.holder = NoPod /\ lease'.holder = j /\ j \in BackupPods
    <3>1. ~Outage /\ UNCHANGED <<Outage, marker>>
      BY <1>2, <2>2 DEF LeaseCoversOutage, Acquire, Outage, Quiesced, services, archives
    <3> QED
      BY <2>2, <3>1 DEF Window!WindowNext, Window!Claim
  <2> QED
    BY <1>2, <2>1, <2>2, PodsAssumption
       DEF Acquire, WriteLease, Unchanged, IInv, TypeOK, SeenOK, PointsOK, Leases,
           Resuming, Ended, Pods
<1>3. ASSUME NEW j \in Pods, Publish(j)
      PROVE  [Window!WindowNext]_Window!winVars
  <2>1. j \in BackupPods /\ lease.holder = j /\ ~Outage
    <3>1. j \in BackupPods /\ lease.holder = j
      BY <1>3 DEF Publish, IInv, PointsOK, HolderOK, Owning, Publishing, Resuming, Ended,
                  Pods
    <3> QED
      BY <1>3, <3>1, BackAtWork DEF Publish, InCharge, ReadyAt, Publishing
  <2>2. UNCHANGED <<lease, Outage>>
    BY <1>3 DEF Publish, Outage, Quiesced, services
  <2>3. \/ {i \in Pods : marker'[i]} = {i \in Pods : marker[i]}
        \/ {i \in Pods : marker'[i]} = {i \in Pods : marker[i]} \cup {j}
    <3>1. PICK o \in Outcomes :
             marker' = [marker EXCEPT ![j] = marker[j] \/ Applied(o)]
      BY <1>3 DEF Publish
    <3>2. CASE marker[j] \/ Applied(o)
      <4>1. marker'[j]
        BY <3>1, <3>2, Zenon DEF IInv, TypeOK
      <4>2. \A i \in Pods \ {j} : marker'[i] = marker[i]
        BY <3>1 DEF IInv, TypeOK
      <4> QED
        BY <4>1, <4>2, <1>3
    <3>3. CASE ~(marker[j] \/ Applied(o))
      <4>1. ~marker[j]
        BY <3>3
      <4>2. marker \in [Pods -> BOOLEAN]
        BY DEF IInv, TypeOK
      <4>3. ~marker'[j]
        BY <3>1, <3>3, <4>2, Zenon
      <4>4. \A i \in Pods \ {j} : marker'[i] = marker[i]
        BY <3>1, <4>2
      <4> QED
        BY <4>1, <4>3, <4>4
    <3> QED
      BY <3>2, <3>3
  <2> QED
    BY <2>1, <2>2, <2>3 DEF Window!WindowNext, Window!PublishBackup, Window!winVars
<1>4. ASSUME NEW j \in Pods, Release(j) \/ ReleaseRecovered(j)
      PROVE  [Window!WindowNext]_Window!winVars
  <2>1. CASE UNCHANGED lease
    BY <1>4, <2>1, MaintainStep DEF Release, ReleaseRecovered, archives
  <2>2. CASE lease.holder # NoPod /\ lease'.holder = NoPod
    <3>1. ~Outage' /\ UNCHANGED <<Outage, marker>>
      BY <1>4, <2>2 DEF LeaseCoversOutage, Release, ReleaseRecovered, Outage, Quiesced,
                        services, archives
    <3> QED
      BY <2>2, <3>1 DEF Window!WindowNext, Window!Yield
  <2>3. CASE ~UNCHANGED lease /\ Release(j)
    <3>1. lease.holder # NoPod
      BY <1>4, <2>3, PodsAssumption
         DEF Release, IInv, TypeOK, PointsOK, HolderOK, Owning, Stopping, Resuming,
             Publishing, Ended, Pods
    <3>2. lease'.holder = NoPod
      BY <2>3 DEF Release, WriteLease
    <3> QED
      BY <2>2, <3>1, <3>2
  <2>4. CASE ~UNCHANGED lease /\ ReleaseRecovered(j)
    <3>1. Unchanged(j) /\ lease'.holder = NoPod
      BY <2>4 DEF ReleaseRecovered, WriteLease
    <3>2. lease.holder # NoPod
      BY <1>4, <2>4, <3>1, PodsAssumption
         DEF ReleaseRecovered, Unchanged, IInv, TypeOK, PointsOK, HolderOK, SeenOK,
             Owning, Stopping, Resuming, Publishing, Ended, Leases, Pods
    <3> QED
      BY <2>2, <3>1, <3>2
  <2> QED
    BY <1>4, <2>1, <2>3, <2>4
<1>5. CASE UNCHANGED vars
  BY <1>5, <1>1 DEF vars, archives
<1>6. CASE Controllers
  <2>1. UNCHANGED <<lease, marker>>
    BY <1>6 DEF Controllers, Reconcile, FinishFlux, FinishHelm, PodStart, PodReady,
                PodStop, archives
  <2> QED
    BY <2>1, <1>1
<1>7. ASSUME NEW j \in Pods,
             \/ StartBackup(j) \/ StartRecovery(j) \/ Terminate(j) \/ Kill(j)
             \/ ReadLease(j) \/ CheckHolder(j) \/ Preflight(j) \/ Report(j)
             \/ PatchFlux(j) \/ PatchHelm(j) \/ Scale(j) \/ Await(j) \/ Archive(j)
             \/ UploadArchive(j) \/ ReadBack(j) \/ Retire(j) \/ ReportFailure(j)
             \/ ReportRecovered(j)
      PROVE  [Window!WindowNext]_Window!winVars
  <2>1. UNCHANGED <<lease, marker>>
    BY <1>7 DEF StartBackup, StartRecovery, Terminate, Kill, ReadLease, CheckHolder,
                Preflight, Report, PatchFlux, PatchHelm, Scale, Await, Archive,
                UploadArchive, ReadBack, Retire, ReportFailure, ReportRecovered,
                archives
  <2> QED
    BY <2>1, <1>1
<1> QED
  BY <1>2, <1>3, <1>4, <1>5, <1>6, <1>7 DEF Next, JobStep

\* Every behaviour of the pods and the cluster is one of an exclusive
\* maintenance window: claimed while nothing is down, given up only when
\* everything is back, and publishing only in between.
THEOREM WindowImplemented == Spec => ImplementsWindow
<1>1. Init => Window!WindowInit
  BY InitWindow
<1>2. /\ IInv /\ ReadyOK /\ LeaseCoversOutage /\ LeaseCoversOutage'
      /\ [Next]_vars
      => [Window!WindowNext]_Window!winVars
  BY NextWindow
<1> QED
  BY <1>1, <1>2, ReadyInvariant, LeaseAlwaysCoversOutage, PTL
     DEF Spec, ImplementsWindow, Window!WindowSpec

-----------------------------------------------------------------------------
(***************************************************************************)
(* Exit codes and alerts, which need no careful operator.                  *)
(***************************************************************************)

\* On the way from the published manifest to exit code 0, and an error on
\* that way is never forgotten.
HonestOK ==
    \A b \in BackupPods :
        /\ pc[b] \in {"retire", "completed", "succeeded"} => marker[b]
        /\ pc[b] = "release" => marker[b] \/ unwinding[b]
        /\ pc[b] = "succeeded" => lease.holder # b

LEMMA HonestStep ==
    ASSUME IInv, HonestOK, [Next]_vars
    PROVE  HonestOK'
<1> USE DEF HonestOK, services, locals, archives
<1>0. \A b \in BackupPods : b \in Pods /\ b # NoPod
  BY PodsAssumption DEF Pods
<1>1. ASSUME NEW j \in Pods, StartBackup(j) \/ StartRecovery(j) \/ Kill(j)
      PROVE  HonestOK'
  BY <1>0, <1>1, GotoGoes DEF StartBackup, StartRecovery, Kill
<1>2. ASSUME NEW j \in Pods, Terminate(j)
      PROVE  HonestOK'
  BY <1>2 DEF Terminate
<1>3. ASSUME NEW j \in Pods, ReadLease(j) \/ CheckHolder(j) \/ Preflight(j)
      PROVE  HonestOK'
  BY <1>0, <1>3, GotoGoes, ThrowGoes, PodsAssumption
     DEF ReadLease, CheckHolder, Preflight
<1>4. ASSUME NEW j \in Pods, Acquire(j)
      PROVE  HonestOK'
  BY <1>0, <1>4, GotoGoes, ThrowGoes, PodsAssumption DEF Acquire, WriteLease
<1>5. ASSUME NEW j \in Pods,
             Report(j) \/ PatchHelm(j) \/ Scale(j) \/ Archive(j) \/ UploadArchive(j) \/ Retire(j)
      PROVE  HonestOK'
  BY <1>0, <1>5, ProceedGoes
     DEF Report, PatchHelm, Scale, Archive, UploadArchive, Retire, Following
<1>6. ASSUME NEW j \in Pods, PatchFlux(j)
      PROVE  HonestOK'
  BY <1>0, <1>6, GotoGoes, ProceedGoes DEF PatchFlux, AfterResume, Following
<1>7. ASSUME NEW j \in Pods, Await(j) \/ ReadBack(j)
      PROVE  HonestOK'
  BY <1>0, <1>7, ThrowGoes, ProceedGoes DEF Await, ReadBack, Following
<1>8. ASSUME NEW j \in Pods, Publish(j)
      PROVE  HonestOK'
  <2>1. PICK o \in Outcomes :
           /\ marker' = [marker EXCEPT ![j] = marker[j] \/ Applied(o)]
           /\ Proceed(j, o)
    BY <1>8 DEF Publish
  <2>2. o = "answered" => marker'[j]
    BY <2>1, Zenon DEF IInv, TypeOK, Applied
  <2>3. \A b \in Pods : marker[b] => marker'[b]
    BY <2>1, Zenon DEF IInv, TypeOK
  <2> QED
    BY <1>0, <1>8, <2>1, <2>2, <2>3, ProceedGoes DEF Publish, Following
<1>9. ASSUME NEW j \in Pods, ReportFailure(j)
      PROVE  HonestOK'
  <2>1. unwinding'[j] /\ \A b \in Pods \ {j} : unwinding'[b] = unwinding[b]
    BY <1>9 DEF ReportFailure, IInv, TypeOK
  <2> QED
    BY <1>0, <1>9, <2>1, GotoGoes DEF ReportFailure
<1>10. ASSUME NEW j \in Pods, Release(j)
       PROVE  HonestOK'
  BY <1>0, <1>10, GotoGoes DEF Release, WriteLease, Applied
<1>11. ASSUME NEW j \in Pods, ReleaseRecovered(j) \/ ReportRecovered(j)
       PROVE  HonestOK'
  BY <1>0, <1>11, GotoGoes, ThrowGoes
     DEF ReleaseRecovered, ReportRecovered, WriteLease, IInv, PointsOK
<1>12. CASE Controllers
  BY <1>12 DEF Controllers, Reconcile, FinishFlux, FinishHelm, PodStart, PodReady, PodStop
<1>13. CASE UNCHANGED vars
  BY <1>13 DEF vars
<1> QED
  BY <1>1, <1>2, <1>3, <1>4, <1>5, <1>6, <1>7, <1>8, <1>9, <1>10, <1>11, <1>12, <1>13
     DEF Next, JobStep

\* A backup that exits with code 0 has published its archive and given back
\* the Lease, for any pods and failures.
THEOREM ExitCodesAreHonest == Spec => []ExitCodeHonest
<1>1. Init => HonestOK
  BY DEF Init, HonestOK, Pods
<1>2. IInv /\ HonestOK /\ [Next]_vars => HonestOK'
  BY HonestStep
<1>3. HonestOK => ExitCodeHonest
  BY DEF HonestOK, ExitCodeHonest
<1>4. Init => IInv
  BY InitIInv
<1>5. IInv /\ TypeOK' /\ [Next]_vars => IInv'
  BY NextPreserves
<1> QED
  BY <1>1, <1>2, <1>3, <1>4, <1>5, TypeInvariant, PTL DEF Spec

-----------------------------------------------------------------------------
(***************************************************************************)
(* Who publishes and retires, and what strands the Lease.                  *)
(***************************************************************************)

\* Uploads, manifests and retirement of old backups never overlap.
OnePublisher == \A i, j \in Pods : pc[i] \in Publishing /\ pc[j] \in Publishing => i = j

\* Whatever is killed or recovered, and whatever recovery jobs the operator
\* starts: at most one pod is between its restored environment and the end of
\* retireOldBackups() (backup-cluster.mjs:148-158), and it holds the Lease.
THEOREM OnePublisherAtATime ==
    Spec => [](OnePublisher /\ \A j \in Pods : pc[j] \in Publishing => lease.holder = j)
<1>1. IInv => \A j \in Pods : pc[j] \in Publishing => lease.holder = j
  BY DEF IInv, PointsOK, HolderOK, Owning, Publishing, Resuming, Ended, Pods
<1>2. (\A j \in Pods : pc[j] \in Publishing => lease.holder = j) => OnePublisher
  BY DEF OnePublisher
<1> QED
  BY <1>1, <1>2, ReadyInvariant, PTL

\* While every call is answered, an owner knows that it is one, an error leads
\* to the finally block once, and that block gives the Lease back.
AnsweredOK ==
    \A b \in BackupPods :
        /\ pc[b] \in Owning => locked[b]
        /\ unwinding[b] => pc[b] \in {"release"} \cup Resuming \cup Ended
        /\ pc[b] \in {"succeeded", "failed"} => lease.holder # b

\* An owner's exception then leads to its catch block, unless it has been there.
LEMMA OwnerCatches ==
    ASSUME IInv, AnsweredOK, NEW j \in Pods, Throw(j)
    PROVE  /\ pc[j] \in Stopping \cup Publishing \cup {"preparing", "catch"} =>
                 pc'[j] = "catch" /\ locked[j] /\ ~unwinding[j]
           /\ j \in BackupPods /\ pc[j] \in {"readLease", "preflight", "acquire"} =>
                 pc'[j] = "failed" /\ lease.holder # j
<1>1. pc'[j] = IF locked[j] /\ ~unwinding[j] THEN "catch" ELSE "failed"
  BY DEF Throw, Goto, IInv, TypeOK
<1>2. ASSUME pc[j] \in Stopping \cup Publishing \cup {"preparing", "catch"}
      PROVE  j \in BackupPods /\ locked[j] /\ ~unwinding[j]
  BY <1>2 DEF AnsweredOK, IInv, PointsOK, Owning, Stopping, Publishing, Resuming, Ended, Pods
<1>3. ASSUME j \in BackupPods, pc[j] \in {"readLease", "preflight", "acquire"}
      PROVE  ~locked[j] /\ lease.holder # j
  BY <1>3, PodsAssumption
     DEF IInv, PointsOK, HolderOK, Owning, Stopping, Publishing, Resuming, Ended, Pods
<1> QED
  BY <1>1, <1>2, <1>3

LEMMA AnsweredStep ==
    ASSUME Failures = {}, IInv, AnsweredOK, [Next]_vars
    PROVE  AnsweredOK'
<1> USE DEF services, locals, archives, Owning, Stopping, Publishing, Resuming, Ended
<1>0. /\ \A b \in BackupPods : b \in Pods /\ b \notin RecoveryPods /\ b # NoPod
      /\ \A o \in Outcomes : o = "answered"
      /\ Failures \cap {"refused", "deadline"} = {} /\ "refused" \notin Failures
  BY PodsAssumption DEF Pods, Outcomes
<1>1. ASSUME NEW j \in Pods,
             StartBackup(j) \/ StartRecovery(j) \/ Kill(j) \/ Terminate(j)
      PROVE  AnsweredOK'
  BY <1>0, <1>1, GotoGoes
     DEF StartBackup, StartRecovery, Kill, Terminate, AnsweredOK, IInv, HolderOK, PointsOK
<1>2. ASSUME NEW j \in Pods, ReadLease(j) \/ CheckHolder(j) \/ Preflight(j)
      PROVE  AnsweredOK'
  <2>1. UNCHANGED <<locked, unwinding, lease>>
    BY <1>2 DEF ReadLease, CheckHolder, Preflight
  <2>2. \A i \in Pods \ {j} : pc'[i] = pc[i]
    BY <1>2, GotoGoes, ThrowGoes DEF ReadLease, CheckHolder, Preflight
  <2>3. j \in BackupPods => lease.holder # j /\ ~unwinding[j]
    BY <1>0, <1>2
       DEF ReadLease, CheckHolder, Preflight, AnsweredOK, IInv, HolderOK, PointsOK
  <2>4. j \in BackupPods => pc'[j] \in {"preflight", "acquire", "failed"}
    BY <1>0, <1>2, GotoGoes, OwnerCatches
       DEF ReadLease, CheckHolder, Preflight, IInv, PointsOK
  <2> QED
    BY <1>0, <2>1, <2>2, <2>3, <2>4 DEF AnsweredOK
<1>3. ASSUME NEW j \in Pods, Acquire(j)
      PROVE  AnsweredOK'
  <2>1. j \in BackupPods /\ ~unwinding[j]
    BY <1>3 DEF Acquire, AnsweredOK, IInv, PointsOK, Pods
  <2>2. UNCHANGED unwinding
    BY <1>3 DEF Acquire
  <2>3. CASE Throw(j) /\ UNCHANGED <<lease, locked>>
    BY <1>0, <1>3, <2>1, <2>2, <2>3, ThrowGoes, OwnerCatches DEF Acquire, AnsweredOK
  <2>4. CASE WriteLease(j) /\ locked' = [locked EXCEPT ![j] = TRUE] /\ Goto(j, "preparing")
    <3>1. locked'[j] /\ \A b \in Pods \ {j} : locked'[b] = locked[b]
      BY <2>4, Zenon DEF IInv, TypeOK
    <3> QED
      BY <1>0, <2>1, <2>2, <2>4, <3>1, GotoGoes DEF WriteLease, AnsweredOK
  <2> QED
    BY <1>0, <1>3, <2>3, <2>4 DEF Acquire
<1>4. ASSUME NEW j \in Pods,
             \/ Report(j) \/ PatchHelm(j) \/ Scale(j) \/ Await(j) \/ Archive(j)
             \/ UploadArchive(j) \/ ReadBack(j) \/ Publish(j) \/ Retire(j) \/ PatchFlux(j)
      PROVE  AnsweredOK'
  <2>1. UNCHANGED <<locked, unwinding, lease>>
    BY <1>4 DEF Report, PatchHelm, Scale, Await, Archive, UploadArchive, ReadBack, Publish,
                Retire, PatchFlux
  <2>2. \A i \in Pods \ {j} : pc'[i] = pc[i]
    BY <1>4, GotoGoes, ProceedGoes, ThrowGoes
       DEF Report, PatchHelm, Scale, Await, Archive, UploadArchive, ReadBack, Publish,
           Retire, PatchFlux
  <2>3. CASE Throw(j)
    <3>1. pc[j] \in Stopping \cup Publishing \cup {"preparing"}
      <4>1. CASE PatchFlux(j) \/ PatchHelm(j) \/ Scale(j)
        <5>1. pc'[j] \notin {"catch", "failed"}
          BY <1>0, <4>1, GotoGoes
             DEF PatchFlux, PatchHelm, Scale, Proceed, Checkpoints, AfterResume, Following
        <5> QED
          BY <2>3, <5>1, ThrowGoes
      <4>2. CASE Await(j)
        <5>1. CASE pc[j] = "awaitReady"
          <6>1. pc'[j] = "restoreHelm"
            BY <1>0, <4>2, <5>1, GotoGoes DEF Await, Proceed, Checkpoints, Following
          <6> QED
            BY <2>3, <6>1, ThrowGoes
        <5> QED
          BY <4>2, <5>1 DEF Await
      <4> QED
        BY <1>4, <4>1, <4>2
           DEF Report, Archive, UploadArchive, ReadBack, Publish, Retire
    <3> QED
      BY <1>0, <2>1, <2>2, <2>3, <3>1, OwnerCatches DEF AnsweredOK
  <2>4. CASE ~Throw(j)
    <3>1. \/ pc'[j] = Following(pc[j]) /\ pc[j] # "restoreFlux"
          \/ pc[j] = "restoreFlux" /\ pc'[j] = AfterResume(j)
      BY <1>0, <1>4, <2>4, GotoGoes
         DEF Report, PatchHelm, Scale, Await, Archive, UploadArchive, ReadBack, Publish,
             Retire, PatchFlux, Proceed
    <3>2. /\ pc[j] \in {"preparing"} \cup Stopping \cup Resuming \cup Publishing
          /\ pc'[j] \in Owning \/ j \in RecoveryPods
          /\ pc[j] \in Resuming /\ unwinding[j] =>
                pc'[j] \in {"release"} \cup Resuming \/ j \in RecoveryPods
      BY <1>4, <3>1
         DEF Report, PatchHelm, Scale, Await, Archive, UploadArchive, ReadBack, Publish,
             Retire, PatchFlux, Following, AfterResume
    <3>3. j \in BackupPods => pc'[j] \notin Ended
      BY <1>0, <3>2
    <3> QED
      BY <1>0, <2>1, <2>2, <3>2, <3>3 DEF AnsweredOK
  <2> QED
    BY <2>3, <2>4
<1>5. ASSUME NEW j \in Pods, ReportFailure(j)
      PROVE  AnsweredOK'
  <2>1. /\ UNCHANGED <<locked, lease>>
        /\ \A i \in Pods \ {j} : unwinding'[i] = unwinding[i]
        /\ pc'[j] \in {"restoreCassandra", "release"}
        /\ \A i \in Pods \ {j} : pc'[i] = pc[i]
    BY <1>5, GotoGoes DEF ReportFailure, IInv, TypeOK
  <2>2. pc[j] = "catch"
    BY <1>5 DEF ReportFailure
  <2> QED
    BY <1>0, <2>1, <2>2 DEF AnsweredOK
<1>6. ASSUME NEW j \in Pods, Release(j) \/ ReleaseRecovered(j) \/ ReportRecovered(j)
      PROVE  AnsweredOK'
  <2>1. /\ UNCHANGED <<locked, unwinding>>
        /\ lease' = lease \/ lease'.holder = NoPod
        /\ Release(j) => lease'.holder = NoPod
    BY <1>0, <1>6 DEF Release, ReleaseRecovered, ReportRecovered, WriteLease, Applied
  <2>2. /\ \A i \in Pods \ {j} : pc'[i] = pc[i]
        /\ Release(j) => pc'[j] \in {"succeeded", "failed"}
    BY <1>6, GotoGoes, ThrowGoes DEF Release, ReleaseRecovered, ReportRecovered
  <2>3. j \in BackupPods => Release(j)
    BY <1>0, <1>6 DEF ReleaseRecovered, ReportRecovered, IInv, PointsOK
  <2> QED
    BY <1>0, <2>1, <2>2, <2>3 DEF AnsweredOK
<1>7. CASE Controllers
  BY <1>7
     DEF Controllers, Reconcile, FinishFlux, FinishHelm, PodStart, PodReady, PodStop, AnsweredOK
<1>8. CASE UNCHANGED vars
  BY <1>8 DEF vars, AnsweredOK
<1> QED
  BY <1>1, <1>2, <1>3, <1>4, <1>5, <1>6, <1>7, <1>8 DEF Next, JobStep

\* While no API call fails or runs into a deadline, only SIGKILL or the loss of
\* a host strands the Lease: SIGTERM, an unhealthy environment, a Lease taken
\* by another pod and an upload that was damaged all end with it given back
\* (backup-cluster.mjs:160-172).
THEOREM OnlyKilledPodsStrand ==
    ASSUME Failures = {}
    PROVE  Spec => [](Stranded => pc[lease.holder] = "killed")
<1>1. Init => AnsweredOK
  BY DEF Init, AnsweredOK, Owning, Stopping, Publishing, Resuming, Ended, Pods
<1>2. IInv /\ AnsweredOK /\ [Next]_vars => AnsweredOK'
  BY AnsweredStep
<1>3. IInv /\ AnsweredOK => (Stranded => pc[lease.holder] = "killed")
  BY DEF IInv, HolderOK, AnsweredOK, Stranded, Running, Owning, Stopping, Publishing,
         Resuming, Ended
<1> QED
  BY <1>1, <1>2, <1>3, ReadyInvariant, PTL DEF Spec

-----------------------------------------------------------------------------
\* From the answered report "preparing" to the end of an outage the phase is
\* one that alerts: "completed" is only reported once everything is back.
AlertsOK ==
    Outage \/ (\E b \in BackupPods : pc[b] \in Stopping) => phase \in Alerting

\* Steps that neither begin an outage nor report anything.
LEMMA AlertsKept ==
    ASSUME AlertsOK, Outage' => Outage, phase' = phase,
           \A b \in BackupPods : pc'[b] \in Stopping => pc[b] \in Stopping
    PROVE  AlertsOK'
BY DEF AlertsOK

LEMMA AlertsStep ==
    ASSUME IInv, ReadyOK, AlertsOK, [Next]_vars
    PROVE  AlertsOK'
<1> USE DEF services, locals, archives
<1>0. \A b \in BackupPods : b \in Pods
  BY DEF Pods
<1>1. ASSUME NEW j \in Pods,
             \/ StartBackup(j) \/ StartRecovery(j) \/ Kill(j) \/ Terminate(j)
             \/ ReadLease(j) \/ CheckHolder(j) \/ Preflight(j) \/ Acquire(j)
             \/ Archive(j) \/ UploadArchive(j) \/ Retire(j) \/ Await(j)
             \/ ReadBack(j) \/ Publish(j) \/ Release(j) \/ ReleaseRecovered(j)
      PROVE  AlertsOK'
  <2>1. UNCHANGED <<flux, helm, replicas, dbPods, phase>>
    BY <1>1 DEF StartBackup, StartRecovery, Kill, Terminate, ReadLease, CheckHolder,
                Preflight, Acquire, Archive, UploadArchive, Retire, Await, ReadBack,
                Publish, Release, ReleaseRecovered
  <2>2. UNCHANGED Outage
    BY <2>1 DEF Outage, Quiesced
  <2>3. \A b \in BackupPods : pc'[b] \in Stopping => pc[b] \in Stopping
    <3>1. CASE StartBackup(j) \/ StartRecovery(j) \/ Kill(j) \/ Terminate(j)
      BY <1>0, <3>1, GotoGoes
         DEF StartBackup, StartRecovery, Kill, Terminate, Stopping
    <3>2. CASE ReadLease(j) \/ CheckHolder(j) \/ Preflight(j) \/ Acquire(j)
      BY <1>0, <3>2, GotoGoes, ThrowGoes
         DEF ReadLease, CheckHolder, Preflight, Acquire, Stopping
    <3>3. CASE Archive(j) \/ UploadArchive(j) \/ Retire(j) \/ Await(j) \/ ReadBack(j) \/ Publish(j)
      BY <1>0, <3>3, ProceedGoes, ThrowGoes
         DEF Archive, UploadArchive, Retire, Await, ReadBack, Publish, Following, Stopping
    <3>4. CASE Release(j) \/ ReleaseRecovered(j)
      BY <1>0, <3>4, GotoGoes, ThrowGoes DEF Release, ReleaseRecovered, Stopping
    <3> QED
      BY <1>1, <3>1, <3>2, <3>3, <3>4
  <2> QED
    BY <2>1, <2>2, <2>3, AlertsKept
<1>2. ASSUME NEW j \in Pods, Report(j)
      PROVE  AlertsOK'
  <2>1. PICK o \in Outcomes :
           /\ phase' = IF Applied(o) THEN pc[j] ELSE phase
           /\ Proceed(j, o)
    BY <1>2 DEF Report
  <2>2. UNCHANGED Outage
    BY <1>2 DEF Report, Outage, Quiesced
  <2>3. CASE pc[j] = "completed"
    <3>1. j \in BackupPods /\ lease.holder = j
      BY <2>3 DEF IInv, PointsOK, HolderOK, Owning, Publishing, Resuming, Ended, Pods
    <3>4. ~Outage
      BY <2>3, <3>1, BackAtWork DEF InCharge, ReadyAt, Publishing
    <3>2. \A b \in BackupPods \ {j} : pc[b] \notin Stopping
      BY <3>1 DEF IInv, HolderOK, Owning
    <3>3. pc'[j] \notin Stopping
      BY <2>1, <2>3, ProceedGoes DEF Following, Stopping
    <3> QED
      BY <1>0, <2>1, <2>2, <3>1, <3>2, <3>3, <3>4, ProceedGoes DEF AlertsOK
  <2>4. CASE pc[j] # "completed"
    <3>1. pc[j] \in Alerting
      BY <1>2, <2>4 DEF Report, Alerting
    <3>2. Applied(o) => AlertsOK'
      BY <2>1, <3>1 DEF AlertsOK
    <3>3. ~Applied(o) => pc'[j] \notin Stopping
      BY <2>1, ProceedGoes DEF Applied, Stopping
    <3> QED
      BY <1>0, <2>1, <2>2, <3>2, <3>3, ProceedGoes, AlertsKept
  <2> QED
    BY <2>3, <2>4
<1>3. ASSUME NEW j \in Pods, PatchFlux(j) \/ PatchHelm(j) \/ Scale(j)
      PROVE  AlertsOK'
  <2>1. UNCHANGED phase
    BY <1>3 DEF PatchFlux, PatchHelm, Scale
  <2>2. CASE pc[j] \in Stopping
    <3>1. j \in BackupPods
      BY <2>2 DEF IInv, PointsOK, Stopping, Resuming, Ended, Pods
    <3> QED
      BY <2>1, <2>2, <3>1 DEF AlertsOK, Alerting
  <2>3. CASE pc[j] \notin Stopping
    <3>1. Outage' => Outage
      BY <1>3, <2>3
         DEF PatchFlux, PatchHelm, Scale, Scaled, Stopping, Resuming, Outage, Quiesced,
             IInv, TypeOK, Databases
    <3>2. pc'[j] \notin Stopping
      BY <1>3, <2>3, GotoGoes, ProceedGoes
         DEF PatchFlux, PatchHelm, Scale, AfterResume, Following, Stopping
    <3>3. \A i \in Pods \ {j} : pc'[i] = pc[i]
      BY <1>3, GotoGoes, ProceedGoes DEF PatchFlux, PatchHelm, Scale
    <3> QED
      BY <1>0, <2>1, <3>1, <3>2, <3>3, AlertsKept
  <2> QED
    BY <2>2, <2>3
<1>4. ASSUME NEW j \in Pods, ReportFailure(j) \/ ReportRecovered(j)
      PROVE  AlertsOK'
  <2>1. UNCHANGED Outage
    BY <1>4 DEF ReportFailure, ReportRecovered, Outage, Quiesced
  <2>2. phase' = phase \/ phase' \in Alerting
    BY <1>4 DEF ReportFailure, ReportRecovered, Alerting
  <2>3. \A b \in BackupPods : pc'[b] \in Stopping => pc[b] \in Stopping
    BY <1>0, <1>4, GotoGoes DEF ReportFailure, ReportRecovered, Stopping
  <2> QED
    BY <2>1, <2>2, <2>3 DEF AlertsOK
<1>5. CASE Controllers
  <2>1. UNCHANGED <<pc, phase>>
    BY <1>5 DEF Controllers, Reconcile, FinishFlux, FinishHelm, PodStart, PodReady, PodStop
  <2>2. Outage' => Outage
    BY <1>5 DEF Controllers, Reconcile, StartReconcile, FinishFlux, FinishHelm, PodStart,
                PodReady, PodStop, Outage, Quiesced, IInv, TypeOK, Databases
  <2> QED
    BY <2>1, <2>2, AlertsKept
<1>6. CASE UNCHANGED vars
  BY <1>6, AlertsKept DEF vars, Outage, Quiesced
<1> QED
  BY <1>1, <1>2, <1>3, <1>4, <1>5, <1>6 DEF Next, JobStep

\* An outage whose job has ended is in a phase for which Grafana alerts.
THEOREM AbandonedOutagesAlert == Spec => []AbandonedOutageAlerts
<1>1. Init => AlertsOK
  BY DEF Init, AlertsOK, Outage, Quiesced, Databases, Stopping, Pods
<1>2. IInv /\ ReadyOK /\ AlertsOK /\ [Next]_vars => AlertsOK'
  BY AlertsStep
<1>3. AlertsOK => AbandonedOutageAlerts
  BY DEF AlertsOK, AbandonedOutageAlerts
<1> QED
  BY <1>1, <1>2, <1>3, ReadyInvariant, PTL DEF Spec

-----------------------------------------------------------------------------
(***************************************************************************)
(* What is in the bucket, whatever operators do.                           *)
(***************************************************************************)

\* A pod uploads once, after its outage, and publishes what it has read back.
ArchiveOK ==
    /\ \A r \in RecoveryPods : stored[r] = "none" /\ ~marker[r]
    /\ \A b \in BackupPods :
          /\ pc[b] \in {"publish", "retire", "completed"} => stored[b] = "intact"
          /\ marker[b] => stored[b] = "intact"
          /\ stored[b] # "none" =>
                /\ pc[b] \in {"readBack", "publish", "retire", "completed", "catch", "release"}
                              \cup Resuming \cup Ended
                /\ pc[b] \in Resuming => unwinding[b]
          /\ pc[b] \in {"readBack", "publish"} => ~marker[b]

LEMMA ArchiveStep ==
    ASSUME IInv, ArchiveOK, [Next]_vars
    PROVE  ArchiveOK'
<1> USE DEF ArchiveOK, services, locals
<1>0. /\ \A b \in BackupPods : b \in Pods /\ b \notin RecoveryPods
      /\ \A r \in RecoveryPods : r \in Pods
      /\ pc \in [Pods -> Labels]
      /\ stored \in [Pods -> {"none", "intact", "damaged"}]
      /\ marker \in [Pods -> BOOLEAN] /\ unwinding \in [Pods -> BOOLEAN]
  BY PodsAssumption DEF Pods, IInv, TypeOK
<1>1. ASSUME NEW j \in Pods, StartBackup(j) \/ StartRecovery(j) \/ Kill(j) \/ Terminate(j)
      PROVE  ArchiveOK'
  BY <1>0, <1>1, GotoGoes
     DEF StartBackup, StartRecovery, Kill, Terminate, archives, Resuming, Ended
<1>2. ASSUME NEW j \in Pods, ReadLease(j) \/ CheckHolder(j) \/ Preflight(j) \/ Acquire(j)
      PROVE  ArchiveOK'
  <2>1. \A b \in BackupPods : stored[b] # "none" \/ marker[b] => b # j
    BY <1>2 DEF ReadLease, CheckHolder, Preflight, Acquire, Resuming, Ended
  <2> QED
    BY <1>0, <1>2, <2>1, GotoGoes, ThrowGoes
       DEF ReadLease, CheckHolder, Preflight, Acquire, archives, IInv, PointsOK
<1>3. ASSUME NEW j \in Pods, Report(j)
      PROVE  ArchiveOK'
  <2>1. UNCHANGED <<stored, marker, unwinding>>
    BY <1>3 DEF Report
  <2> QED
    BY <1>0, <1>3, <2>1, ProceedGoes DEF Report, Following, Resuming, Ended
<1>4. ASSUME NEW j \in Pods, PatchFlux(j)
      PROVE  ArchiveOK'
  BY <1>0, <1>4, GotoGoes, ProceedGoes
     DEF PatchFlux, AfterResume, Following, archives, Resuming, Ended
<1>5. ASSUME NEW j \in Pods,
             PatchHelm(j) \/ Scale(j) \/ Await(j) \/ Archive(j) \/ ReadBack(j) \/ Retire(j)
      PROVE  ArchiveOK'
  <2>1. UNCHANGED <<stored, marker, unwinding>>
    BY <1>5 DEF PatchHelm, Scale, Await, Archive, ReadBack, Retire, archives
  <2>2. CASE PatchHelm(j) \/ Scale(j)
    BY <1>0, <2>1, <2>2, ProceedGoes DEF PatchHelm, Scale, Following, Resuming, Ended
  <2>3. CASE Await(j) \/ Archive(j)
    BY <1>0, <2>1, <2>3, ProceedGoes, ThrowGoes DEF Await, Archive, Following, Resuming, Ended
  <2>4. CASE ReadBack(j) \/ Retire(j)
    BY <1>0, <2>1, <2>4, ProceedGoes, ThrowGoes DEF ReadBack, Retire, Following, Resuming, Ended
  <2> QED
    BY <1>5, <2>2, <2>3, <2>4
<1>6. ASSUME NEW j \in Pods, UploadArchive(j)
      PROVE  ArchiveOK'
  <2>1. UNCHANGED <<marker, unwinding>> /\ \A i \in Pods \ {j} : stored'[i] = stored[i]
    BY <1>0, <1>6 DEF UploadArchive
  <2>2. j \in BackupPods /\ ~marker[j]
    BY <1>6 DEF UploadArchive, IInv, PointsOK, Resuming, Ended, Pods
  <2>3. pc'[j] \in {"catch", "failed", "readBack"}
    BY <1>6, ProceedGoes DEF UploadArchive, Following
  <2> QED
    BY <1>0, <1>6, <2>1, <2>2, <2>3, ProceedGoes DEF UploadArchive, Resuming, Ended
<1>7. ASSUME NEW j \in Pods, Publish(j)
      PROVE  ArchiveOK'
  <2>1. UNCHANGED <<stored, unwinding>> /\ \A i \in Pods \ {j} : marker'[i] = marker[i]
    BY <1>0, <1>7 DEF Publish
  <2>2. j \in BackupPods
    BY <1>7 DEF Publish, IInv, PointsOK, Resuming, Ended, Pods
  <2> QED
    BY <1>0, <1>7, <2>1, <2>2, ProceedGoes DEF Publish, Following, Resuming, Ended
<1>8. ASSUME NEW j \in Pods, ReportFailure(j)
      PROVE  ArchiveOK'
  <2>1. /\ UNCHANGED <<stored, marker>>
        /\ unwinding'[j] /\ \A i \in Pods \ {j} : unwinding'[i] = unwinding[i]
    BY <1>0, <1>8 DEF ReportFailure, archives
  <2> QED
    BY <1>0, <1>8, <2>1, GotoGoes DEF ReportFailure, Resuming, Ended
<1>9. ASSUME NEW j \in Pods, Release(j) \/ ReleaseRecovered(j) \/ ReportRecovered(j)
      PROVE  ArchiveOK'
  BY <1>0, <1>9, GotoGoes, ThrowGoes
     DEF Release, ReleaseRecovered, ReportRecovered, archives, IInv, PointsOK, Resuming, Ended
<1>10. CASE Controllers
  BY <1>10
     DEF Controllers, Reconcile, FinishFlux, FinishHelm, PodStart, PodReady, PodStop, archives
<1>11. CASE UNCHANGED vars
  BY <1>11 DEF vars, archives
<1> QED
  BY <1>1, <1>2, <1>3, <1>4, <1>5, <1>6, <1>7, <1>8, <1>9, <1>10, <1>11 DEF Next, JobStep

LEMMA ArchiveInvariant == Spec => [](IInv /\ ReadyOK /\ ArchiveOK)
<1>1. Init => ArchiveOK
  BY DEF Init, ArchiveOK, Pods
<1>2. IInv /\ ArchiveOK /\ [Next]_vars => ArchiveOK'
  BY ArchiveStep
<1> QED
  BY <1>1, <1>2, ReadyInvariant, PTL DEF Spec

\* A completion manifest names an archive that is intact in the bucket, even
\* when recoveries race; only that it was read from a stopped Cassandra needs
\* the operator's care.
THEOREM PublishedIsIntact ==
    Spec => [](\A j \in Pods : marker[j] => stored[j] = "intact")
<1>1. ArchiveOK => \A j \in Pods : marker[j] => stored[j] = "intact"
  BY DEF ArchiveOK, Pods
<1> QED
  BY <1>1, ArchiveInvariant, PTL

\* Only an upload and the publication of a manifest touch the bucket.
LEMMA NextBucket ==
    ASSUME IInv, ArchiveOK, [Next]_vars
    PROVE  [Bucket!BucketNext]_Bucket!bucketVars
<1> USE DEF Bucket!BucketNext, Bucket!bucketVars
<1>0. /\ stored \in [Pods -> {"none", "intact", "damaged"}] /\ marker \in [Pods -> BOOLEAN]
      /\ \A b \in BackupPods : b \in Pods
  BY DEF Pods, IInv, TypeOK
<1>1. ASSUME NEW j \in Pods, UploadArchive(j)
      PROVE  [Bucket!BucketNext]_Bucket!bucketVars
  <2>1. j \in BackupPods /\ stored[j] = "none" /\ ~marker[j] /\ UNCHANGED marker
    BY <1>1 DEF UploadArchive, ArchiveOK, IInv, PointsOK, Resuming, Ended, Pods
  <2>2. \A i \in Pods \ {j} : stored'[i] = stored[i]
    BY <1>0, <1>1 DEF UploadArchive
  <2>3. CASE stored'[j] = "intact"
    <3>1. {i \in Pods : stored'[i] = "intact"} = {i \in Pods : stored[i] = "intact"} \cup {j}
      BY <2>2, <2>3
    <3>2. Bucket!Store(j)
      BY <2>1, <3>1 DEF Bucket!Store
    <3> QED
      BY <3>2
  <2>4. CASE stored'[j] # "intact"
    <3>1. {i \in Pods : stored'[i] = "intact"} = {i \in Pods : stored[i] = "intact"}
      BY <2>1, <2>2, <2>4
    <3> QED
      BY <2>1, <3>1
  <2> QED
    BY <2>3, <2>4
<1>2. ASSUME NEW j \in Pods, Publish(j)
      PROVE  [Bucket!BucketNext]_Bucket!bucketVars
  <2>1. j \in BackupPods /\ stored[j] = "intact" /\ ~marker[j] /\ UNCHANGED stored
    BY <1>2 DEF Publish, ArchiveOK, IInv, PointsOK, Resuming, Ended, Pods
  <2>2. \A i \in Pods \ {j} : marker'[i] = marker[i]
    BY <1>0, <1>2 DEF Publish
  <2>3. CASE marker'[j]
    <3>1. {i \in Pods : marker'[i]} = {i \in Pods : marker[i]} \cup {j}
      BY <2>2, <2>3
    <3>2. Bucket!Complete(j)
      BY <2>1, <3>1 DEF Bucket!Complete
    <3> QED
      BY <3>2
  <2>4. CASE ~marker'[j]
    <3>1. {i \in Pods : marker'[i]} = {i \in Pods : marker[i]}
      BY <2>1, <2>2, <2>4
    <3> QED
      BY <2>1, <3>1
  <2> QED
    BY <2>3, <2>4
<1>3. CASE UNCHANGED <<stored, marker>>
  BY <1>3
<1>4. ASSUME NEW j \in Pods,
             \/ StartBackup(j) \/ StartRecovery(j) \/ Kill(j) \/ Terminate(j)
             \/ JobStep(j) /\ ~UploadArchive(j) /\ ~Publish(j)
      PROVE  UNCHANGED <<stored, marker>>
  BY <1>4 DEF StartBackup, StartRecovery, Kill, Terminate, JobStep, ReadLease, CheckHolder,
              Preflight, Acquire, Report, PatchFlux, PatchHelm, Scale, Await, Archive,
              ReadBack, Retire, ReportFailure, Release, ReleaseRecovered, ReportRecovered,
              archives
<1> QED
  BY <1>1, <1>2, <1>3, <1>4
     DEF Next, vars, archives, Controllers, Reconcile, FinishFlux, FinishHelm, PodStart,
         PodReady, PodStop

\* backup-cluster.mjs:148-152 keeps the protocol that retention keeps and that a
\* restore relies on: a pod's archive is stored once, completed once, and only
\* while it is intact, whatever fails and whatever recoveries run.
THEOREM BackupKeepsBucket == Spec => Bucket!BucketSpec
<1>1. Init => Bucket!BucketInit
  BY DEF Init, Bucket!BucketInit
<1>2. IInv /\ ArchiveOK /\ [Next]_vars => [Bucket!BucketNext]_Bucket!bucketVars
  BY NextBucket
<1> QED
  BY <1>1, <1>2, ArchiveInvariant, PTL DEF Spec, Bucket!BucketSpec

-----------------------------------------------------------------------------
(***************************************************************************)
(* With operators who follow README.md: one driver, reconcilers held, the  *)
(* graph stopped first, and consistent archives.                           *)
(***************************************************************************)

\* A recovery that runs is the only one, and acts on the Lease as it still is:
\* that of a backup that has ended.
RecoveryAlone ==
    \A r \in RecoveryPods : Running(r) =>
        /\ \A q \in RecoveryPods : Running(q) => q = r
        /\ pc[r] # "recovered" => lease.holder # NoPod /\ ~Running(lease.holder)
        /\ pc[r] \notin {"readLease", "recovered"} => seen[r].version = lease.version

\* The points from which Flux stays suspended, from which it is idle, and so on.
FluxOff    == Stopping \ {"suspendFlux"}
FluxIdle   == FluxOff \ {"awaitFlux"}
HelmOff    == FluxIdle \ {"suspendHelm"}
HelmIdle   == HelmOff \ {"awaitHelm"}
GraphOff   == HelmIdle \ {"capture", "stopGraph"}
GraphGone  == GraphOff \ {"awaitGraph"}
StorageOff == GraphGone \ {"stopCassandra"}

StoppedSoFar(b) ==
    /\ pc[b] \in FluxOff => flux.suspend
    /\ pc[b] \in FluxIdle => ~flux.reconciling
    /\ pc[b] \in HelmOff => helm.suspend
    /\ pc[b] \in HelmIdle => ~helm.reconciling
    /\ pc[b] \in GraphOff => replicas["janusgraph"] = 0
    /\ pc[b] \in GraphGone => dbPods["janusgraph"] = "none"
    /\ pc[b] \in StorageOff => replicas["cassandra"] = 0
    /\ pc[b] \in {"archiving", "tar"} => dbPods["cassandra"] = "none"

GraphDownFirst ==
    replicas["cassandra"] = 0 => replicas["janusgraph"] = 0 /\ dbPods["janusgraph"] = "none"

\* Nothing wrote to the data directory while it was read.
Untorn == \A b \in BackupPods : ~torn[b]

CarefulInv ==
    /\ RecoveryAlone
    /\ \A b \in BackupPods : StoppedSoFar(b)
    /\ GraphDownFirst

\* Then nobody else is stopping or restoring while one pod is.
LEMMA DriversMeet ==
    ASSUME IInv, RecoveryAlone
    PROVE  OneDriver
<1>1. \A b \in BackupPods : Driving(b) => lease.holder = b /\ Running(b)
  BY DEF IInv, HolderOK, Driving, Owning, Running, Stopping, Resuming, Publishing, Ended
<1>2. \A r \in RecoveryPods : Driving(r) =>
         /\ Running(r)
         /\ pc[r] # "recovered"
  BY DEF Driving, Running, Stopping, Resuming, Publishing, Ended
<1> QED
  BY <1>1, <1>2 DEF OneDriver, RecoveryAlone, Pods

LEMMA AloneStep ==
    ASSUME IInv, RecoveryAlone, Careful, [Next]_vars
    PROVE  RecoveryAlone'
<1> USE DEF RecoveryAlone, Running, Ended, services, locals, archives
<1>0. /\ \A b \in BackupPods : b \in Pods /\ b \notin RecoveryPods
      /\ \A r \in RecoveryPods : r \in Pods
      /\ NoPod \notin Pods
      /\ lease.holder # NoPod =>
            /\ lease.holder \in BackupPods
            /\ pc[lease.holder] \notin {"idle", "readLease", "preflight", "acquire"}
  BY PodsAssumption
     DEF Pods, IInv, HolderOK, Owning, Stopping, Resuming, Publishing
<1>1. ASSUME NEW j \in Pods, StartBackup(j)
      PROVE  RecoveryAlone'
  BY <1>0, <1>1, GotoGoes DEF StartBackup
<1>2. ASSUME NEW j \in Pods, StartRecovery(j)
      PROVE  RecoveryAlone'
  BY <1>0, <1>2, GotoGoes DEF StartRecovery, Confirmed
<1>3. ASSUME NEW j \in Pods, Kill(j) \/ CheckHolder(j) \/ Preflight(j)
      PROVE  RecoveryAlone'
  BY <1>0, <1>3, GotoGoes, ThrowGoes DEF Kill, CheckHolder, Preflight
<1>4. ASSUME NEW j \in Pods, ReadLease(j)
      PROVE  RecoveryAlone'
  <2>1. CASE j \in BackupPods
    BY <1>0, <1>4, <2>1, GotoGoes, ThrowGoes DEF ReadLease, IInv, TypeOK
  <2>2. CASE j \in RecoveryPods
    <3>1. \/ seen'[j] = lease /\ UNCHANGED lease
          \/ pc'[j] \in {"catch", "failed"} /\ UNCHANGED <<seen, lease>>
      BY <1>4, ThrowGoes DEF ReadLease, IInv, TypeOK
    <3>2. /\ \A i \in Pods \ {j} : pc'[i] = pc[i] /\ seen'[i] = seen[i]
          /\ pc[j] = "readLease"
      BY <1>4, GotoGoes, ThrowGoes DEF ReadLease, IInv, TypeOK
    <3>3. pc'[j] # "catch"
      BY <1>4, <2>2, GotoGoes DEF ReadLease, Throw, IInv, PointsOK
    <3> QED
      BY <1>0, <2>2, <3>1, <3>2, <3>3
  <2> QED
    BY <2>1, <2>2 DEF Pods
<1>5. ASSUME NEW j \in Pods, Acquire(j)
      PROVE  RecoveryAlone'
  <2>1. j \in BackupPods
    BY <1>5 DEF Acquire, IInv, PointsOK, Resuming, Pods
  <2>2. CASE UNCHANGED lease
    BY <1>0, <1>5, <2>1, <2>2, GotoGoes, ThrowGoes DEF Acquire
  <2>3. CASE Unchanged(j)
    <3>1. lease.holder = NoPod
      BY <1>5, <2>1, <2>3 DEF Acquire, Unchanged, IInv, SeenOK
    <3> QED
      BY <1>0, <1>5, <2>1, <3>1, GotoGoes, ThrowGoes DEF Acquire
  <2> QED
    BY <1>5, <2>2, <2>3 DEF Acquire
<1>6. ASSUME NEW j \in Pods,
             \/ Report(j) \/ PatchFlux(j) \/ PatchHelm(j) \/ Scale(j) \/ Await(j)
             \/ Archive(j) \/ UploadArchive(j) \/ ReadBack(j) \/ Publish(j) \/ Retire(j)
             \/ ReportFailure(j)
      PROVE  RecoveryAlone'
  <2>1. /\ UNCHANGED <<lease, seen>>
        /\ \A i \in Pods \ {j} : pc'[i] = pc[i]
    BY <1>6, GotoGoes, ProceedGoes, ThrowGoes
       DEF Report, PatchFlux, PatchHelm, Scale, Await, Archive, UploadArchive, ReadBack,
           Publish, Retire, ReportFailure
  <2>2. Running(j) /\ pc[j] \notin {"readLease", "recovered"}
    BY <1>6
       DEF Report, PatchFlux, PatchHelm, Scale, Await, Archive, UploadArchive, ReadBack,
           Publish, Retire, ReportFailure
  <2> QED
    BY <1>0, <2>1, <2>2
<1>7. ASSUME NEW j \in Pods, Release(j)
      PROVE  RecoveryAlone'
  <2>1. j \in BackupPods /\ lease.holder = j /\ Running(j)
    BY <1>7 DEF Release, IInv, PointsOK, HolderOK, Owning, Resuming, Pods
  <2>2. \A r \in RecoveryPods : Running(r) => pc[r] = "recovered"
    BY <1>0, <2>1
  <2> QED
    BY <1>0, <1>7, <2>1, <2>2, GotoGoes DEF Release
<1>8. ASSUME NEW j \in Pods, ReleaseRecovered(j)
      PROVE  RecoveryAlone'
  <2>1. j \in RecoveryPods /\ ~locked[j]
    BY <1>8 DEF ReleaseRecovered, IInv, PointsOK, Pods
  <2>2. pc'[j] \in {"recovered", "failed"} /\ \A i \in Pods \ {j} : pc'[i] = pc[i]
    BY <1>8, <2>1, GotoGoes DEF ReleaseRecovered, Throw
  <2> QED
    BY <1>0, <1>8, <2>1, <2>2 DEF ReleaseRecovered
<1>9. ASSUME NEW j \in Pods, ReportRecovered(j) \/ Terminate(j)
      PROVE  RecoveryAlone'
  BY <1>0, <1>9, GotoGoes DEF ReportRecovered, Terminate
<1>10. CASE Controllers
  BY <1>10 DEF Controllers, Reconcile, FinishFlux, FinishHelm, PodStart, PodReady, PodStop
<1>11. CASE UNCHANGED vars
  BY <1>11 DEF vars
<1> QED
  BY <1>1, <1>2, <1>3, <1>4, <1>5, <1>6, <1>7, <1>8, <1>9, <1>10, <1>11 DEF Next, JobStep

\* The points from which something stays stopped, one by one.
LEMMA StopPoints ==
    /\ FluxOff = {"awaitFlux", "suspendHelm", "awaitHelm", "capture", "stopGraph",
                  "awaitGraph", "stopCassandra", "awaitCassandra", "archiving", "tar"}
    /\ FluxIdle = FluxOff \ {"awaitFlux"}
    /\ HelmOff = {"awaitHelm", "capture", "stopGraph", "awaitGraph", "stopCassandra",
                  "awaitCassandra", "archiving", "tar"}
    /\ HelmIdle = {"capture", "stopGraph", "awaitGraph", "stopCassandra",
                   "awaitCassandra", "archiving", "tar"}
    /\ GraphOff = {"awaitGraph", "stopCassandra", "awaitCassandra", "archiving", "tar"}
    /\ GraphGone = {"stopCassandra", "awaitCassandra", "archiving", "tar"}
    /\ StorageOff = {"awaitCassandra", "archiving", "tar"}
BY DEF FluxOff, FluxIdle, HelmOff, HelmIdle, GraphOff, GraphGone, StorageOff, Stopping

\* A step that leaves the services alone, and a step of another pod that drives.
LEMMA StopsKept ==
    ASSUME NEW b \in BackupPods, StoppedSoFar(b), UNCHANGED services,
           pc'[b] = pc[b] \/ pc'[b] \notin FluxOff
    PROVE  StoppedSoFar(b)'
BY StopPoints DEF StoppedSoFar, services

LEMMA NotStopping ==
    ASSUME NEW b \in BackupPods, pc'[b] \notin FluxOff
    PROVE  StoppedSoFar(b)'
BY StopPoints DEF StoppedSoFar

LEMMA StopsStep ==
    ASSUME IInv, CarefulInv, OneDriver, [Next]_vars, NEW b \in BackupPods
    PROVE  StoppedSoFar(b)'
<1> USE DEF services, locals, archives
<1>0. b \in Pods /\ StoppedSoFar(b)
  BY DEF Pods, CarefulInv
<1>1. ASSUME NEW j \in Pods,
             \/ StartBackup(j) \/ StartRecovery(j) \/ Kill(j) \/ Terminate(j)
             \/ ReadLease(j) \/ CheckHolder(j) \/ Preflight(j) \/ Acquire(j)
             \/ UploadArchive(j) \/ Retire(j) \/ ReadBack(j) \/ Publish(j)
             \/ ReportFailure(j) \/ ReportRecovered(j) \/ Release(j) \/ ReleaseRecovered(j)
      PROVE  StoppedSoFar(b)'
  <2>1. UNCHANGED services
    BY <1>1 DEF StartBackup, StartRecovery, Kill, Terminate, ReadLease, CheckHolder,
                Preflight, Acquire, UploadArchive, Retire, ReadBack,
                Publish, Release, ReleaseRecovered, ReportFailure, ReportRecovered
  <2>2. pc'[b] = pc[b] \/ pc'[b] \notin FluxOff
    <3>1. CASE StartBackup(j) \/ StartRecovery(j) \/ Kill(j) \/ Terminate(j)
      BY <1>0, <3>1, GotoGoes, StopPoints DEF StartBackup, StartRecovery, Kill, Terminate
    <3>2. CASE ReadLease(j) \/ CheckHolder(j) \/ Preflight(j) \/ Acquire(j)
      BY <1>0, <3>2, GotoGoes, ThrowGoes, StopPoints
         DEF ReadLease, CheckHolder, Preflight, Acquire
    <3>3. CASE UploadArchive(j) \/ Retire(j) \/ ReadBack(j) \/ Publish(j)
      BY <1>0, <3>3, ProceedGoes, ThrowGoes, StopPoints
         DEF UploadArchive, Retire, ReadBack, Publish, Following
    <3>4. CASE ReportFailure(j) \/ ReportRecovered(j) \/ Release(j) \/ ReleaseRecovered(j)
      BY <1>0, <3>4, GotoGoes, ThrowGoes, StopPoints
         DEF Release, ReleaseRecovered, ReportFailure, ReportRecovered
    <3> QED
      BY <1>1, <3>1, <3>2, <3>3, <3>4
  <2> QED
    BY <1>0, <2>1, <2>2, StopsKept
<1>2. ASSUME NEW j \in Pods, Report(j) \/ Await(j) \/ Archive(j)
      PROVE  StoppedSoFar(b)'
  <2>1. UNCHANGED services
    BY <1>2 DEF Report, Await, Archive
  <2>2. CASE b # j \/ pc'[j] \in {"catch", "failed"}
    BY <1>0, <1>2, <2>1, <2>2, StopsKept, ProceedGoes, ThrowGoes, StopPoints
       DEF Report, Await, Archive
  <2>3. CASE b = j /\ pc'[j] \notin {"catch", "failed"}
    <3>1. pc'[j] = Following(pc[j])
      BY <1>2, <2>3, ProceedGoes, ThrowGoes DEF Report, Await, Archive
    <3>2. CASE Report(j) \/ Archive(j)
      <4>1. \/ pc[b] = "archiving" /\ pc'[b] = "tar"
            \/ pc'[b] \notin FluxOff
        BY <2>3, <3>1, <3>2, StopPoints DEF Report, Archive, Following
      <4> QED
        BY <1>0, <2>1, <4>1, NotStopping, StopPoints DEF StoppedSoFar
    <3>3. CASE Await(j)
      <4>1. Reached(pc[b])
        BY <2>3, <3>3, ThrowGoes DEF Await
      <4>2. \/ pc[b] = "awaitFlux" /\ pc'[b] = "suspendHelm"
            \/ pc[b] = "awaitHelm" /\ pc'[b] = "capture"
            \/ pc[b] = "capture" /\ pc'[b] = "stopGraph"
            \/ pc[b] = "awaitGraph" /\ pc'[b] = "stopCassandra"
            \/ pc[b] = "awaitCassandra" /\ pc'[b] = "archiving"
            \/ pc'[b] \notin FluxOff
        BY <2>3, <3>1, <3>3, StopPoints DEF Await, Following
      <4> QED
        BY <1>0, <2>1, <4>1, <4>2, NotStopping, StopPoints DEF Reached, StoppedSoFar
    <3> QED
      BY <1>2, <3>2, <3>3
  <2> QED
    BY <2>2, <2>3
<1>3. ASSUME NEW j \in Pods, PatchFlux(j) \/ PatchHelm(j) \/ Scale(j)
      PROVE  StoppedSoFar(b)'
  <2>1. CASE b # j
    <3>1. Driving(j) /\ pc'[b] = pc[b]
      BY <1>0, <1>3, <2>1, GotoGoes, ProceedGoes
         DEF PatchFlux, PatchHelm, Scale, Driving, Stopping, Resuming
    <3>2. pc[b] \notin FluxOff
      BY <1>0, <2>1, <3>1 DEF OneDriver, Driving, FluxOff
    <3> QED
      BY <3>1, <3>2, NotStopping
  <2>2. CASE b = j /\ pc'[j] \notin FluxOff
    BY <2>2, NotStopping
  <2>3. CASE b = j /\ pc[j] = "suspendFlux" /\ PatchFlux(j) /\ pc'[j] = "awaitFlux"
    <3>1. flux'.suspend
      BY <1>0, <2>3, ProceedGoes DEF PatchFlux, Following, Applied, IInv, TypeOK
    <3> QED
      BY <2>3, <3>1, StopPoints DEF StoppedSoFar
  <2>4. CASE b = j /\ pc[j] = "suspendHelm" /\ PatchHelm(j) /\ pc'[j] = "awaitHelm"
    <3>1. helm'.suspend /\ UNCHANGED flux
      BY <1>0, <2>4, ProceedGoes DEF PatchHelm, Following, Applied, IInv, TypeOK
    <3> QED
      BY <1>0, <2>4, <3>1, StopPoints DEF StoppedSoFar
  <2>5. CASE b = j /\ pc[j] = "stopGraph" /\ Scale(j) /\ pc'[j] = "awaitGraph"
    <3>1. replicas'["janusgraph"] = 0 /\ UNCHANGED <<flux, helm>>
      BY <1>0, <2>5, ProceedGoes
         DEF Scale, Scaled, Following, Applied, IInv, TypeOK, Databases, Resuming
    <3> QED
      BY <1>0, <2>5, <3>1, StopPoints DEF StoppedSoFar
  <2>6. CASE b = j /\ pc[j] = "stopCassandra" /\ Scale(j) /\ pc'[j] = "awaitCassandra"
    <3>1. /\ replicas'["cassandra"] = 0 /\ replicas'["janusgraph"] = replicas["janusgraph"]
          /\ UNCHANGED <<flux, helm, dbPods>>
      BY <1>0, <2>6, ProceedGoes
         DEF Scale, Scaled, Following, Applied, IInv, TypeOK, Databases, Resuming
    <3> QED
      BY <1>0, <2>6, <3>1, StopPoints DEF StoppedSoFar
  <2> QED
    BY <1>0, <1>3, <2>1, <2>2, <2>3, <2>4, <2>5, <2>6, GotoGoes, ProceedGoes, StopPoints
       DEF PatchFlux, PatchHelm, Scale, AfterResume, Following
<1>4. CASE Controllers
  BY <1>0, <1>4, StopPoints
     DEF Controllers, Reconcile, StartReconcile, FinishFlux, FinishHelm, PodStart,
         PodReady, PodStop, StoppedSoFar, IInv, TypeOK, Databases
<1>5. CASE UNCHANGED vars
  BY <1>0, <1>5, StopsKept DEF vars
<1> QED
  BY <1>1, <1>2, <1>3, <1>4, <1>5 DEF Next, JobStep

LEMMA GraphDownStep ==
    ASSUME IInv, CarefulInv, [Next]_vars
    PROVE  GraphDownFirst'
<1> USE DEF GraphDownFirst, services, locals, archives, IInv, TypeOK, Databases
<1>0. GraphDownFirst
  BY DEF CarefulInv
<1>1. ASSUME NEW j \in Pods, Scale(j)
      PROVE  GraphDownFirst'
  <2>1. CASE pc[j] = "stopCassandra"
    <3>1. j \in BackupPods
      BY <2>1 DEF PointsOK, Resuming, Ended, Pods
    <3>2. replicas["janusgraph"] = 0 /\ dbPods["janusgraph"] = "none"
      BY <2>1, <3>1, StopPoints DEF CarefulInv, StoppedSoFar
    <3> QED
      BY <1>1, <2>1, <3>2 DEF Scale, Scaled
  <2>2. CASE pc[j] = "restoreGraph"
    <3>1. InCharge(j)
      BY <2>2 DEF InCharge, HolderOK, Owning, Resuming, Ended, CarefulInv, RecoveryAlone,
                  Running, Pods
    <3>2. replicas["cassandra"] = 1
      BY <2>2, <3>1 DEF RestoringOK, Restoring
    <3> QED
      BY <1>1, <2>2, <3>2 DEF Scale, Scaled
  <2>3. CASE pc[j] \in {"stopGraph", "restoreCassandra"}
    BY <1>0, <1>1, <2>3 DEF Scale, Scaled, Resuming
  <2> QED
    BY <1>1, <2>1, <2>2, <2>3 DEF Scale
<1>2. CASE Controllers
  BY <1>0, <1>2
     DEF Controllers, Reconcile, StartReconcile, FinishFlux, FinishHelm, PodStart,
         PodReady, PodStop
<1>3. CASE UNCHANGED <<replicas, dbPods>>
  BY <1>0, <1>3
<1>4. ASSUME NEW j \in Pods,
             \/ StartBackup(j) \/ StartRecovery(j) \/ Kill(j) \/ Terminate(j)
             \/ JobStep(j) /\ ~Scale(j)
      PROVE  UNCHANGED <<replicas, dbPods>>
  BY <1>4 DEF StartBackup, StartRecovery, Kill, Terminate, JobStep, ReadLease,
              CheckHolder, Preflight, Acquire, Report, PatchFlux, PatchHelm, Await,
              Archive, UploadArchive, ReadBack, Publish, Retire, ReportFailure, Release,
              ReleaseRecovered, ReportRecovered
<1> QED
  BY <1>1, <1>2, <1>3, <1>4 DEF Next, vars

LEMMA CarefulStep ==
    ASSUME IInv, CarefulInv, Careful, [Next]_vars
    PROVE  CarefulInv'
<1>1. OneDriver
  BY DriversMeet DEF CarefulInv
<1>2. RecoveryAlone'
  BY AloneStep DEF CarefulInv
<1>3. \A b \in BackupPods : StoppedSoFar(b)'
  BY <1>1, StopsStep
<1>4. GraphDownFirst'
  BY GraphDownStep
<1> QED
  BY <1>2, <1>3, <1>4 DEF CarefulInv

LEMMA InitCareful == Init => CarefulInv /\ Untorn
BY StopPoints
   DEF Init, CarefulInv, RecoveryAlone, Running, Ended, StoppedSoFar, GraphDownFirst,
       Untorn, Pods, Databases

LEMMA UntornStep ==
    ASSUME IInv, CarefulInv, Untorn, [Next]_vars
    PROVE  Untorn'
<1> USE DEF Untorn
<1>0. torn \in [Pods -> BOOLEAN] /\ BackupPods \subseteq Pods
  BY DEF Pods, IInv, TypeOK
<1>1. ASSUME NEW j \in Pods, Report(j)
      PROVE  Untorn'
  <2>1. pc[j] = "archiving" => dbPods["cassandra"] = "none"
    BY DEF CarefulInv, StoppedSoFar, IInv, PointsOK, Resuming, Ended, Pods
  <2>2. torn' = [torn EXCEPT ![j] = torn[j] \/ (pc[j] = "archiving" /\ dbPods["cassandra"] # "none")]
    BY <1>1 DEF Report
  <2>3. \A i \in Pods : torn'[i] = torn[i]
    BY <1>0, <2>1, <2>2, Zenon
  <2> QED
    BY <1>0, <2>3
<1>2. ASSUME NEW d \in Databases, PodStart(d)
      PROVE  Untorn'
  <2>1. \A b \in BackupPods : pc[b] = "tar" => replicas["cassandra"] = 0
    BY StopPoints DEF CarefulInv, StoppedSoFar
  <2> QED
    BY <1>0, <1>2, <2>1 DEF PodStart
<1>3. CASE UNCHANGED torn
  BY <1>3
<1>4. ASSUME NEW j \in Pods,
             \/ StartBackup(j) \/ StartRecovery(j) \/ Kill(j) \/ Terminate(j)
             \/ JobStep(j) /\ ~Report(j)
      PROVE  UNCHANGED torn
  BY <1>4 DEF StartBackup, StartRecovery, Kill, Terminate, JobStep, ReadLease, CheckHolder,
              Preflight, Acquire, PatchFlux, PatchHelm, Scale, Await, Archive, UploadArchive,
              ReadBack, Publish, Retire, ReportFailure, Release, ReleaseRecovered,
              ReportRecovered, archives
<1> QED
  BY <1>1, <1>2, <1>3, <1>4
     DEF Next, vars, archives, Controllers, Reconcile, FinishFlux, FinishHelm, PodReady, PodStop

\* The invariant of all pods when operators are careful.
LEMMA CarefulInvariant ==
    ASSUME Careful
    PROVE  Spec => [](IInv /\ CarefulInv /\ Untorn)
<1>1. Init => IInv /\ CarefulInv /\ Untorn
  BY InitIInv, InitCareful
<1>2. IInv /\ TypeOK' /\ [Next]_vars => IInv'
  BY NextPreserves
<1>3. IInv /\ CarefulInv /\ Untorn /\ [Next]_vars => CarefulInv' /\ Untorn'
  BY CarefulStep, UntornStep
<1> QED
  BY <1>1, <1>2, <1>3, TypeInvariant, PTL DEF Spec

\* While recovery jobs are created as README.md says, at most one pod at a time
\* stops or restores the environment.
THEOREM OneDriverAtATime ==
    ASSUME Careful
    PROVE  Spec => []OneDriver
<1>1. IInv /\ CarefulInv => OneDriver
  BY DriversMeet DEF CarefulInv
<1> QED
  BY <1>1, CarefulInvariant, PTL

\* Then no reconciler is active from the re-read of the images to the end of tar.
THEOREM ReconcilersStayHeld ==
    ASSUME Careful
    PROVE  Spec => []ReconcilersHeld
<1>1. IInv /\ CarefulInv => ReconcilersHeld
  BY StopPoints
     DEF CarefulInv, StoppedSoFar, ReconcilersHeld, IInv, PointsOK, Resuming, Ended, Pods
<1> QED
  BY <1>1, CarefulInvariant, PTL

\* Then Cassandra is never scaled down under a pod of JanusGraph.
THEOREM GraphAlwaysStopsFirst ==
    ASSUME Careful
    PROVE  Spec => []GraphStopsFirst
<1>1. CarefulInv => GraphStopsFirst
  BY DEF CarefulInv, GraphDownFirst, GraphStopsFirst
<1> QED
  BY <1>1, CarefulInvariant, PTL

\* Then every archive with a completion manifest was read from a stopped
\* Cassandra and is intact in the bucket.
THEOREM PublishedAlwaysConsistent ==
    ASSUME Careful
    PROVE  Spec => []PublishedIsConsistent
<1>1. ArchiveOK /\ Untorn => PublishedIsConsistent
  BY DEF ArchiveOK, Untorn, PublishedIsConsistent, Pods
<1> QED
  BY <1>1, ArchiveInvariant, CarefulInvariant, PTL

=============================================================================
