--------------------------- MODULE OffHostRestore ---------------------------
(***************************************************************************)
(* restore-cluster.mjs: rehearsals of the disaster recovery.  A run reads  *)
(* one backup from the bucket, creates a scratch namespace of its own,     *)
(* fills a fresh volume through a loader Job, installs the chart on it and *)
(* checks the outcome with smoke.mjs verify, security.mjs and kubernetes.  *)
(* mjs cql-security.  Runs of several workstations share the bucket and    *)
(* the cluster; a namespace is named for the millisecond a run starts in.  *)
(***************************************************************************)
EXTENDS Integers, Sequences

CONSTANTS
    Runs, Workstations,
    Names,       \* the names the clock may give to scratch namespaces
    Backups,
    Damaged,     \* their stored archive is not what the manifest says
    Matching,    \* made with the images and configuration checked out here
    Seeded,      \* they hold the fixture that smoke.mjs verify reads
    Expiring,    \* a retention may delete them meanwhile
    Nobody       \* no run, no backup

ASSUME RestoreAssumption ==
    /\ Damaged \subseteq Backups /\ Matching \subseteq Backups
    /\ Seeded \subseteq Backups /\ Expiring \subseteq Backups
    /\ Nobody \notin Runs \cup Backups

VARIABLES
    manifests, archives,   \* what the bucket holds
    place, name, target,   \* of each run: its workstation, namespace and backup
    file,                  \* of each workstation and name: backup.tar.gz
    scratch,               \* of each name: the namespace in the cluster
    forward,               \* of each run: kubectl port-forward is up
    pc,
    checked,               \* of each run: how many checks have passed
    disturbed              \* history: something went wrong on this run's way

bucket == <<manifests, archives>>
argv   == <<place, name, target>>
run    == <<forward, pc, checked, disturbed>>
vars   == <<bucket, argv, file, scratch, run>>

Ended == {"done", "failed", "early", "killed"}
Labels == {"connect", "manifest", "open", "receive", "verify", "credentials",
           "namespace", "secret", "volume", "loader", "ready", "extract",
           "extracting", "remove", "helm", "forward", "check", "find",
           "createJob", "waitJob", "dropJob", "dropFailedJob", "claim"} \cup Ended

\* How much of the data of which backup a file or a volume holds.
Content(states) == [state : states, of : Backups \cup {Nobody}]
Nothing == [state |-> "absent", of |-> Nobody]

\* A scratch namespace: the run whose create made it, the backup its Secret is
\* from, its volume and its two Jobs.
Scratch ==
    [owner : Runs \cup {Nobody}, secret : Backups \cup {Nobody},
     volume : Content({"absent", "empty", "leftover", "partial", "damaged", "whole"}),
     loader : {"absent", "created", "starting", "running", "ended"},
     security : {"absent", "running", "complete"}]

\* The checks in the order they are made: smoke.mjs verify, and four groups of
\* security.mjs, the last the only one that makes the server close.
Checks == <<"fixture", "rejections", "application", "operator", "binary">>

\* Bucket, workstations, cluster and runs stay within their types.
TypeOK ==
    /\ manifests \subseteq Backups /\ archives \subseteq Backups
    /\ place \in [Runs -> Workstations] /\ name \in [Runs -> Names]
    /\ target \in [Runs -> Backups]
    /\ file \in [Workstations \X Names -> Content({"absent", "partial", "damaged", "whole"})]
    /\ scratch \in [Names -> Scratch]
    /\ forward \in [Runs -> BOOLEAN]
    /\ pc \in [Runs -> Labels]
    /\ checked \in [Runs -> 0..Len(Checks)]
    /\ disturbed \in [Runs -> BOOLEAN]

Init ==
    /\ manifests = Backups /\ archives = Backups
    /\ place \in [Runs -> Workstations] /\ name \in [Runs -> Names]
    /\ target \in [Runs -> Backups]
    /\ file = [p \in Workstations \X Names |-> Nothing]
    /\ scratch = [n \in Names |->
          [owner |-> Nobody, secret |-> Nobody, volume |-> Nothing,
           loader |-> "absent", security |-> "absent"]]
    /\ forward = [r \in Runs |-> FALSE]
    /\ pc = [r \in Runs |-> "connect"]
    /\ checked = [r \in Runs |-> 0]
    /\ disturbed = [r \in Runs |-> FALSE]

-----------------------------------------------------------------------------
(* How a run goes on.                                                      *)

At(r) == <<place[r], name[r]>>
Own(r) == scratch[name[r]]

Goto(r, label) ==
    /\ pc' = [pc EXCEPT ![r] = label]
    /\ UNCHANGED <<forward, checked, disturbed>>

\* The finally block stops the port-forward.
Leave(r, label, fault) ==
    /\ pc' = [pc EXCEPT ![r] = label]
    /\ forward' = [forward EXCEPT ![r] = FALSE]
    /\ disturbed' = [disturbed EXCEPT ![r] = @ \/ fault]
    /\ UNCHANGED checked

\* An exception, for what was found or for a fault.
Reject(r) == Leave(r, "failed", FALSE)
Break(r)  == Leave(r, "failed", TRUE)

\* A step without an effect beyond the run.
Local(r, from, move) ==
    /\ pc[r] = from
    /\ move \/ Break(r)
    /\ UNCHANGED <<bucket, argv, file, scratch>>

\* A command to the cluster that is answered, or is not, with or without its
\* effect on the run's namespace.
Kubectl(r, from, changed, label) ==
    /\ pc[r] = from
    /\ LET effect == [scratch EXCEPT ![name[r]] = changed] IN
          \/ scratch' = effect /\ Goto(r, label)
          \/ scratch' \in {scratch, effect} /\ Break(r)
    /\ UNCHANGED <<bucket, argv, file>>

-----------------------------------------------------------------------------
(* From the bucket to the workstation.                                     *)

\* The bucket's credentials, from the environment or from the cluster.
Connect(r) == Local(r, "connect", Goto(r, "manifest"))

\* The images are compared here, the configuration only in Verify.
Manifest(r) ==
    Local(r, "manifest",
          \/ target[r] \in manifests /\ Goto(r, "open")
          \/ target[r] \notin manifests \cap Matching /\ Reject(r))

\* Flag wx: a file of that name is another run's.
Open(r) ==
    /\ pc[r] = "open"
    /\ \/ /\ target[r] \in archives /\ file[At(r)] = Nothing
          /\ file' = [file EXCEPT ![At(r)] = [state |-> "partial", of |-> target[r]]]
          /\ Goto(r, "receive")
       \/ /\ target[r] \notin archives \/ file[At(r)] # Nothing
          /\ Reject(r) /\ UNCHANGED file
       \/ Break(r) /\ UNCHANGED file
    /\ UNCHANGED <<bucket, argv, scratch>>

Sent(k) == [state |-> IF k \in Damaged THEN "damaged" ELSE "whole", of |-> k]

\* The rest of the body; a retention that deletes the object comes too late.
Receive(r) ==
    /\ pc[r] = "receive"
    /\ \/ file' = [file EXCEPT ![At(r)] = Sent(target[r])] /\ Goto(r, "verify")
       \/ UNCHANGED file /\ Break(r)
    /\ UNCHANGED <<bucket, argv, scratch>>

\* The checksum of the file, then the archive's own manifest and configuration.
Verify(r) ==
    LET sound == file[At(r)] = [state |-> "whole", of |-> target[r]] /\ target[r] \in Matching IN
    Local(r, "verify", IF sound THEN Goto(r, "credentials") ELSE Reject(r))

\* The archive's credentials, as files beside it.
Credentials(r) == Local(r, "credentials", Goto(r, "namespace"))

-----------------------------------------------------------------------------
(* The scratch namespace and its volume.                                   *)

\* Seeded fault: kubectl apply, which succeeds where the namespace exists.
TakenAnyway(r) == Goto(r, "secret")

\* kubectl create is refused where the namespace exists.
Taken(r) == Reject(r)

CreateNamespace(r) ==
    IF Own(r).owner = Nobody
    THEN Kubectl(r, "namespace", [Own(r) EXCEPT !.owner = r], "secret")
    ELSE Local(r, "namespace", Taken(r))

CreateSecret(r) ==
    Kubectl(r, "secret", [Own(r) EXCEPT !.secret = file[At(r)].of], "volume")

\* The provisioner may serve the claim with a directory that is in use.
CreateVolume(r) ==
    \E found \in {"empty", "leftover"} :
        Kubectl(r, "volume",
                [Own(r) EXCEPT !.volume = [state |-> found, of |-> Nobody]], "loader")

\* The loader Job, which has no pod yet.
CreateLoader(r) == Kubectl(r, "loader", [Own(r) EXCEPT !.loader = "created"], "ready")

\* Its controller creates the pod ...
CreatePod(n) ==
    /\ scratch[n].loader = "created"
    /\ scratch' = [scratch EXCEPT ![n].loader = "starting"]
    /\ UNCHANGED <<bucket, argv, file, run>>

\* ... which becomes ready once it has found the volume empty, or else ends.
LoaderStarts(n) ==
    /\ scratch[n].loader = "starting"
    /\ scratch' = [scratch EXCEPT ![n].loader =
          IF scratch[n].volume.state = "empty" THEN "running" ELSE "ended"]
    /\ UNCHANGED <<bucket, argv, file, run>>

\* kubectl wait fails at once while no pod has the label, and otherwise waits
\* for one that may still become ready, up to its deadline.
AwaitLoader(r) ==
    Local(r, "ready",
          \/ Own(r).loader = "running" /\ Goto(r, "extract")
          \/ Own(r).loader = "created" /\ Leave(r, "early", FALSE)
          \/ Own(r).loader = "ended" /\ Reject(r))

Fill(r, content) == scratch' = [scratch EXCEPT ![name[r]].volume = content]

\* tar in the loader begins to write ...
Extract(r) ==
    /\ pc[r] = "extract" /\ Own(r).loader = "running"
    /\ Fill(r, [state |-> "partial", of |-> file[At(r)].of])
    /\ Goto(r, "extracting")
    /\ UNCHANGED <<bucket, argv, file>>

\* ... and has exited with 0.
Extracted(r) ==
    /\ pc[r] = "extracting" /\ Own(r).loader = "running"
    /\ Fill(r, file[At(r)])
    /\ Goto(r, "remove")
    /\ UNCHANGED <<bucket, argv, file>>

\* Seeded fault: only the stream is awaited, not tar's exit code.
Unchecked(r) == Goto(r, "remove")

\* Another exit code, or none.
ExitCode(r) == Break(r)

\* tar ends otherwise, or the loader has ended under it.
ExtractFails(r) ==
    /\ \/ pc[r] = "extracting"
       \/ pc[r] = "extract" /\ Own(r).loader # "running"
    /\ ExitCode(r)
    /\ UNCHANGED <<bucket, argv, file, scratch>>

\* Seeded fault: the loader has neither a deadline nor an end of its own.
LoaderStays(n) == FALSE

\* activeDeadlineSeconds, the end of `sleep 3600`, or an eviction.
LoaderEnds(n) ==
    /\ scratch[n].loader \in {"created", "starting", "running"}
    /\ scratch' = [scratch EXCEPT ![n].loader = "ended"]
    /\ UNCHANGED <<bucket, argv, file, run>>

RemoveLoader(r) == Kubectl(r, "remove", [Own(r) EXCEPT !.loader = "absent"], "helm")

-----------------------------------------------------------------------------
(* The databases on that volume, and the checks.                           *)

\* helm --wait, with its deadline.  Cassandra and the bootstrap Job need the
\* data and the credentials of one backup, and may do with a part of the data.
Install(r) ==
    Local(r, "helm",
          /\ Own(r).volume.state \in {"partial", "damaged", "whole"}
          /\ Own(r).volume.of = Own(r).secret
          /\ Goto(r, "forward"))

StartForward(r) ==
    Local(r, "forward",
          /\ forward' = [forward EXCEPT ![r] = TRUE]
          /\ pc' = [pc EXCEPT ![r] = "check"]
          /\ UNCHANGED <<checked, disturbed>>)

ForwardLost(r) ==
    /\ forward[r]
    /\ forward' = [forward EXCEPT ![r] = FALSE]
    /\ disturbed' = [disturbed EXCEPT ![r] = TRUE]
    /\ UNCHANGED <<bucket, argv, file, scratch, pc, checked>>

\* Seeded fault: the check that makes the server close comes first.
NextCheckClosing(r) ==
    IF checked[r] = 0 THEN Checks[Len(Checks)] ELSE Checks[checked[r]]

NextCheck(r) == Checks[checked[r] + 1]

\* The graph's answers to the other checks do not depend on the data.
Passes(r) ==
    /\ forward[r]
    /\ NextCheck(r) \in {"fixture", "application"} => Own(r).volume.of \in Seeded

\* kubectl stops forwarding as soon as the server has closed a connection.
Pass(r) ==
    /\ checked' = [checked EXCEPT ![r] = @ + 1]
    /\ forward' = [forward EXCEPT ![r] = NextCheck(r) # "binary"]
    /\ pc' = [pc EXCEPT ![r] = IF checked[r] + 1 < Len(Checks) THEN "check" ELSE "find"]
    /\ UNCHANGED disturbed

\* A check that cannot reach the graph fails.
Check(r) == Local(r, "check", IF Passes(r) THEN Pass(r) ELSE Reject(r))

-----------------------------------------------------------------------------
(* kubernetes.mjs cql-security, and the record.                            *)

\* The pod template of the chart's bootstrap Job.
FindBootstrap(r) == Local(r, "find", Goto(r, "createJob"))

CreateJob(r) == Kubectl(r, "createJob", [Own(r) EXCEPT !.security = "running"], "waitJob")

\* cassandra-admin.py security: scoped roles work, the default login does not.
JobEnds(n) ==
    /\ scratch[n].security = "running"
    /\ scratch' = [scratch EXCEPT ![n].security = "complete"]
    /\ UNCHANGED <<bucket, argv, file, run>>

\* Complete, or the deadline of the Job or of the wait.
AwaitJob(r) ==
    /\ pc[r] = "waitJob"
    /\ \/ Own(r).security = "complete" /\ Goto(r, "dropJob")
       \/ Leave(r, "dropFailedJob", TRUE)
    /\ UNCHANGED <<bucket, argv, file, scratch>>

\* The finally block goes on with the exception there was.
DropJob(r) ==
    LET dropped == [Own(r) EXCEPT !.security = "absent"] IN
    \/ Kubectl(r, "dropJob", dropped, "claim")
    \/ Kubectl(r, "dropFailedJob", dropped, "failed")

\* The claim's volume is read and result.json written.
Record(r) == Local(r, "claim", Leave(r, "done", FALSE))

-----------------------------------------------------------------------------
(* The world.                                                              *)

\* SIGKILL or the end of the workstation; a port-forward may stay behind.
Kill(r) ==
    /\ pc[r] \notin Ended
    /\ pc' = [pc EXCEPT ![r] = "killed"]
    /\ UNCHANGED <<bucket, argv, file, scratch, forward, checked, disturbed>>

\* A retention, which deletes the manifest before the archive.
Retire(k) ==
    /\ \/ k \in manifests /\ manifests' = manifests \ {k} /\ UNCHANGED archives
       \/ k \in archives \ manifests /\ archives' = archives \ {k} /\ UNCHANGED manifests
    /\ UNCHANGED <<argv, file, scratch, run>>

\* Every step of a run but the end of its transfer into the volume.
RunStep(r) ==
    \/ Connect(r) \/ Manifest(r) \/ Open(r) \/ Receive(r) \/ Verify(r) \/ Credentials(r)
    \/ CreateNamespace(r) \/ CreateSecret(r) \/ CreateVolume(r) \/ CreateLoader(r)
    \/ AwaitLoader(r) \/ Extract(r) \/ RemoveLoader(r)
    \/ Install(r) \/ StartForward(r) \/ Check(r)
    \/ FindBootstrap(r) \/ CreateJob(r) \/ AwaitJob(r) \/ DropJob(r) \/ Record(r)

\* The loader that ends takes tar with it.
Interrupted(r) == Own(r).loader # "running" /\ ExtractFails(r)

Next ==
    \/ \E r \in Runs : RunStep(r) \/ Extracted(r) \/ ExtractFails(r) \/ ForwardLost(r) \/ Kill(r)
    \/ \E n \in Names : CreatePod(n) \/ LoaderStarts(n) \/ LoaderEnds(n) \/ JobEnds(n)
    \/ \E k \in Expiring : Retire(k)

Spec == Init /\ [][Next]_vars

\* Calls that nothing limits: the requests to the bucket, which are made
\* without a timeout, and the checks with a traversal or a close() that lies
\* outside their timers.
Unlimited(r) ==
    \/ pc[r] \in {"manifest", "open", "receive"}
    \/ pc[r] = "check" /\ NextCheck(r) \in {"fixture", "rejections"}

\* Every other call has a limit, but for the transfer into the volume, and the
\* loader that this needs has a deadline.
Fairness ==
    /\ \A r \in Runs : WF_vars(~Unlimited(r) /\ RunStep(r)) /\ WF_vars(Interrupted(r))
    /\ \A n \in Names : WF_vars(LoaderEnds(n))

FairSpec == Spec /\ Fairness

-----------------------------------------------------------------------------
(* Properties.                                                             *)

\* What a scratch namespace holds comes from the backup that the run which
\* created the namespace was given, also where two runs have the same name for
\* theirs: creation, not apply, decides whose it is, and every later step of
\* the other run is out of reach.
NamespaceIsOneRestore ==
    \A n \in Names :
        LET s == scratch[n] IN
        IF s.owner = Nobody
        THEN s.secret = Nobody /\ s.volume = Nothing
        ELSE {s.secret, s.volume.of} \subseteq {Nobody, target[s.owner]}

\* A run that records its result has checked a volume that holds every byte of
\* the backup it was given, under that backup's own credentials, in a namespace
\* that it created itself.
VerifiedIsTheArchive ==
    \A r \in Runs :
        pc[r] = "done" =>
            /\ Own(r).owner = r
            /\ Own(r).secret = target[r]
            /\ Own(r).volume = [state |-> "whole", of |-> target[r]]
            /\ target[r] \in (Matching \cap Seeded) \ Damaged

\* A rehearsal rejects no good backup: a run fails for the backup it was given,
\* for a name that is taken, for a loader that has ended, or because something
\* went wrong on the way; never because one check spoils the next.  Only the
\* wait for the loader may fail a run without any of this, by coming before the
\* pod; then nothing of the backup has reached the volume.
GoodRestoreAccepted ==
    \A r \in Runs :
        pc[r] \in {"failed", "early"} =>
            \/ disturbed[r]
            \/ target[r] \in Damaged \/ target[r] \notin Matching \cap Seeded
            \/ target[r] \notin manifests
            \/ \E q \in Runs \ {r} : name[q] = name[r]
            \/ Own(r).loader = "ended"
            \/ pc[r] = "early" /\ Own(r).volume.state \in {"empty", "leftover"}

\* A run ends, also when the transfer into the volume stalls, where the loader's
\* deadline is the only limit; or it waits for ever in a call without one.
RestoreEnds ==
    \A r \in Runs : <>(pc[r] \in Ended) \/ <>[]Unlimited(r)

=============================================================================
