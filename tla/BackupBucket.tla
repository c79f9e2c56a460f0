---------------------------- MODULE BackupBucket ----------------------------
(***************************************************************************)
(* The bucket that backups and restores share, as each may rely on the     *)
(* others to leave it.  A backup is an archive and, once it is complete, a *)
(* manifest; a key is used once.  Nothing is ever deleted that a restore   *)
(* could still start from: the manifest goes first, and does not return.   *)
(***************************************************************************)

CONSTANT Keys

VARIABLES
    archives, manifests,   \* the objects in the bucket
    completed              \* history: every manifest ever published

bucketVars == <<archives, manifests, completed>>

BucketInit ==
    /\ completed \subseteq archives /\ archives \subseteq Keys
    /\ manifests = completed

Store(k) ==
    /\ k \notin archives \cup completed
    /\ archives' = archives \cup {k}
    /\ UNCHANGED <<manifests, completed>>

Complete(k) ==
    /\ k \in archives \ completed
    /\ manifests' = manifests \cup {k}
    /\ completed' = completed \cup {k}
    /\ UNCHANGED archives

Withdraw(k) ==
    /\ k \in manifests
    /\ manifests' = manifests \ {k}
    /\ UNCHANGED <<archives, completed>>

Delete(k) ==
    /\ k \in archives \cap completed
    /\ k \notin manifests
    /\ archives' = archives \ {k}
    /\ UNCHANGED <<manifests, completed>>

BucketNext ==
    \E k \in Keys : Store(k) \/ Complete(k) \/ Withdraw(k) \/ Delete(k)

BucketSpec == BucketInit /\ [][BucketNext]_bucketVars

\* Whoever keeps to the protocol never leaves a manifest without its archive,
\* nor a manifest that was not published.
NoneDangling == manifests \subseteq archives /\ manifests \subseteq completed

=============================================================================
