------------------------- MODULE MaintenanceWindow -------------------------
(***************************************************************************)
(* What the backup Lease promises.  One job at a time owns the             *)
(* environment; only under an owner are its services taken down; the       *)
(* ownership ends only once they are back; and an owner publishes a backup *)
(* only after it has brought them back.                                    *)
(***************************************************************************)
CONSTANTS Jobs, NoJob

VARIABLES
    owner,      \* the job that owns the environment, or NoJob
    down,       \* a service is stopped or not ready, or a reconciler suspended
    published   \* the jobs whose backups are published

winVars == <<owner, down, published>>

WindowInit ==
    /\ owner = NoJob
    /\ down = FALSE
    /\ published = {}

Claim(j) ==
    /\ owner = NoJob /\ ~down
    /\ owner' = j
    /\ UNCHANGED <<down, published>>

\* Services go down and come back in steps, any of which may be repeated.
Maintain ==
    /\ owner # NoJob
    /\ down' \in BOOLEAN
    /\ UNCHANGED <<owner, published>>

PublishBackup(j) ==
    /\ owner = j /\ ~down
    /\ published' = published \cup {j}
    /\ UNCHANGED <<owner, down>>

Yield ==
    /\ owner # NoJob /\ ~down
    /\ owner' = NoJob
    /\ UNCHANGED <<down, published>>

WindowNext ==
    \/ \E j \in Jobs : Claim(j) \/ PublishBackup(j)
    \/ Maintain
    \/ Yield

WindowSpec == WindowInit /\ [][WindowNext]_winVars

=============================================================================
