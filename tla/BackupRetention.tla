-------------------------- MODULE BackupRetention --------------------------
(***************************************************************************)
(* The backups of one environment in R2 over the weeks: the objects that   *)
(* backup jobs store, what retireOldBackups() deletes again, and a restore *)
(* that reads the same objects meanwhile.                                  *)
(*                                                                         *)
(* Backups are numbered in the order of their manifests' LastModified; the *)
(* Lease makes that order strict.  Time is counted in days.                *)
(***************************************************************************)
EXTENDS Integers

CONSTANTS
    MaxBackups, LastDay,   \* bounds of the model
    KeepDays,              \* 14: every backup is kept this long
    WeeklyDays,            \* 56: one backup per week is kept this long
    WeekDays, WeekOffset   \* 7 and 3: floor((days + 3) / 7)

ASSUME RetentionAssumption ==
    /\ MaxBackups \in Nat /\ LastDay \in Nat
    /\ KeepDays \in Nat /\ WeeklyDays \in Nat
    /\ WeekDays \in Nat \ {0} /\ WeekOffset \in Nat

Backups == 1..MaxBackups

VARIABLES
    today,
    made,        \* the number of archives uploaded so far
    day,         \* LastModified of each manifest, in days
    archives,    \* the archive objects in the bucket
    manifests,   \* the completion manifests in the bucket
    completed,   \* history: every manifest ever published
    abandoned,   \* history: archives that a failed job left without a manifest
    pc,          \* the running job's place between upload and end
    todo,        \* listed manifests that the loop has yet to visit
    weeks,       \* the loop's set of weeks
    doomed,      \* the backup whose archive is deleted next (pc = "archive")
    listedOn,    \* the day of the listing
    restore      \* a running restore: its backup and how far it got

objects == <<archives, manifests, completed, abandoned>>
loop    == <<todo, weeks, doomed, listedOn>>
vars    == <<today, made, day, objects, pc, loop, restore>>

Week(b) == (day[b] + WeekOffset) \div WeekDays

\* Days, backups and the loop's bookkeeping stay in range, and only completed
\* backups are ever listed for deletion.
TypeOK ==
    /\ today \in 0..LastDay
    /\ made \in 0..MaxBackups
    /\ day \in [Backups -> 0..LastDay]
    /\ archives \subseteq 1..made
    /\ manifests \subseteq 1..made
    /\ completed \subseteq 1..made
    /\ abandoned \subseteq 1..made
    /\ pc \in {"idle", "publish", "list", "visit", "archive"}
    /\ todo \subseteq completed
    /\ weeks \subseteq Nat
    /\ doomed \in 0..MaxBackups
    /\ listedOn \in 0..LastDay
    /\ restore \in [state : {"none", "manifest", "verified", "missing"},
                    backup : 0..MaxBackups]

Init ==
    /\ today = 0 /\ made = 0
    /\ day = [b \in Backups |-> 0]
    /\ archives = {} /\ manifests = {} /\ completed = {} /\ abandoned = {}
    /\ pc = "idle"
    /\ todo = {} /\ weeks = {} /\ doomed = 0 /\ listedOn = 0
    /\ restore = [state |-> "none", backup |-> 0]

-----------------------------------------------------------------------------
(* A backup job: upload, publish, retire.                                  *)

Upload ==
    /\ pc = "idle" /\ made < MaxBackups
    /\ made' = made + 1
    /\ archives' = archives \cup {made + 1}
    /\ pc' = "publish"
    /\ UNCHANGED <<today, day, manifests, completed, abandoned, loop, restore>>

Publish ==
    /\ pc = "publish"
    /\ day' = [day EXCEPT ![made] = today]
    /\ manifests' = manifests \cup {made}
    /\ completed' = completed \cup {made}
    /\ pc' = "list"
    /\ UNCHANGED <<today, made, archives, abandoned, loop, restore>>

List ==
    /\ pc = "list"
    /\ todo' = manifests
    /\ weeks' = {}
    /\ listedOn' = today
    /\ pc' = "visit"
    /\ UNCHANGED <<today, made, day, objects, doomed, restore>>

Age(b) == today - day[b]

\* Seeded fault: the weekly backups are forgotten.
KeepNoWeekly(b) == Age(b) <= KeepDays

Keep(b) ==
    \/ Age(b) <= KeepDays
    \/ Age(b) <= WeeklyDays /\ Week(b) \notin weeks

Newest(b) == b \in todo /\ \A c \in todo : c <= b

\* Seeded fault: the archive is deleted before its completion manifest.
VisitArchiveFirst(b) ==
    /\ pc = "visit" /\ Newest(b)
    /\ todo' = todo \ {b}
    /\ weeks' = weeks \cup {Week(b)}
    /\ IF Keep(b)
       THEN UNCHANGED <<archives, pc, doomed>>
       ELSE archives' = archives \ {b} /\ pc' = "archive" /\ doomed' = b
    /\ UNCHANGED <<today, made, day, manifests, completed, abandoned, listedOn,
                   restore>>

\* One entry of the loop, newest first; the manifest goes before its archive.
Visit(b) ==
    /\ pc = "visit" /\ Newest(b)
    /\ todo' = todo \ {b}
    /\ weeks' = weeks \cup {Week(b)}
    /\ IF Keep(b)
       THEN UNCHANGED <<manifests, pc, doomed>>
       ELSE manifests' = manifests \ {b} /\ pc' = "archive" /\ doomed' = b
    /\ UNCHANGED <<today, made, day, archives, completed, abandoned, listedOn,
                   restore>>

\* Seeded fault: the loop goes on before, and whether or not, R2 has deleted it.
DeleteUnawaited ==
    /\ pc = "archive"
    /\ archives' \in {archives, archives \ {doomed}}
    /\ pc' = "visit" /\ doomed' = 0
    /\ UNCHANGED <<today, made, day, manifests, completed, abandoned, todo, weeks,
                   listedOn, restore>>

DeleteArchive ==
    /\ pc = "archive"
    /\ archives' = archives \ {doomed}
    /\ pc' = "visit" /\ doomed' = 0
    /\ UNCHANGED <<today, made, day, manifests, completed, abandoned, todo, weeks,
                   listedOn, restore>>

EndLoop ==
    /\ todo' = {} /\ weeks' = {} /\ doomed' = 0 /\ listedOn' = 0
    /\ pc' = "idle"
    /\ UNCHANGED <<today, made, day, archives, manifests, completed, restore>>

Finish == pc = "visit" /\ todo = {} /\ EndLoop /\ UNCHANGED abandoned

\* The archive that the job was about to complete, or to delete.
Unfinished ==
    {b \in archives : \/ pc = "publish" /\ b = made
                      \/ pc = "archive" /\ b = doomed}

\* Any of the calls fails, or the pod is killed.
Fail == pc # "idle" /\ EndLoop /\ abandoned' = abandoned \cup Unfinished

-----------------------------------------------------------------------------
(* restore-cluster.mjs: the manifest first, then the archive it names.     *)

FetchManifest(b) ==
    /\ restore.state = "none"
    /\ b \in manifests
    /\ restore' = [state |-> "manifest", backup |-> b]
    /\ UNCHANGED <<today, made, day, objects, pc, loop>>

FetchArchive ==
    /\ restore.state = "manifest"
    /\ restore' = [restore EXCEPT
          !.state = IF restore.backup \in archives THEN "verified" ELSE "missing"]
    /\ UNCHANGED <<today, made, day, objects, pc, loop>>

EndRestore ==
    /\ restore.state # "none"
    /\ restore' = [state |-> "none", backup |-> 0]
    /\ UNCHANGED <<today, made, day, objects, pc, loop>>

NextDay ==
    /\ today < LastDay
    /\ today' = today + 1
    /\ UNCHANGED <<made, day, objects, pc, loop, restore>>

Next ==
    \/ Upload \/ Publish \/ List \/ DeleteArchive \/ Finish \/ Fail
    \/ \E b \in Backups : Visit(b) \/ FetchManifest(b)
    \/ FetchArchive \/ EndRestore
    \/ NextDay

Spec == Init /\ [][Next]_vars

-----------------------------------------------------------------------------
(* Properties.                                                             *)

NewestOfWeek(b) ==
    \A c \in completed : Week(c) = Week(b) => c <= b

\* What README.md:69-71 of deploy/data promises to keep: every completed
\* backup for 14 days and one per UTC week through day 56.
Promised(b) ==
    \/ today <= day[b] + KeepDays
    \/ today <= day[b] + WeeklyDays /\ NewestOfWeek(b)

\* Whatever fails in the middle of whichever retention, and however days pass
\* meanwhile, a completed backup that the policy promises is still there.
PromisedIsRetained ==
    \A b \in completed : Promised(b) => b \in manifests

\* Once the loop has visited a backup, neither its manifest nor its archive is
\* in the bucket unless the policy promised it on the day of the listing,
\* whatever backlog failed retentions had left; but for an archive that a failed
\* job gave up before its manifest was there, or after it was gone, which no
\* later listing finds, since backup-cluster.mjs:44 looks for manifests.
SurplusRetired ==
    pc = "visit" =>
        \A b \in (manifests \cup archives) \ todo :
            \/ listedOn <= day[b] + KeepDays
            \/ listedOn <= day[b] + WeeklyDays /\ NewestOfWeek(b)
            \/ b \in abandoned \ manifests

\* A restore that has read the manifest of a promised backup finds its archive,
\* however slowly it proceeds.
RestoreFindsPromised ==
    restore.state = "missing" => ~Promised(restore.backup)

Bucket == INSTANCE BackupBucket WITH Keys <- Backups

\* What backups and retentions do to the bucket, wherever they fail, keeps the
\* protocol that a restore relies on: a key is stored and completed once, and
\* a partial deletion is never restorable, since the manifest goes first and
\* only completed backups are deleted.
ImplementsBucket == Bucket!BucketSpec

=============================================================================
