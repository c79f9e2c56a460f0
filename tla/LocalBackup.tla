----------------------------- MODULE LocalBackup -----------------------------
(***************************************************************************)
(* The local stack: backup.mjs (local-backup, local-restore), which takes a *)
(* lock, backup-upload.mjs and dev-data.mjs (up, down), which do not.       *)
(* Operators run any of them at any time and may kill them; a lock that a   *)
(* killed run left is removed when no backup.mjs runs.                      *)
(*                                                                         *)
(* One action is one docker, file or bucket call, up to the next.           *)
(***************************************************************************)

CONSTANTS Backups, Restores, Uploads, Ups, Downs, None

ASSUME LocalAssumption ==
    /\ Backups \cap Restores = {}
    /\ Uploads \cap (Backups \cup Restores) = {}
    /\ Ups \cap (Backups \cup Restores \cup Uploads) = {}
    /\ Downs \cap (Backups \cup Restores \cup Uploads \cup Ups) = {}
    /\ None \notin Backups \cup Restores

Locking == Backups \cup Restores
Runs == Locking \cup Uploads \cup Ups \cup Downs

VARIABLES
    lock,       \* .local/backups/operation.lock exists
    graph,      \* the containers of project cartyx-local
    cassandra,
    flushed,    \* Cassandra was drained after its last start
    archive,    \* of each backup: its .tar.gz
    manifest,   \* of each backup: its .tar.gz.json exists
    rehearsal,  \* the restore whose new volume project cartyx-restore runs on
    remote,     \* of each backup: its object in the bucket
    marked,     \* of each backup: its completion manifest in the bucket
    pc,
    erring,     \* of each run: an exception is on its way through the finally blocks
    input,      \* of each upload: the backup it was given
    torn,       \* history: backups copied while Cassandra ran or was not flushed
    touched,    \* history: backups during which dev-data.mjs changed the stack
    rehearsed,  \* history: of each restore, whose volume the smoke test read
    sent,       \* history: uploads that wrote the object of their backup
    excused     \* history: someone was told that the stack may be stopped

stack   == <<graph, cassandra, flushed>>
local   == <<archive, manifest, rehearsal>>
bucket  == <<remote, marked>>
history == <<torn, touched, rehearsed, sent, excused>>
vars    == <<lock, stack, local, bucket, pc, erring, input, history>>

Ended == {"done", "failed"}
Places == {"lock", "inspect", "stopGraph", "drain", "stopCassandra", "copy", "copying", "manifest",
           "start", "startGraph", "unlock", "verify", "extract", "rehearse", "smoke",
           "check", "put", "readBack", "mark", "down", "downCassandra"} \cup Ended
Beginning(o) == IF o \in Locking THEN "lock" ELSE IF o \in Uploads THEN "check"
                ELSE IF o \in Ups THEN "start" ELSE "down"
AtWork(o) == pc[o] \notin {Beginning(o)} \cup Ended
Serving == graph = "up" /\ cassandra = "up"

\* Everything stays within its type, and a manifest is of a whole archive.
TypeOK ==
    /\ lock \in BOOLEAN /\ flushed \in BOOLEAN /\ excused \in BOOLEAN
    /\ graph \in {"up", "stopped"}
    /\ cassandra \in {"up", "drained", "stopped"}
    /\ archive \in [Backups -> {"none", "partial", "full"}]
    /\ manifest \in [Backups -> BOOLEAN]
    /\ \A b \in Backups : manifest[b] => archive[b] = "full"
    /\ rehearsal \in Restores \cup {None}
    /\ remote \in [Backups -> {"none", "good", "damaged"}]
    /\ marked \in [Backups -> BOOLEAN]
    /\ pc \in [Runs -> Places]
    /\ erring \in [Runs -> BOOLEAN]
    /\ input \in [Uploads -> Backups \cup {None}]
    /\ torn \subseteq Backups /\ touched \subseteq Backups /\ sent \subseteq Uploads
    /\ rehearsed \in [Restores -> Restores \cup {None}]

\* The stack is up, or stopped on purpose; a killed run may have left the lock.
Init ==
    /\ lock \in BOOLEAN
    /\ \/ graph = "up" /\ cassandra = "up" /\ excused = FALSE
       \/ graph = "stopped" /\ cassandra = "stopped" /\ excused = TRUE
    /\ flushed = FALSE
    /\ archive = [b \in Backups |-> "none"]
    /\ manifest = [b \in Backups |-> FALSE]
    /\ rehearsal = None
    /\ remote = [b \in Backups |-> "none"]
    /\ marked = [b \in Backups |-> FALSE]
    /\ pc = [o \in Runs |-> Beginning(o)]
    /\ erring = [o \in Runs |-> FALSE]
    /\ input = [u \in Uploads |-> None]
    /\ torn = {} /\ touched = {} /\ sent = {}
    /\ rehearsed = [r \in Restores |-> None]

Goto(o, label) == pc' = [pc EXCEPT ![o] = label] /\ UNCHANGED erring
Throw(o, label) ==
    /\ pc' = [pc EXCEPT ![o] = label]
    /\ erring' = [erring EXCEPT ![o] = label \notin Ended]

\* A call succeeds, fails without effect, or has its effect and fails.
Call(o, effect, none, next, handler) ==
    \/ effect /\ Goto(o, next)
    \/ effect /\ Throw(o, handler)
    \/ none /\ Throw(o, handler)

-----------------------------------------------------------------------------
(* The lock of backup.mjs.                                                 *)

Begin(o) == IF o \in Backups THEN "inspect" ELSE "verify"

\* Seeded fault: mkdirSync(lock, { recursive: true }) accepts an existing lock.
LockRecursively(o) ==
    /\ o \in Locking /\ pc[o] = "lock"
    /\ lock' = TRUE /\ Goto(o, Begin(o))
    /\ UNCHANGED <<stack, local, bucket, input, history>>

\* Seeded fault: mkdirSync is inside the try, whose finally removes the lock.
LockInsideTry(o) ==
    /\ o \in Locking /\ pc[o] = "lock"
    /\ IF lock THEN Throw(o, "unlock") ELSE Goto(o, Begin(o))
    /\ lock' = TRUE
    /\ UNCHANGED <<stack, local, bucket, input, history>>

\* mkdirSync fails on an existing directory, before the try.
Lock(o) ==
    /\ o \in Locking /\ pc[o] = "lock"
    /\ IF lock THEN Goto(o, "failed") ELSE Goto(o, Begin(o))
    /\ lock' = TRUE
    /\ UNCHANGED <<stack, local, bucket, input, history>>

Unlock(o) ==
    /\ pc[o] = "unlock"
    /\ lock' = FALSE
    /\ IF erring[o] \/ ~lock THEN Throw(o, "failed") ELSE Goto(o, "done")
    /\ UNCHANGED <<stack, local, bucket, input, history>>

\* The operator has checked that no backup.mjs runs.
RemoveLock ==
    /\ lock /\ \A o \in Locking : ~AtWork(o)
    /\ lock' = FALSE
    /\ UNCHANGED <<stack, local, bucket, pc, erring, input, history>>

-----------------------------------------------------------------------------
(* Starting and stopping the stack.                                        *)

\* What dev-data.mjs does to the stack touches the backups at work.
Touches(o) ==
    IF o \in Ups \cup Downs THEN touched \cup {b \in Backups : AtWork(b)} ELSE touched

StopGraph(o) ==
    /\ pc[o] \in {"stopGraph", "down"}
    /\ LET next == IF pc[o] = "down" THEN "downCassandra" ELSE "drain" IN
       Call(o, graph' = "stopped", UNCHANGED graph, next,
            IF pc[o] = "down" THEN "failed" ELSE "start")
    /\ touched' = Touches(o)
    /\ excused' = (excused \/ o \in Downs)
    /\ UNCHANGED <<lock, cassandra, flushed, local, bucket, input, torn, rehearsed, sent>>

\* nodetool needs a running Cassandra, and leaves it running without clients.
Drain(o) ==
    /\ pc[o] = "drain"
    /\ IF cassandra = "stopped"
       THEN Throw(o, "start") /\ UNCHANGED <<cassandra, flushed>>
       ELSE Call(o, cassandra' = "drained" /\ flushed' = TRUE,
                 UNCHANGED <<cassandra, flushed>>, "stopCassandra", "start")
    /\ UNCHANGED <<lock, graph, local, bucket, input, history>>

\* Seeded fault: an error of docker compose stop is ignored.
StopCassandraUnchecked(o) ==
    /\ pc[o] \in {"stopCassandra", "downCassandra"}
    /\ cassandra' \in {"stopped", cassandra}
    /\ Goto(o, IF pc[o] = "downCassandra" THEN "done" ELSE "copy")
    /\ touched' = Touches(o)
    /\ excused' = (excused \/ o \in Downs)
    /\ UNCHANGED <<lock, graph, flushed, local, bucket, input, torn, rehearsed, sent>>

StopCassandra(o) ==
    /\ pc[o] \in {"stopCassandra", "downCassandra"}
    /\ LET down == pc[o] = "downCassandra" IN
       Call(o, cassandra' = "stopped", UNCHANGED cassandra,
            IF down THEN "done" ELSE "copy", IF down THEN "failed" ELSE "start")
    /\ touched' = Touches(o)
    /\ excused' = (excused \/ o \in Downs)
    /\ UNCHANGED <<lock, graph, flushed, local, bucket, input, torn, rehearsed, sent>>

AfterUp(o) == IF o \in Ups THEN "done" ELSE "unlock"
UpFailed(o) == Throw(o, IF o \in Ups THEN "failed" ELSE "unlock") /\ excused' = TRUE

\* docker compose up starts a stopped Cassandra; a drained one is running.
Start(o) ==
    /\ pc[o] = "start"
    /\ \/ /\ IF cassandra = "stopped"
             THEN /\ cassandra' = "up" /\ flushed' = FALSE
                  /\ torn' = torn \cup {b \in Backups : pc[b] = "copying"}
             ELSE UNCHANGED <<cassandra, flushed, torn>>
          /\ pc' = [pc EXCEPT ![o] = "startGraph"]
          /\ UNCHANGED <<erring, excused>>
       \/ UpFailed(o) /\ UNCHANGED <<cassandra, flushed, torn>>
    /\ touched' = Touches(o)
    /\ UNCHANGED <<lock, graph, local, bucket, input, rehearsed, sent>>

\* The graph starts after the bootstrap, which a drained Cassandra never answers;
\* --wait ends when both are healthy.
StartGraph(o) ==
    /\ pc[o] = "startGraph"
    /\ \/ /\ cassandra = "up" /\ graph' = "up"
          /\ excused' = FALSE
          /\ Goto(o, AfterUp(o))
       \/ graph' \in {graph} \cup (IF cassandra = "up" THEN {"up"} ELSE {}) /\ UpFailed(o)
    /\ touched' = Touches(o)
    /\ UNCHANGED <<lock, cassandra, flushed, local, bucket, input, torn, rehearsed, sent>>

-----------------------------------------------------------------------------
(* local-backup.                                                           *)

\* compose ps lists running containers; without one there is nothing to do.
Inspect(b) ==
    /\ pc[b] = "inspect"
    /\ \/ graph = "up" /\ cassandra # "stopped" /\ Goto(b, "stopGraph")
       \/ Throw(b, "unlock")
    /\ UNCHANGED <<lock, stack, local, bucket, input, history>>

Copy(b) ==
    /\ pc[b] = "copy"
    /\ \/ /\ archive' = [archive EXCEPT ![b] = "partial"]
          /\ torn' = IF cassandra = "stopped" /\ flushed THEN torn ELSE torn \cup {b}
          /\ Goto(b, "copying")
       \/ Throw(b, "start") /\ UNCHANGED <<archive, torn>>
    /\ UNCHANGED <<lock, stack, manifest, rehearsal, bucket, input,
                   touched, rehearsed, sent, excused>>

\* Both the stream and the exit code of tar are awaited.
Copied(b) ==
    /\ pc[b] = "copying"
    /\ \/ archive' = [archive EXCEPT ![b] = "full"] /\ Goto(b, "manifest")
       \/ UNCHANGED archive /\ Throw(b, "start")
    /\ UNCHANGED <<lock, stack, manifest, rehearsal, bucket, input, history>>

\* Seeded fault: the stack is started at the end of the try, not in finally.
WriteManifestAndLeave(b) ==
    /\ pc[b] = "manifest"
    /\ \/ manifest' = [manifest EXCEPT ![b] = TRUE] /\ Goto(b, "start")
       \/ UNCHANGED manifest /\ Throw(b, "unlock")
    /\ UNCHANGED <<lock, stack, archive, rehearsal, bucket, input, history>>

WriteManifest(b) ==
    /\ pc[b] = "manifest"
    /\ \/ manifest' = [manifest EXCEPT ![b] = TRUE] /\ Goto(b, "start")
       \/ UNCHANGED manifest /\ Throw(b, "start")
    /\ UNCHANGED <<lock, stack, archive, rehearsal, bucket, input, history>>

-----------------------------------------------------------------------------
(* local-restore.                                                          *)

\* The manifest that is passed exists, and its checksum is that of the archive.
VerifyArchive(r) ==
    /\ pc[r] = "verify"
    /\ \/ (\E b \in Backups : manifest[b] /\ archive[b] = "full") /\ Goto(r, "extract")
       \/ Throw(r, "unlock")
    /\ UNCHANGED <<lock, stack, local, bucket, input, history>>

Extract(r) ==
    /\ pc[r] = "extract"
    /\ Goto(r, "rehearse") \/ Throw(r, "unlock")
    /\ UNCHANGED <<lock, stack, local, bucket, input, history>>

\* One project for every rehearsal: compose up moves it to the new volume.
Rehearse(r) ==
    /\ pc[r] = "rehearse"
    /\ Call(r, rehearsal' = r, UNCHANGED rehearsal, "smoke", "unlock")
    /\ UNCHANGED <<lock, stack, archive, manifest, bucket, input, history>>

Smoke(r) ==
    /\ pc[r] = "smoke"
    /\ rehearsed' = [rehearsed EXCEPT ![r] = rehearsal]
    /\ \/ Goto(r, "unlock")
       \/ Throw(r, "unlock")
    /\ UNCHANGED <<lock, stack, local, bucket, input, torn, touched, sent, excused>>

-----------------------------------------------------------------------------
(* backup-upload.mjs.                                                      *)

Check(u) ==
    /\ pc[u] = "check"
    /\ \/ \E b \in Backups :
             /\ manifest[b] /\ archive[b] = "full"
             /\ input' = [input EXCEPT ![u] = b]
             /\ Goto(u, "put")
       \/ UNCHANGED input /\ Throw(u, "failed")
    /\ UNCHANGED <<lock, stack, local, bucket, history>>

\* The object may be stored damaged.
Put(u) ==
    /\ pc[u] = "put"
    /\ \/ \E state \in {"good", "damaged"} :
             /\ remote' = [remote EXCEPT ![input[u]] = state]
             /\ sent' = sent \cup {u}
             /\ Goto(u, "readBack") \/ Throw(u, "failed")
       \/ UNCHANGED <<remote, sent>> /\ Throw(u, "failed")
    /\ UNCHANGED <<lock, stack, local, marked, input, torn, touched, rehearsed, excused>>

\* Seeded fault: the object is downloaded but its checksum not compared.
ReadBackUnchecked(u) ==
    /\ pc[u] = "readBack"
    /\ Goto(u, "mark") \/ Throw(u, "failed")
    /\ UNCHANGED <<lock, stack, local, bucket, input, history>>

ReadBack(u) ==
    /\ pc[u] = "readBack"
    /\ \/ remote[input[u]] = "good" /\ Goto(u, "mark")
       \/ Throw(u, "failed")
    /\ UNCHANGED <<lock, stack, local, bucket, input, history>>

Mark(u) ==
    /\ pc[u] = "mark"
    /\ Call(u, marked' = [marked EXCEPT ![input[u]] = TRUE], UNCHANGED marked, "done", "failed")
    /\ UNCHANGED <<lock, stack, local, remote, input, history>>

-----------------------------------------------------------------------------

\* A run is killed between two calls: no finally block runs and a lock stays.
Kill(o) ==
    /\ AtWork(o)
    /\ Throw(o, "failed")
    /\ excused' = (excused \/ o \in Backups)
    /\ UNCHANGED <<lock, stack, local, bucket, input, torn, touched, rehearsed, sent>>

Next ==
    \/ RemoveLock
    \/ \E o \in Runs :
          \/ Lock(o) \/ Unlock(o) \/ Kill(o)
          \/ StopGraph(o) \/ Drain(o) \/ StopCassandra(o) \/ Start(o) \/ StartGraph(o)
    \/ \E b \in Backups : Inspect(b) \/ Copy(b) \/ Copied(b) \/ WriteManifest(b)
    \/ \E r \in Restores : VerifyArchive(r) \/ Extract(r) \/ Rehearse(r) \/ Smoke(r)
    \/ \E u \in Uploads : Check(u) \/ Put(u) \/ ReadBack(u) \/ Mark(u)

Spec == Init /\ [][Next]_vars

-----------------------------------------------------------------------------
(* Properties.                                                             *)

\* backup.mjs:93, 'drained-and-stopped-full-data-directory': the archive of a
\* manifest is whole, tar having ended with 0, and other backups and restores,
\* failures and leftovers of killed runs never make the rest of it false; only
\* dev-data.mjs can, which does not look at the lock.
ManifestIsTrue ==
    \A b \in Backups :
        manifest[b] => archive[b] = "full" /\ (b \in torn => b \in touched)

\* backup.mjs:27, a backup or restore at work owns the lock, alone, whatever the
\* ones that were refused or killed did.
OneOperation ==
    \A o \in Locking : AtWork(o) => lock /\ \A p \in Locking : AtWork(p) => p = o

\* The stack is up again after every backup, failed ones included, unless an
\* error of docker compose up, a killed run or db:down said otherwise.
StartedAgain ==
    (\A b \in Backups : ~AtWork(b)) => Serving \/ excused

\* A successful rehearsal read its own new volume, into which the archive that was
\* passed had been extracted, and not that of another restore.
RehearsedItsOwn ==
    \A r \in Restores : pc[r] = "done" => rehearsed[r] = r

\* backup-upload.mjs:55: a completion manifest off-host has its archive, as
\* verified.  Another upload of the same backup may write over that archive and
\* spoil it, but then it has yet to read its own object back, or has failed: no
\* upload that ended well leaves a damaged archive under a manifest.
MarkedIsVerified ==
    \A b \in Backups : marked[b] =>
        \/ remote[b] = "good"
        \/ \E u \in sent : input[u] = b /\ pc[u] \in {"readBack", "failed"}

=============================================================================
