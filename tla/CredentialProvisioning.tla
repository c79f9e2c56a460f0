----------------------- MODULE CredentialProvisioning -----------------------
(***************************************************************************)
(* kubernetes.mjs provision-secret: operators on several workstations      *)
(* generate the credential files of one environment (secrets.mjs) and      *)
(* store them as the Secret cartyx-data of its namespace, or complete a    *)
(* Secret that predates the application credential.  Runs overlap, on one  *)
(* workstation or on several, and may be interrupted anywhere.             *)
(*                                                                         *)
(* Every file is random: a file is identified by the run that wrote it.    *)
(***************************************************************************)
EXTENDS Integers, Sequences

CONSTANTS
    Workstations,
    Runs,
    Place          \* the workstation a run is started on

\* Sets of files from earlier runs: the one in the Secret and one that never
\* got there.
Earlier == {"old", "other"}

ASSUME ProvisioningAssumption ==
    /\ Place \in [Runs -> Workstations]
    /\ Runs \cap (Earlier \cup {"none", "empty"}) = {}

\* The files in the order they are written.  "password" stands for the four
\* that come first, "crt" for the key and the certificate.
Order == <<"password", "appKey", "tlsPassword", "crt", "p12">>
Keys == {Order[i] : i \in 1..Len(Order)}

None == "none"
Empty == "empty"
Origins == Runs \cup Earlier
Contents == Origins \cup {None, Empty}

VARIABLES
    files,     \* of each workstation: .local/data/<environment>
    dir,       \* that directory exists
    secret,    \* the data of the Secret
    version,   \* its resourceVersion, 0 while there is no Secret
    pc,
    item,      \* of each run: the file that secrets.mjs writes
    route,     \* of each run: whether the Secret existed at the beginning
    seen,      \* of each run: the resourceVersion it has read
    value,     \* of each run: the appKey it is about to add
    disturbed  \* history: a call failed or a run was interrupted

local   == <<files, dir>>
cluster == <<secret, version>>
run     == <<pc, item, route, seen, value>>
vars    == <<local, cluster, run, disturbed>>

Ended == {"done", "failed", "interrupted"}
Places == {"check", "read", "look", "reuse", "mkdir", "open", "fill", "addOpen", "addFill",
           "value", "patch", "verify", "create"} \cup Ended

\* Files, Secret and runs stay within their types, and nothing but a complete
\* value is ever about to be stored.
TypeOK ==
    /\ files \in [Workstations -> [Keys -> Contents]]
    /\ dir \in [Workstations -> BOOLEAN]
    /\ secret \in [Keys -> Contents]
    /\ version \in Nat
    /\ pc \in [Runs -> Places]
    /\ item \in [Runs -> 1..Len(Order)]
    /\ route \in [Runs -> {"create", "patch"}]
    /\ seen \in [Runs -> Nat]
    /\ value \in [Runs -> Contents]
    /\ \A r \in Runs : pc[r] = "patch" => value[r] \in Origins
    /\ disturbed \in BOOLEAN

Nothing == [k \in Keys |-> None]
Complete(o) == [k \in Keys |-> o]
Legacy(o) == [k \in Keys |-> IF k = "appKey" THEN None ELSE o]

\* Workstations without files, with a set, or with one that predates appKey;
\* no Secret, a complete one, or one that predates appKey.
Init ==
    /\ files \in [Workstations -> {Nothing} \cup {Complete(o) : o \in Earlier}
                                            \cup {Legacy(o) : o \in Earlier}]
    /\ dir = [w \in Workstations |-> files[w] # Nothing]
    /\ \/ secret = Nothing /\ version = 0
       \/ secret \in {Legacy("old"), Complete("old")} /\ version = 1
    /\ pc = [r \in Runs |-> "check"]
    /\ item = [r \in Runs |-> 1]
    /\ route = [r \in Runs |-> "create"]
    /\ seen = [r \in Runs |-> 0]
    /\ value = [r \in Runs |-> None]
    /\ disturbed = FALSE

File(r, k) == files[Place[r]][k]
Exists(r, k) == File(r, k) # None
Goto(r, label) == pc' = [pc EXCEPT ![r] = label]

-----------------------------------------------------------------------------
(* kubernetes.mjs, up to secrets.mjs.                                      *)

\* Is there a Secret of that name?
Check(r) ==
    /\ pc[r] = "check"
    /\ Goto(r, IF version = 0 THEN "reuse" ELSE "read")
    /\ route' = [route EXCEPT ![r] = IF version = 0 THEN "create" ELSE "patch"]
    /\ UNCHANGED <<local, cluster, item, seen, value, disturbed>>

\* Seeded fault: any existing Secret is kept as it is.
ReadAndKeep(r) ==
    /\ pc[r] = "read"
    /\ seen' = [seen EXCEPT ![r] = version]
    /\ Goto(r, "done")
    /\ UNCHANGED <<local, cluster, item, route, value, disturbed>>

\* A Secret with the application credential is kept.
Read(r) ==
    /\ pc[r] = "read"
    /\ seen' = [seen EXCEPT ![r] = version]
    /\ Goto(r, IF secret["appKey"] # None THEN "done" ELSE "look")
    /\ UNCHANGED <<local, cluster, item, route, value, disturbed>>

\* Without the files of the environment nothing is added.
Look(r) ==
    /\ pc[r] = "look"
    /\ Goto(r, IF Exists(r, "p12") THEN "reuse" ELSE "failed")
    /\ UNCHANGED <<local, cluster, item, route, seen, value, disturbed>>

-----------------------------------------------------------------------------
(* secrets.mjs.                                                            *)

AfterSecrets(r) == IF route[r] = "patch" THEN "value" ELSE "verify"

\* Seeded fault: an existing directory is refused before it is looked at.
ReuseNever(r) ==
    /\ pc[r] = "reuse"
    /\ Goto(r, IF dir[Place[r]] THEN "failed" ELSE "mkdir")
    /\ UNCHANGED <<local, cluster, item, route, seen, value, disturbed>>

\* tls.p12 is written last and marks a complete set; to such a set only a
\* missing appKey is added.
Reuse(r) ==
    /\ pc[r] = "reuse"
    /\ Goto(r, IF Exists(r, "p12")
               THEN IF Exists(r, "appKey") THEN AfterSecrets(r) ELSE "addOpen"
               ELSE IF dir[Place[r]] THEN "failed" ELSE "mkdir")
    /\ UNCHANGED <<local, cluster, item, route, seen, value, disturbed>>

MakeDirectory(r) ==
    /\ pc[r] = "mkdir"
    /\ IF dir[Place[r]]
       THEN Goto(r, "failed") /\ UNCHANGED <<dir, item>>
       ELSE /\ dir' = [dir EXCEPT ![Place[r]] = TRUE]
            /\ item' = [item EXCEPT ![r] = 1]
            /\ Goto(r, "open")
    /\ UNCHANGED <<files, cluster, route, seen, value, disturbed>>

Write(r, k, content) == files' = [files EXCEPT ![Place[r]][k] = content]

\* Seeded fault: flag 'w' instead of 'wx'.
OpenAnyway(r, k, label) == Write(r, k, Empty) /\ Goto(r, label)

\* writeFileSync with flag 'wx' creates the file before it fills it.
Open(r, k, label) ==
    IF Exists(r, k) THEN Goto(r, "failed") /\ UNCHANGED files
                    ELSE Write(r, k, Empty) /\ Goto(r, label)

AddOpen(r) ==
    /\ pc[r] = "addOpen"
    /\ Open(r, "appKey", "addFill")
    /\ UNCHANGED <<dir, cluster, item, route, seen, value, disturbed>>

AddFill(r) ==
    /\ pc[r] = "addFill"
    /\ Write(r, "appKey", r)
    /\ Goto(r, AfterSecrets(r))
    /\ UNCHANGED <<dir, cluster, item, route, seen, value, disturbed>>

\* openssl, which writes the last two, truncates what exists.
OpenNext(r) ==
    /\ pc[r] = "open"
    /\ LET k == Order[item[r]] IN
       IF k \in {"crt", "p12"} THEN Write(r, k, Empty) /\ Goto(r, "fill")
                               ELSE Open(r, k, "fill")
    /\ UNCHANGED <<dir, cluster, item, route, seen, value, disturbed>>

FillNext(r) ==
    /\ pc[r] = "fill"
    /\ Write(r, Order[item[r]], r)
    /\ IF item[r] < Len(Order)
       THEN item' = [item EXCEPT ![r] = item[r] + 1] /\ Goto(r, "open")
       ELSE Goto(r, AfterSecrets(r)) /\ UNCHANGED item
    /\ UNCHANGED <<dir, cluster, route, seen, value, disturbed>>

-----------------------------------------------------------------------------
(* kubernetes.mjs, after secrets.mjs.                                      *)

ReadValue(r) ==
    /\ pc[r] = "value"
    /\ IF File(r, "appKey") \in {None, Empty}
       THEN Goto(r, "failed") /\ UNCHANGED value
       ELSE value' = [value EXCEPT ![r] = File(r, "appKey")] /\ Goto(r, "patch")
    /\ UNCHANGED <<local, cluster, item, route, seen, disturbed>>

\* A request that has its effect; its reply may be lost.
Answer(r) ==
    \/ Goto(r, "done") /\ UNCHANGED disturbed
    \/ Goto(r, "interrupted") /\ disturbed' = TRUE

\* Seeded fault: the JSON patch does not test the resourceVersion.
PatchUntested(r) ==
    /\ pc[r] = "patch"
    /\ secret' = [secret EXCEPT !["appKey"] = value[r]]
    /\ version' = version + 1
    /\ Answer(r)
    /\ UNCHANGED <<local, item, route, seen, value>>

Patch(r) ==
    /\ pc[r] = "patch"
    /\ IF version = seen[r]
       THEN /\ secret' = [secret EXCEPT !["appKey"] = value[r]]
            /\ version' = version + 1
            /\ Answer(r)
       ELSE Goto(r, "failed") /\ UNCHANGED <<cluster, disturbed>>
    /\ UNCHANGED <<local, item, route, seen, value>>

\* Seeded fault: a file has to exist but may be empty.
VerifyExistence(r) ==
    /\ pc[r] = "verify"
    /\ Goto(r, IF \A k \in Keys : Exists(r, k) THEN "create" ELSE "failed")
    /\ UNCHANGED <<local, cluster, item, route, seen, value, disturbed>>

Verify(r) ==
    /\ pc[r] = "verify"
    /\ Goto(r, IF \A k \in Keys : File(r, k) \notin {None, Empty} THEN "create" ELSE "failed")
    /\ UNCHANGED <<local, cluster, item, route, seen, value, disturbed>>

\* kubectl create reads the files again, and refuses an existing Secret.
Create(r) ==
    /\ pc[r] = "create"
    /\ IF version = 0
       THEN secret' = files[Place[r]] /\ version' = 1 /\ Answer(r)
       ELSE Goto(r, "failed") /\ UNCHANGED <<cluster, disturbed>>
    /\ UNCHANGED <<local, item, route, seen, value>>

\* A request is refused or times out without effect, or the run is killed.
Interrupt(r) ==
    /\ pc[r] \notin Ended
    /\ Goto(r, "interrupted")
    /\ disturbed' = TRUE
    /\ UNCHANGED <<local, cluster, item, route, seen, value>>

Next ==
    \E r \in Runs :
        \/ Check(r) \/ Read(r) \/ Look(r) \/ Reuse(r) \/ MakeDirectory(r)
        \/ AddOpen(r) \/ AddFill(r) \/ OpenNext(r) \/ FillNext(r)
        \/ ReadValue(r) \/ Patch(r) \/ Verify(r) \/ Create(r)
        \/ Interrupt(r)

Spec == Init /\ [][Next]_vars

-----------------------------------------------------------------------------
(* Properties.                                                             *)

\* README.md:122-123 of the chart: an existing key of the Secret is never
\* overwritten, however runs of several operators overlap.
NeverOverwritten ==
    [][\A k \in Keys : secret[k] # None => secret'[k] = secret[k]]_vars

\* Whatever the Secret holds is still in the files of the workstation where it
\* was generated: no later or overlapping run there replaces it.
SourceKeepsSecrets ==
    \A k \in Keys : secret[k] \in Runs => File(secret[k], k) = secret[k]

\* The Secret is one set: apart from the independent appKey its keys were
\* generated together, completely, although sets are left half written.
SecretIsOneSet ==
    version > 0 =>
        /\ \A k \in Keys : secret[k] # Empty
        /\ \E o \in Origins : \A k \in Keys \ {"appKey"} : secret[k] = o

\* After a run that succeeded, with whatever others did, JanusGraph finds every
\* key it refuses to start without.
SuccessIsComplete ==
    (\E r \in Runs : pc[r] = "done") => \A k \in Keys : secret[k] \in Origins

\* Overlapping runs do not defeat each other: undisturbed, they end with a
\* complete Secret unless it wants an appKey and none of them has the files.
OneSucceeds ==
    (~disturbed /\ \A r \in Runs : pc[r] \in Ended) =>
        \/ \A k \in Keys : secret[k] \in Origins
        \/ version > 0 /\ \A r \in Runs : ~Exists(r, "p12")

=============================================================================
