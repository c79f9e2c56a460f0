------------------------- MODULE CassandraBootstrap -------------------------
(***************************************************************************)
(* cassandra-admin.py bootstrap: the pods that create the administrator,   *)
(* the keyspaces and the scoped roles, and disable the default login; and  *)
(* what waits for them.  Pods of several Jobs (one per Helm revision) and  *)
(* of one Job's retries may overlap.                                       *)
(*                                                                         *)
(* cqlsh runs a batch statement by statement and goes on after a failed    *)
(* one; the program sees failures only when cqlsh has ended.               *)
(***************************************************************************)
EXTENDS Integers, Sequences

CONSTANTS
    Pods,                   \* every bootstrap pod that will ever run
    LoginTries, RunTries,   \* 60 and 12 attempts
    FaultyTries,            \* faults occur in so many attempts of each loop
    Unlucky                 \* the pods whose every attempt may meet a fault

ASSUME BootstrapAssumption ==
    /\ LoginTries \in Nat \ {0} /\ RunTries \in Nat \ {0}
    /\ FaultyTries \in Nat /\ Unlucky \subseteq Pods

\* The batch, in order.  The two grants on the state keyspace are one here.
Statements == <<"graphKeyspace", "stateKeyspace", "graphRole", "stateRole",
                "graphGrant", "stateGrant", "probeTable", "disableDefault",
                "probe">>

AllStatements == {Statements[i] : i \in 1..Len(Statements)}

\* What Cassandra requires to exist before it accepts a statement.
Needs(s) ==
    CASE s = "graphGrant" -> {"graphKeyspace", "graphRole"}
      [] s = "stateGrant" -> {"stateKeyspace", "stateRole"}
      [] s = "probeTable" -> {"stateKeyspace"}
      [] s = "probe"      -> {"probeTable"}
      [] OTHER            -> {}

VARIABLES
    admin,      \* cartyx_admin: absent, with our password or another's
    applied,    \* the statements whose effect is in the database
    pc, tries,  \* of each pod: its place, the attempts of its loop so far
    next,       \* of each pod: the statement cqlsh executes next
    failed,     \* of each pod: a statement of this attempt has failed
    graph,      \* JanusGraph's init container has passed
    proxy       \* Compose has started what waits for cassandra-init

database == <<admin, applied>>
pod      == <<pc, tries, next, failed>>
opened   == <<graph, proxy>>
vars     == <<database, pod, opened>>

\* Each pod and the database stay within their types, and no loop makes more
\* attempts than it may.
TypeOK ==
    /\ admin \in {"none", "ours", "other"}
    /\ applied \subseteq AllStatements
    /\ pc \in [Pods -> {"new", "login", "create", "run", "done", "failed", "killed"}]
    /\ tries \in [Pods -> Nat]
    /\ \A p \in Pods :
          /\ pc[p] \in {"login", "create"} => tries[p] < LoginTries
          /\ pc[p] = "run" => tries[p] < RunTries
    /\ next \in [Pods -> 1..Len(Statements)]
    /\ failed \in [Pods -> BOOLEAN]
    /\ graph \in BOOLEAN /\ proxy \in BOOLEAN

DefaultLogin == "disableDefault" \notin applied

\* A new volume, or one whose bootstrap used other credentials and was
\* finished or stopped as soon as the administrator existed.
Init ==
    /\ \/ admin = "none" /\ applied = {}
       \/ admin = "other" /\ applied \in {{}, AllStatements}
    /\ pc = [p \in Pods |-> "new"]
    /\ tries = [p \in Pods |-> 0]
    /\ next = [p \in Pods |-> 1]
    /\ failed = [p \in Pods |-> FALSE]
    /\ graph = FALSE /\ proxy = FALSE

Active(p) == pc[p] \in {"login", "create", "run"}

\* A query may go wrong: no connection, no answer, role cache not yet filled.
Faulty(p) == p \in Unlucky \/ tries[p] < FaultyTries

Start(p) ==
    /\ pc[p] = "new"
    /\ pc' = [pc EXCEPT ![p] = "login"]
    /\ UNCHANGED <<database, tries, next, failed, opened>>

-----------------------------------------------------------------------------
(* The first loop: log in as administrator, or else create it.             *)

NextLogin(p) ==
    /\ tries' = [tries EXCEPT ![p] = tries[p] + 1]
    /\ pc' = [pc EXCEPT ![p] = IF tries[p] + 1 < LoginTries THEN "login" ELSE "failed"]
    /\ UNCHANGED <<next, failed>>

\* Seeded fault: the loop ends without an administrator, and the batch is run
\* by the default account.
LoggedInUnchecked(p) ==
    /\ pc' = [pc EXCEPT ![p] = "run"]
    /\ tries' = [tries EXCEPT ![p] = 0]
    /\ UNCHANGED <<next, failed>>

LoggedIn(p) ==
    /\ admin = "ours"
    /\ pc' = [pc EXCEPT ![p] = "run"]
    /\ tries' = [tries EXCEPT ![p] = 0]
    /\ UNCHANGED <<next, failed>>

\* The second disjunct is a TimeoutExpired, which skips the creation.
Login(p) ==
    /\ pc[p] = "login"
    /\ \/ LoggedIn(p)
       \/ Faulty(p) /\ NextLogin(p)
       \/ /\ Faulty(p) \/ admin # "ours"
          /\ pc' = [pc EXCEPT ![p] = "create"]
          /\ UNCHANGED <<tries, next, failed>>
    /\ UNCHANGED <<database, opened>>

\* Seeded fault: CREATE OR REPLACE instead of CREATE ROLE IF NOT EXISTS.
Replaced == "ours"

Created == IF admin = "none" THEN "ours" ELSE admin

Create(p) ==
    /\ pc[p] = "create"
    /\ \/ DefaultLogin /\ admin' = Created
       \/ (Faulty(p) \/ ~DefaultLogin) /\ UNCHANGED admin
    /\ NextLogin(p)
    /\ UNCHANGED <<applied, opened>>

-----------------------------------------------------------------------------
(* The second loop: the batch, as administrator.                           *)

NextRun(p) ==
    /\ tries' = [tries EXCEPT ![p] = tries[p] + 1]
    /\ pc' = [pc EXCEPT ![p] = IF tries[p] + 1 < RunTries THEN "run" ELSE "failed"]
    /\ next' = [next EXCEPT ![p] = 1]
    /\ failed' = [failed EXCEPT ![p] = FALSE]

\* Seeded fault: the statements are not idempotent (no IF NOT EXISTS).
AcceptedOnce(s) == Needs(s) \subseteq applied /\ s \notin applied

Accepted(s) == Needs(s) \subseteq applied

\* Seeded fault: only the last statement decides whether the batch succeeded.
LastOutcome(p, ok) == ~ok

\* The exit code and the markers in stderr tell of any failed statement.
Outcome(p, ok) == failed[p] \/ ~ok

Apply(s) == applied' = applied \cup {s}

Execute(p) ==
    /\ pc[p] = "run"
    /\ LET s == Statements[next[p]] IN
       \E ok \in BOOLEAN :
          /\ \/ Accepted(s) /\ Apply(s) /\ (ok \/ Faulty(p))
             \/ ~ok /\ (Faulty(p) \/ ~Accepted(s)) /\ UNCHANGED applied
          /\ IF next[p] < Len(Statements)
             THEN /\ next' = [next EXCEPT ![p] = next[p] + 1]
                  /\ failed' = [failed EXCEPT ![p] = Outcome(p, ok)]
                  /\ UNCHANGED <<pc, tries>>
             ELSE IF Outcome(p, ok)
                  THEN NextRun(p)
                  ELSE pc' = [pc EXCEPT ![p] = "done"] /\ UNCHANGED <<tries, next, failed>>
    /\ UNCHANGED <<admin, opened>>

\* cqlsh cannot connect, or is killed after 30 seconds.
Abort(p) ==
    /\ pc[p] = "run" /\ Faulty(p)
    /\ NextRun(p)
    /\ UNCHANGED <<database, opened>>

\* activeDeadlineSeconds, an eviction, or an upgrade that removes the old Job.
Kill(p) ==
    /\ Active(p)
    /\ pc' = [pc EXCEPT ![p] = "killed"]
    /\ UNCHANGED <<database, tries, next, failed, opened>>

-----------------------------------------------------------------------------
(* What waits for the bootstrap.                                           *)

\* cassandra-admin.py ready, as the readiness probe and wait-for-cassandra.
Ready == admin = "ours" /\ "probe" \in applied

StartGraph ==
    /\ Ready /\ ~graph
    /\ graph' = TRUE
    /\ UNCHANGED <<database, pod, proxy>>

\* Compose: condition service_completed_successfully.
StartProxy ==
    /\ ~proxy
    /\ \E p \in Pods : pc[p] = "done"
    /\ proxy' = TRUE
    /\ UNCHANGED <<database, pod, graph>>

PodStep(p) == Login(p) \/ Create(p) \/ Execute(p) \/ Abort(p)

Next ==
    \/ \E p \in Pods : Start(p) \/ PodStep(p) \/ Kill(p)
    \/ StartGraph \/ StartProxy

Spec == Init /\ [][Next]_vars

\* A running pod goes on; nothing else is promised.
FairSpec == Spec /\ \A p \in Pods : WF_vars(PodStep(p))

-----------------------------------------------------------------------------
(* Properties.                                                             *)

\* The default login is only ever disabled while an administrator whose
\* password someone holds can log in, in whatever order attempts overlap.
AdministratorRemains == ~DefaultLogin => admin # "none"

\* A pod that reports success leaves everything provisioned, although only its
\* last attempt was free of errors; nothing that Compose starts afterwards can
\* reach a cluster that still accepts the default login.
SuccessIsComplete ==
    proxy \/ (\E p \in Pods : pc[p] = "done")
        => admin = "ours" /\ applied = AllStatements

\* A volume that was provisioned with other credentials is never changed, and
\* no pod succeeds on it.
OtherVolumeUntouched ==
    [][admin = "other" => UNCHANGED <<database, opened>>]_vars

\* Readiness as the program's head describes the order: the default login has
\* been disabled by then.
ReadyMeansLockedDown == Ready => ~DefaultLogin

\* When the last attempts of each loop of a pod meet no fault, the pod, unless
\* it is killed, completes the bootstrap, whatever its earlier attempts left
\* half done and whatever faults other pods go on meeting: every statement is
\* idempotent, and no attempt takes anything back.
BootstrapCompletes ==
    \A p \in Pods \ Unlucky :
        (pc[p] = "login" /\ admin # "other") ~> (pc[p] \in {"done", "killed"})

=============================================================================
