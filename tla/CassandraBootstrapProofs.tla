---------------------- MODULE CassandraBootstrapProofs ----------------------
(* Proofs about CassandraBootstrap, for any number of overlapping pods and *)
(* any number of attempts and faults.                                      *)
EXTENDS CassandraBootstrap, TLAPS

-----------------------------------------------------------------------------
(* The inductive invariant.                                                *)

\* Nothing is applied before the administrator exists, and a batch is run only
\* by pods that have logged in with their own password.
AdminOK ==
    /\ admin = "none" => applied = {}
    /\ \A p \in Pods : pc[p] \in {"run", "done"} => admin = "ours"

\* As long as a pod has seen no statement of its batch fail, the ones before
\* the next are in effect; a pod ends well only with all of them.
BatchOK ==
    /\ \A p \in Pods :
          /\ pc[p] = "run" /\ ~failed[p] =>
                \A i \in 1..(next[p] - 1) : Statements[i] \in applied
          /\ pc[p] = "done" => applied = AllStatements
    /\ proxy => admin = "ours" /\ applied = AllStatements

\* A pod before the second loop is at the beginning of the batch, and a new
\* one has made no attempt.
NextOK ==
    \A p \in Pods :
        /\ pc[p] \in {"new", "login", "create"} => next[p] = 1 /\ ~failed[p]
        /\ pc[p] = "new" => tries[p] = 0

IInv == TypeOK /\ AdminOK /\ BatchOK /\ NextOK

-----------------------------------------------------------------------------
(* Lemmas about the batch.                                                 *)

\* The batch has nine statements.
LEMMA NineStatements ==
    /\ Len(Statements) = 9
    /\ \A i \in 1..9 : Statements[i] \in AllStatements
    /\ \A s \in AllStatements : \E i \in 1..9 : s = Statements[i]
  BY DEF Statements, AllStatements

\* A statement only ever adds to what is in effect.
LEMMA ApplyAdds ==
    ASSUME NEW i \in 1..9, applied \subseteq AllStatements, Apply(Statements[i])
    PROVE  /\ applied \subseteq applied'
           /\ applied' \subseteq AllStatements
           /\ Statements[i] \in applied'
  BY NineStatements DEF Apply

\* What a statement needs comes before it in the batch.
LEMMA NeededComeFirst ==
    ASSUME NEW k \in 1..9, \A i \in 1..(k - 1) : Statements[i] \in applied
    PROVE  Needs(Statements[k]) \subseteq applied
  <1>1. \A i \in {j \in 1..9 : j < k} : Statements[i] \in applied
    OBVIOUS
  <1> QED
    BY <1>1 DEF Statements, Needs

-----------------------------------------------------------------------------
LEMMA InitEstablishes == Init => IInv
  <1> SUFFICES ASSUME Init PROVE IInv
    OBVIOUS
  <1>1. TypeOK
    <2>1. 1 \in 1..Len(Statements)
      BY NineStatements
    <2>2. next \in [Pods -> 1..Len(Statements)] /\ failed \in [Pods -> BOOLEAN]
      BY <2>1 DEF Init
    <2>3. tries \in [Pods -> Nat] /\ \A p \in Pods : pc[p] = "new"
      BY DEF Init
    <2> QED
      BY <2>2, <2>3 DEF Init, TypeOK
  <1>2. AdminOK /\ BatchOK /\ NextOK
    BY DEF Init, AdminOK, BatchOK, NextOK
  <1> QED
    BY <1>1, <1>2 DEF IInv

LEMMA StartPreserves ==
    ASSUME NEW p \in Pods, IInv, Start(p)
    PROVE  IInv'
  <1>1. TypeOK'
    <2>1. tries' = tries /\ \A q \in Pods : q # p => pc'[q] = pc[q]
      BY DEF IInv, TypeOK, Start
    <2>2. pc'[p] = "login"
      BY DEF IInv, TypeOK, Start
    <2>3. pc' \in [Pods -> {"new", "login", "create", "run", "done", "failed", "killed"}]
      BY DEF IInv, TypeOK, Start
    <2>4. tries[p] = 0
      BY DEF IInv, NextOK, Start
    <2>5. \A q \in Pods :
            /\ pc'[q] \in {"login", "create"} => tries[q] < LoginTries
            /\ pc'[q] = "run" => tries[q] < RunTries
      BY <2>1, <2>2, <2>4, BootstrapAssumption DEF IInv, TypeOK
    <2> QED
      BY <2>1, <2>3, <2>5 DEF IInv, TypeOK, Start, database, opened
  <1>2. AdminOK' /\ BatchOK' /\ NextOK'
    BY DEF IInv, TypeOK, AdminOK, BatchOK, NextOK, Start, database, opened
  <1> QED
    BY <1>1, <1>2 DEF IInv

LEMMA LoginPreserves ==
    ASSUME NEW p \in Pods, IInv, Login(p)
    PROVE  IInv'
  <1>1. TypeOK'
    <2>0. \/ LoggedIn(p)
          \/ NextLogin(p)
          \/ pc' = [pc EXCEPT ![p] = "create"] /\ UNCHANGED <<tries, next, failed>>
      BY DEF Login
    <2>1. /\ pc' \in [Pods -> {"new", "login", "create", "run", "done", "failed", "killed"}]
          /\ tries' \in [Pods -> Nat]
      <3>1. CASE LoggedIn(p)
        BY <3>1 DEF IInv, TypeOK, LoggedIn
      <3>2. CASE NextLogin(p)
        BY <3>2 DEF IInv, TypeOK, NextLogin
      <3>3. CASE pc' = [pc EXCEPT ![p] = "create"] /\ UNCHANGED tries
        BY <3>3 DEF IInv, TypeOK
      <3> QED
        BY <2>0, <3>1, <3>2, <3>3
    <2>2. \A q \in Pods \ {p} : pc'[q] = pc[q] /\ tries'[q] = tries[q]
      BY DEF IInv, TypeOK, Login, LoggedIn, NextLogin
    <2>3. /\ pc'[p] \in {"login", "create"} => tries'[p] < LoginTries
          /\ pc'[p] = "run" => tries'[p] < RunTries
      BY BootstrapAssumption DEF IInv, TypeOK, Login, LoggedIn, NextLogin
    <2>4. UNCHANGED <<database, next, failed, opened>>
      BY DEF Login, LoggedIn, NextLogin
    <2>5. \A q \in Pods :
            /\ pc'[q] \in {"login", "create"} => tries'[q] < LoginTries
            /\ pc'[q] = "run" => tries'[q] < RunTries
      BY <2>2, <2>3 DEF IInv, TypeOK
    <2> QED
      BY <2>1, <2>4, <2>5 DEF IInv, TypeOK, database, opened
  <1>2. AdminOK'
    BY DEF IInv, TypeOK, AdminOK, Login, LoggedIn, NextLogin, database, opened
  <1>3. BatchOK'
    BY DEF IInv, TypeOK, BatchOK, NextOK, Login, LoggedIn, NextLogin, database, opened
  <1>4. NextOK'
    BY DEF IInv, TypeOK, NextOK, Login, LoggedIn, NextLogin
  <1> QED
    BY <1>1, <1>2, <1>3, <1>4 DEF IInv

LEMMA CreatePreserves ==
    ASSUME NEW p \in Pods, IInv, Create(p)
    PROVE  IInv'
  <1>1. TypeOK'
    BY BootstrapAssumption
    DEF IInv, TypeOK, Create, Created, NextLogin, opened
  <1>2. AdminOK'
    BY DEF IInv, TypeOK, AdminOK, Create, Created, NextLogin, opened
  <1>3. BatchOK'
    BY DEF IInv, TypeOK, BatchOK, Create, Created, NextLogin, opened
  <1>4. NextOK'
    BY DEF IInv, TypeOK, NextOK, Create, NextLogin
  <1> QED
    BY <1>1, <1>2, <1>3, <1>4 DEF IInv

LEMMA NextRunKeeps ==
    ASSUME NEW p \in Pods, IInv, pc[p] = "run", NextRun(p),
           applied \subseteq applied', applied' \subseteq AllStatements,
           UNCHANGED <<admin, opened>>
    PROVE  IInv'
  <1>0. /\ pc' \in [Pods -> {"new", "login", "create", "run", "done", "failed", "killed"}]
        /\ tries' \in [Pods -> Nat]
        /\ next' \in [Pods -> 1..Len(Statements)]
    BY NineStatements DEF IInv, TypeOK, NextRun
  <1>a. failed' \in [Pods -> BOOLEAN] /\ failed'[p] = FALSE
    BY DEF IInv, TypeOK, NextRun
  <1>b. \A q \in Pods \ {p} : /\ pc'[q] = pc[q] /\ tries'[q] = tries[q]
                             /\ next'[q] = next[q] /\ failed'[q] = failed[q]
    BY DEF IInv, TypeOK, NextRun
  <1>c. /\ next'[p] = 1 /\ pc'[p] \in {"run", "failed"}
        /\ pc'[p] = "run" => tries'[p] < RunTries
    BY DEF IInv, TypeOK, NextRun
  <1>1. TypeOK'
    <2>1. \A q \in Pods :
            /\ pc'[q] \in {"login", "create"} => tries'[q] < LoginTries
            /\ pc'[q] = "run" => tries'[q] < RunTries
      BY <1>b, <1>c DEF IInv, TypeOK
    <2> QED
      BY <1>0, <1>a, <2>1 DEF IInv, TypeOK, opened
  <1>2. AdminOK'
    BY DEF IInv, TypeOK, AdminOK, NextRun, opened
  <1>3. BatchOK'
    <2>1. \A q \in Pods : pc'[q] = "done" => applied' = AllStatements
      BY <1>b, <1>c DEF IInv, BatchOK
    <2>2. ASSUME NEW q \in Pods, pc'[q] = "run" /\ ~failed'[q],
                 NEW k \in 1..(next'[q] - 1)
          PROVE  Statements[k] \in applied'
      <3>1. q # p
        BY <1>c, <2>2
      <3> QED
        BY <3>1, <1>b, <2>2 DEF IInv, BatchOK
    <2>3. proxy' => admin' = "ours" /\ applied' = AllStatements
      BY DEF IInv, BatchOK, opened
    <2> QED
      BY <2>1, <2>2, <2>3 DEF BatchOK
  <1>4. NextOK'
    BY DEF IInv, TypeOK, NextOK, NextRun
  <1> QED
    BY <1>1, <1>2, <1>3, <1>4 DEF IInv

LEMMA ExecutePreserves ==
    ASSUME NEW p \in Pods, IInv, Execute(p)
    PROVE  IInv'
  <1> DEFINE i == next[p]
  <1>1. pc[p] = "run" /\ i \in 1..9 /\ admin = "ours" /\ UNCHANGED <<admin, opened>>
    BY NineStatements DEF Execute, IInv, TypeOK, AdminOK
  <1>2. PICK ok \in BOOLEAN :
          /\ \/ Accepted(Statements[i]) /\ Apply(Statements[i]) /\ (ok \/ Faulty(p))
             \/ ~ok /\ (Faulty(p) \/ ~Accepted(Statements[i])) /\ UNCHANGED applied
          /\ IF i < Len(Statements)
             THEN /\ next' = [next EXCEPT ![p] = i + 1]
                  /\ failed' = [failed EXCEPT ![p] = Outcome(p, ok)]
                  /\ UNCHANGED <<pc, tries>>
             ELSE IF Outcome(p, ok)
                  THEN NextRun(p)
                  ELSE pc' = [pc EXCEPT ![p] = "done"] /\ UNCHANGED <<tries, next, failed>>
    BY DEF Execute
  <1>3. applied \subseteq applied' /\ applied' \subseteq AllStatements
    BY <1>1, <1>2, ApplyAdds DEF IInv, TypeOK
  <1>4. ok => Statements[i] \in applied'
    BY <1>1, <1>2, ApplyAdds DEF IInv, TypeOK
  <1>5. CASE i < 9
    <2>1. /\ next' = [next EXCEPT ![p] = i + 1]
          /\ failed' = [failed EXCEPT ![p] = Outcome(p, ok)]
          /\ UNCHANGED <<pc, tries>>
      BY <1>2, <1>5, NineStatements
    <2>2. TypeOK'
      <3>1. next' \in [Pods -> 1..Len(Statements)]
        BY <2>1, <1>1, <1>5, NineStatements DEF IInv, TypeOK
      <3>2. Outcome(p, ok) \in BOOLEAN
        BY DEF Outcome, IInv, TypeOK
      <3>3. failed' \in [Pods -> BOOLEAN]
        BY <2>1, <3>2, Zenon DEF IInv, TypeOK
      <3> QED
        BY <3>1, <3>3, <2>1, <1>1, <1>3 DEF IInv, TypeOK, opened
    <2>3. AdminOK'
      BY <1>1, <2>1 DEF IInv, AdminOK
    <2>4. BatchOK'
      <3>1. ASSUME NEW q \in Pods, pc'[q] = "run", ~failed'[q], NEW k \in 1..(next'[q] - 1)
            PROVE  Statements[k] \in applied'
        <4>1. CASE q # p
          BY <4>1, <3>1, <2>1, <1>3 DEF IInv, TypeOK, BatchOK
        <4>2. CASE q = p
          <5>1. next'[p] = i + 1 /\ failed'[p] = Outcome(p, ok)
            BY <2>1, Zenon DEF IInv, TypeOK
          <5>2. ~failed[p] /\ ok
            BY <5>1, <4>2, <3>1 DEF Outcome
          <5>3. CASE k = i
            BY <5>3, <5>2, <1>4
          <5>4. CASE k # i
            BY <5>4, <5>1, <5>2, <4>2, <1>1, <1>3 DEF IInv, BatchOK
          <5> QED
            BY <5>3, <5>4
        <4> QED
          BY <4>1, <4>2
      <3>2. ASSUME NEW q \in Pods, pc'[q] = "done" \/ proxy'
            PROVE  admin' = "ours" /\ applied' = AllStatements
        BY <3>2, <2>1, <1>1, <1>3 DEF IInv, BatchOK, AdminOK, opened
      <3>3. proxy' => admin' = "ours" /\ applied' = AllStatements
        BY <1>1, <1>3 DEF IInv, BatchOK, opened
      <3> QED
        BY <3>1, <3>2, <3>3 DEF BatchOK
    <2>5. NextOK'
      BY <2>1, <1>1 DEF IInv, TypeOK, NextOK
    <2> QED
      BY <2>2, <2>3, <2>4, <2>5 DEF IInv
  <1>6. CASE i = 9 /\ Outcome(p, ok)
    BY <1>1, <1>2, <1>3, <1>6, NextRunKeeps, NineStatements
  <1>7. CASE i = 9 /\ ~Outcome(p, ok)
    <2>1. pc' = [pc EXCEPT ![p] = "done"] /\ UNCHANGED <<tries, next, failed>>
      BY <1>2, <1>7, NineStatements
    <2>2. ~failed[p] /\ ok
      BY <1>7 DEF Outcome
    <2>3. applied' = AllStatements
      <3>1. \A k \in 1..9 : Statements[k] \in applied'
        BY <2>2, <1>1, <1>3, <1>4, <1>7 DEF IInv, BatchOK
      <3> QED
        BY <3>1, <1>3, NineStatements
    <2>4. TypeOK'
      BY <2>1, <1>1, <1>3 DEF IInv, TypeOK, opened
    <2>5. AdminOK' /\ BatchOK' /\ NextOK'
      BY <2>1, <2>3, <1>1, NineStatements
      DEF IInv, TypeOK, AdminOK, BatchOK, NextOK, opened
    <2> QED
      BY <2>4, <2>5 DEF IInv
  <1> QED
    BY <1>1, <1>5, <1>6, <1>7

LEMMA AbortPreserves ==
    ASSUME NEW p \in Pods, IInv, Abort(p)
    PROVE  IInv'
  BY NextRunKeeps DEF Abort, IInv, TypeOK, database, opened

LEMMA KillPreserves ==
    ASSUME NEW p \in Pods, IInv, Kill(p)
    PROVE  IInv'
  <1>1. TypeOK'
    BY DEF IInv, TypeOK, Kill, database, opened
  <1>2. AdminOK' /\ BatchOK' /\ NextOK'
    BY DEF IInv, TypeOK, AdminOK, BatchOK, NextOK, Kill, database, opened
  <1> QED
    BY <1>1, <1>2 DEF IInv

LEMMA OpenPreserves ==
    ASSUME IInv, StartGraph \/ StartProxy
    PROVE  IInv'
  <1>0. UNCHANGED <<database, pod>> /\ graph' \in BOOLEAN /\ proxy' \in BOOLEAN
    BY DEF StartGraph, StartProxy, IInv, TypeOK
  <1>1. TypeOK' /\ NextOK' /\ AdminOK'
    BY <1>0 DEF IInv, TypeOK, NextOK, AdminOK, database, pod
  <1>2. proxy' => admin = "ours" /\ applied = AllStatements
    BY DEF StartGraph, StartProxy, IInv, BatchOK, AdminOK
  <1>3. BatchOK'
    BY <1>0, <1>2 DEF IInv, BatchOK, database, pod
  <1> QED
    BY <1>1, <1>3 DEF IInv

LEMMA StepPreserves == IInv /\ [Next]_vars => IInv'
  <1> SUFFICES ASSUME IInv, [Next]_vars PROVE IInv'
    OBVIOUS
  <1>1. CASE \E p \in Pods : Start(p) \/ PodStep(p) \/ Kill(p)
    BY <1>1, StartPreserves, LoginPreserves, CreatePreserves, ExecutePreserves,
       AbortPreserves, KillPreserves DEF PodStep
  <1>2. CASE StartGraph \/ StartProxy
    BY <1>2, OpenPreserves
  <1>3. CASE UNCHANGED vars
    BY <1>3
    DEF vars, database, pod, opened, IInv, TypeOK, AdminOK, BatchOK, NextOK
  <1> QED
    BY <1>1, <1>2, <1>3 DEF Next

LEMMA Inductive == Spec => []IInv
  BY InitEstablishes, StepPreserves, PTL DEF Spec

-----------------------------------------------------------------------------
(* The theorems.                                                           *)

\* The pods and the database stay within their types and no loop exceeds its
\* number of attempts.
THEOREM BootstrapTypes == Spec => []TypeOK
  BY Inductive, PTL DEF IInv

\* cassandra-admin.py never disables the default login before an administrator
\* exists.
THEOREM NeverLockedOut == Spec => []AdministratorRemains
  <1>1. IInv => AdministratorRemains
    BY DEF IInv, AdminOK, AdministratorRemains, DefaultLogin
  <1> QED
    BY <1>1, Inductive, PTL

\* Exit code 0 of any pod means that every keyspace, role and grant is in place
\* and the default login is gone; the proxy starts only then.
THEOREM SuccessMeansProvisioned == Spec => []SuccessIsComplete
  <1>1. IInv => SuccessIsComplete
    BY DEF IInv, AdminOK, BatchOK, SuccessIsComplete
  <1> QED
    BY <1>1, Inductive, PTL

\* A volume provisioned with other credentials is left as it is.
THEOREM OthersAreLeftAlone == Spec => OtherVolumeUntouched
  <1>1. IInv /\ [Next]_vars => [admin = "other" => UNCHANGED <<database, opened>>]_vars
    <2> SUFFICES ASSUME IInv, Next, admin = "other"
                 PROVE  UNCHANGED <<database, opened>>
      OBVIOUS
    <2>1. \A p \in Pods : pc[p] \notin {"run", "done"}
      BY DEF IInv, AdminOK
    <2>2. CASE \E p \in Pods : Start(p) \/ PodStep(p) \/ Kill(p)
      <3>1. PICK p \in Pods : Start(p) \/ PodStep(p) \/ Kill(p)
        BY <2>2
      <3>2. CASE Start(p) \/ Login(p) \/ Kill(p)
        BY <3>2 DEF Start, Login, Kill
      <3>3. CASE Create(p)
        BY <3>3 DEF Create, Created, database
      <3>4. ~Execute(p) /\ ~Abort(p)
        BY <2>1 DEF Execute, Abort
      <3> QED
        BY <3>1, <3>2, <3>3, <3>4 DEF PodStep
    <2>3. ~StartGraph /\ ~StartProxy
      BY <2>1 DEF StartGraph, StartProxy, Ready
    <2> QED
      BY <2>2, <2>3 DEF Next
  <1> QED
    BY <1>1, Inductive, PTL DEF Spec, OtherVolumeUntouched

-----------------------------------------------------------------------------
(* Why a pod fails.                                                        *)

\* As a pod without bad luck goes on, a failure has fewer and fewer excuses: an
\* attempt without a fault leaves an administrator, only a foreign one keeps
\* the next such attempt from logging in, and a batch without a fault is the
\* last.
Untroubled(p) ==
    p \notin Unlucky =>
        /\ pc[p] \in {"login", "create"} /\ tries[p] > FaultyTries => admin # "none"
        /\ pc[p] = "create" /\ tries[p] > FaultyTries => admin = "other"
        /\ pc[p] = "run" => tries[p] \leq FaultyTries
        /\ pc[p] = "run" /\ tries[p] = FaultyTries => ~failed[p]
        /\ pc[p] = "failed" => admin = "other"

\* Each loop has room for the attempts without a fault that a pod may need.
EnoughTries == FaultyTries + 2 \leq LoginTries /\ FaultyTries < RunTries

\* An administrator stays, and a foreign one stays foreign.
LEMMA AdministratorStays ==
    ASSUME IInv, [Next]_vars
    PROVE  /\ admin # "none" => admin' = admin
           /\ admin' \in {"none", "ours", "other"}
  <1>1. ASSUME NEW p \in Pods, Start(p) \/ Login(p) \/ Execute(p) \/ Abort(p) \/ Kill(p)
        PROVE  admin' = admin
    BY <1>1 DEF Start, Login, Execute, Abort, Kill, database
  <1>2. ASSUME NEW p \in Pods, Create(p)
        PROVE  admin' = Created \/ admin' = admin
    BY <1>2 DEF Create
  <1>3. StartGraph \/ StartProxy \/ UNCHANGED vars => admin' = admin
    BY DEF StartGraph, StartProxy, vars, database
  <1>4. admin' = admin \/ admin' = Created
    BY <1>1, <1>2, <1>3 DEF Next, PodStep
  <1> QED
    BY <1>4 DEF Created, IInv, TypeOK

\* A pod that does not move keeps its record.
LEMMA OthersStayUntroubled ==
    ASSUME IInv, [Next]_vars, NEW q \in Pods, Untroubled(q),
           pc'[q] = pc[q], tries'[q] = tries[q], failed'[q] = failed[q]
    PROVE  Untroubled(q)'
  BY AdministratorStays DEF Untroubled

\* Once a pod's logins meet no fault, only a foreign password refuses them.
LEMMA LoginStaysUntroubled ==
    ASSUME IInv, EnoughTries, NEW p \in Pods, Untroubled(p), Login(p)
    PROVE  Untroubled(p)'
  <1>1. /\ pc[p] = "login" /\ admin' = admin /\ tries[p] \in Nat
        /\ admin \in {"none", "ours", "other"} /\ failed[p] = FALSE
    BY DEF Login, IInv, TypeOK, NextOK, database
  <1>2. CASE LoggedIn(p)
    <2>1. pc'[p] = "run" /\ tries'[p] = 0 /\ failed'[p] = failed[p]
      BY <1>2 DEF LoggedIn, IInv, TypeOK
    <2> QED
      BY <1>1, <2>1, BootstrapAssumption DEF Untroubled
  <1>3. CASE Faulty(p) /\ NextLogin(p)
    <2>1. /\ tries'[p] = tries[p] + 1
          /\ pc'[p] = IF tries[p] + 1 < LoginTries THEN "login" ELSE "failed"
      BY <1>3 DEF NextLogin, IInv, TypeOK
    <2>2. p \notin Unlucky => tries[p] < FaultyTries
      BY <1>3 DEF Faulty
    <2> QED
      BY <1>1, <2>1, <2>2, BootstrapAssumption DEF Untroubled, EnoughTries
  <1>4. CASE /\ Faulty(p) \/ admin # "ours"
             /\ pc' = [pc EXCEPT ![p] = "create"]
             /\ UNCHANGED <<tries, next, failed>>
    <2>1. pc'[p] = "create" /\ tries'[p] = tries[p]
      BY <1>4 DEF IInv, TypeOK
    <2>2. p \notin Unlucky /\ tries[p] > FaultyTries => admin # "ours"
      BY <1>1, <1>4, BootstrapAssumption DEF Faulty
    <2> QED
      BY <1>1, <2>1, <2>2 DEF Untroubled
  <1> QED
    BY <1>2, <1>3, <1>4 DEF Login

\* A creation without a fault leaves an administrator.
LEMMA CreateStaysUntroubled ==
    ASSUME IInv, EnoughTries, NEW p \in Pods, Untroubled(p), Create(p)
    PROVE  Untroubled(p)'
  <1>1. /\ pc[p] = "create" /\ tries[p] \in Nat /\ admin \in {"none", "ours", "other"}
        /\ tries'[p] = tries[p] + 1
        /\ pc'[p] = IF tries[p] + 1 < LoginTries THEN "login" ELSE "failed"
    BY DEF Create, NextLogin, IInv, TypeOK
  <1>2. admin' \in {admin, Created} /\ (admin # "none" => admin' = admin)
    BY DEF Create, Created
  <1>3. p \notin Unlucky /\ tries[p] \geq FaultyTries => admin' # "none"
    <2>1. CASE ~DefaultLogin
      <3>1. admin # "none"
        BY <2>1 DEF DefaultLogin, IInv, AdminOK
      <3> QED
        BY <1>2, <3>1
    <2>2. CASE DefaultLogin
      <3>1. ASSUME p \notin Unlucky, tries[p] \geq FaultyTries
            PROVE  admin' = Created
        <4>1. ~Faulty(p)
          BY <1>1, <3>1, BootstrapAssumption DEF Faulty
        <4> QED
          BY <2>2, <4>1 DEF Create
      <3> QED
        BY <1>1, <3>1 DEF Created
    <2> QED
      BY <2>1, <2>2
  <1>4. p \notin Unlucky /\ tries[p] > FaultyTries => admin' = "other"
    BY <1>1, <1>2 DEF Untroubled
  <1> QED
    BY <1>1, <1>3, <1>4, BootstrapAssumption DEF Untroubled, EnoughTries

\* Without a fault every statement finds what it needs, so the batch ends well.
LEMMA ExecuteStaysUntroubled ==
    ASSUME IInv, EnoughTries, NEW p \in Pods, Untroubled(p), Execute(p)
    PROVE  Untroubled(p)'
  <1>1. /\ pc[p] = "run" /\ tries[p] \in Nat /\ next[p] \in 1..9 /\ admin' = admin
        /\ failed[p] \in BOOLEAN
    BY NineStatements DEF Execute, IInv, TypeOK
  <1>2. PICK ok \in BOOLEAN :
          /\ ~ok => Faulty(p) \/ ~Accepted(Statements[next[p]])
          /\ IF next[p] < Len(Statements)
             THEN /\ failed' = [failed EXCEPT ![p] = Outcome(p, ok)]
                  /\ UNCHANGED <<pc, tries>>
             ELSE IF Outcome(p, ok)
                  THEN NextRun(p)
                  ELSE pc' = [pc EXCEPT ![p] = "done"]
    BY DEF Execute
  <1>3. ~failed[p] => Accepted(Statements[next[p]])
    <2>1. ~failed[p] => \A i \in 1..(next[p] - 1) : Statements[i] \in applied
      BY <1>1 DEF IInv, BatchOK
    <2> QED
      BY <1>1, <2>1, NeededComeFirst DEF Accepted
  <1>4. p \notin Unlucky /\ tries[p] = FaultyTries => ~Outcome(p, ok)
    <2>1. p \notin Unlucky /\ tries[p] = FaultyTries => ~Faulty(p) /\ ~failed[p]
      BY <1>1, BootstrapAssumption DEF Faulty, Untroubled
    <2> QED
      BY <1>2, <1>3, <2>1 DEF Outcome
  <1>5. CASE next[p] < Len(Statements)
    <2>1. failed'[p] = Outcome(p, ok) /\ pc'[p] = "run" /\ tries'[p] = tries[p]
      <3>1. failed' = [failed EXCEPT ![p] = Outcome(p, ok)] /\ UNCHANGED <<pc, tries>>
        BY <1>2, <1>5
      <3>2. failed'[p] = Outcome(p, ok)
        BY <3>1, Zenon DEF IInv, TypeOK
      <3> QED
        BY <1>1, <3>1, <3>2
    <2> QED
      BY <1>1, <1>4, <2>1 DEF Untroubled
  <1>6. CASE ~(next[p] < Len(Statements)) /\ Outcome(p, ok)
    <2>1. NextRun(p)
      BY <1>2, <1>6
    <2>2. /\ tries'[p] = tries[p] + 1 /\ failed'[p] = FALSE
          /\ pc'[p] = IF tries[p] + 1 < RunTries THEN "run" ELSE "failed"
      BY <2>1 DEF NextRun, IInv, TypeOK
    <2>3. p \notin Unlucky => tries[p] < FaultyTries
      BY <1>1, <1>4, <1>6, BootstrapAssumption DEF Untroubled
    <2> QED
      BY <1>1, <2>2, <2>3, BootstrapAssumption DEF Untroubled, EnoughTries
  <1>7. CASE ~(next[p] < Len(Statements)) /\ ~Outcome(p, ok)
    <2>1. pc'[p] = "done"
      BY <1>2, <1>7 DEF IInv, TypeOK
    <2> QED
      BY <2>1 DEF Untroubled
  <1> QED
    BY <1>5, <1>6, <1>7

\* An aborted batch has met a fault.
LEMMA AbortStaysUntroubled ==
    ASSUME IInv, EnoughTries, NEW p \in Pods, Untroubled(p), Abort(p)
    PROVE  Untroubled(p)'
  <1>1. /\ pc[p] = "run" /\ tries[p] \in Nat /\ failed'[p] = FALSE
        /\ tries'[p] = tries[p] + 1
        /\ pc'[p] = IF tries[p] + 1 < RunTries THEN "run" ELSE "failed"
    BY DEF Abort, NextRun, IInv, TypeOK
  <1>2. p \notin Unlucky => tries[p] < FaultyTries
    BY DEF Abort, Faulty
  <1> QED
    BY <1>1, <1>2, BootstrapAssumption DEF Untroubled, EnoughTries

LEMMA StepStaysUntroubled ==
    ASSUME IInv, EnoughTries, [Next]_vars, NEW q \in Pods, Untroubled(q)
    PROVE  Untroubled(q)'
  <1>1. ASSUME NEW p \in Pods, Start(p) \/ PodStep(p) \/ Kill(p), q # p
        PROVE  pc'[q] = pc[q] /\ tries'[q] = tries[q] /\ failed'[q] = failed[q]
    BY <1>1
    DEF IInv, TypeOK, Start, PodStep, Login, LoggedIn, NextLogin, Create, Execute, NextRun,
        Abort, Kill
  <1>2. CASE Start(q) \/ Kill(q)
    <2>1. pc'[q] \in {"login", "killed"} /\ tries'[q] = tries[q]
      BY <1>2 DEF Start, Kill, IInv, TypeOK
    <2>2. pc'[q] = "login" => tries[q] = 0
      BY <1>2 DEF Start, Kill, IInv, TypeOK, NextOK
    <2> QED
      BY <2>1, <2>2, BootstrapAssumption DEF Untroubled
  <1>3. StartGraph \/ StartProxy \/ UNCHANGED vars => UNCHANGED <<pc, tries, failed>>
    BY DEF StartGraph, StartProxy, vars, pod
  <1> QED
    BY <1>1, <1>2, <1>3, OthersStayUntroubled, LoginStaysUntroubled, CreateStaysUntroubled,
       ExecuteStaysUntroubled, AbortStaysUntroubled DEF Next, PodStep

\* A pod fails only on a volume that was provisioned with other credentials, if
\* the last attempts of each of its loops meet no fault: whatever other pods
\* and its own earlier attempts have left behind.  It is what BootstrapCompletes
\* needs besides fairness.
FailureIsForeign == \A p \in Pods \ Unlucky : pc[p] = "failed" => admin = "other"

THEOREM FailuresAreForeign == ASSUME EnoughTries PROVE Spec => []FailureIsForeign
  <1> DEFINE Inv == \A p \in Pods : Untroubled(p)
  <1>1. Init => Inv
    BY DEF Init, Untroubled
  <1>2. IInv /\ Inv /\ [Next]_vars => Inv'
    BY StepStaysUntroubled
  <1>3. Inv => FailureIsForeign
    BY DEF Untroubled, FailureIsForeign
  <1> HIDE DEF Inv
  <1> QED
    BY <1>1, <1>2, <1>3, Inductive, PTL DEF Spec

=============================================================================
