-------------------- MODULE CredentialProvisioningProofs --------------------
(* Proofs about CredentialProvisioning, for any workstations and any number *)
(* of overlapping and interrupted runs.                                     *)
EXTENDS CredentialProvisioning, TLAPS

-----------------------------------------------------------------------------
(* The inductive invariant.                                                *)

Adding == {"look", "reuse", "mkdir", "open", "fill", "addOpen", "addFill",
           "value", "patch"}

\* What a run at each place knows: a Secret without appKey as long as it has
\* the resourceVersion that was read, files that are complete, a value that is
\* still in a file.
Facts(q) ==
    /\ pc[q] \in {"read", "look", "value", "patch"} => route[q] = "patch"
    /\ route[q] = "patch" => version > 0
    /\ route[q] = "patch" /\ pc[q] \in Adding =>
          seen[q] <= version /\ (seen[q] = version => secret["appKey"] = None)
    /\ pc[q] = "create" => \A k \in Keys : File(q, k) \in Origins
    /\ pc[q] = "patch" /\ value[q] \in Runs => File(value[q], "appKey") = value[q]
    /\ pc[q] \in {"addOpen", "addFill"} => Exists(q, "p12")
    /\ pc[q] = "done" => \A k \in Keys : secret[k] \in Origins

Generating(q) == pc[q] \in {"open", "fill"}

\* One run at a time generates on a workstation: it has written what precedes
\* its current file, and nothing follows.
GenerationOK ==
    \A q \in Runs : Generating(q) =>
        /\ dir[Place[q]]
        /\ \A i \in 1..5 :
              /\ i < item[q] => File(q, Order[i]) = q
              /\ i = item[q] => File(q, Order[i]) = IF pc[q] = "open" THEN None ELSE Empty
              /\ i > item[q] => File(q, Order[i]) = None
        /\ \A s \in Runs : Generating(s) /\ Place[s] = Place[q] => s = q

\* One run at a time fills an added appKey.
AdditionOK ==
    \A q \in Runs : pc[q] = "addFill" =>
        /\ File(q, "appKey") = Empty
        /\ \A s \in Runs : pc[s] = "addFill" /\ Place[s] = Place[q] => s = q

\* Files come from runs of their workstation, and below a complete tls.p12
\* they are one set.
SetsOK ==
    \A w \in Workstations :
        /\ ~dir[w] => \A k \in Keys : files[w][k] = None
        /\ files[w]["p12"] \in Origins =>
              \E o \in Origins : \A k \in Keys \ {"appKey"} : files[w][k] = o
        /\ \A k \in Keys : files[w][k] \in Runs => Place[files[w][k]] = w

SecretOK ==
    /\ version = 0 => \A k \in Keys : secret[k] = None
    /\ SecretIsOneSet

IInv ==
    /\ TypeOK
    /\ \A q \in Runs : Facts(q)
    /\ GenerationOK /\ AdditionOK /\ SetsOK /\ SecretOK
    /\ SourceKeepsSecrets

-----------------------------------------------------------------------------
(* Lemmas about keys, contents and single writes.                          *)

\* The files in order.
LEMMA FiveFiles ==
    /\ Len(Order) = 5
    /\ Order[1] = "password" /\ Order[2] = "appKey" /\ Order[3] = "tlsPassword"
    /\ Order[4] = "crt" /\ Order[5] = "p12"
    /\ Keys = {"password", "appKey", "tlsPassword", "crt", "p12"}
  <1>1. /\ Len(Order) = 5
        /\ Order[1] = "password" /\ Order[2] = "appKey" /\ Order[3] = "tlsPassword"
        /\ Order[4] = "crt" /\ Order[5] = "p12"
    BY DEF Order
  <1>2. 1..5 = {1, 2, 3, 4, 5}
    OBVIOUS
  <1> QED
    BY <1>1, <1>2 DEF Keys

\* The value of a file is never taken for a missing or an empty one.
LEMMA OriginsAreContents ==
    /\ None \notin Origins /\ Empty \notin Origins /\ None # Empty
    /\ Contents = Origins \cup {None, Empty}
    /\ Runs \subseteq Origins
    /\ \A r \in Runs : Place[r] \in Workstations
  BY ProvisioningAssumption DEF Origins, Earlier, Contents, None, Empty

\* A write changes the one file.
LEMMA OneFileWritten ==
    ASSUME TypeOK, NEW r \in Runs, NEW k \in Keys, NEW c \in Contents, Write(r, k, c)
    PROVE  /\ files' \in [Workstations -> [Keys -> Contents]]
           /\ files'[Place[r]][k] = c
           /\ \A w \in Workstations, j \in Keys :
                 (w # Place[r] \/ j # k) => files'[w][j] = files[w][j]
  BY OriginsAreContents DEF TypeOK, Write

-----------------------------------------------------------------------------
(* What may happen around a run without invalidating what it knows.        *)

\* Complete files are kept and no file disappears.
FilesGrow ==
    \A w \in Workstations, k \in Keys :
        /\ files[w][k] \in Origins => files'[w][k] = files[w][k]
        /\ files[w][k] # None => files'[w][k] # None

\* Keys are kept, and a change of the Secret shows in its version.
SecretGrows ==
    /\ \A k \in Keys : secret[k] # None => secret'[k] = secret[k]
    /\ \/ UNCHANGED cluster
       \/ version' \in Nat /\ version' > version

LEMMA FactsCarry ==
    ASSUME IInv, FilesGrow, SecretGrows, NEW q \in Runs,
           pc'[q] = pc[q], route'[q] = route[q], seen'[q] = seen[q], value'[q] = value[q]
    PROVE  Facts(q)'
  <1>1. Facts(q) /\ version \in Nat /\ seen[q] \in Nat /\ secret \in [Keys -> Contents]
    BY DEF IInv, TypeOK
  <1>2. "appKey" \in Keys /\ "p12" \in Keys
    BY FiveFiles
  <1>3. route'[q] = "patch" => version' > 0
    BY <1>1 DEF Facts, SecretGrows, cluster
  <1>4. route'[q] = "patch" /\ pc'[q] \in Adding =>
          seen'[q] <= version' /\ (seen'[q] = version' => secret'["appKey"] = None)
    BY <1>1 DEF Facts, SecretGrows, cluster
  <1>5. pc'[q] = "create" => \A k \in Keys : File(q, k)' \in Origins
    BY <1>1, OriginsAreContents DEF Facts, FilesGrow, File
  <1>6. pc'[q] = "patch" /\ value'[q] \in Runs => File(value[q], "appKey")' = value'[q]
    <2> SUFFICES ASSUME pc[q] = "patch", value[q] \in Runs
                 PROVE  files'[Place[value[q]]]["appKey"] = value[q]
      BY DEF File
    <2>1. files[Place[value[q]]]["appKey"] = value[q]
      BY <1>1 DEF Facts, File
    <2> QED
      BY <2>1, <1>2, OriginsAreContents DEF FilesGrow
  <1>7. pc'[q] \in {"addOpen", "addFill"} => Exists(q, "p12")'
    BY <1>1, <1>2, OriginsAreContents DEF Facts, FilesGrow, File, Exists
  <1>8. pc'[q] = "done" => \A k \in Keys : secret'[k] \in Origins
    BY <1>1, OriginsAreContents DEF Facts, SecretGrows
  <1>9. pc'[q] \in {"read", "look", "value", "patch"} => route'[q] = "patch"
    BY <1>1 DEF Facts
  <1> QED
    BY <1>3, <1>4, <1>5, <1>6, <1>7, <1>8, <1>9 DEF Facts, File

\* The Secret and its sources stay as they are while only complete files are
\* added to.
LEMMA SourcesCarry ==
    ASSUME IInv, FilesGrow, UNCHANGED secret
    PROVE  SourceKeepsSecrets'
  <1> SUFFICES ASSUME NEW k \in Keys, secret[k] \in Runs
               PROVE  files'[Place[secret[k]]][k] = secret[k]
    BY DEF SourceKeepsSecrets, File
  <1>1. files[Place[secret[k]]][k] = secret[k]
    BY DEF IInv, SourceKeepsSecrets, File
  <1> QED
    BY <1>1, OriginsAreContents DEF FilesGrow

\* A step that writes neither files nor Secret only has to justify where its
\* run goes, and does not go to where files are being written.
LEMMA QuietStep ==
    ASSUME IInv, TypeOK', NEW r \in Runs, UNCHANGED <<local, cluster, item>>,
           \A q \in Runs \ {r} : /\ pc'[q] = pc[q] /\ route'[q] = route[q]
                                 /\ seen'[q] = seen[q] /\ value'[q] = value[q],
           Facts(r)', pc'[r] \notin {"open", "fill", "addFill"}
    PROVE  IInv'
  <1>1. FilesGrow /\ SecretGrows
    BY DEF FilesGrow, SecretGrows, local, cluster
  <1>2. \A q \in Runs : Facts(q)'
    BY <1>1, FactsCarry
  <1>3. GenerationOK' /\ AdditionOK'
    BY DEF IInv, GenerationOK, AdditionOK, Generating, File, local
  <1>4. SetsOK' /\ SecretOK'
    BY DEF IInv, SetsOK, SecretOK, SecretIsOneSet, local, cluster
  <1>5. SourceKeepsSecrets'
    BY <1>1, SourcesCarry DEF cluster
  <1> QED
    BY <1>2, <1>3, <1>4, <1>5 DEF IInv

-----------------------------------------------------------------------------
(* Steps that write neither files nor Secret.                              *)

LEMMA InitEstablishes ==
    Init => IInv
  <1> SUFFICES ASSUME Init PROVE IInv
    OBVIOUS
  <1>1. Nothing \in [Keys -> Contents]
        /\ \A o \in Earlier : Complete(o) \in [Keys -> Contents] /\ Legacy(o) \in [Keys -> Contents]
    BY DEF Nothing, Complete, Legacy, Contents, Origins
  <1>2. secret \in [Keys -> Contents] /\ version \in Nat
    BY <1>1 DEF Init, Earlier
  <1>3. files \in [Workstations -> [Keys -> Contents]]
    BY <1>1 DEF Init
  <1>4. TypeOK
    <2>1. dir \in [Workstations -> BOOLEAN]
      BY Zenon DEF Init
    <2>2. item \in [Runs -> 1..Len(Order)] /\ seen \in [Runs -> Nat]
      BY FiveFiles DEF Init
    <2>3. /\ pc \in [Runs -> Places]
          /\ route \in [Runs -> {"create", "patch"}]
          /\ value \in [Runs -> Contents]
          /\ disturbed \in BOOLEAN
      BY DEF Init, Contents, Places
    <2>4. \A q \in Runs : pc[q] = "patch" => value[q] \in Origins
      BY DEF Init
    <2> QED
      BY <1>2, <1>3, <2>1, <2>2, <2>3, <2>4 DEF TypeOK
  <1>5. /\ \A q \in Runs : Facts(q)
        /\ GenerationOK /\ AdditionOK
    BY DEF Init, Facts, Adding, GenerationOK, AdditionOK, Generating
  <1>6. SetsOK
    <2> SUFFICES ASSUME NEW w \in Workstations
                 PROVE  /\ ~dir[w] => \A k \in Keys : files[w][k] = None
                        /\ files[w]["p12"] \in Origins =>
                              \E o \in Origins : \A k \in Keys \ {"appKey"} : files[w][k] = o
                        /\ \A k \in Keys : files[w][k] \notin Runs
      BY DEF SetsOK
    <2>1. dir[w] = (files[w] # Nothing)
      BY DEF Init
    <2>2. CASE files[w] = Nothing
      BY <2>1, <2>2, OriginsAreContents, FiveFiles DEF Nothing
    <2>3. ASSUME NEW o \in Earlier, files[w] = Complete(o)
          PROVE  dir[w] /\ o \in Origins \ Runs /\ \A k \in Keys : files[w][k] = o
      <3>1. o \in Origins \ Runs /\ \A k \in Keys : files[w][k] = o
        BY <2>3, ProvisioningAssumption DEF Complete, Origins
      <3>2. files[w]["p12"] # Nothing["p12"]
        BY <3>1, OriginsAreContents, FiveFiles DEF Nothing
      <3> QED
        BY <3>1, <3>2, <2>1
    <2>4. ASSUME NEW o \in Earlier, files[w] = Legacy(o)
          PROVE  dir[w] /\ o \in Origins \ Runs /\ files[w]["appKey"] = None
                 /\ \A k \in Keys \ {"appKey"} : files[w][k] = o
      <3>1. o \in Origins \ Runs /\ files[w]["appKey"] = None
            /\ \A k \in Keys \ {"appKey"} : files[w][k] = o
        BY <2>4, ProvisioningAssumption, FiveFiles DEF Legacy, Origins
      <3>2. files[w]["p12"] # Nothing["p12"]
        BY <3>1, OriginsAreContents, FiveFiles DEF Nothing
      <3> QED
        BY <3>1, <3>2, <2>1
    <2>5. None \notin Runs
      BY OriginsAreContents
    <2>6. files[w] \in {Nothing} \cup {Complete(o) : o \in Earlier} \cup {Legacy(o) : o \in Earlier}
      BY DEF Init
    <2> QED
      BY <2>2, <2>3, <2>4, <2>5, <2>6
  <1>7. SecretOK /\ \A k \in Keys : secret[k] \notin Runs
    <2>1. CASE secret = Nothing /\ version = 0
      BY <2>1, OriginsAreContents DEF Nothing, SecretOK, SecretIsOneSet
    <2>2. CASE secret \in {Legacy("old"), Complete("old")} /\ version = 1
      <3>1. "old" \in Origins \ Runs
        BY ProvisioningAssumption DEF Origins, Earlier
      <3>2. \A k \in Keys : /\ secret[k] \in {"old", None}
                            /\ k # "appKey" => secret[k] = "old"
        BY <2>2 DEF Legacy, Complete
      <3> QED
        BY <2>2, <3>1, <3>2, OriginsAreContents DEF SecretOK, SecretIsOneSet
    <2> QED
      BY <2>1, <2>2 DEF Init
  <1> QED
    BY <1>4, <1>5, <1>6, <1>7 DEF IInv, SourceKeepsSecrets

\* A run that only moves on stays within its type.
LEMMA MovesKeepTypes ==
    ASSUME TypeOK, NEW r \in Runs, NEW l \in Places \ {"patch"}, Goto(r, l),
           UNCHANGED <<local, cluster, item, value>>,
           route' \in [Runs -> {"create", "patch"}], seen' \in [Runs -> Nat],
           disturbed' \in BOOLEAN
    PROVE  TypeOK'
  <1>1. pc' = [pc EXCEPT ![r] = l]
    BY DEF Goto
  <1>2. pc' \in [Runs -> Places]
    BY <1>1 DEF TypeOK
  <1>3. pc'[r] # "patch" /\ \A q \in Runs \ {r} : pc'[q] = pc[q]
    BY <1>1 DEF TypeOK, Ended
  <1>4. \A q \in Runs : pc'[q] = "patch" => value'[q] \in Origins
    BY <1>3 DEF TypeOK
  <1> QED
    BY <1>2, <1>4 DEF TypeOK, local, cluster

Quiet == {"read", "look", "reuse", "mkdir", "addOpen", "value", "verify", "create",
          "done", "failed", "interrupted"}

\* A step between requests: nothing is written and nothing read but the label.
LEMMA QuietMove ==
    ASSUME IInv, NEW r \in Runs, NEW l \in Quiet, Goto(r, l),
           UNCHANGED <<local, cluster, item, route, seen, value>>,
           disturbed' \in BOOLEAN,
           l \in {"read", "look", "value"} => route[r] = "patch",
           l \in Adding => pc[r] \in Adding,
           l = "create" => \A k \in Keys : File(r, k) \in Origins,
           l = "addOpen" => Exists(r, "p12"),
           l = "done" => \A k \in Keys : secret[k] \in Origins
    PROVE  IInv'
  <1>1. TypeOK /\ Facts(r)
    BY DEF IInv
  <1>2. TypeOK'
    BY <1>1, MovesKeepTypes DEF TypeOK, Quiet, Places, Ended
  <1>3. pc'[r] = l /\ \A q \in Runs \ {r} : pc'[q] = pc[q]
    BY <1>1 DEF TypeOK, Goto
  <1>4. l \notin {"patch", "check", "addFill", "open", "fill"}
    BY DEF Quiet
  <1>5. Facts(r)'
    BY <1>1, <1>3, <1>4 DEF Facts, File, Exists, local, cluster
  <1> QED
    BY <1>2, <1>3, <1>4, <1>5, QuietStep

LEMMA CheckPreserves ==
    ASSUME IInv, NEW r \in Runs, Check(r)
    PROVE  IInv'
  <1>1. TypeOK /\ Facts(r)
    BY DEF IInv
  <1>2. TypeOK'
    <2> DEFINE l == IF version = 0 THEN "reuse" ELSE "read"
    <2>1. l \in Places \ {"patch"} /\ Goto(r, l)
      BY DEF Places, Ended, Check
    <2>2. route' \in [Runs -> {"create", "patch"}] /\ seen' \in [Runs -> Nat]
          /\ disturbed' \in BOOLEAN
      BY <1>1 DEF TypeOK, Check
    <2>3. UNCHANGED <<local, cluster, item, value>>
      BY DEF Check
    <2> HIDE DEF l
    <2> QED
      BY <1>1, <2>1, <2>2, <2>3, MovesKeepTypes
  <1>3. /\ pc'[r] = IF version = 0 THEN "reuse" ELSE "read"
        /\ route'[r] = IF version = 0 THEN "create" ELSE "patch"
        /\ \A q \in Runs \ {r} : pc'[q] = pc[q] /\ route'[q] = route[q]
    BY <1>1 DEF TypeOK, Goto, Check
  <1>4. Facts(r)'
    BY <1>1, <1>3 DEF Facts, Adding, Check, cluster, TypeOK
  <1> QED
    BY <1>2, <1>3, <1>4, QuietStep DEF Check

LEMMA ReadPreserves ==
    ASSUME IInv, NEW r \in Runs, Read(r)
    PROVE  IInv'
  <1>1. TypeOK /\ Facts(r) /\ SecretOK
    BY DEF IInv
  <1>2. TypeOK'
    <2> DEFINE l == IF secret["appKey"] # None THEN "done" ELSE "look"
    <2>1. l \in Places \ {"patch"} /\ Goto(r, l)
      BY DEF Places, Ended, Read
    <2>2. route' \in [Runs -> {"create", "patch"}] /\ seen' \in [Runs -> Nat]
          /\ disturbed' \in BOOLEAN
      BY <1>1 DEF TypeOK, Read
    <2>3. UNCHANGED <<local, cluster, item, value>>
      BY DEF Read
    <2> HIDE DEF l
    <2> QED
      BY <1>1, <2>1, <2>2, <2>3, MovesKeepTypes
  <1>3. /\ pc'[r] = IF secret["appKey"] # None THEN "done" ELSE "look"
        /\ seen'[r] = version
        /\ \A q \in Runs \ {r} : pc'[q] = pc[q] /\ seen'[q] = seen[q]
    BY <1>1 DEF TypeOK, Goto, Read
  <1>4. secret["appKey"] # None => \A k \in Keys : secret[k] \in Origins
    <2>1. secret["appKey"] # None => version > 0
      BY <1>1, FiveFiles DEF SecretOK, TypeOK
    <2> QED
      BY <1>1, <2>1, FiveFiles, OriginsAreContents DEF SecretOK, SecretIsOneSet, TypeOK
  <1>5. Facts(r)'
    BY <1>1, <1>3, <1>4 DEF Facts, Adding, Read, cluster, TypeOK
  <1> QED
    BY <1>2, <1>3, <1>5, QuietStep DEF Read

LEMMA LookPreserves ==
    ASSUME IInv, NEW r \in Runs, Look(r)
    PROVE  IInv'
  <1>1. Facts(r) /\ TypeOK
    BY DEF IInv
  <1>2. route[r] = "patch" /\ pc[r] = "look"
    BY <1>1 DEF Facts, Look
  <1>3. PICK l \in {"reuse", "failed"} : Goto(r, l)
    BY DEF Look
  <1>4. l \in Quiet /\ l \notin {"read", "value", "look", "create", "addOpen", "done"}
        /\ pc[r] \in Adding
    BY <1>2, <1>3 DEF Quiet, Adding
  <1>5. UNCHANGED <<local, cluster, item, route, seen, value>> /\ disturbed' \in BOOLEAN
    BY <1>1 DEF Look, TypeOK
  <1> QED
    BY <1>1, <1>2, <1>3, <1>4, <1>5, QuietMove

LEMMA ReusePreserves ==
    ASSUME IInv, NEW r \in Runs, Reuse(r)
    PROVE  IInv'
  <1>1. Facts(r) /\ TypeOK /\ pc[r] = "reuse"
    BY DEF IInv, Reuse
  <1>2. PICK l \in {AfterSecrets(r), "addOpen", "failed", "mkdir"} :
          Goto(r, l) /\ (l = "addOpen" => Exists(r, "p12"))
    BY DEF Reuse, AfterSecrets
  <1>3. l \in {"value", "verify", "addOpen", "failed", "mkdir"} /\ (l = "value" => route[r] = "patch")
    BY <1>2 DEF AfterSecrets
  <1>4. l \in Quiet /\ l \notin {"read", "look", "create", "done"} /\ pc[r] \in Adding
    BY <1>1, <1>3 DEF Quiet, Adding
  <1>5. UNCHANGED <<local, cluster, item, route, seen, value>> /\ disturbed' \in BOOLEAN
    BY <1>1 DEF Reuse, TypeOK
  <1> QED
    BY <1>1, <1>2, <1>3, <1>4, <1>5, QuietMove

LEMMA VerifyPreserves ==
    ASSUME IInv, NEW r \in Runs, Verify(r)
    PROVE  IInv'
  <1>1. Facts(r) /\ TypeOK /\ pc[r] = "verify"
    BY DEF IInv, Verify
  <1>2. PICK l \in {"create", "failed"} :
          Goto(r, l) /\ (l = "create" => \A k \in Keys : File(r, k) \notin {None, Empty})
    BY DEF Verify
  <1>3. l = "create" => \A k \in Keys : File(r, k) \in Origins
    BY <1>1, <1>2, OriginsAreContents DEF TypeOK, File
  <1>4. l \in Quiet \ Adding /\ l \notin {"read", "done"} /\ pc[r] # "check"
    BY <1>1, <1>2 DEF Quiet, Adding
  <1>5. UNCHANGED <<local, cluster, item, route, seen, value>> /\ disturbed' \in BOOLEAN
    BY <1>1 DEF Verify, TypeOK
  <1>6. l \notin {"read", "look", "value", "addOpen"}
    BY <1>4 DEF Adding
  <1> QED
    BY <1>1, <1>2, <1>3, <1>4, <1>5, <1>6, QuietMove

LEMMA InterruptPreserves ==
    ASSUME IInv, NEW r \in Runs, Interrupt(r)
    PROVE  IInv'
  <1>1. Facts(r) /\ TypeOK
    BY DEF IInv
  <1>2. Goto(r, "interrupted") /\ UNCHANGED <<local, cluster, item, route, seen, value>>
        /\ disturbed' = TRUE
    BY DEF Interrupt
  <1>3. TypeOK'
    <2>1. "interrupted" \in Places \ {"patch"}
      BY DEF Places, Ended
    <2>2. route' \in [Runs -> {"create", "patch"}] /\ seen' \in [Runs -> Nat]
          /\ disturbed' \in BOOLEAN
      BY <1>1, <1>2 DEF TypeOK
    <2> QED
      BY <1>1, <1>2, <2>1, <2>2, MovesKeepTypes
  <1>4. pc'[r] = "interrupted" /\ \A q \in Runs \ {r} : pc'[q] = pc[q]
    BY <1>1, <1>2 DEF TypeOK, Goto
  <1>5. Facts(r)'
    BY <1>1, <1>2, <1>4 DEF Facts, Adding, cluster
  <1> QED
    BY <1>2, <1>3, <1>4, <1>5, QuietStep

\* The value about to be stored is complete, and still in the file it came from.
LEMMA ReadValuePreserves ==
    ASSUME IInv, NEW r \in Runs, ReadValue(r)
    PROVE  IInv'
  <1>1. Facts(r) /\ TypeOK /\ SetsOK /\ pc[r] = "value"
    BY DEF IInv, ReadValue
  <1>2. CASE File(r, "appKey") \in {None, Empty}
    <2>1. Goto(r, "failed") /\ UNCHANGED <<local, cluster, item, route, seen, value, disturbed>>
      BY <1>2 DEF ReadValue
    <2>2. "failed" \in Quiet \ Adding
      BY DEF Quiet, Adding
    <2>3. UNCHANGED <<local, cluster, item, route, seen, value>> /\ disturbed' \in BOOLEAN
      BY <1>1, <2>1 DEF TypeOK
    <2> QED
      BY <1>1, <2>1, <2>2, <2>3, QuietMove
  <1>3. CASE File(r, "appKey") \notin {None, Empty}
    <2> DEFINE v == File(r, "appKey")
    <2>1. /\ value' = [value EXCEPT ![r] = v] /\ Goto(r, "patch")
          /\ UNCHANGED <<local, cluster, item, route, seen, disturbed>>
      BY <1>3 DEF ReadValue
    <2>2. v \in Origins /\ (v \in Runs => Place[v] = Place[r])
      BY <1>1, <1>3, OriginsAreContents, FiveFiles DEF TypeOK, SetsOK, File
    <2>3. /\ pc'[r] = "patch" /\ value'[r] = v
          /\ \A q \in Runs \ {r} : pc'[q] = pc[q] /\ value'[q] = value[q]
      BY <1>1, <2>1 DEF TypeOK, Goto
    <2>4. TypeOK'
      <3>1. pc' \in [Runs -> Places]
        BY <1>1, <2>1 DEF TypeOK, Goto, Places
      <3>2. value' \in [Runs -> Contents]
        BY <1>1, <2>1, <2>2, OriginsAreContents DEF TypeOK
      <3>3. \A q \in Runs : pc'[q] = "patch" => value'[q] \in Origins
        BY <1>1, <2>2, <2>3 DEF TypeOK
      <3> QED
        BY <1>1, <2>1, <3>1, <3>2, <3>3 DEF TypeOK, local, cluster
    <2>5. Facts(r)'
      BY <1>1, <2>1, <2>2, <2>3 DEF Facts, Adding, File, local, cluster
    <2> QED
      BY <2>1, <2>3, <2>4, <2>5, QuietStep
  <1> QED
    BY <1>2, <1>3

-----------------------------------------------------------------------------
(* Steps that write files.                                                 *)

LEMMA OrderIsInjective ==
    /\ \A i \in 1..5 : Order[i] \in Keys
    /\ \A i, j \in 1..5 : Order[i] = Order[j] => i = j
  <1>1. 1..5 = {1, 2, 3, 4, 5}
    OBVIOUS
  <1> QED
    BY <1>1, FiveFiles

\* Where tls.p12 exists, a set without the appKey of a run is not being generated.
LEMMA NoGenerationBelow ==
    ASSUME IInv, NEW r \in Runs, Exists(r, "p12"), File(r, "appKey") \notin Runs
    PROVE  \A q \in Runs : Generating(q) => Place[q] # Place[r]
  <1> SUFFICES ASSUME NEW q \in Runs, Generating(q), Place[q] = Place[r]
               PROVE  FALSE
    OBVIOUS
  <1>1. item[q] \in 1..5
    BY FiveFiles DEF IInv, TypeOK
  <1>2. 5 > item[q] => File(q, Order[5]) = None
    BY DEF IInv, GenerationOK
  <1>3. 2 < item[q] => File(q, Order[2]) = q
    BY DEF IInv, GenerationOK
  <1>4. File(q, "p12") # None /\ File(q, "appKey") \notin Runs
    BY DEF Exists, File
  <1> QED
    BY <1>1, <1>2, <1>3, <1>4, FiveFiles

\* A file is added to, below a directory that is there, in an order that leaves
\* a complete tls.p12 to the last.
LEMMA WriteStep ==
    ASSUME IInv, NEW r \in Runs, NEW k \in Keys, NEW c \in {Empty, r}, Write(r, k, c),
           NEW l \in {"open", "fill", "addFill", "value", "verify"}, Goto(r, l),
           item' \in [Runs -> 1..Len(Order)],
           UNCHANGED <<dir, cluster, route, seen, value, disturbed>>,
           File(r, k) \notin Origins, dir[Place[r]],
           k = "p12" /\ c = r => \A j \in Keys \ {"appKey", "p12"} : File(r, j) = r,
           k \notin {"p12", "appKey"} => File(r, "p12") \notin Origins,
           l = "value" => route[r] = "patch",
           pc[r] \in Adding,
           l = "addFill" => Exists(r, "p12"),
           GenerationOK', AdditionOK'
    PROVE  IInv'
  <1>1. TypeOK /\ SetsOK /\ Facts(r) /\ c \in Contents /\ Place[r] \in Workstations
        /\ "p12" \in Keys /\ "appKey" \in Keys /\ r \in Origins
    BY OriginsAreContents, FiveFiles DEF IInv
  <1>2. /\ files' \in [Workstations -> [Keys -> Contents]]
        /\ files'[Place[r]][k] = c
        /\ \A w \in Workstations, j \in Keys :
              (w # Place[r] \/ j # k) => files'[w][j] = files[w][j]
    BY <1>1, OneFileWritten
  <1>3. /\ pc' \in [Runs -> Places] /\ pc'[r] = l
        /\ \A q \in Runs \ {r} : pc'[q] = pc[q]
    BY <1>1 DEF TypeOK, Goto, Places
  <1>4. TypeOK'
    <2>1. \A q \in Runs : pc'[q] = "patch" => value'[q] \in Origins
      BY <1>1, <1>3 DEF TypeOK
    <2> QED
      BY <1>1, <1>2, <1>3, <2>1 DEF TypeOK, cluster
  <1>5. FilesGrow /\ SecretGrows
    BY <1>1, <1>2, OriginsAreContents DEF FilesGrow, SecretGrows, File, cluster
  <1>6. SetsOK'
    <2> SUFFICES ASSUME NEW w \in Workstations
                 PROVE  /\ ~dir[w] => \A j \in Keys : files'[w][j] = None
                        /\ files'[w]["p12"] \in Origins =>
                              \E o \in Origins : \A j \in Keys \ {"appKey"} : files'[w][j] = o
                        /\ \A j \in Keys : files'[w][j] \in Runs => Place[files'[w][j]] = w
      BY DEF SetsOK
    <2>1. CASE w # Place[r]
      BY <1>1, <1>2, <2>1 DEF SetsOK
    <2>2. CASE w = Place[r]
      <3>1. \A j \in Keys : files'[w][j] \in Runs => Place[files'[w][j]] = w
        BY <1>1, <1>2, <2>2, OriginsAreContents DEF SetsOK
      <3>2. ASSUME files'[w]["p12"] \in Origins
            PROVE  \E o \in Origins : \A j \in Keys \ {"appKey"} : files'[w][j] = o
        <4>1. CASE k = "p12"
          <5>1. c = r
            BY <1>2, <2>2, <3>2, <4>1, OriginsAreContents
          <5>2. \A j \in Keys \ {"appKey"} : files'[w][j] = r
            BY <1>2, <2>2, <4>1, <5>1 DEF File
          <5> QED
            BY <1>1, <5>2
        <4>2. CASE k = "appKey"
          <5>1. files[w]["p12"] \in Origins
            BY <1>1, <1>2, <3>2, <4>2
          <5>2. PICK o \in Origins : \A j \in Keys \ {"appKey"} : files[w][j] = o
            BY <1>1, <5>1 DEF SetsOK
          <5>3. \A j \in Keys \ {"appKey"} : files'[w][j] = o
            BY <1>2, <4>2, <5>2
          <5> QED
            BY <5>3
        <4>3. CASE k \notin {"p12", "appKey"}
          BY <1>1, <1>2, <2>2, <3>2, <4>3 DEF File
        <4> QED
          BY <4>1, <4>2, <4>3
      <3> QED
        BY <2>2, <3>1, <3>2
    <2> QED
      BY <2>1, <2>2
  <1>7. Facts(r)'
    <2>1. /\ route[r] = "patch" => version > 0
          /\ route[r] = "patch" =>
                seen[r] <= version /\ (seen[r] = version => secret["appKey"] = None)
      BY <1>1 DEF Facts
    <2>2. l = "addFill" => files'[Place[r]]["p12"] # None
      BY <1>1, <1>5 DEF FilesGrow, Exists, File
    <2> QED
      BY <1>3, <2>1, <2>2 DEF Facts, File, Exists, cluster
  <1>8. \A q \in Runs : Facts(q)'
    BY <1>3, <1>5, <1>7, FactsCarry
  <1>9. SecretOK' /\ SourceKeepsSecrets'
    BY <1>5, SourcesCarry DEF IInv, SecretOK, SecretIsOneSet, cluster
  <1> QED
    BY <1>4, <1>6, <1>8, <1>9 DEF IInv

LEMMA MakeDirectoryPreserves ==
    ASSUME IInv, NEW r \in Runs, MakeDirectory(r)
    PROVE  IInv'
  <1>1. TypeOK /\ Facts(r) /\ SetsOK /\ pc[r] = "mkdir" /\ Place[r] \in Workstations
    BY OriginsAreContents DEF IInv, MakeDirectory
  <1>2. CASE dir[Place[r]]
    <2>1. Goto(r, "failed") /\ UNCHANGED <<local, cluster, item, route, seen, value, disturbed>>
      BY <1>2 DEF MakeDirectory, local
    <2>2. "failed" \in Quiet \ Adding
      BY DEF Quiet, Adding
    <2>3. UNCHANGED <<local, cluster, item, route, seen, value>> /\ disturbed' \in BOOLEAN
      BY <1>1, <2>1 DEF TypeOK
    <2> QED
      BY <1>1, <2>1, <2>2, <2>3, QuietMove
  <1>3. CASE ~dir[Place[r]]
    <2>1. /\ dir' = [dir EXCEPT ![Place[r]] = TRUE]
          /\ item' = [item EXCEPT ![r] = 1]
          /\ Goto(r, "open")
          /\ UNCHANGED <<files, cluster, route, seen, value, disturbed>>
      BY <1>3 DEF MakeDirectory
    <2>2. /\ dir' \in [Workstations -> BOOLEAN]
          /\ dir'[Place[r]] /\ \A w \in Workstations : dir[w] => dir'[w]
      BY <1>1, <2>1, Zenon DEF TypeOK
    <2>3. /\ item' \in [Runs -> 1..Len(Order)] /\ pc' \in [Runs -> Places]
          /\ item'[r] = 1 /\ pc'[r] = "open"
          /\ \A q \in Runs \ {r} : item'[q] = item[q] /\ pc'[q] = pc[q]
      BY <1>1, <2>1, FiveFiles DEF TypeOK, Goto, Places
    <2>4. TypeOK'
      <3>1. \A q \in Runs : pc'[q] = "patch" => value'[q] \in Origins
        BY <1>1, <2>1, <2>3 DEF TypeOK
      <3> QED
        BY <1>1, <2>1, <2>2, <2>3, <3>1 DEF TypeOK, cluster
    <2>5. FilesGrow /\ SecretGrows
      BY <2>1 DEF FilesGrow, SecretGrows, cluster
    <2>6. Facts(r)'
      BY <1>1, <2>1, <2>3 DEF Facts, Adding, cluster
    <2>7. \A q \in Runs : Facts(q)'
      BY <2>1, <2>3, <2>5, <2>6, FactsCarry
    <2>8. GenerationOK'
      <3>1. \A i \in 1..5 : File(r, Order[i])' = None
        BY <1>1, <1>3, <2>1, OrderIsInjective DEF SetsOK, File
      <3>2. \A q \in Runs : Generating(q) => Place[q] # Place[r]
        BY <1>3 DEF IInv, GenerationOK
      <3>3. \A q \in Runs : Generating(q)' => q = r \/ Generating(q)
        BY <2>3 DEF Generating
      <3>4. ASSUME NEW q \in Runs, Generating(q)'
            PROVE  /\ dir'[Place[q]]
                   /\ \A j \in 1..5 :
                         /\ j < item'[q] => File(q, Order[j])' = q
                         /\ j = item'[q] => File(q, Order[j])' = IF pc'[q] = "open" THEN None ELSE Empty
                         /\ j > item'[q] => File(q, Order[j])' = None
                   /\ \A s \in Runs : Generating(s)' /\ Place[s] = Place[q] => s = q
        <4>1. CASE q = r
          BY <2>2, <2>3, <3>1, <3>2, <3>3, <4>1
        <4>2. CASE q # r
          <5>1. Generating(q) /\ Place[q] \in Workstations
            BY <3>3, <3>4, <4>2, OriginsAreContents
          <5>2. dir'[Place[q]]
            BY <2>2, <5>1 DEF IInv, GenerationOK
          <5>3. \A s \in Runs : Generating(s)' /\ Place[s] = Place[q] => s = q
            BY <3>2, <3>3, <5>1 DEF IInv, GenerationOK
          <5> QED
            BY <2>1, <2>3, <4>2, <5>1, <5>2, <5>3 DEF IInv, GenerationOK, File
        <4> QED
          BY <4>1, <4>2
      <3> QED
        BY <3>4 DEF GenerationOK
    <2>9. AdditionOK'
      BY <2>1, <2>3 DEF IInv, AdditionOK, File
    <2>10. SetsOK'
      BY <1>1, <2>1, <2>2 DEF SetsOK
    <2>11. SecretOK' /\ SourceKeepsSecrets'
      BY <2>1, <2>5, SourcesCarry DEF IInv, SecretOK, SecretIsOneSet, cluster
    <2> QED
      BY <2>4, <2>7, <2>8, <2>9, <2>10, <2>11 DEF IInv
  <1> QED
    BY <1>2, <1>3

\* A write at a workstation leaves what the other runs there and elsewhere
\* generate and add as it is, if none of them is doing either there.
LEMMA OthersKeep ==
    ASSUME IInv, NEW r \in Runs, NEW k \in Keys, NEW c \in {Empty, r}, Write(r, k, c),
           NEW q \in Runs \ {r}, Place[q] # Place[r]
    PROVE  \A j \in Keys : File(q, j)' = File(q, j)
  BY OneFileWritten, OriginsAreContents DEF IInv, File

\* Adding starts where nothing is generated or added.
LEMMA AddOpenPreserves ==
    ASSUME IInv, NEW r \in Runs, AddOpen(r)
    PROVE  IInv'
  <1>1. TypeOK /\ Facts(r) /\ SetsOK /\ pc[r] = "addOpen" /\ Exists(r, "p12")
        /\ Place[r] \in Workstations /\ "appKey" \in Keys /\ "p12" \in Keys
    BY OriginsAreContents, FiveFiles DEF IInv, AddOpen, Facts
  <1>2. CASE Exists(r, "appKey")
    <2>1. Goto(r, "failed") /\ UNCHANGED <<local, cluster, item, route, seen, value, disturbed>>
      BY <1>2 DEF AddOpen, Open, local
    <2>2. "failed" \in Quiet \ Adding
      BY DEF Quiet, Adding
    <2>3. UNCHANGED <<local, cluster, item, route, seen, value>> /\ disturbed' \in BOOLEAN
      BY <1>1, <2>1 DEF TypeOK
    <2> QED
      BY <1>1, <2>1, <2>2, <2>3, QuietMove
  <1>3. CASE ~Exists(r, "appKey")
    <2>1. /\ Write(r, "appKey", Empty) /\ Goto(r, "addFill")
          /\ UNCHANGED <<dir, cluster, item, route, seen, value, disturbed>>
      BY <1>3 DEF AddOpen, Open
    <2>2. pc'[r] = "addFill" /\ \A q \in Runs \ {r} : pc'[q] = pc[q]
      BY <1>1, <2>1 DEF TypeOK, Goto
    <2>3. File(r, "appKey") = None /\ dir[Place[r]]
      BY <1>1, <1>3 DEF SetsOK, Exists, File
    <2>4. \A q \in Runs : Generating(q) => Place[q] # Place[r]
      BY <1>1, <2>3, NoGenerationBelow, OriginsAreContents
    <2>5. \A q \in Runs : pc[q] = "addFill" => Place[q] # Place[r]
      BY <2>3, OriginsAreContents DEF IInv, AdditionOK, File
    <2>6. File(r, "appKey")' = Empty
      BY <1>1, <2>1, OneFileWritten, OriginsAreContents DEF File
    <2>7. \A q \in Runs \ {r} : Place[q] # Place[r] => \A j \in Keys : File(q, j)' = File(q, j)
      BY <1>1, <2>1, OthersKeep
    <2>8. \A q \in Runs : Generating(q)' => q # r /\ Generating(q)
      BY <2>2 DEF Generating
    <2>9. GenerationOK'
      BY <2>1, <2>2, <2>4, <2>7, <2>8, OrderIsInjective DEF IInv, GenerationOK
    <2>10. AdditionOK'
      BY <1>1, <2>2, <2>5, <2>6, <2>7 DEF IInv, AdditionOK
    <2>11. pc[r] \in Adding /\ File(r, "appKey") \notin Origins
           /\ item' \in [Runs -> 1..Len(Order)]
      BY <1>1, <2>1, <2>3, OriginsAreContents DEF Adding, TypeOK
    <2> QED
      BY <1>1, <2>1, <2>3, <2>9, <2>10, <2>11, FiveFiles, WriteStep
  <1> QED
    BY <1>2, <1>3

LEMMA AddFillPreserves ==
    ASSUME IInv, NEW r \in Runs, AddFill(r)
    PROVE  IInv'
  <1>1. TypeOK /\ Facts(r) /\ SetsOK /\ pc[r] = "addFill" /\ Exists(r, "p12")
        /\ Place[r] \in Workstations /\ "appKey" \in Keys /\ "p12" \in Keys
    BY OriginsAreContents, FiveFiles DEF IInv, AddFill, Facts
  <1>2. PICK l \in {"value", "verify"} : Goto(r, l) /\ (l = "value" => route[r] = "patch")
    BY DEF AddFill, AfterSecrets
  <1>3. Write(r, "appKey", r) /\ UNCHANGED <<dir, cluster, item, route, seen, value, disturbed>>
    BY DEF AddFill
  <1>4. pc'[r] = l /\ \A q \in Runs \ {r} : pc'[q] = pc[q]
    BY <1>1, <1>2 DEF TypeOK, Goto
  <1>5. File(r, "appKey") = Empty
        /\ \A q \in Runs : pc[q] = "addFill" /\ Place[q] = Place[r] => q = r
    BY <1>1 DEF IInv, AdditionOK
  <1>6. dir[Place[r]]
    BY <1>1 DEF SetsOK, Exists, File
  <1>7. \A q \in Runs : Generating(q) => Place[q] # Place[r]
    BY <1>1, <1>5, NoGenerationBelow, OriginsAreContents
  <1>8. \A q \in Runs \ {r} : Place[q] # Place[r] => \A j \in Keys : File(q, j)' = File(q, j)
    BY <1>1, <1>3, OthersKeep
  <1>9. \A q \in Runs : Generating(q)' => q # r /\ Generating(q)
    BY <1>4 DEF Generating
  <1>10. GenerationOK'
    BY <1>3, <1>4, <1>7, <1>8, <1>9, OrderIsInjective DEF IInv, GenerationOK
  <1>11. AdditionOK'
    BY <1>1, <1>4, <1>5, <1>8 DEF IInv, AdditionOK
  <1>12. pc[r] \in Adding /\ File(r, "appKey") \notin Origins
         /\ item' \in [Runs -> 1..Len(Order)]
    BY <1>1, <1>3, <1>5, OriginsAreContents DEF Adding, TypeOK
  <1> QED
    BY <1>1, <1>2, <1>3, <1>6, <1>10, <1>11, <1>12, FiveFiles, WriteStep

\* The next file is created where nothing is.
LEMMA OpenNextPreserves ==
    ASSUME IInv, NEW r \in Runs, OpenNext(r)
    PROVE  IInv'
  <1>0. PICK n \in 1..5, k \in Keys : n = item[r] /\ k = Order[n]
    BY OrderIsInjective, FiveFiles DEF IInv, TypeOK
  <1>1. /\ TypeOK /\ Facts(r) /\ pc[r] = "open" /\ Generating(r)
        /\ Place[r] \in Workstations
    BY OriginsAreContents DEF IInv, OpenNext, Generating, TypeOK
  <1>2. /\ dir[Place[r]]
        /\ \A i \in 1..5 : /\ i < n => File(r, Order[i]) = r
                           /\ i >= n => File(r, Order[i]) = None
        /\ \A s \in Runs : Generating(s) /\ Place[s] = Place[r] => s = r
    BY <1>0, <1>1 DEF IInv, GenerationOK
  <1>3. File(r, k) = None
    BY <1>0, <1>1, <1>2
  <1>4. /\ Write(r, k, Empty) /\ Goto(r, "fill")
        /\ UNCHANGED <<dir, cluster, item, route, seen, value, disturbed>>
    BY <1>0, <1>3 DEF OpenNext, Open, Exists
  <1>5. pc'[r] = "fill" /\ \A q \in Runs \ {r} : pc'[q] = pc[q]
    BY <1>1, <1>4 DEF TypeOK, Goto
  <1>6. /\ File(r, k)' = Empty
        /\ \A j \in Keys \ {k} : File(r, j)' = File(r, j)
    BY <1>1, <1>4, OneFileWritten, OriginsAreContents DEF File
  <1>7. \A q \in Runs \ {r} : Place[q] # Place[r] => \A j \in Keys : File(q, j)' = File(q, j)
    BY <1>1, <1>4, OthersKeep
  <1>8. \A q \in Runs : Generating(q)' => q = r \/ Generating(q)
    BY <1>5 DEF Generating
  <1>9. \A q \in Runs : pc[q] = "addFill" => Place[q] # Place[r]
    <2> SUFFICES ASSUME NEW q \in Runs, pc[q] = "addFill"
                 PROVE  Place[q] # Place[r]
      OBVIOUS
    <2>1. Exists(q, "p12") /\ File(q, "appKey") \notin Runs
      BY OriginsAreContents DEF IInv, Facts, AdditionOK
    <2> QED
      BY <1>1, <2>1, NoGenerationBelow
  <1>10. GenerationOK'
    <2> SUFFICES ASSUME NEW q \in Runs, Generating(q)'
                 PROVE  /\ dir'[Place[q]]
                        /\ \A i \in 1..5 :
                              /\ i < item'[q] => File(q, Order[i])' = q
                              /\ i = item'[q] => File(q, Order[i])' = IF pc'[q] = "open" THEN None ELSE Empty
                              /\ i > item'[q] => File(q, Order[i])' = None
                        /\ \A s \in Runs : Generating(s)' /\ Place[s] = Place[q] => s = q
      BY DEF GenerationOK
    <2>1. CASE q = r
      <3>1. ASSUME NEW i \in 1..5, i # n
            PROVE  File(r, Order[i])' = File(r, Order[i])
        BY <1>1, <1>6, <3>1, <1>0, OrderIsInjective
      <3>2. item'[r] = n
        BY <1>0, <1>4
      <3>3. File(r, Order[n])' = Empty
        BY <1>0, <1>6
      <3>4. \A i \in 1..5 : /\ i < n => File(r, Order[i])' = r
                            /\ i = n => File(r, Order[i])' = Empty
                            /\ i > n => File(r, Order[i])' = None
        BY <1>1, <1>2, <3>1, <3>3
      <3> QED
        BY <1>2, <1>4, <1>5, <1>8, <2>1, <3>2, <3>4
    <2>2. CASE q # r
      <3>1. Generating(q) /\ Place[q] # Place[r]
        BY <1>2, <1>8, <2>2
      <3>2. /\ dir[Place[q]]
            /\ \A i \in 1..5 :
                  /\ i < item[q] => File(q, Order[i]) = q
                  /\ i = item[q] => File(q, Order[i]) = IF pc[q] = "open" THEN None ELSE Empty
                  /\ i > item[q] => File(q, Order[i]) = None
            /\ \A s \in Runs : Generating(s) /\ Place[s] = Place[q] => s = q
        BY <3>1 DEF IInv, GenerationOK
      <3>3. \A i \in 1..5 : File(q, Order[i])' = File(q, Order[i])
        BY <1>7, <2>2, <3>1, <1>0, OrderIsInjective
      <3> QED
        BY <1>4, <1>5, <1>8, <2>2, <3>1, <3>2, <3>3
    <2> QED
      BY <2>1, <2>2
  <1>11. AdditionOK'
    BY <1>1, <1>5, <1>7, <1>9, FiveFiles DEF IInv, AdditionOK
  <1>12. /\ pc[r] \in Adding
         /\ File(r, k) \notin Origins
         /\ item' \in [Runs -> 1..Len(Order)]
         /\ k # "p12" => File(r, "p12") \notin Origins
    <2>1. File(r, Order[5]) = None \/ n > 5
      BY <1>0, <1>1, <1>2
    <2> QED
      BY <1>0, <1>1, <1>3, <1>4, <2>1, FiveFiles, OriginsAreContents DEF Adding, TypeOK
  <1> QED
    BY <1>1, <1>2, <1>4, <1>10, <1>11, <1>12, OriginsAreContents, WriteStep

\* A file is filled by the run that created it.
LEMMA FillNextPreserves ==
    ASSUME IInv, NEW r \in Runs, FillNext(r)
    PROVE  IInv'
  <1>0. PICK n \in 1..5, k \in Keys : n = item[r] /\ k = Order[n]
    BY OrderIsInjective, FiveFiles DEF IInv, TypeOK
  <1>1. /\ TypeOK /\ Facts(r) /\ pc[r] = "fill" /\ Generating(r)
        /\ Place[r] \in Workstations
    BY OriginsAreContents DEF IInv, FillNext, Generating, TypeOK
  <1>2. /\ dir[Place[r]]
        /\ \A i \in 1..5 : /\ i < n => File(r, Order[i]) = r
                           /\ i = n => File(r, Order[i]) = Empty
                           /\ i > n => File(r, Order[i]) = None
        /\ \A s \in Runs : Generating(s) /\ Place[s] = Place[r] => s = r
    BY <1>0, <1>1 DEF IInv, GenerationOK
  <1>3. File(r, k) = Empty
    BY <1>0, <1>1, <1>2
  <1>4. /\ Write(r, k, r)
        /\ UNCHANGED <<dir, cluster, route, seen, value, disturbed>>
    BY <1>0 DEF FillNext
  <1>5. PICK l \in {"open", "value", "verify"} :
          /\ Goto(r, l)
          /\ l = "open" => n < 5 /\ item' = [item EXCEPT ![r] = n + 1]
          /\ l # "open" => n = 5 /\ UNCHANGED item
          /\ l = "value" => route[r] = "patch"
    BY <1>0, <1>1, FiveFiles DEF FillNext, AfterSecrets
  <1>6. pc'[r] = l /\ \A q \in Runs \ {r} : pc'[q] = pc[q]
    BY <1>1, <1>5 DEF TypeOK, Goto
  <1>7. /\ item' \in [Runs -> 1..Len(Order)]
        /\ l = "open" => item'[r] = n + 1
        /\ \A q \in Runs \ {r} : item'[q] = item[q]
    BY <1>0, <1>1, <1>5, FiveFiles DEF TypeOK
  <1>8. /\ File(r, k)' = r
        /\ \A j \in Keys \ {k} : File(r, j)' = File(r, j)
    BY <1>1, <1>4, OneFileWritten, OriginsAreContents DEF File
  <1>9. \A q \in Runs \ {r} : Place[q] # Place[r] => \A j \in Keys : File(q, j)' = File(q, j)
    BY <1>1, <1>4, OthersKeep
  <1>10. \A q \in Runs : Generating(q)' => q = r \/ Generating(q)
    BY <1>6 DEF Generating
  <1>11. \A q \in Runs : pc[q] = "addFill" => Place[q] # Place[r]
    <2> SUFFICES ASSUME NEW q \in Runs, pc[q] = "addFill"
                 PROVE  Place[q] # Place[r]
      OBVIOUS
    <2>1. Exists(q, "p12") /\ File(q, "appKey") \notin Runs
      BY OriginsAreContents DEF IInv, Facts, AdditionOK
    <2> QED
      BY <1>1, <2>1, NoGenerationBelow
  <1>12. GenerationOK'
    <2> SUFFICES ASSUME NEW q \in Runs, Generating(q)'
                 PROVE  /\ dir'[Place[q]]
                        /\ \A i \in 1..5 :
                              /\ i < item'[q] => File(q, Order[i])' = q
                              /\ i = item'[q] => File(q, Order[i])' = IF pc'[q] = "open" THEN None ELSE Empty
                              /\ i > item'[q] => File(q, Order[i])' = None
                        /\ \A s \in Runs : Generating(s)' /\ Place[s] = Place[q] => s = q
      BY DEF GenerationOK
    <2>1. CASE q = r
      <3>1. ASSUME NEW i \in 1..5, i # n
            PROVE  File(r, Order[i])' = File(r, Order[i])
        BY <1>1, <1>8, <3>1, <1>0, OrderIsInjective
      <3>2. l = "open"
        BY <1>5, <1>6, <2>1 DEF Generating
      <3>3. File(r, Order[n])' = r
        BY <1>0, <1>8
      <3>4. \A i \in 1..5 : /\ i < n + 1 => File(r, Order[i])' = r
                            /\ i >= n + 1 => File(r, Order[i])' = None
        BY <1>1, <1>2, <3>1, <3>3
      <3> QED
        BY <1>1, <1>2, <1>4, <1>6, <1>7, <1>10, <2>1, <3>2, <3>4
    <2>2. CASE q # r
      <3>1. Generating(q) /\ Place[q] # Place[r]
        BY <1>2, <1>10, <2>2
      <3>2. /\ dir[Place[q]]
            /\ \A i \in 1..5 :
                  /\ i < item[q] => File(q, Order[i]) = q
                  /\ i = item[q] => File(q, Order[i]) = IF pc[q] = "open" THEN None ELSE Empty
                  /\ i > item[q] => File(q, Order[i]) = None
            /\ \A s \in Runs : Generating(s) /\ Place[s] = Place[q] => s = q
        BY <3>1 DEF IInv, GenerationOK
      <3>3. \A i \in 1..5 : File(q, Order[i])' = File(q, Order[i])
        BY <1>9, <2>2, <3>1, <1>0, OrderIsInjective
      <3> QED
        BY <1>4, <1>6, <1>7, <1>10, <2>2, <3>1, <3>2, <3>3
    <2> QED
      BY <2>1, <2>2
  <1>13. AdditionOK'
    BY <1>1, <1>6, <1>9, <1>11, FiveFiles DEF IInv, AdditionOK
  <1>14. /\ pc[r] \in Adding
         /\ File(r, k) \notin Origins
    BY <1>1, <1>3, OriginsAreContents DEF Adding
  <1>15. k = "p12" => \A j \in Keys \ {"appKey", "p12"} : File(r, j) = r
    <2> SUFFICES ASSUME k = "p12", NEW j \in Keys \ {"appKey", "p12"}
                 PROVE  File(r, j) = r
      OBVIOUS
    <2>1. n = 5
      BY <1>0, FiveFiles, OrderIsInjective
    <2>2. PICK i \in 1..5 : j = Order[i]
      BY FiveFiles
    <2>3. i # 5
      BY <2>2, FiveFiles
    <2>4. i < n
      BY <2>1, <2>2, <2>3
    <2> QED
      BY <1>2, <2>2, <2>4
  <1>16. k # "p12" => File(r, "p12") \notin Origins
    <2> SUFFICES ASSUME k # "p12"
                 PROVE  File(r, "p12") = None
      BY OriginsAreContents
    <2>1. n < 5
      BY <1>0, FiveFiles
    <2> QED
      BY <1>2, <2>1, FiveFiles
  <1> QED
    BY <1>1, <1>2, <1>4, <1>5, <1>7, <1>12, <1>13, <1>14, <1>15, <1>16, WriteStep

-----------------------------------------------------------------------------
(* Steps that write the Secret.                                            *)

\* A request that changes the Secret within what the invariant allows.
LEMMA RequestStep ==
    ASSUME IInv, NEW r \in Runs, pc[r] \in {"patch", "create"}, Answer(r),
           UNCHANGED <<local, item, route, seen, value>>,
           secret' \in [Keys -> Origins], version' \in Nat, version' > version,
           \A k \in Keys : secret[k] # None => secret'[k] = secret[k],
           SecretOK', SourceKeepsSecrets'
    PROVE  IInv'
  <1>1. TypeOK /\ Facts(r)
    BY DEF IInv
  <1>2. PICK l \in {"done", "interrupted"} : Goto(r, l) /\ disturbed' \in BOOLEAN
    BY <1>1 DEF Answer, TypeOK
  <1>3. /\ pc'[r] = l /\ pc' \in [Runs -> Places]
        /\ \A q \in Runs \ {r} : pc'[q] = pc[q]
    BY <1>1, <1>2 DEF TypeOK, Goto, Places, Ended
  <1>4. TypeOK'
    <2>1. \A q \in Runs : pc'[q] = "patch" => value'[q] \in Origins
      BY <1>1, <1>3 DEF TypeOK
    <2>2. secret' \in [Keys -> Contents]
      BY OriginsAreContents
    <2> QED
      BY <1>1, <1>2, <1>3, <2>1, <2>2 DEF TypeOK, local
  <1>5. FilesGrow /\ SecretGrows
    BY DEF FilesGrow, SecretGrows, local
  <1>6. Facts(r)'
    <2>1. route[r] = "patch" => version' > 0
      BY <1>1 DEF Facts, TypeOK
    <2> QED
      BY <1>3, <2>1 DEF Facts, Adding
  <1>7. \A q \in Runs : Facts(q)'
    BY <1>3, <1>5, <1>6, FactsCarry
  <1>8. GenerationOK' /\ AdditionOK'
    BY <1>3 DEF IInv, GenerationOK, AdditionOK, Generating, File, local
  <1>9. SetsOK'
    BY DEF IInv, SetsOK, local
  <1> QED
    BY <1>4, <1>7, <1>8, <1>9 DEF IInv

\* The tested resourceVersion tells that there is still no appKey.
LEMMA PatchPreserves ==
    ASSUME IInv, NEW r \in Runs, Patch(r)
    PROVE  IInv'
  <1>1. /\ TypeOK /\ Facts(r) /\ SecretOK /\ SourceKeepsSecrets /\ pc[r] = "patch"
        /\ value[r] \in Origins /\ "appKey" \in Keys
    BY FiveFiles DEF IInv, Patch, TypeOK
  <1>2. CASE version # seen[r]
    <2>1. Goto(r, "failed") /\ UNCHANGED <<local, cluster, item, route, seen, value, disturbed>>
      BY <1>2 DEF Patch
    <2>2. "failed" \in Quiet \ Adding
      BY DEF Quiet, Adding
    <2>3. UNCHANGED <<local, cluster, item, route, seen, value>> /\ disturbed' \in BOOLEAN
      BY <1>1, <2>1 DEF TypeOK
    <2> QED
      BY <1>1, <2>1, <2>2, <2>3, QuietMove
  <1>3. CASE version = seen[r]
    <2>1. /\ secret' = [secret EXCEPT !["appKey"] = value[r]]
          /\ version' = version + 1 /\ Answer(r)
          /\ UNCHANGED <<local, item, route, seen, value>>
      BY <1>3 DEF Patch
    <2>2. secret["appKey"] = None /\ version > 0
      BY <1>1, <1>3 DEF Facts, Adding
    <2>3. secret'["appKey"] = value[r] /\ \A k \in Keys \ {"appKey"} : secret'[k] = secret[k]
      BY <1>1, <2>1 DEF TypeOK
    <2>4. PICK o \in Origins : \A k \in Keys \ {"appKey"} : secret[k] = o
      BY <1>1, <2>2 DEF SecretOK, SecretIsOneSet
    <2>5. secret' \in [Keys -> Origins]
      <3>1. DOMAIN secret' = Keys /\ secret' = [k \in Keys |-> secret'[k]]
        BY <1>1, <2>1 DEF TypeOK
      <3> QED
        BY <1>1, <2>3, <2>4, <3>1
    <2>6. version' \in Nat /\ version' > version
      BY <1>1, <2>1 DEF TypeOK
    <2>7. SecretOK'
      BY <1>1, <2>2, <2>3, <2>4, <2>5, <2>6, OriginsAreContents DEF SecretOK, SecretIsOneSet, TypeOK
    <2>8. SourceKeepsSecrets'
      <3> SUFFICES ASSUME NEW k \in Keys, secret'[k] \in Runs
                   PROVE  files[Place[secret'[k]]][k] = secret'[k]
        BY <2>1 DEF SourceKeepsSecrets, File, local
      <3>1. CASE k = "appKey"
        BY <1>1, <2>3, <3>1 DEF Facts, File
      <3>2. CASE k # "appKey"
        BY <1>1, <2>3, <3>2 DEF SourceKeepsSecrets, File
      <3> QED
        BY <3>1, <3>2
    <2>9. \A k \in Keys : secret[k] # None => secret'[k] = secret[k]
      BY <2>2, <2>3
    <2> QED
      BY <1>1, <2>1, <2>5, <2>6, <2>7, <2>8, <2>9, RequestStep
  <1> QED
    BY <1>2, <1>3

\* What is created was verified, and is one set.
LEMMA CreatePreserves ==
    ASSUME IInv, NEW r \in Runs, Create(r)
    PROVE  IInv'
  <1>1. /\ TypeOK /\ Facts(r) /\ SecretOK /\ SetsOK /\ pc[r] = "create"
        /\ Place[r] \in Workstations /\ "p12" \in Keys
    BY FiveFiles, OriginsAreContents DEF IInv, Create
  <1>2. CASE version # 0
    <2>1. Goto(r, "failed") /\ UNCHANGED <<local, cluster, item, route, seen, value, disturbed>>
      BY <1>2 DEF Create
    <2>2. "failed" \in Quiet \ Adding
      BY DEF Quiet, Adding
    <2>3. UNCHANGED <<local, cluster, item, route, seen, value>> /\ disturbed' \in BOOLEAN
      BY <1>1, <2>1 DEF TypeOK
    <2> QED
      BY <1>1, <2>1, <2>2, <2>3, QuietMove
  <1>3. CASE version = 0
    <2>1. /\ secret' = files[Place[r]] /\ version' = 1 /\ Answer(r)
          /\ UNCHANGED <<local, item, route, seen, value>>
      BY <1>3 DEF Create
    <2>2. \A k \in Keys : secret[k] = None
      BY <1>1, <1>3 DEF SecretOK
    <2>3. \A k \in Keys : secret'[k] = files[Place[r]][k] /\ secret'[k] \in Origins
      BY <1>1, <2>1 DEF Facts, File
    <2>4. secret' \in [Keys -> Origins]
      <3>1. files[Place[r]] \in [Keys -> Contents]
        BY <1>1 DEF TypeOK
      <3> QED
        BY <2>1, <2>3, <3>1
    <2>5. SecretOK'
      <3>1. PICK o \in Origins : \A k \in Keys \ {"appKey"} : files[Place[r]][k] = o
        BY <1>1, <2>3 DEF SetsOK
      <3> QED
        BY <2>1, <2>3, <3>1, OriginsAreContents DEF SecretOK, SecretIsOneSet
    <2>6. SourceKeepsSecrets'
      <3> SUFFICES ASSUME NEW k \in Keys, files[Place[r]][k] \in Runs
                   PROVE  files[Place[files[Place[r]][k]]][k] = files[Place[r]][k]
        BY <2>1 DEF SourceKeepsSecrets, File, local
      <3> QED
        BY <1>1 DEF SetsOK
    <2>7. version' \in Nat /\ version' > version
      BY <1>3, <2>1
    <2> QED
      BY <1>1, <2>1, <2>2, <2>4, <2>5, <2>6, <2>7, RequestStep
  <1> QED
    BY <1>2, <1>3

-----------------------------------------------------------------------------
(* The theorems.                                                           *)

LEMMA StutterPreserves ==
    IInv /\ UNCHANGED vars => IInv'
  BY DEF IInv, TypeOK, Facts, GenerationOK, AdditionOK, Generating, SetsOK, SecretOK, SecretIsOneSet,
         SourceKeepsSecrets, File, Exists, vars, local, cluster, run

\* Every step of every run keeps the inductive invariant.
THEOREM ProvisioningInvariant ==
    Spec => []IInv
  <1>1. IInv /\ [Next]_vars => IInv'
    <2> SUFFICES ASSUME IInv, [Next]_vars
                 PROVE  IInv'
      OBVIOUS
    <2>1. ASSUME NEW r \in Runs,
                 \/ Check(r) \/ Read(r) \/ Look(r) \/ Reuse(r) \/ MakeDirectory(r)
                 \/ AddOpen(r) \/ AddFill(r) \/ OpenNext(r) \/ FillNext(r)
                 \/ ReadValue(r) \/ Patch(r) \/ Verify(r) \/ Create(r) \/ Interrupt(r)
          PROVE  IInv'
      BY <2>1, CheckPreserves, ReadPreserves, LookPreserves, ReusePreserves,
         MakeDirectoryPreserves, AddOpenPreserves, AddFillPreserves, OpenNextPreserves,
         FillNextPreserves, ReadValuePreserves, PatchPreserves, VerifyPreserves,
         CreatePreserves, InterruptPreserves
    <2> QED
      BY <2>1, StutterPreserves DEF Next
  <1> QED
    BY <1>1, InitEstablishes, PTL DEF Spec

\* Types: a missing or empty file is never about to be stored as appKey.
THEOREM ProvisioningTypes ==
    Spec => []TypeOK
  <1>1. IInv => TypeOK
    BY DEF IInv
  <1> QED
    BY <1>1, ProvisioningInvariant, PTL

\* However many runs generate, add and store, the set in the Secret was
\* generated by one of them, completely.
THEOREM SecretIsAlwaysOneSet ==
    Spec => []SecretIsOneSet
  <1>1. IInv => SecretIsOneSet
    BY DEF IInv, SecretOK
  <1> QED
    BY <1>1, ProvisioningInvariant, PTL

\* The workstation where a stored credential was generated still has it.
THEOREM SourcesAreKept ==
    Spec => []SourceKeepsSecrets
  <1>1. IInv => SourceKeepsSecrets
    BY DEF IInv
  <1> QED
    BY <1>1, ProvisioningInvariant, PTL

\* A run that reports success leaves every key in the Secret, for good.
THEOREM SuccessMeansComplete ==
    Spec => []SuccessIsComplete
  <1>1. IInv => SuccessIsComplete
    BY DEF IInv, Facts, SuccessIsComplete
  <1> QED
    BY <1>1, ProvisioningInvariant, PTL

\* No key of the Secret is ever overwritten: only creating and patching write
\* it, one where nothing was and the other where there was no appKey.
THEOREM KeysNeverOverwritten ==
    Spec => NeverOverwritten
  <1>1. IInv /\ [Next]_vars => [\A k \in Keys : secret[k] # None => secret'[k] = secret[k]]_vars
    <2> SUFFICES ASSUME IInv, NEW r \in Runs, NEW k \in Keys, secret[k] # None,
                        \/ Check(r) \/ Read(r) \/ Look(r) \/ Reuse(r) \/ MakeDirectory(r)
                        \/ AddOpen(r) \/ AddFill(r) \/ OpenNext(r) \/ FillNext(r)
                        \/ ReadValue(r) \/ Patch(r) \/ Verify(r) \/ Create(r) \/ Interrupt(r)
                 PROVE  secret'[k] = secret[k]
      BY DEF Next
    <2>1. TypeOK /\ Facts(r) /\ SecretOK
      BY DEF IInv
    <2>2. CASE Patch(r)
      <3>1. version = seen[r] => secret["appKey"] = None
        BY <2>1, <2>2 DEF Facts, Adding, Patch
      <3> QED
        BY <2>1, <2>2, <3>1 DEF Patch, TypeOK, cluster
    <2>3. CASE Create(r)
      BY <2>1, <2>3 DEF Create, SecretOK, cluster
    <2>4. CASE ~Patch(r) /\ ~Create(r)
      BY <2>4 DEF Check, Read, Look, Reuse, MakeDirectory, AddOpen, AddFill, OpenNext, FillNext,
                  ReadValue, Verify, Interrupt, cluster
    <2> QED
      BY <2>2, <2>3, <2>4
  <1> QED
    BY <1>1, ProvisioningInvariant, PTL DEF Spec, NeverOverwritten

-----------------------------------------------------------------------------
(***************************************************************************)
(* Overlapping runs do not defeat each other.  While there is no Secret,   *)
(* or one that lacks the appKey, some run is on its way to success: a run  *)
(* only fails because another one is further.                              *)
(***************************************************************************)

\* There is a Secret that predates the application credential.
Predates == version > 0 /\ secret["appKey"] = None

\* Such a Secret was there before every run: nobody generates files.
PredatesOK ==
    Predates => \A q \in Runs :
        /\ pc[q] \in {"check", "read", "look", "reuse", "addOpen", "addFill", "value", "patch"}
                     \cup Ended
        /\ pc[q] \in {"reuse", "addOpen", "addFill"} => route[q] = "patch" /\ Exists(q, "p12")
        /\ pc[q] \in {"value", "patch"} => Exists(q, "p12")
        /\ pc[q] \in Adding => seen[q] = version

\* The files of the run's workstation are as a run left them that was not
\* interrupted.
Whole(q) == File(q, "p12") \in Origins /\ File(q, "appKey") \in Origins \cup {None}

\* On the way to creating the Secret.
WillCreate(q) ==
    \/ pc[q] \in {"check", "reuse", "mkdir"} /\ ~dir[Place[q]]
    \/ pc[q] \in {"check", "reuse"} /\ Whole(q)
    \/ pc[q] \in {"open", "fill"}
    \/ pc[q] = "addOpen" /\ Whole(q) /\ File(q, "appKey") = None
    \/ pc[q] = "addFill" /\ File(q, "p12") \in Origins
    \/ pc[q] \in {"verify", "create"} /\ \A k \in Keys : File(q, k) \in Origins

\* On the way to adding the appKey.
WillPatch(q) ==
    /\ Exists(q, "p12")
    /\ \/ pc[q] \in {"check", "read", "look", "reuse"} /\ File(q, "appKey") \in Origins \cup {None}
       \/ pc[q] = "addOpen" /\ File(q, "appKey") = None
       \/ pc[q] = "addFill"
       \/ pc[q] = "value" /\ File(q, "appKey") \in Origins
       \/ pc[q] = "patch"

HopeOK ==
    ~disturbed =>
        /\ version = 0 => \E q \in Runs : WillCreate(q)
        /\ Predates /\ (\E q \in Runs : Exists(q, "p12")) => \E q \in Runs : WillPatch(q)

\* One run moves at a time.
Step(j) ==
    \/ Check(j) \/ Read(j) \/ Look(j) \/ Reuse(j) \/ MakeDirectory(j)
    \/ AddOpen(j) \/ AddFill(j) \/ OpenNext(j) \/ FillNext(j)
    \/ ReadValue(j) \/ Patch(j) \/ Verify(j) \/ Create(j) \/ Interrupt(j)

LEMMA OthersWait ==
    ASSUME IInv, NEW j \in Runs, Step(j)
    PROVE  \A q \in Runs \ {j} : /\ pc'[q] = pc[q] /\ route'[q] = route[q]
                                 /\ seen'[q] = seen[q] /\ value'[q] = value[q]
  <1>1. /\ pc \in [Runs -> Places] /\ DOMAIN route = Runs
        /\ DOMAIN seen = Runs /\ DOMAIN value = Runs
    BY DEF IInv, TypeOK
  <1>2. \E l : Goto(j, l)
    BY Zenon DEF Step, Check, Read, Look, Reuse, MakeDirectory, AddOpen, AddFill, OpenNext, FillNext,
           ReadValue, Patch, Verify, Create, Interrupt, Open, Answer
  <1>3. \A q \in Runs \ {j} : pc'[q] = pc[q]
    BY <1>1, <1>2 DEF Goto
  <1>4. route' = route \/ \E x : route' = [route EXCEPT ![j] = x]
    BY DEF Step, Check, Read, Look, Reuse, MakeDirectory, AddOpen, AddFill, OpenNext, FillNext,
           ReadValue, Patch, Verify, Create, Interrupt
  <1>5. seen' = seen \/ \E x : seen' = [seen EXCEPT ![j] = x]
    BY DEF Step, Check, Read, Look, Reuse, MakeDirectory, AddOpen, AddFill, OpenNext, FillNext,
           ReadValue, Patch, Verify, Create, Interrupt
  <1>6. value' = value \/ \E x : value' = [value EXCEPT ![j] = x]
    BY DEF Step, Check, Read, Look, Reuse, MakeDirectory, AddOpen, AddFill, OpenNext, FillNext,
           ReadValue, Patch, Verify, Create, Interrupt
  <1> QED
    BY <1>1, <1>3, <1>4, <1>5, <1>6

\* What a step writes to files: one that is not complete, and never a p12 or an
\* appKey unless the run generates or adds.
LEMMA FilesStep ==
    ASSUME IInv, NEW j \in Runs, Step(j)
    PROVE  /\ FilesGrow
           /\ ~Generating(j) => \A w \in Workstations, k \in Keys \ {"appKey"} :
                 files'[w][k] = files[w][k]
           /\ ~Generating(j) /\ pc[j] \notin {"addOpen", "addFill"} => UNCHANGED files
           /\ \A w \in Workstations \ {Place[j]}, k \in Keys : files'[w][k] = files[w][k]
           /\ pc[j] # "mkdir" => UNCHANGED dir
           /\ \A w \in Workstations \ {Place[j]} : dir'[w] = dir[w]
  <1>1. /\ TypeOK /\ {"appKey", "p12"} \subseteq Keys /\ Place[j] \in Workstations
        /\ \A i \in 1..5 : Order[i] \in Keys
    BY FiveFiles, OriginsAreContents DEF IInv
  <1>2. CASE UNCHANGED files
    BY <1>1, <1>2
       DEF FilesGrow, Step, Check, Read, Look, Reuse, MakeDirectory, AddOpen, AddFill, OpenNext,
           FillNext, ReadValue, Patch, Verify, Create, Interrupt, local, TypeOK
  <1>3. ASSUME NEW k \in Keys, NEW c \in Contents \ {None}, Write(j, k, c),
               File(j, k) \in {None, Empty}, UNCHANGED dir,
               Generating(j) \/ (k = "appKey" /\ pc[j] \in {"addOpen", "addFill"})
        PROVE  /\ FilesGrow
               /\ ~Generating(j) => \A w \in Workstations, i \in Keys \ {"appKey"} :
                     files'[w][i] = files[w][i]
               /\ ~Generating(j) /\ pc[j] \notin {"addOpen", "addFill"} => UNCHANGED files
               /\ \A w \in Workstations \ {Place[j]}, i \in Keys : files'[w][i] = files[w][i]
               /\ pc[j] # "mkdir" => UNCHANGED dir
               /\ \A w \in Workstations \ {Place[j]} : dir'[w] = dir[w]
    BY <1>1, <1>3, OneFileWritten, OriginsAreContents DEF FilesGrow, File
  <1>4. Empty \in Contents \ {None} /\ j \in Contents \ {None}
    BY OriginsAreContents
  <1>5. CASE AddOpen(j) /\ ~UNCHANGED files
    <2>1. Write(j, "appKey", Empty) /\ File(j, "appKey") = None /\ UNCHANGED dir
      BY <1>5 DEF AddOpen, Open, Exists
    <2> QED
      BY <1>1, <1>3, <1>4, <1>5, <2>1 DEF AddOpen
  <1>6. CASE AddFill(j)
    <2>1. File(j, "appKey") = Empty
      BY <1>6 DEF AddFill, IInv, AdditionOK
    <2> QED
      BY <1>1, <1>3, <1>4, <1>6, <2>1 DEF AddFill
  <1>7. CASE OpenNext(j) /\ ~UNCHANGED files
    <2>1. item[j] \in 1..5 /\ Generating(j)
      BY <1>1, <1>7, FiveFiles DEF TypeOK, OpenNext, Generating
    <2>2. File(j, Order[item[j]]) = None
      BY <1>7, <2>1 DEF IInv, GenerationOK, OpenNext
    <2>3. Write(j, Order[item[j]], Empty) /\ UNCHANGED dir
      BY <1>7 DEF OpenNext, Open
    <2> QED
      BY <1>1, <1>3, <1>4, <2>1, <2>2, <2>3
  <1>8. CASE FillNext(j)
    <2>1. item[j] \in 1..5 /\ Generating(j) /\ pc[j] = "fill"
      BY <1>1, <1>8, FiveFiles DEF TypeOK, FillNext, Generating
    <2>2. File(j, Order[item[j]]) = Empty
      BY <2>1 DEF IInv, GenerationOK
    <2> QED
      BY <1>1, <1>3, <1>4, <1>8, <2>1, <2>2 DEF FillNext
  <1>9. Step(j) /\ ~UNCHANGED files => AddOpen(j) \/ AddFill(j) \/ OpenNext(j) \/ FillNext(j)
    BY DEF Step, Check, Read, Look, Reuse, MakeDirectory, ReadValue, Patch, Verify, Create,
           Interrupt, local
  <1> QED
    BY <1>2, <1>5, <1>6, <1>7, <1>8, <1>9

\* The Secret only changes by the two requests, and then has an appKey.
LEMMA SecretStep ==
    ASSUME IInv, NEW j \in Runs, Step(j)
    PROVE  /\ version' = 0 => version = 0
           /\ Predates' => Predates /\ UNCHANGED cluster
  <1>1. TypeOK /\ Facts(j) /\ "appKey" \in Keys
    BY FiveFiles DEF IInv
  <1>2. CASE UNCHANGED cluster
    BY <1>2 DEF cluster, Predates
  <1>3. CASE Patch(j) /\ ~UNCHANGED cluster
    <2>1. value[j] \in Origins /\ secret'["appKey"] = value[j] /\ version' = version + 1
      BY <1>1, <1>3 DEF Patch, TypeOK
    <2> QED
      BY <1>1, <2>1, OriginsAreContents DEF Predates, TypeOK
  <1>4. CASE Create(j) /\ ~UNCHANGED cluster
    <2>1. version' = 1 /\ secret'["appKey"] \in Origins
      BY <1>1, <1>4 DEF Create, Facts, File
    <2> QED
      BY <2>1, OriginsAreContents DEF Predates
  <1>5. ~UNCHANGED cluster => Patch(j) \/ Create(j)
    BY DEF Step, Check, Read, Look, Reuse, MakeDirectory, AddOpen, AddFill, OpenNext,
           FillNext, ReadValue, Verify, Interrupt
  <1> QED
    BY <1>2, <1>3, <1>4, <1>5

\* Where a run goes that finds a Secret which predates the appKey.
LEMMA PredatesStep ==
    ASSUME IInv, PredatesOK, NEW j \in Runs, Step(j)
    PROVE  PredatesOK'
  <1> SUFFICES ASSUME Predates' PROVE PredatesOK'
    BY DEF PredatesOK
  <1>1. Predates /\ UNCHANGED <<secret, version>>
    BY SecretStep DEF cluster
  <1>2. /\ pc \in [Runs -> Places] /\ DOMAIN route = Runs /\ DOMAIN seen = Runs
        /\ "p12" \in Keys /\ \A q \in Runs : Place[q] \in Workstations
    BY FiveFiles, OriginsAreContents DEF IInv, TypeOK
  <1>3. \A q \in Runs : Exists(q, "p12") => Exists(q, "p12")'
    BY <1>2, FilesStep DEF FilesGrow, Exists, File
  <1> DEFINE Fine(q) ==
        /\ pc[q] \in {"check", "read", "look", "reuse", "addOpen", "addFill", "value", "patch"}
                     \cup Ended
        /\ pc[q] \in {"reuse", "addOpen", "addFill"} => route[q] = "patch" /\ Exists(q, "p12")
        /\ pc[q] \in {"value", "patch"} => Exists(q, "p12")
        /\ pc[q] \in Adding => seen[q] = version
  <1>4. \A q \in Runs : Fine(q)
    BY <1>1 DEF PredatesOK
  <1>5. \A q \in Runs \ {j} : Fine(q)'
    <2> SUFFICES ASSUME NEW q \in Runs \ {j} PROVE Fine(q)'
      OBVIOUS
    <2>1. pc'[q] = pc[q] /\ route'[q] = route[q] /\ seen'[q] = seen[q]
      BY OthersWait
    <2> QED
      BY <1>1, <1>3, <1>4, <2>1
  <1>6. Fine(j)'
    <2>1. pc[j] \notin {"mkdir", "open", "fill", "verify", "create"}
      BY <1>4 DEF Ended
    <2>2. CASE Check(j) \/ Read(j) \/ Look(j)
      <3>1. \/ pc'[j] = "read" /\ route'[j] = "patch" /\ Check(j)
            \/ pc'[j] = "look" /\ seen'[j] = version /\ Read(j)
            \/ pc'[j] = "reuse" /\ Exists(j, "p12") /\ Look(j)
            \/ pc'[j] \in Ended
        BY <1>1, <1>2, <2>2 DEF Check, Read, Look, Goto, Predates, Ended
      <3>2. Look(j) => pc[j] = "look" /\ UNCHANGED <<route, seen>>
        BY DEF Look
      <3>3. pc[j] = "look" => route[j] = "patch"
        BY DEF IInv, Facts
      <3> QED
        BY <1>1, <1>3, <1>4, <3>1, <3>2, <3>3 DEF Adding, Ended
    <2>3. CASE Reuse(j) \/ AddOpen(j) \/ AddFill(j)
      <3>1. /\ UNCHANGED <<route, seen>> /\ Exists(j, "p12") /\ route[j] = "patch"
            /\ pc[j] \in Adding
        BY <1>4, <2>3 DEF Reuse, AddOpen, AddFill, Adding
      <3>2. pc'[j] \in {"value", "addOpen", "addFill", "failed"}
        BY <1>2, <2>3, <3>1 DEF Reuse, AddOpen, AddFill, AfterSecrets, Goto, Open
      <3> QED
        BY <1>1, <1>3, <1>4, <3>1, <3>2 DEF Adding, Ended
    <2>4. CASE ReadValue(j)
      <3>1. /\ UNCHANGED <<route, seen>> /\ Exists(j, "p12") /\ pc[j] \in Adding
        BY <1>4, <2>4 DEF ReadValue, Adding
      <3>2. pc'[j] \in {"patch", "failed"}
        BY <1>2, <2>4 DEF ReadValue, Goto
      <3> QED
        BY <1>1, <1>3, <1>4, <3>1, <3>2 DEF Adding, Ended
    <2>5. CASE Patch(j) \/ Interrupt(j)
      <3>1. pc'[j] \in Ended
        BY <1>2, <2>5 DEF Patch, Interrupt, Goto, Answer, Ended
      <3> QED
        BY <3>1 DEF Adding, Ended
    <2> QED
      BY <2>1, <2>2, <2>3, <2>4, <2>5
         DEF Step, MakeDirectory, OpenNext, FillNext, Verify, Create
  <1> QED
    BY <1>5, <1>6 DEF PredatesOK

\* While there is no Secret.
LEMMA CreatorStep ==
    ASSUME IInv, NEW j \in Runs, Step(j), ~disturbed', version = 0, version' = 0,
           NEW r \in Runs, WillCreate(r)
    PROVE  \E q \in Runs : WillCreate(q)'
  <1>0. /\ pc \in [Runs -> Places] /\ {"p12", "appKey"} \subseteq Keys
        /\ DOMAIN route = Runs /\ files \in [Workstations -> [Keys -> Contents]]
        /\ \A q \in Runs : Place[q] \in Workstations
        /\ SetsOK /\ route[r] \in {"create", "patch"} /\ route[r] # "patch"
    BY FiveFiles, OriginsAreContents DEF IInv, TypeOK, Facts
  <1>1. ~Interrupt(j)
    BY DEF Interrupt
  <1>2. CASE r # j
    <2>1. pc'[r] = pc[r]
      BY <1>2, OthersWait
    <2>2. CASE ~dir[Place[r]] /\ dir'[Place[r]]
      <3>1. MakeDirectory(j) /\ pc'[j] = "open"
        BY <1>0, <2>2, FilesStep
           DEF Step, Check, Read, Look, Reuse, MakeDirectory, AddOpen, AddFill, OpenNext,
               FillNext, ReadValue, Patch, Verify, Create, Interrupt, local, Goto
      <3> QED
        BY <3>1 DEF WillCreate
    <2>3. CASE ~dir[Place[r]] /\ ~dir'[Place[r]]
      <3>1. pc[r] \in {"check", "reuse", "mkdir"} \/ pc[r] \in {"open", "fill"}
        BY <1>0, <2>3, OriginsAreContents DEF WillCreate, SetsOK, File, Whole
      <3> QED
        BY <2>1, <2>3, <3>1 DEF WillCreate
    <2>4. CASE Whole(r) /\ File(r, "appKey") = None /\ File(r, "appKey")' # None
      <3>1. ~Generating(j) \/ Place[j] # Place[r]
        BY <2>4, FiveFiles, OriginsAreContents, <1>0
           DEF Whole, IInv, GenerationOK, File, TypeOK
      <3>2. AddOpen(j) /\ Place[j] = Place[r] /\ pc'[j] = "addFill"
        <4>1. Place[j] = Place[r] /\ ~Generating(j)
          BY <1>0, <2>4, <3>1, FilesStep DEF File
        <4>2. pc[j] \in {"addOpen", "addFill"}
          BY <2>4, <4>1, FilesStep DEF File
        <4>3. File(j, "appKey") = None
          BY <2>4, <4>1 DEF File
        <4>4. pc[j] = "addOpen"
          BY <4>2, <4>3, OriginsAreContents DEF IInv, AdditionOK
        <4>5. AddOpen(j)
          BY <1>1, <4>4
             DEF Step, Check, Read, Look, Reuse, MakeDirectory, AddFill, OpenNext, FillNext,
                 ReadValue, Patch, Verify, Create
        <4> QED
          BY <1>0, <4>1, <4>3, <4>5 DEF AddOpen, Open, Exists, Goto
      <3>3. (File(j, "p12") \in Origins)'
        BY <1>0, <2>4, <3>2, FilesStep DEF FilesGrow, Whole, File
      <3> QED
        BY <3>2, <3>3 DEF WillCreate
    <2>5. CASE dir[Place[r]] /\ ~(Whole(r) /\ File(r, "appKey") = None /\ File(r, "appKey")' # None)
      <3>1. \A k \in Keys : File(r, k) \in Origins => File(r, k)' \in Origins
        BY <1>0, FilesStep DEF FilesGrow, File
      <3> QED
        BY <1>0, <2>1, <2>5, <3>1 DEF WillCreate, Whole
    <2> QED
      BY <2>2, <2>3, <2>4, <2>5
  <1>3. CASE r = j
    <2>1. CASE Check(j) \/ Reuse(j)
      <3>1. UNCHANGED <<files, dir>> /\ pc[r] \in {"check", "reuse"}
        BY <1>3, <2>1 DEF Check, Reuse, local
      <3>2. CASE Check(j)
        BY <1>0, <1>3, <3>1, <3>2 DEF Check, Goto, WillCreate, Whole, File
      <3>3. CASE Reuse(j) /\ ~dir[Place[r]]
        <4>1. ~Exists(r, "p12")
          BY <1>0, <3>3 DEF SetsOK, Exists, File
        <4> QED
          BY <1>0, <1>3, <3>1, <3>3, <4>1 DEF Reuse, Goto, WillCreate
      <3>4. CASE Reuse(j) /\ Whole(r)
        <4>1. Exists(r, "p12")
          BY <3>4, OriginsAreContents DEF Whole, Exists
        <4>2. File(r, "appKey") # None => \A k \in Keys : File(r, k) \in Origins
          BY <1>0, <3>4 DEF SetsOK, Whole, File
        <4>3. pc'[r] = IF File(r, "appKey") # None THEN "verify" ELSE "addOpen"
          BY <1>0, <1>3, <3>4, <4>1 DEF Reuse, AfterSecrets, Exists, Goto
        <4>4. File(r, "appKey") # None => WillCreate(r)'
          BY <3>1, <4>2, <4>3 DEF WillCreate, File
        <4>5. File(r, "appKey") = None => WillCreate(r)'
          BY <3>1, <3>4, <4>3 DEF WillCreate, Whole, File
        <4> QED
          BY <4>4, <4>5
      <3>5. dir[Place[r]] => Whole(r)
        BY <3>1 DEF WillCreate
      <3> QED
        BY <2>1, <3>2, <3>3, <3>4, <3>5
    <2>2. CASE MakeDirectory(j)
      <3>1. pc'[r] = "open"
        BY <1>0, <1>3, <2>2 DEF MakeDirectory, WillCreate, Goto
      <3> QED
        BY <3>1 DEF WillCreate
    <2>3. CASE OpenNext(j)
      <3>1. item[j] \in 1..5
        BY FiveFiles DEF IInv, TypeOK
      <3>2. ~Exists(j, Order[item[j]])
        BY <2>3, <3>1 DEF OpenNext, IInv, GenerationOK, Generating, Exists
      <3>3. pc'[r] = "fill"
        BY <1>0, <1>3, <2>3, <3>2 DEF OpenNext, Open, Goto
      <3> QED
        BY <3>3 DEF WillCreate
    <2>4. CASE FillNext(j)
      <3>1. item[j] \in 1..5 /\ pc[j] = "fill" /\ Generating(j)
        BY <2>4, FiveFiles DEF IInv, TypeOK, FillNext, Generating
      <3>2. CASE item[j] < Len(Order)
        BY <1>0, <1>3, <2>4, <3>2 DEF FillNext, Goto, WillCreate
      <3>3. CASE ~(item[j] < Len(Order))
        <4>1. item[j] = 5
          BY <3>1, <3>3, FiveFiles
        <4>2. pc'[r] = "verify"
          BY <1>0, <1>3, <2>4, <3>3 DEF FillNext, AfterSecrets, Goto
        <4>3. \A i \in 1..4 : File(j, Order[i]) = j
          BY <3>1, <4>1 DEF IInv, GenerationOK
        <4>4. /\ File(j, "password") = j /\ File(j, "appKey") = j
              /\ File(j, "tlsPassword") = j /\ File(j, "crt") = j
          BY <4>3, FiveFiles
        <4>5. Write(j, "p12", j) /\ "p12" \in Keys /\ j \in Contents /\ TypeOK
          BY <2>4, <4>1, FiveFiles, OriginsAreContents DEF FillNext, IInv
        <4>6. \A k \in Keys : File(j, k)' = j
          BY <4>4, <4>5, OneFileWritten, FiveFiles, OriginsAreContents DEF File
        <4> QED
          BY <1>3, <4>2, <4>6, OriginsAreContents DEF WillCreate
      <3> QED
        BY <3>2, <3>3
    <2>5. CASE AddOpen(j)
      <3>1. Whole(r) /\ File(r, "appKey") = None
        BY <1>3, <2>5 DEF AddOpen, WillCreate
      <3>2. pc'[r] = "addFill"
        BY <1>0, <1>3, <2>5, <3>1 DEF AddOpen, Open, Exists, Goto
      <3>3. (File(r, "p12") \in Origins)'
        BY <1>0, <3>1, FilesStep DEF FilesGrow, Whole, File
      <3> QED
        BY <3>2, <3>3 DEF WillCreate
    <2>6. CASE AddFill(j)
      <3>1. File(r, "p12") \in Origins
        BY <1>3, <2>6 DEF AddFill, WillCreate
      <3>2. \A k \in Keys \ {"appKey"} : File(r, k) \in Origins
        BY <1>0, <3>1 DEF SetsOK, File
      <3>3. \A k \in Keys \ {"appKey"} : File(r, k)' \in Origins
        BY <1>0, <3>2, FilesStep DEF FilesGrow, File
      <3>4. File(r, "appKey")' = r
        BY <1>0, <1>3, <2>6, OneFileWritten, OriginsAreContents DEF AddFill, File, IInv
      <3>5. pc'[r] = "verify"
        BY <1>0, <1>3, <2>6 DEF AddFill, AfterSecrets, Goto
      <3> QED
        BY <3>3, <3>4, <3>5, OriginsAreContents DEF WillCreate
    <2>7. CASE Verify(j)
      <3>1. \A k \in Keys : File(r, k) \in Origins
        BY <1>3, <2>7 DEF Verify, WillCreate
      <3>2. pc'[r] = "create"
        BY <1>0, <1>3, <2>7, <3>1, OriginsAreContents DEF Verify, Goto
      <3>3. \A k \in Keys : File(r, k)' \in Origins
        BY <2>7, <3>1 DEF Verify, File, local
      <3> QED
        BY <3>2, <3>3 DEF WillCreate
    <2>8. ~Create(j)
      BY DEF Create
    <2> QED
      BY <1>1, <1>3, <2>1, <2>2, <2>3, <2>4, <2>5, <2>6, <2>7, <2>8
         DEF Step, WillCreate, Read, Look, ReadValue, Patch
  <1> QED
    BY <1>2, <1>3

\* While the Secret predates the appKey.
LEMMA PatcherStep ==
    ASSUME IInv, PredatesOK, NEW j \in Runs, Step(j), ~disturbed', Predates, Predates',
           NEW r \in Runs, WillPatch(r)
    PROVE  \E q \in Runs : WillPatch(q)'
  <1>0. /\ pc \in [Runs -> Places] /\ {"p12", "appKey"} \subseteq Keys
        /\ files \in [Workstations -> [Keys -> Contents]]
        /\ \A q \in Runs : Place[q] \in Workstations /\ ~Generating(q)
        /\ TypeOK
        /\ pc[r] \in Adding => seen[r] = version
    BY FiveFiles, OriginsAreContents DEF IInv, TypeOK, PredatesOK, Generating, Ended
  <1>1. ~Interrupt(j)
    BY DEF Interrupt
  <1>2. \A q \in Runs : Exists(q, "p12") => Exists(q, "p12")'
    BY <1>0, FilesStep DEF FilesGrow, Exists, File
  <1>3. \A k \in Keys : File(r, k) \in Origins => File(r, k)' = File(r, k)
    BY <1>0, FilesStep DEF FilesGrow, File
  <1>4. CASE r # j
    <2>1. pc'[r] = pc[r]
      BY <1>4, OthersWait
    <2>2. CASE File(r, "appKey") = None /\ File(r, "appKey")' # None
      <3>1. Place[j] = Place[r] /\ pc[j] \in {"addOpen", "addFill"}
        BY <1>0, <2>2, FilesStep DEF File
      <3>2. File(j, "appKey") = None
        BY <2>2, <3>1 DEF File
      <3>3. pc[j] = "addOpen"
        BY <3>1, <3>2, OriginsAreContents DEF IInv, AdditionOK
      <3>4. AddOpen(j)
        BY <1>1, <3>3
           DEF Step, Check, Read, Look, Reuse, MakeDirectory, AddFill, OpenNext, FillNext,
               ReadValue, Patch, Verify, Create
      <3>5. pc'[j] = "addFill"
        BY <1>0, <3>2, <3>4 DEF AddOpen, Open, Exists, Goto
      <3>6. Exists(j, "p12")'
        BY <1>2, <3>1 DEF WillPatch, Exists, File
      <3> QED
        BY <3>5, <3>6 DEF WillPatch
    <2>3. CASE ~(File(r, "appKey") = None /\ File(r, "appKey")' # None)
      BY <1>0, <1>2, <1>3, <2>1, <2>3 DEF WillPatch
    <2> QED
      BY <2>2, <2>3
  <1>5. CASE r = j
    <2>1. Exists(r, "p12") /\ Exists(r, "p12")'
      BY <1>2 DEF WillPatch
    <2>2. CASE Check(j) \/ Read(j) \/ Look(j)
      <3>1. UNCHANGED files /\ File(r, "appKey") \in Origins \cup {None}
        BY <1>5, <2>2 DEF Check, Read, Look, local, WillPatch
      <3>2. pc'[r] \in {"read", "look", "reuse"}
        BY <1>0, <1>5, <2>1, <2>2 DEF Check, Read, Look, Goto, Predates
      <3> QED
        BY <2>1, <3>1, <3>2 DEF WillPatch, File
    <2>3. CASE Reuse(j)
      <3>1. UNCHANGED files /\ File(r, "appKey") \in Origins \cup {None} /\ route[r] = "patch"
        BY <1>5, <2>3 DEF Reuse, local, WillPatch, PredatesOK
      <3>2. pc'[r] = IF File(r, "appKey") # None THEN "value" ELSE "addOpen"
        BY <1>0, <1>5, <2>1, <2>3, <3>1 DEF Reuse, AfterSecrets, Exists, Goto
      <3> QED
        BY <2>1, <3>1, <3>2 DEF WillPatch, File
    <2>4. CASE AddOpen(j)
      <3>1. File(r, "appKey") = None
        BY <1>5, <2>4 DEF AddOpen, WillPatch
      <3>2. pc'[r] = "addFill"
        BY <1>0, <1>5, <2>4, <3>1 DEF AddOpen, Open, Exists, Goto
      <3> QED
        BY <2>1, <3>2 DEF WillPatch
    <2>5. CASE AddFill(j)
      <3>1. File(r, "appKey")' = r
        BY <1>0, <1>5, <2>5, OneFileWritten, OriginsAreContents DEF AddFill, File
      <3>2. pc'[r] = "value"
        BY <1>0, <1>5, <2>5 DEF AddFill, AfterSecrets, Goto, PredatesOK
      <3> QED
        BY <2>1, <3>1, <3>2, OriginsAreContents DEF WillPatch
    <2>6. CASE ReadValue(j)
      <3>1. File(r, "appKey") \in Origins
        BY <1>5, <2>6 DEF ReadValue, WillPatch
      <3>2. pc'[r] = "patch"
        BY <1>0, <1>5, <2>6, <3>1, OriginsAreContents DEF ReadValue, Goto
      <3> QED
        BY <2>1, <3>2 DEF WillPatch
    <2>7. CASE Patch(j)
      <3>1. version' = version + 1
        BY <1>0, <1>5, <2>7 DEF Patch, Adding
      <3>2. version' = version /\ version \in Nat
        BY <1>0, SecretStep DEF cluster, TypeOK
      <3> QED
        BY <3>1, <3>2
    <2> QED
      BY <1>1, <1>5, <2>2, <2>3, <2>4, <2>5, <2>6, <2>7
         DEF Step, WillPatch, MakeDirectory, OpenNext, FillNext, Verify, Create
  <1> QED
    BY <1>4, <1>5

LEMMA HopeStep ==
    ASSUME IInv, PredatesOK, HopeOK, NEW j \in Runs, Step(j)
    PROVE  HopeOK'
  <1> SUFFICES ASSUME ~disturbed' PROVE HopeOK'
    BY DEF HopeOK
  <1>1. ~disturbed
    BY DEF IInv, TypeOK, Step, Check, Read, Look, Reuse, MakeDirectory, AddOpen, AddFill,
           OpenNext, FillNext, ReadValue, Patch, Verify, Create, Interrupt, Answer
  <1>2. ASSUME version' = 0
        PROVE  \E q \in Runs : WillCreate(q)'
    <2>1. version = 0
      BY <1>2, SecretStep
    <2>2. PICK r \in Runs : WillCreate(r)
      BY <1>1, <2>1 DEF HopeOK
    <2> QED
      BY <1>2, <2>1, <2>2, CreatorStep
  <1>3. ASSUME Predates', NEW p \in Runs, Exists(p, "p12")'
        PROVE  \E q \in Runs : WillPatch(q)'
    <2>1. Predates
      BY <1>3, SecretStep
    <2>2. \A q \in Runs : ~Generating(q)
      BY <2>1 DEF PredatesOK, Generating, Ended
    <2>3. Exists(p, "p12")
      BY <1>3, <2>2, FilesStep, FiveFiles, OriginsAreContents DEF Exists, File
    <2>4. PICK r \in Runs : WillPatch(r)
      BY <1>1, <2>1, <2>3 DEF HopeOK
    <2> QED
      BY <1>3, <2>1, <2>4, PatcherStep
  <1> QED
    BY <1>2, <1>3 DEF HopeOK

\* Runs that overlap but meet no failure do not defeat each other: when all
\* have ended the Secret is complete, unless it wants an appKey and none of
\* them had the files.
THEOREM OverlappingRunsSucceed ==
    ASSUME Runs # {}
    PROVE  Spec => []OneSucceeds
  <1>1. Init => PredatesOK /\ HopeOK
    <2> SUFFICES ASSUME Init PROVE PredatesOK /\ HopeOK
      OBVIOUS
    <2>1. \A q \in Runs : pc[q] = "check" /\ Place[q] \in Workstations
      BY OriginsAreContents DEF Init
    <2>2. PredatesOK
      BY <2>1 DEF PredatesOK, Adding, Ended
    <2>3. \A q \in Runs : \/ ~dir[Place[q]] /\ ~Exists(q, "p12")
                          \/ Whole(q)
      <3> SUFFICES ASSUME NEW q \in Runs
                   PROVE  \/ ~dir[Place[q]] /\ ~Exists(q, "p12")
                          \/ Whole(q)
        OBVIOUS
      <3>1. CASE files[Place[q]] = Nothing
        BY <2>1, <3>1, FiveFiles DEF Init, Nothing, Exists, File
      <3>2. ASSUME NEW o \in Earlier, files[Place[q]] \in {Complete(o), Legacy(o)}
            PROVE  Whole(q)
        BY <2>1, <3>2, FiveFiles DEF Complete, Legacy, Whole, File, Origins
      <3>3. files[Place[q]] \in {Nothing} \cup {Complete(o) : o \in Earlier}
                                          \cup {Legacy(o) : o \in Earlier}
        BY <2>1 DEF Init
      <3> QED
        BY <3>1, <3>2, <3>3
    <2>4. \A q \in Runs : WillCreate(q)
      BY <2>1, <2>3 DEF WillCreate
    <2>5. \A q \in Runs : Exists(q, "p12") => WillPatch(q)
      BY <2>1, <2>3 DEF WillPatch, Whole
    <2> QED
      BY <2>2, <2>4, <2>5 DEF HopeOK
  <1>2. IInv /\ PredatesOK /\ HopeOK /\ [Next]_vars => PredatesOK' /\ HopeOK'
    <2> SUFFICES ASSUME IInv, PredatesOK, HopeOK, [Next]_vars
                 PROVE  PredatesOK' /\ HopeOK'
      OBVIOUS
    <2>1. CASE UNCHANGED vars
      BY <2>1 DEF PredatesOK, HopeOK, Predates, WillCreate, WillPatch, Whole, File, Exists,
                  vars, local, cluster, run
    <2>2. ASSUME NEW j \in Runs, Step(j)
          PROVE  PredatesOK' /\ HopeOK'
      BY <2>2, PredatesStep, HopeStep
    <2> QED
      BY <2>1, <2>2 DEF Next, Step
  <1>3. IInv /\ HopeOK => OneSucceeds
    <2> SUFFICES ASSUME IInv, HopeOK, ~disturbed, \A r \in Runs : pc[r] \in Ended
                 PROVE  \/ \A k \in Keys : secret[k] \in Origins
                        \/ version > 0 /\ \A r \in Runs : ~Exists(r, "p12")
      BY DEF OneSucceeds
    <2>1. version \in Nat /\ version # 0
      BY DEF HopeOK, WillCreate, Ended, IInv, TypeOK
    <2>2. CASE secret["appKey"] = None
      BY <2>1, <2>2 DEF HopeOK, Predates, WillPatch, Ended
    <2>3. CASE secret["appKey"] # None
      BY <2>1, <2>3, FiveFiles, OriginsAreContents DEF IInv, SecretOK, SecretIsOneSet, TypeOK
    <2> QED
      BY <2>2, <2>3
  <1> QED
    BY <1>1, <1>2, <1>3, ProvisioningInvariant, PTL DEF Spec

=============================================================================
