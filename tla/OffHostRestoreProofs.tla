------------------------ MODULE OffHostRestoreProofs ------------------------
(* Proofs about OffHostRestore, for any runs, workstations, names and      *)
(* backups.                                                                *)
EXTENDS OffHostRestore, TLAPS

-----------------------------------------------------------------------------
(* The inductive invariant.                                                *)

\* Where a run has done what: each set of places includes the ones after it.
Passed     == {"find", "createJob", "waitJob", "dropJob", "dropFailedJob", "claim", "done"}
Filled     == {"remove", "helm", "forward", "check"} \cup Passed
Supplied   == {"volume", "loader", "ready", "early", "extract", "extracting"} \cup Filled
Owning     == {"secret"} \cup Supplied
Verified   == {"credentials", "namespace"} \cup Owning
Downloaded == {"receive", "verify"} \cup Verified

\* Before a run has a file, before it has a namespace, before any check.
Before  == {"connect", "manifest", "open"}
Unmade  == Before \cup {"receive", "verify", "credentials", "namespace"}
Pending == Labels \ ({"check"} \cup Passed \cup Ended)

\* What the files of a run and the namespace it owns hold at a place.
DataFor(r, l) ==
    /\ l \in Downloaded => file[At(r)].of = target[r]
    /\ l = "verify" => file[At(r)] = Sent(target[r])
    /\ l \in Verified =>
          file[At(r)].state = "whole" /\ target[r] \in Matching \ Damaged
    /\ l \in Owning => Own(r).owner = r
    /\ l \in Supplied => Own(r).secret = target[r]
    /\ l \in {"loader", "ready", "early"} => Own(r).volume.state \in {"empty", "leftover"}
    /\ l = "ready" => Own(r).loader # "absent"
    /\ l = "extracting" => Own(r).volume.of = target[r]
    /\ l \in Filled => Own(r).volume = [state |-> "whole", of |-> target[r]]

\* How far the checks of a run have come at a place.
ChecksFor(r, l) ==
    /\ l \in Pending => checked[r] = 0
    /\ l = "check" =>
          /\ checked[r] < Len(Checks)
          /\ checked[r] # 0 => target[r] \in Seeded
          /\ disturbed[r] \/ forward[r]
    /\ l \in Passed => target[r] \in Seeded
    /\ l = "dropFailedJob" => disturbed[r]

\* Why a run may have failed.
Excused(r) ==
    \/ disturbed[r]
    \/ target[r] \in Damaged \/ target[r] \notin Matching \cap Seeded
    \/ target[r] \notin manifests
    \/ \E q \in Runs \ {r} : name[q] = name[r]
    \/ Own(r).loader = "ended"

RunOK(r) ==
    /\ DataFor(r, pc[r]) /\ ChecksFor(r, pc[r])
    /\ (pc[r] = "failed" => Excused(r))

\* A file belongs to a run that has opened it, and no two runs that are under
\* way share one.
FilesOK ==
    /\ \A p \in Workstations \X Names :
          file[p] # Nothing => \E q \in Runs : At(q) = p /\ pc[q] \notin Before
    /\ \A q, r \in Runs :
          q # r /\ pc[q] \in Downloaded /\ pc[r] \in Downloaded => At(q) # At(r)

\* A namespace belongs to a run of that name, which has come to create it.
SpaceOK(n) ==
    LET s == scratch[n] IN
    /\ s.owner # Nobody => name[s.owner] = n /\ pc[s.owner] \notin Unmade
    /\ IF s.owner = Nobody
       THEN s.secret = Nobody /\ s.volume = Nothing
       ELSE {s.secret, s.volume.of} \subseteq {Nobody, target[s.owner]}

IInv ==
    /\ TypeOK
    /\ manifests \subseteq archives
    /\ FilesOK
    /\ \A n \in Names : SpaceOK(n)
    /\ \A r \in Runs : RunOK(r)

-----------------------------------------------------------------------------
(* Steps of a run, and what they leave to the others.                      *)

\* A step that changes nothing of the other runs, and does not go back.
Moves(r) ==
    /\ pc' = [pc EXCEPT ![r] = pc'[r]] /\ pc'[r] \in Labels
    /\ forward' = [forward EXCEPT ![r] = forward'[r]] /\ forward'[r] \in BOOLEAN
    /\ checked' = [checked EXCEPT ![r] = checked'[r]] /\ checked'[r] \in 0..Len(Checks)
    /\ disturbed' = [disturbed EXCEPT ![r] = disturbed'[r]] /\ disturbed'[r] \in BOOLEAN
    /\ UNCHANGED argv
    /\ pc[r] \notin Before => pc'[r] \notin Before
    /\ pc[r] \notin Unmade => pc'[r] \notin Unmade

\* Five checks, the fixture first.
LEMMA FiveChecks == Len(Checks) = 5 /\ Checks[1] = "fixture"
  BY DEF Checks

\* What a step leaves of a run's data keeps what is known of the run.
LEMMA OthersKeep ==
    ASSUME IInv, NEW r \in Runs, NEW q \in Runs \ {r}, Moves(r),
           manifests' \subseteq manifests,
           pc[q] \in Downloaded => file'[At(q)] = file[At(q)],
           name[q] # name[r] \/ pc[q] \in Owning => scratch'[name[q]] = scratch[name[q]]
    PROVE  RunOK(q)'
  <1>1. /\ pc'[q] = pc[q] /\ forward'[q] = forward[q]
        /\ checked'[q] = checked[q] /\ disturbed'[q] = disturbed[q]
    BY DEF Moves, IInv, TypeOK
  <1>2. target' = target /\ name' = name /\ place' = place
    BY DEF Moves, argv
  <1>3. RunOK(q)
    BY DEF IInv
  <1>4. DataFor(q, pc[q])'
    <2>1. pc[q] \in Downloaded => file'[At(q)] = file[At(q)] /\ At(q)' = At(q)
      BY <1>2 DEF At
    <2>2. pc[q] \in Owning => Own(q)' = Own(q)
      BY <1>2 DEF Own
    <2> QED
      BY <1>1, <1>2, <1>3, <2>1, <2>2
      DEF RunOK, DataFor, Downloaded, Verified, Owning, Supplied, Filled, Passed, Sent, At
  <1>5. ChecksFor(q, pc[q])'
    BY <1>1, <1>2, <1>3 DEF RunOK, ChecksFor
  <1>6. (pc[q] = "failed" => Excused(q))'
    <2>1. CASE name[q] = name[r]
      BY <1>2, <2>1 DEF Excused
    <2>2. CASE name[q] # name[r]
      <3>1. Own(q)' = Own(q)
        BY <1>2, <2>2 DEF Own
      <3> QED
        BY <1>1, <1>2, <1>3, <3>1 DEF RunOK, Excused
    <2> QED
      BY <2>1, <2>2
  <1> QED
    BY <1>4, <1>5, <1>6 DEF RunOK

\* The types of a step that moves one run.
LEMMA MoveTypes ==
    ASSUME IInv, NEW r \in Runs, Moves(r),
           manifests' \subseteq manifests, archives' \subseteq archives,
           (file \in [Workstations \X Names -> Content({"absent", "partial", "damaged", "whole"})])',
           (scratch \in [Names -> Scratch])'
    PROVE  TypeOK'
  <1>1. /\ pc' \in [Runs -> Labels] /\ checked' \in [Runs -> 0..Len(Checks)]
    BY FiveChecks DEF Moves, IInv, TypeOK
  <1>2. forward' \in [Runs -> BOOLEAN]
    <2>1. PICK b \in BOOLEAN : forward' = [forward EXCEPT ![r] = b]
      BY DEF Moves
    <2> QED
      BY <2>1, Zenon DEF IInv, TypeOK
  <1>3. disturbed' \in [Runs -> BOOLEAN]
    <2>1. PICK b \in BOOLEAN : disturbed' = [disturbed EXCEPT ![r] = b]
      BY DEF Moves
    <2> QED
      BY <2>1, Zenon DEF IInv, TypeOK
  <1> QED
    BY <1>1, <1>2, <1>3 DEF Moves, IInv, TypeOK, argv, Content, Scratch

\* Files stay with runs that have opened them.
LEMMA FilesKept ==
    ASSUME IInv, NEW r \in Runs, Moves(r),
           \A p \in (Workstations \X Names) \ {At(r)} : file'[p] = file[p],
           file'[At(r)] = file[At(r)] \/ pc'[r] \notin Before,
           pc'[r] \in Downloaded =>
               \/ pc[r] \in Downloaded
               \/ file[At(r)] = Nothing
    PROVE  FilesOK'
  <1>1. \A q \in Runs : At(q)' = At(q) /\ At(q) \in Workstations \X Names
    BY DEF Moves, argv, At, IInv, TypeOK
  <1>2. \A q \in Runs \ {r} : pc'[q] = pc[q]
    BY DEF Moves, IInv, TypeOK
  <1>3. ASSUME NEW p \in Workstations \X Names, file'[p] # Nothing
        PROVE  \E q \in Runs : At(q)' = p /\ pc'[q] \notin Before
    <2>1. CASE file'[p] = file[p]
      <3>1. PICK q \in Runs : At(q) = p /\ pc[q] \notin Before
        BY <1>3, <2>1 DEF IInv, FilesOK
      <3> QED
        BY <1>1, <1>2, <3>1 DEF Moves
    <2>2. CASE file'[p] # file[p]
      BY <1>1, <2>2
    <2> QED
      BY <2>1, <2>2
  <1>4. ASSUME NEW q \in Runs \ {r}, pc[q] \in Downloaded, pc'[r] \in Downloaded
        PROVE  At(q) # At(r)
    <2>1. file[At(q)].of = target[q] /\ target[q] \in Backups
      BY <1>4 DEF IInv, RunOK, DataFor, TypeOK
    <2>2. file[At(q)] # Nothing
      BY <2>1, RestoreAssumption DEF Nothing
    <2> QED
      BY <1>4, <2>2 DEF IInv, FilesOK
  <1>5. ASSUME NEW q \in Runs, NEW s \in Runs, q # s,
               pc'[q] \in Downloaded, pc'[s] \in Downloaded
        PROVE  At(q)' # At(s)'
    BY <1>1, <1>2, <1>4, <1>5 DEF IInv, FilesOK
  <1> QED
    BY <1>3, <1>5, Zenon DEF FilesOK, Nothing

\* A namespace whose content is not changed stays in order.
LEMMA SpaceKept ==
    ASSUME IInv, NEW r \in Runs, Moves(r), NEW n \in Names, scratch'[n] = scratch[n]
    PROVE  SpaceOK(n)'
  <1>1. SpaceOK(n) /\ scratch[n] \in Scratch
    BY DEF IInv, TypeOK
  <1>2. \A q \in Runs : pc[q] \notin Unmade => pc'[q] \notin Unmade
    BY DEF Moves, IInv, TypeOK
  <1>3. name' = name /\ target' = target
    BY DEF Moves, argv
  <1>4. scratch[n].owner # Nobody => scratch[n].owner \in Runs
    BY <1>1 DEF Scratch
  <1> QED
    BY <1>1, <1>2, <1>3, <1>4 DEF SpaceOK, Nothing

\* A step that changes neither files nor namespaces.
LEMMA LocalKeeps ==
    ASSUME IInv, NEW r \in Runs, Moves(r), UNCHANGED <<bucket, file, scratch>>,
           pc'[r] \in Downloaded => pc[r] \in Downloaded,
           RunOK(r)'
    PROVE  IInv'
  <1>0. UNCHANGED <<manifests, archives, file, scratch>>
    BY DEF bucket
  <1>1. TypeOK'
    BY <1>0, MoveTypes DEF IInv, TypeOK
  <1>2. FilesOK'
    BY <1>0, FilesKept
  <1>3. \A n \in Names : SpaceOK(n)'
    BY <1>0, SpaceKept
  <1>4. \A q \in Runs \ {r} : RunOK(q)'
    BY <1>0, OthersKeep
  <1> QED
    BY <1>0, <1>1, <1>2, <1>3, <1>4 DEF IInv

\* A command that may change the namespace of a run, which is the run's own or
\* nobody's.
LEMMA CommandKeeps ==
    ASSUME IInv, NEW r \in Runs, NEW c \in Scratch, Moves(r), UNCHANGED <<bucket, file>>,
           \/ scratch' = scratch
           \/ /\ scratch' = [scratch EXCEPT ![name[r]] = c]
              /\ pc'[r] \notin Unmade,
           Own(r).owner \in {Nobody, r}, c.owner = r,
           {c.secret, c.volume.of} \subseteq {Nobody, target[r]},
           pc'[r] \in Downloaded => pc[r] \in Downloaded,
           RunOK(r)'
    PROVE  IInv'
  <1>0. /\ UNCHANGED <<manifests, archives, file>>
        /\ name[r] \in Names /\ scratch \in [Names -> Scratch]
        /\ r # Nobody
    BY RestoreAssumption DEF bucket, IInv, TypeOK
  <1>1. /\ \A n \in Names \ {name[r]} : scratch'[n] = scratch[n]
        /\ scratch' = scratch \/ scratch'[name[r]] = c
        /\ scratch' \in [Names -> Scratch]
    BY <1>0
  <1>2. TypeOK'
    BY <1>0, <1>1, MoveTypes DEF IInv, TypeOK
  <1>3. FilesOK'
    BY <1>0, FilesKept
  <1>4. ASSUME NEW n \in Names PROVE SpaceOK(n)'
    <2>1. CASE scratch'[n] = scratch[n]
      BY <2>1, SpaceKept
    <2>2. CASE scratch'[n] # scratch[n]
      <3>1. n = name[r] /\ scratch'[n] = c /\ pc'[r] \notin Unmade
        BY <1>1, <2>2
      <3>2. name' = name /\ target' = target
        BY DEF Moves, argv
      <3> QED
        BY <1>0, <3>1, <3>2 DEF SpaceOK
    <2> QED
      BY <2>1, <2>2
  <1>5. ASSUME NEW q \in Runs \ {r} PROVE RunOK(q)'
    <2>1. name[q] \in Names
      BY DEF IInv, TypeOK
    <2>2. pc[q] \in Owning => name[q] # name[r]
      <3>1. pc[q] \in Owning => Own(q).owner = q
        BY DEF IInv, RunOK, DataFor
      <3>2. q # Nobody
        BY RestoreAssumption
      <3> QED
        BY <3>1, <3>2 DEF Own
    <2>3. name[q] # name[r] => scratch'[name[q]] = scratch[name[q]]
      BY <1>1, <2>1
    <2> QED
      BY <1>0, <2>2, <2>3, OthersKeep
  <1> QED
    BY <1>0, <1>2, <1>3, <1>4, <1>5 DEF IInv

-----------------------------------------------------------------------------
(* The ways a run goes on.                                                 *)

LEMMA GotoMoves ==
    ASSUME IInv, NEW r \in Runs, NEW label \in Labels, Goto(r, label), UNCHANGED argv,
           pc[r] \notin Before => label \notin Before,
           pc[r] \notin Unmade => label \notin Unmade
    PROVE  /\ Moves(r) /\ pc'[r] = label /\ forward'[r] = forward[r]
           /\ checked'[r] = checked[r] /\ disturbed'[r] = disturbed[r]
  <1>1. pc' = [pc EXCEPT ![r] = pc'[r]] /\ pc'[r] = label
    BY DEF Goto, IInv, TypeOK
  <1>2. /\ forward' = forward /\ checked' = checked /\ disturbed' = disturbed
        /\ forward[r] \in BOOLEAN /\ checked[r] \in 0..Len(Checks) /\ disturbed[r] \in BOOLEAN
    BY DEF Goto, IInv, TypeOK
  <1>3. /\ forward' = [forward EXCEPT ![r] = forward'[r]]
        /\ checked' = [checked EXCEPT ![r] = checked'[r]]
        /\ disturbed' = [disturbed EXCEPT ![r] = disturbed'[r]]
    BY <1>2 DEF IInv, TypeOK
  <1> QED
    BY <1>1, <1>2, <1>3 DEF Moves

LEMMA LeaveMoves ==
    ASSUME IInv, NEW r \in Runs, NEW label \in Labels \ Unmade, NEW fault \in BOOLEAN,
           Leave(r, label, fault), UNCHANGED argv
    PROVE  /\ Moves(r) /\ pc'[r] = label /\ forward'[r] = FALSE
           /\ checked'[r] = checked[r] /\ disturbed'[r] = (disturbed[r] \/ fault)
  <1>1. /\ pc' = [pc EXCEPT ![r] = pc'[r]] /\ pc'[r] = label
        /\ checked' = checked /\ checked[r] \in 0..Len(Checks)
        /\ checked' = [checked EXCEPT ![r] = checked'[r]]
    BY DEF Leave, IInv, TypeOK
  <1>2. forward' = [forward EXCEPT ![r] = forward'[r]] /\ forward'[r] = FALSE
    BY Zenon DEF Leave, IInv, TypeOK
  <1>3. /\ disturbed' = [disturbed EXCEPT ![r] = disturbed'[r]]
        /\ disturbed'[r] = (disturbed[r] \/ fault)
        /\ disturbed'[r] \in BOOLEAN
    <2>1. disturbed' = [disturbed EXCEPT ![r] = disturbed[r] \/ fault]
      BY DEF Leave
    <2>2. (disturbed[r] \/ fault) \in BOOLEAN
      OBVIOUS
    <2> QED
      BY <2>1, <2>2, Zenon DEF IInv, TypeOK
  <1> QED
    BY <1>1, <1>2, <1>3 DEF Moves, Before, Unmade

\* A run that fails because something broke, or for a reason, is in order.
LEMMA FailedIsOK ==
    ASSUME IInv, NEW r \in Runs, Moves(r), pc'[r] = "failed", Excused(r)'
    PROVE  RunOK(r)' /\ pc'[r] \notin Downloaded
  BY DEF RunOK, DataFor, ChecksFor, Downloaded, Verified, Owning, Supplied, Filled, Passed,
         Pending, Ended

LEMMA BrokenIsOK ==
    ASSUME IInv, NEW r \in Runs, UNCHANGED argv, Break(r)
    PROVE  /\ Moves(r) /\ pc'[r] = "failed" /\ RunOK(r)'
           /\ pc'[r] \notin Downloaded /\ pc'[r] \notin Unmade
  <1>1. "failed" \in Labels \ Unmade
    BY DEF Labels, Ended, Unmade, Before
  <1>2. Moves(r) /\ pc'[r] = "failed" /\ disturbed'[r]
    BY <1>1, LeaveMoves DEF Break
  <1>3. Excused(r)'
    BY <1>2 DEF Excused
  <1> QED
    BY <1>1, <1>2, <1>3, FailedIsOK

LEMMA RejectedIsOK ==
    ASSUME IInv, NEW r \in Runs, UNCHANGED argv, Reject(r), Excused(r)'
    PROVE  /\ Moves(r) /\ pc'[r] = "failed" /\ RunOK(r)'
           /\ pc'[r] \notin Downloaded /\ pc'[r] \notin Unmade
  <1>1. "failed" \in Labels \ Unmade
    BY DEF Labels, Ended, Unmade, Before
  <1>2. Moves(r) /\ pc'[r] = "failed"
    BY <1>1, LeaveMoves DEF Reject
  <1> QED
    BY <1>1, <1>2, FailedIsOK

\* A step without an effect beyond the run.
LEMMA LocalStep ==
    ASSUME IInv, NEW r \in Runs, NEW label \in Labels, UNCHANGED <<bucket, argv, file, scratch>>,
           \/ /\ Goto(r, label)
              /\ pc[r] \notin Before => label \notin Before
              /\ pc[r] \notin Unmade => label \notin Unmade
              /\ label \in Downloaded => pc[r] \in Downloaded
              /\ RunOK(r)'
           \/ Reject(r) /\ Excused(r)'
           \/ Break(r)
    PROVE  IInv'
  <1>0. UNCHANGED argv /\ UNCHANGED <<bucket, file, scratch>>
    OBVIOUS
  <1>1. ASSUME Moves(r), RunOK(r)', pc'[r] \in Downloaded => pc[r] \in Downloaded
        PROVE  IInv'
    BY <1>0, <1>1, LocalKeeps
  <1>2. CASE Break(r)
    BY <1>0, <1>1, <1>2, BrokenIsOK
  <1>3. CASE Reject(r) /\ Excused(r)'
    BY <1>0, <1>1, <1>3, RejectedIsOK
  <1>4. CASE /\ Goto(r, label)
             /\ pc[r] \notin Before => label \notin Before
             /\ pc[r] \notin Unmade => label \notin Unmade
             /\ label \in Downloaded => pc[r] \in Downloaded
             /\ RunOK(r)'
    <2>1. Moves(r) /\ pc'[r] = label
      BY <1>0, <1>4, GotoMoves
    <2> QED
      BY <1>1, <1>4, <2>1
  <1> QED
    BY <1>2, <1>3, <1>4

\* A command to the cluster, for one content of the namespace.
LEMMA CommandStep ==
    ASSUME IInv, NEW r \in Runs, NEW c \in Scratch, NEW from, NEW label \in Labels \ Unmade,
           Kubectl(r, from, c, label),
           Own(r).owner \in {Nobody, r}, c.owner = r,
           {c.secret, c.volume.of} \subseteq {Nobody, target[r]},
           label \in Downloaded => from \in Downloaded,
           Goto(r, label) /\ pc'[r] = label /\ Own(r)' = c => RunOK(r)'
    PROVE  IInv'
  <1>0. /\ pc[r] = from /\ UNCHANGED <<bucket, file>> /\ UNCHANGED argv
        /\ \/ scratch' = [scratch EXCEPT ![name[r]] = c] /\ Goto(r, label)
           \/ scratch' \in {scratch, [scratch EXCEPT ![name[r]] = c]} /\ Break(r)
    <2>1. pc[r] = from /\ UNCHANGED <<bucket, argv, file>>
      BY DEF Kubectl
    <2>2. \/ scratch' = [scratch EXCEPT ![name[r]] = c] /\ Goto(r, label)
          \/ scratch' \in {scratch, [scratch EXCEPT ![name[r]] = c]} /\ Break(r)
      BY Zenon DEF Kubectl
    <2>3. UNCHANGED <<bucket, file>> /\ UNCHANGED argv
      BY <2>1
    <2> QED
      BY <2>1, <2>2, <2>3
  <1>1. CASE Break(r)
    <2>0. UNCHANGED argv
      BY <1>0
    <2>1. Moves(r) /\ pc'[r] = "failed" /\ RunOK(r)'
      BY <1>1, <2>0, BrokenIsOK
    <2>2. pc'[r] \notin Downloaded /\ pc'[r] \notin Unmade
      BY <1>1, <2>0, BrokenIsOK
    <2>3. \/ scratch' = scratch
          \/ scratch' = [scratch EXCEPT ![name[r]] = c] /\ pc'[r] \notin Unmade
      BY <1>0, <2>2
    <2> QED
      BY <1>0, <2>1, <2>2, <2>3, CommandKeeps
  <1>2. CASE scratch' = [scratch EXCEPT ![name[r]] = c] /\ Goto(r, label)
    <2>1. Before \subseteq Unmade
      BY DEF Unmade
    <2>2. Moves(r) /\ pc'[r] = label
      BY <1>0, <1>2, <2>1, GotoMoves
    <2>3. Own(r)' = c
      BY <1>0, <1>2 DEF Own, argv, IInv, TypeOK
    <2>4. RunOK(r)'
      BY <1>2, <2>2, <2>3
    <2> QED
      BY <1>0, <1>2, <2>2, <2>4, CommandKeeps
  <1> QED
    BY <1>0, <1>1, <1>2

\* What is known of a run that owns a namespace.
LEMMA OwnIsOwn ==
    ASSUME IInv, NEW r \in Runs, pc[r] \in Owning
    PROVE  /\ Own(r) \in Scratch /\ Own(r).owner = r
           /\ {Own(r).secret, Own(r).volume.of} \subseteq {Nobody, target[r]}
           /\ file[At(r)] = [state |-> "whole", of |-> target[r]]
           /\ target[r] \in Backups /\ target[r] \in Matching \ Damaged
  <1>1. Own(r) \in Scratch /\ Own(r).owner = r /\ r # Nobody
    BY RestoreAssumption DEF IInv, TypeOK, RunOK, DataFor, Own
  <1>2. SpaceOK(name[r])
    BY DEF IInv, TypeOK
  <1>3. pc[r] \in Verified /\ pc[r] \in Downloaded
    BY DEF Verified, Downloaded
  <1>4. file[At(r)] \in Content({"absent", "partial", "damaged", "whole"})
    BY DEF IInv, TypeOK, At
  <1>5. file[At(r)].state = "whole" /\ file[At(r)].of = target[r]
    BY <1>3 DEF IInv, RunOK, DataFor
  <1>6. file[At(r)] = [state |-> "whole", of |-> target[r]]
    BY <1>4, <1>5 DEF Content
  <1> QED
    BY <1>1, <1>2, <1>3, <1>6 DEF SpaceOK, Own, IInv, TypeOK, RunOK, DataFor

\* Going on needs what is known at the next place.
LEMMA GotoIsOK ==
    ASSUME IInv, NEW r \in Runs, NEW label \in Labels \ Ended, Goto(r, label),
           UNCHANGED <<argv, file>>, Own(r)' = Own(r),
           DataFor(r, label), ChecksFor(r, label)
    PROVE  RunOK(r)'
  <1>1. /\ pc'[r] = label /\ label # "failed" /\ checked'[r] = checked[r]
        /\ disturbed'[r] = disturbed[r] /\ forward'[r] = forward[r]
    BY DEF Goto, IInv, TypeOK, Ended
  <1>2. target' = target /\ At(r)' = At(r) /\ file' = file
    BY DEF argv, At
  <1> QED
    BY <1>1, <1>2 DEF RunOK, DataFor, ChecksFor, Sent

\* A failure that changes nothing else.
LEMMA BrokenKeeps ==
    ASSUME IInv, NEW r \in Runs, UNCHANGED <<bucket, argv, file, scratch>>, Break(r)
    PROVE  IInv'
  <1>1. "failed" \in Labels
    BY DEF Labels, Ended
  <1> QED
    BY <1>1, LocalStep

LEMMA RejectedKeeps ==
    ASSUME IInv, NEW r \in Runs, UNCHANGED <<bucket, argv, file, scratch>>,
           Reject(r), Excused(r)
    PROVE  IInv'
  <1>1. Excused(r)'
    <2>1. disturbed[r] => disturbed'[r]
      BY Zenon DEF Reject, Leave, IInv, TypeOK
    <2>2. /\ name' = name /\ target' = target /\ manifests' = manifests
          /\ Own(r)' = Own(r)
      BY DEF argv, bucket, Own
    <2> QED
      BY <2>1, <2>2 DEF Excused
  <1>2. "failed" \in Labels
    BY DEF Labels, Ended
  <1> QED
    BY <1>1, <1>2, LocalStep

\* A step that finds its place and goes on, fails for a reason, or breaks.
LEMMA LocalStepOn ==
    ASSUME IInv, NEW r \in Runs, NEW label \in Labels \ Ended,
           UNCHANGED <<bucket, argv, file, scratch>>,
           pc[r] \notin Before => label \notin Before,
           pc[r] \notin Unmade => label \notin Unmade,
           label \in Downloaded => pc[r] \in Downloaded,
           \/ Goto(r, label) /\ DataFor(r, label) /\ ChecksFor(r, label)
           \/ Reject(r) /\ Excused(r)
           \/ Break(r)
    PROVE  IInv'
  <1>0. UNCHANGED <<argv, file>> /\ Own(r)' = Own(r)
    BY DEF Own, argv
  <1>1. CASE Goto(r, label) /\ DataFor(r, label) /\ ChecksFor(r, label)
    <2>1. RunOK(r)'
      BY <1>0, <1>1, GotoIsOK
    <2> QED
      BY <1>1, <2>1, LocalStep
  <1>2. CASE Reject(r) /\ Excused(r)
    BY <1>2, RejectedKeeps
  <1>3. CASE Break(r)
    BY <1>3, BrokenKeeps
  <1> QED
    BY <1>1, <1>2, <1>3

-----------------------------------------------------------------------------
(* The actions of a run that change nothing beyond it.                     *)

LEMMA ConnectKeeps ==
    ASSUME IInv, NEW r \in Runs, Connect(r)
    PROVE  IInv'
  <1>1. /\ "manifest" \in Labels \ Ended /\ "manifest" \in Before /\ pc[r] \in Before
        /\ "manifest" \in Unmade /\ pc[r] \in Unmade /\ pc[r] \in Pending
        /\ "manifest" \notin Downloaded /\ "manifest" \notin Passed
    BY DEF Connect, Local, Labels, Ended, Before, Unmade, Pending, Passed, Downloaded, Verified,
           Owning, Supplied, Filled
  <1>2. DataFor(r, "manifest") /\ ChecksFor(r, "manifest")
    BY <1>1 DEF IInv, RunOK, DataFor, ChecksFor, Downloaded, Verified, Owning, Supplied, Filled
  <1> QED
    BY <1>1, <1>2, LocalStepOn DEF Connect, Local

LEMMA ManifestKeeps ==
    ASSUME IInv, NEW r \in Runs, Manifest(r)
    PROVE  IInv'
  <1>1. /\ "open" \in Labels \ Ended /\ "open" \in Before /\ pc[r] \in Before
        /\ "open" \in Unmade /\ pc[r] \in Unmade /\ pc[r] \in Pending
        /\ "open" \notin Downloaded /\ "open" \notin Passed
    BY DEF Manifest, Local, Labels, Ended, Before, Unmade, Pending, Passed, Downloaded, Verified,
           Owning, Supplied, Filled
  <1>2. DataFor(r, "open") /\ ChecksFor(r, "open")
    BY <1>1 DEF IInv, RunOK, DataFor, ChecksFor, Downloaded, Verified, Owning, Supplied, Filled
  <1>3. target[r] \notin manifests \cap Matching => Excused(r)
    BY DEF Excused
  <1> QED
    BY <1>1, <1>2, <1>3, LocalStepOn DEF Manifest, Local

LEMMA VerifyKeeps ==
    ASSUME IInv, NEW r \in Runs, Verify(r)
    PROVE  IInv'
  <1>0. pc[r] = "verify" /\ target[r] \in Backups
    BY DEF Verify, Local, IInv, TypeOK
  <1>1. /\ "credentials" \in Labels \ Ended /\ "credentials" \notin Before
        /\ pc[r] \in Unmade /\ pc[r] \in Downloaded /\ pc[r] \in Pending
        /\ "credentials" \notin Owning /\ "credentials" \notin Passed
    BY <1>0 DEF Labels, Ended, Before, Unmade, Pending, Passed, Downloaded, Verified,
           Owning, Supplied, Filled
  <1>2. file[At(r)] = Sent(target[r]) /\ checked[r] = 0
    BY <1>0, <1>1 DEF IInv, RunOK, DataFor, ChecksFor
  <1>3. ASSUME file[At(r)] = [state |-> "whole", of |-> target[r]], target[r] \in Matching
        PROVE  DataFor(r, "credentials") /\ ChecksFor(r, "credentials")
    <2>1. target[r] \notin Damaged
      BY <1>2, <1>3 DEF Sent
    <2> QED
      BY <1>1, <1>2, <1>3, <2>1 DEF DataFor, ChecksFor, Owning, Supplied, Filled
  <1>4. ~(file[At(r)] = [state |-> "whole", of |-> target[r]] /\ target[r] \in Matching)
          => Excused(r)
    BY <1>2 DEF Sent, Excused
  <1> QED
    BY <1>0, <1>1, <1>3, <1>4, LocalStepOn DEF Verify, Local

LEMMA CredentialsKeeps ==
    ASSUME IInv, NEW r \in Runs, Credentials(r)
    PROVE  IInv'
  <1>0. pc[r] = "credentials"
    BY DEF Credentials, Local
  <1>1. /\ "namespace" \in Labels \ Ended /\ "namespace" \notin Before
        /\ pc[r] \in Unmade /\ pc[r] \in Downloaded /\ pc[r] \in Verified /\ pc[r] \in Pending
        /\ "namespace" \notin Owning /\ "namespace" \notin Passed
    BY <1>0 DEF Labels, Ended, Before, Unmade, Pending, Passed, Downloaded, Verified,
           Owning, Supplied, Filled
  <1>2. DataFor(r, "namespace") /\ ChecksFor(r, "namespace")
    BY <1>1 DEF IInv, RunOK, DataFor, ChecksFor, Owning, Supplied, Filled
  <1> QED
    BY <1>1, <1>2, LocalStepOn DEF Credentials, Local

\* Installing and finding the bootstrap Job change no more than the place.
LEMMA InstallKeeps ==
    ASSUME IInv, NEW r \in Runs, Install(r)
    PROVE  IInv'
  <1>0. pc[r] = "helm"
    BY DEF Install, Local
  <1>1. /\ "forward" \in Labels \ Ended /\ "forward" \notin Before /\ "forward" \notin Unmade
        /\ pc[r] \in Filled /\ pc[r] \in Supplied /\ pc[r] \in Owning /\ pc[r] \in Verified
        /\ pc[r] \in Downloaded /\ pc[r] \in Pending /\ "forward" \notin Passed
    BY <1>0 DEF Labels, Ended, Before, Unmade, Pending, Passed, Downloaded, Verified,
           Owning, Supplied, Filled
  <1>2. DataFor(r, "forward") /\ ChecksFor(r, "forward")
    BY <1>1 DEF IInv, RunOK, DataFor, ChecksFor
  <1> QED
    BY <1>1, <1>2, LocalStepOn DEF Install, Local

LEMMA FindBootstrapKeeps ==
    ASSUME IInv, NEW r \in Runs, FindBootstrap(r)
    PROVE  IInv'
  <1>0. pc[r] = "find"
    BY DEF FindBootstrap, Local
  <1>1. /\ "createJob" \in Labels \ Ended /\ "createJob" \notin Before
        /\ "createJob" \notin Unmade /\ "createJob" \notin Pending
        /\ pc[r] \in Passed /\ pc[r] \in Filled /\ pc[r] \in Supplied /\ pc[r] \in Owning
        /\ pc[r] \in Verified /\ pc[r] \in Downloaded
    BY <1>0 DEF Labels, Ended, Before, Unmade, Pending, Passed, Downloaded, Verified,
           Owning, Supplied, Filled
  <1>2. DataFor(r, "createJob") /\ ChecksFor(r, "createJob")
    BY <1>1 DEF IInv, RunOK, DataFor, ChecksFor
  <1> QED
    BY <1>1, <1>2, LocalStepOn DEF FindBootstrap, Local

-----------------------------------------------------------------------------
(* The archive on the workstation.                                         *)

\* A step that changes one file, which is the run's own or nobody's.
LEMMA FileKeeps ==
    ASSUME IInv, NEW r \in Runs, Moves(r), UNCHANGED <<bucket, scratch>>,
           NEW c \in Content({"absent", "partial", "damaged", "whole"}),
           file' = file \/ (file' = [file EXCEPT ![At(r)] = c] /\ pc'[r] \notin Before),
           pc[r] \in Downloaded \/ file' = file \/ file[At(r)] = Nothing,
           pc'[r] \in Downloaded => pc[r] \in Downloaded \/ file[At(r)] = Nothing,
           RunOK(r)'
    PROVE  IInv'
  <1>0. /\ UNCHANGED <<manifests, archives, scratch>>
        /\ \A q \in Runs : At(q) \in Workstations \X Names
        /\ file \in [Workstations \X Names -> Content({"absent", "partial", "damaged", "whole"})]
    BY DEF bucket, At, IInv, TypeOK
  <1>1. /\ file' \in [Workstations \X Names -> Content({"absent", "partial", "damaged", "whole"})]
        /\ \A p \in (Workstations \X Names) \ {At(r)} : file'[p] = file[p]
        /\ file'[At(r)] = file[At(r)] \/ pc'[r] \notin Before
    BY <1>0
  <1>2. TypeOK'
    <2>1. (scratch \in [Names -> Scratch])'
      BY <1>0 DEF IInv, TypeOK, Scratch, Content
    <2>2. (file \in [Workstations \X Names -> Content({"absent", "partial", "damaged", "whole"})])'
      BY <1>1 DEF Content
    <2> QED
      BY <1>0, <2>1, <2>2, MoveTypes
  <1>3. FilesOK'
    BY <1>1, FilesKept
  <1>4. \A n \in Names : SpaceOK(n)'
    BY <1>0, SpaceKept
  <1>5. ASSUME NEW q \in Runs \ {r} PROVE RunOK(q)'
    <2>1. pc[q] \in Downloaded => file'[At(q)] = file[At(q)]
      <3>1. CASE pc[q] \in Downloaded /\ At(q) = At(r)
        <4>1. pc[r] \notin Downloaded
          BY <3>1 DEF IInv, FilesOK
        <4>2. file[At(q)].of = target[q] /\ target[q] \in Backups
          BY <3>1 DEF IInv, RunOK, DataFor, TypeOK
        <4>3. file[At(r)] # Nothing
          BY <3>1, <4>2, RestoreAssumption DEF Nothing
        <4> QED
          BY <4>1, <4>3
      <3>2. CASE pc[q] \in Downloaded /\ At(q) # At(r)
        BY <1>0, <1>1, <3>2
      <3> QED
        BY <3>1, <3>2
    <2> QED
      BY <1>0, <2>1, OthersKeep
  <1> QED
    BY <1>0, <1>2, <1>3, <1>4, <1>5 DEF IInv

LEMMA OpenKeeps ==
    ASSUME IInv, NEW r \in Runs, Open(r)
    PROVE  IInv'
  <1>0. /\ pc[r] = "open" /\ UNCHANGED argv /\ UNCHANGED <<bucket, scratch>>
        /\ UNCHANGED <<bucket, argv, scratch>>
        /\ target[r] \in Backups /\ At(r) \in Workstations \X Names
        /\ file \in [Workstations \X Names -> Content({"absent", "partial", "damaged", "whole"})]
    BY DEF Open, At, IInv, TypeOK
  <1>1. /\ "receive" \in Labels \ Ended /\ "receive" \notin Before /\ "receive" \in Downloaded
        /\ "receive" \notin Verified /\ "receive" \in Unmade /\ pc[r] \in Unmade
        /\ pc[r] \in Pending /\ pc[r] \in Before /\ pc[r] \notin Downloaded
    BY <1>0 DEF Labels, Ended, Before, Unmade, Pending, Passed, Downloaded, Verified,
           Owning, Supplied, Filled
  <1>2. CASE /\ file[At(r)] = Nothing /\ Goto(r, "receive")
             /\ file' = [file EXCEPT ![At(r)] = [state |-> "partial", of |-> target[r]]]
    <2>1. /\ Moves(r) /\ pc'[r] = "receive" /\ checked'[r] = checked[r]
      BY <1>0, <1>1, <1>2, GotoMoves
    <2>2. [state |-> "partial", of |-> target[r]]
             \in Content({"absent", "partial", "damaged", "whole"})
      BY <1>0 DEF Content
    <2>3. At(r)' = At(r) /\ target' = target /\ file'[At(r)].of = target[r]
      BY <1>0, <1>2 DEF At, argv
    <2>4. RunOK(r)'
      BY <1>0, <1>1, <2>1, <2>3
      DEF IInv, RunOK, DataFor, ChecksFor, Verified, Owning, Supplied, Filled, Passed
    <2> QED
      BY <1>0, <1>1, <1>2, <2>1, <2>2, <2>4, FileKeeps
  <1>3. CASE target[r] \notin archives /\ Reject(r) /\ UNCHANGED file
    <2>1. Excused(r)
      BY <1>3 DEF IInv, Excused
    <2>2. UNCHANGED <<bucket, argv, file, scratch>>
      BY <1>0, <1>3
    <2> QED
      BY <1>1, <1>3, <2>1, <2>2, RejectedKeeps
  <1>4. CASE file[At(r)] # Nothing /\ Reject(r) /\ UNCHANGED file
    <2>1. PICK q \in Runs : At(q) = At(r) /\ pc[q] \notin Before
      BY <1>0, <1>4 DEF IInv, FilesOK
    <2>2. q # r /\ name[q] = name[r]
      BY <1>1, <2>1 DEF At
    <2>3. Excused(r)
      BY <2>2 DEF Excused
    <2>4. UNCHANGED <<bucket, argv, file, scratch>>
      BY <1>0, <1>4
    <2> QED
      BY <1>1, <1>4, <2>3, <2>4, RejectedKeeps
  <1>5. CASE Break(r) /\ UNCHANGED file
    <2>1. UNCHANGED <<bucket, argv, file, scratch>>
      BY <1>0, <1>5
    <2> QED
      BY <1>5, <2>1, BrokenKeeps
  <1> QED
    BY <1>2, <1>3, <1>4, <1>5 DEF Open

LEMMA ReceiveKeeps ==
    ASSUME IInv, NEW r \in Runs, Receive(r)
    PROVE  IInv'
  <1>0. /\ pc[r] = "receive" /\ UNCHANGED argv /\ UNCHANGED <<bucket, scratch>>
        /\ UNCHANGED <<bucket, argv, scratch>>
        /\ target[r] \in Backups /\ At(r) \in Workstations \X Names
        /\ file \in [Workstations \X Names -> Content({"absent", "partial", "damaged", "whole"})]
    BY DEF Receive, At, IInv, TypeOK
  <1>1. /\ "verify" \in Labels \ Ended /\ "verify" \notin Before
        /\ "verify" \notin Verified /\ pc[r] \in Unmade
        /\ pc[r] \in Pending /\ pc[r] \in Downloaded
    BY <1>0 DEF Labels, Ended, Before, Unmade, Pending, Passed, Downloaded, Verified,
           Owning, Supplied, Filled
  <1>2. CASE Goto(r, "verify") /\ file' = [file EXCEPT ![At(r)] = Sent(target[r])]
    <2>1. /\ Moves(r) /\ pc'[r] = "verify" /\ checked'[r] = checked[r]
      BY <1>0, <1>1, <1>2, GotoMoves
    <2>2. PICK c \in Content({"absent", "partial", "damaged", "whole"}) :
             c = Sent(target[r]) /\ c.of = target[r]
      <3>1. CASE target[r] \in Damaged
        <4>1. Sent(target[r]) = [state |-> "damaged", of |-> target[r]]
          BY <3>1 DEF Sent
        <4> QED
          BY <1>0, <4>1 DEF Content
      <3>2. CASE target[r] \notin Damaged
        <4>1. Sent(target[r]) = [state |-> "whole", of |-> target[r]]
          BY <3>2 DEF Sent
        <4> QED
          BY <1>0, <4>1 DEF Content
      <3> QED
        BY <3>1, <3>2
    <2>3. At(r)' = At(r) /\ target' = target /\ file'[At(r)] = Sent(target[r])
      BY <1>0, <1>2 DEF At, argv
    <2>4. RunOK(r)'
      <3>1. file'[At(r)].of = target[r] /\ checked[r] = 0
        BY <1>1, <2>2, <2>3 DEF IInv, RunOK, ChecksFor
      <3>2. Sent(target[r])' = Sent(target[r])
        BY <2>3 DEF Sent
      <3> QED
        BY <1>0, <1>1, <2>1, <2>3, <3>1, <3>2
        DEF RunOK, DataFor, ChecksFor, Verified, Owning, Supplied, Filled, Passed
    <2> QED
      BY <1>0, <1>1, <1>2, <2>1, <2>2, <2>4, FileKeeps
  <1>3. CASE UNCHANGED file /\ Break(r)
    <2>1. UNCHANGED <<bucket, argv, file, scratch>>
      BY <1>0, <1>3
    <2> QED
      BY <1>3, <2>1, BrokenKeeps
  <1> QED
    BY <1>2, <1>3 DEF Receive

-----------------------------------------------------------------------------
(* The commands to the cluster.                                            *)

\* What remains of a namespace where one part of it is replaced.
LEMMA OwnerReplaced ==
    ASSUME NEW s \in Scratch, NEW r \in Runs
    PROVE  \E c \in Scratch : /\ c = [s EXCEPT !.owner = r]
                              /\ c.owner = r /\ c.secret = s.secret /\ c.volume = s.volume
  <1> DEFINE c == [s EXCEPT !.owner = r]
  <1>1. c \in Scratch /\ c.owner = r /\ c.secret = s.secret /\ c.volume = s.volume
    BY DEF Scratch
  <1> QED
    BY <1>1

LEMMA SecretReplaced ==
    ASSUME NEW s \in Scratch, NEW k \in Backups
    PROVE  \E c \in Scratch : /\ c = [s EXCEPT !.secret = k]
                              /\ c.owner = s.owner /\ c.secret = k /\ c.volume = s.volume
  <1> DEFINE c == [s EXCEPT !.secret = k]
  <1>1. c \in Scratch /\ c.owner = s.owner /\ c.secret = k /\ c.volume = s.volume
    BY DEF Scratch
  <1> QED
    BY <1>1

LEMMA VolumeReplaced ==
    ASSUME NEW s \in Scratch,
           NEW v \in Content({"absent", "empty", "leftover", "partial", "damaged", "whole"})
    PROVE  \E c \in Scratch : /\ c = [s EXCEPT !.volume = v]
                              /\ c.owner = s.owner /\ c.secret = s.secret /\ c.volume = v
  <1> DEFINE c == [s EXCEPT !.volume = v]
  <1>1. c \in Scratch /\ c.owner = s.owner /\ c.secret = s.secret /\ c.volume = v
    BY DEF Scratch
  <1> QED
    BY <1>1

LEMMA LoaderReplaced ==
    ASSUME NEW s \in Scratch, NEW l \in {"absent", "created", "starting", "running", "ended"}
    PROVE  \E c \in Scratch : /\ c = [s EXCEPT !.loader = l]
                              /\ c.owner = s.owner /\ c.secret = s.secret
                              /\ c.volume = s.volume /\ c.loader = l
  <1> DEFINE c == [s EXCEPT !.loader = l]
  <1>1. c \in Scratch /\ c.owner = s.owner /\ c.secret = s.secret /\ c.volume = s.volume /\ c.loader = l
    BY DEF Scratch
  <1> QED
    BY <1>1

LEMMA SecurityReplaced ==
    ASSUME NEW s \in Scratch, NEW j \in {"absent", "running", "complete"}
    PROVE  \E c \in Scratch : /\ c = [s EXCEPT !.security = j]
                              /\ c.owner = s.owner /\ c.secret = s.secret
                              /\ c.volume = s.volume /\ c.loader = s.loader
  <1> DEFINE c == [s EXCEPT !.security = j]
  <1>1. c \in Scratch /\ c.owner = s.owner /\ c.secret = s.secret /\ c.volume = s.volume /\ c.loader = s.loader
    BY DEF Scratch
  <1> QED
    BY <1>1

LEMMA CreateNamespaceKeeps ==
    ASSUME IInv, NEW r \in Runs, CreateNamespace(r)
    PROVE  IInv'
  <1>0. pc[r] = "namespace" /\ r # Nobody /\ target[r] \in Backups /\ name[r] \in Names
    BY RestoreAssumption DEF CreateNamespace, Kubectl, Local, IInv, TypeOK
  <1>1. /\ "secret" \in Labels \ Ended /\ "secret" \notin Unmade /\ "secret" \notin Supplied
        /\ pc[r] \in Verified /\ pc[r] \in Downloaded /\ pc[r] \in Pending
        /\ "secret" \notin Passed /\ "secret" \notin Filled
    BY <1>0 DEF Labels, Ended, Before, Unmade, Pending, Passed, Downloaded, Verified,
           Owning, Supplied, Filled
  <1>2. CASE Own(r).owner = Nobody
    <2>1. /\ Own(r).owner = Nobody /\ Own(r) \in Scratch
          /\ Own(r).secret = Nobody /\ Own(r).volume = Nothing
      BY <1>0, <1>2 DEF IInv, TypeOK, SpaceOK, Own
    <2>2. PICK c \in Scratch :
             /\ c = [Own(r) EXCEPT !.owner = r]
             /\ c.owner = r /\ c.secret = Nobody /\ c.volume = Nothing
      <3>1. PICK c \in Scratch :
               /\ c = [Own(r) EXCEPT !.owner = r]
               /\ c.owner = r /\ c.secret = Own(r).secret /\ c.volume = Own(r).volume
        BY <2>1, OwnerReplaced, Zenon
      <3> QED
        BY <2>1, <3>1
    <2>3. Kubectl(r, "namespace", c, "secret")
      BY <1>2, <2>2 DEF CreateNamespace
    <2>4. ASSUME Goto(r, "secret"), pc'[r] = "secret", Own(r)' = c
          PROVE  RunOK(r)'
      <3>1. target' = target /\ At(r)' = At(r) /\ file' = file /\ checked' = checked
        BY <2>3, <2>4 DEF Kubectl, argv, At, Goto
      <3> QED
        BY <1>0, <1>1, <2>2, <2>4, <3>1 DEF IInv, RunOK, DataFor, ChecksFor
    <2>5. {c.secret, c.volume.of} \subseteq {Nobody, target[r]}
      BY <2>2 DEF Nothing
    <2>6. pc[r] = "namespace" /\ ("secret" \in Downloaded => "namespace" \in Downloaded)
      BY <1>0, <1>1
    <2> QED
      BY <1>1, <2>1, <2>2, <2>3, <2>4, <2>5, <2>6, CommandStep
  <1>3. CASE Own(r).owner # Nobody
    <2>1. SpaceOK(name[r]) /\ Own(r).owner # Nobody /\ Own(r) \in Scratch
      BY <1>0, <1>3 DEF IInv, TypeOK, Own
    <2>2. PICK q \in Runs : q = Own(r).owner
      BY <2>1 DEF Scratch
    <2>3. name[q] = name[r] /\ pc[q] \notin Unmade
      BY <2>1, <2>2 DEF SpaceOK, Own
    <2>4. q # r
      BY <1>0, <2>3 DEF Unmade
    <2>5. Excused(r)
      BY <2>3, <2>4 DEF Excused
    <2>6. UNCHANGED <<bucket, argv, file, scratch>> /\ (Reject(r) \/ Break(r))
      BY <1>3 DEF CreateNamespace, Local, Taken
    <2> QED
      BY <2>5, <2>6, RejectedKeeps, BrokenKeeps
  <1> QED
    BY <1>2, <1>3

\* A command to the namespace that a run owns.
LEMMA OwnCommand ==
    ASSUME IInv, NEW r \in Runs, NEW c \in Scratch, NEW from \in Owning,
           NEW label \in Labels \ (Ended \cup Unmade),
           Kubectl(r, from, c, label), c.owner = r,
           {c.secret, c.volume.of} \subseteq {Nobody, target[r]},
           ChecksFor(r, label),
           label \in Supplied => c.secret = target[r],
           label \in {"loader", "ready"} => c.volume.state \in {"empty", "leftover"},
           label = "ready" => c.loader # "absent",
           label # "extracting",
           label \in Filled => c.volume = [state |-> "whole", of |-> target[r]]
    PROVE  IInv'
  <1>0. pc[r] = from /\ pc[r] \in Downloaded /\ pc[r] \in Verified
    BY DEF Kubectl, Verified, Downloaded
  <1>1. Own(r).owner = r
    BY <1>0, OwnIsOwn
  <1>2. ASSUME Goto(r, label), pc'[r] = label, Own(r)' = c
        PROVE  RunOK(r)'
    <2>1. target' = target /\ At(r)' = At(r) /\ file' = file
      BY DEF Kubectl, argv, At
    <2>2. /\ checked' = checked /\ disturbed' = disturbed /\ forward' = forward
      BY <1>2 DEF Goto
    <2>3. label # "verify" /\ label # "failed" /\ label # "early"
      BY DEF Unmade, Ended
    <2>4. DataFor(r, label)'
      BY <1>0, <1>2, <2>1, <2>3 DEF IInv, RunOK, DataFor
    <2>5. ChecksFor(r, label)'
      BY <2>1, <2>2 DEF ChecksFor
    <2> QED
      BY <1>2, <2>3, <2>4, <2>5 DEF RunOK
  <1>3. label \in Downloaded => from \in Downloaded
    BY <1>0
  <1>4. label \in Labels \ Unmade /\ Own(r).owner \in {Nobody, r}
    BY <1>1
  <1> QED
    BY <1>2, <1>3, <1>4, CommandStep

LEMMA CreateSecretKeeps ==
    ASSUME IInv, NEW r \in Runs, CreateSecret(r)
    PROVE  IInv'
  <1>0. pc[r] = "secret" /\ "secret" \in Owning /\ pc[r] \in Pending
    BY DEF CreateSecret, Kubectl, Owning, Pending, Labels, Ended, Passed
  <1>1. "volume" \in Labels \ (Ended \cup Unmade) /\ "volume" \notin Filled /\ "volume" \notin Passed
    BY DEF Labels, Ended, Unmade, Before, Filled, Passed
  <1>2. PICK c \in Scratch :
           /\ c = [Own(r) EXCEPT !.secret = file[At(r)].of]
           /\ c.owner = r /\ c.secret = target[r] /\ c.volume = Own(r).volume
    <2>1. Own(r) \in Scratch /\ Own(r).owner = r
      BY <1>0, OwnIsOwn
    <2>2. file[At(r)].of = target[r]
      <3>1. pc[r] \in Downloaded
        BY <1>0 DEF Downloaded, Verified
      <3> QED
        BY <3>1 DEF IInv, RunOK, DataFor
    <2>3. file[At(r)].of \in Backups
      BY <2>2 DEF IInv, TypeOK
    <2>4. PICK c \in Scratch :
             /\ c = [Own(r) EXCEPT !.secret = file[At(r)].of]
             /\ c.owner = Own(r).owner /\ c.secret = file[At(r)].of /\ c.volume = Own(r).volume
      BY <2>1, <2>3, SecretReplaced, Zenon
    <2> QED
      BY <2>1, <2>2, <2>4
  <1>3. Kubectl(r, "secret", c, "volume")
    BY <1>2 DEF CreateSecret
  <1>4. ChecksFor(r, "volume")
    BY <1>0, <1>1 DEF IInv, RunOK, ChecksFor
  <1>5. {c.secret, c.volume.of} \subseteq {Nobody, target[r]}
    BY <1>0, <1>2, OwnIsOwn
  <1> QED
    BY <1>0, <1>1, <1>2, <1>3, <1>4, <1>5, OwnCommand

LEMMA CreateVolumeKeeps ==
    ASSUME IInv, NEW r \in Runs, CreateVolume(r)
    PROVE  IInv'
  <1>1. PICK found \in {"empty", "leftover"} :
           Kubectl(r, "volume",
                   [Own(r) EXCEPT !.volume = [state |-> found, of |-> Nobody]], "loader")
    BY DEF CreateVolume
  <1>0. pc[r] = "volume" /\ "volume" \in Owning /\ pc[r] \in Pending /\ pc[r] \in Supplied
    BY <1>1 DEF Kubectl, Owning, Supplied, Pending, Labels, Ended, Passed
  <1>2. "loader" \in Labels \ (Ended \cup Unmade) /\ "loader" \notin Filled /\ "loader" \notin Passed
    BY DEF Labels, Ended, Unmade, Before, Filled, Passed
  <1>3. PICK c \in Scratch :
           /\ c = [Own(r) EXCEPT !.volume = [state |-> found, of |-> Nobody]]
           /\ c.owner = r /\ c.secret = Own(r).secret
           /\ c.volume = [state |-> found, of |-> Nobody]
    <2>1. [state |-> found, of |-> Nobody]
             \in Content({"absent", "empty", "leftover", "partial", "damaged", "whole"})
      BY DEF Content
    <2>2. Own(r) \in Scratch /\ Own(r).owner = r
      BY <1>0, OwnIsOwn
    <2>3. PICK c \in Scratch :
             /\ c = [Own(r) EXCEPT !.volume = [state |-> found, of |-> Nobody]]
             /\ c.owner = Own(r).owner /\ c.secret = Own(r).secret
             /\ c.volume = [state |-> found, of |-> Nobody]
      BY <2>1, <2>2, VolumeReplaced, Zenon
    <2> QED
      BY <2>2, <2>3
  <1>4. Kubectl(r, "volume", c, "loader") /\ c.volume.state \in {"empty", "leftover"}
    BY <1>1, <1>3
  <1>5. ChecksFor(r, "loader") /\ Own(r).secret = target[r]
    BY <1>0, <1>2 DEF IInv, RunOK, ChecksFor, DataFor
  <1>6. {c.secret, c.volume.of} \subseteq {Nobody, target[r]}
    BY <1>3, <1>5
  <1> QED
    BY <1>0, <1>2, <1>3, <1>4, <1>5, <1>6, OwnCommand

LEMMA CreateLoaderKeeps ==
    ASSUME IInv, NEW r \in Runs, CreateLoader(r)
    PROVE  IInv'
  <1>0. pc[r] = "loader" /\ "loader" \in Owning /\ pc[r] \in Pending /\ pc[r] \in Supplied
    BY DEF CreateLoader, Kubectl, Owning, Supplied, Pending, Labels, Ended, Passed
  <1>2. "ready" \in Labels \ (Ended \cup Unmade) /\ "ready" \notin Filled /\ "ready" \notin Passed
    BY DEF Labels, Ended, Unmade, Before, Filled, Passed
  <1>3. PICK c \in Scratch :
           /\ c = [Own(r) EXCEPT !.loader = "created"]
           /\ c.owner = r /\ c.secret = Own(r).secret /\ c.volume = Own(r).volume
           /\ c.loader # "absent"
    <2>1. Own(r) \in Scratch /\ Own(r).owner = r
      BY <1>0, OwnIsOwn
    <2>2. "created" \in {"absent", "created", "starting", "running", "ended"}
      OBVIOUS
    <2>3. PICK c \in Scratch :
             /\ c = [Own(r) EXCEPT !.loader = "created"]
             /\ c.owner = Own(r).owner /\ c.secret = Own(r).secret
             /\ c.volume = Own(r).volume /\ c.loader = "created"
      BY <2>1, <2>2, LoaderReplaced, Zenon
    <2> QED
      BY <2>1, <2>3
  <1>4. Kubectl(r, "loader", c, "ready")
    BY <1>3 DEF CreateLoader
  <1>5. /\ ChecksFor(r, "ready") /\ Own(r).secret = target[r]
        /\ Own(r).volume.state \in {"empty", "leftover"}
    BY <1>0, <1>2 DEF IInv, RunOK, ChecksFor, DataFor
  <1>6. {c.secret, c.volume.of} \subseteq {Nobody, target[r]}
    <2>1. {Own(r).secret, Own(r).volume.of} \subseteq {Nobody, target[r]}
      BY <1>0, OwnIsOwn
    <2> QED
      BY <1>3, <2>1
  <1> QED
    BY <1>0, <1>2, <1>3, <1>4, <1>5, <1>6, OwnCommand

LEMMA RemoveLoaderKeeps ==
    ASSUME IInv, NEW r \in Runs, RemoveLoader(r)
    PROVE  IInv'
  <1>0. /\ pc[r] = "remove" /\ "remove" \in Owning /\ pc[r] \in Pending
        /\ pc[r] \in Supplied /\ pc[r] \in Filled
    BY DEF RemoveLoader, Kubectl, Owning, Supplied, Filled, Pending, Labels, Ended, Passed
  <1>1. "helm" \in Labels \ (Ended \cup Unmade) /\ "helm" \notin Passed
    BY DEF Labels, Ended, Unmade, Before, Passed
  <1>2. PICK c \in Scratch :
           /\ c = [Own(r) EXCEPT !.loader = "absent"]
           /\ c.owner = r /\ c.secret = Own(r).secret /\ c.volume = Own(r).volume
    <2>1. Own(r) \in Scratch /\ Own(r).owner = r
      BY <1>0, OwnIsOwn
    <2>2. "absent" \in {"absent", "created", "starting", "running", "ended"}
      OBVIOUS
    <2>3. PICK c \in Scratch :
             /\ c = [Own(r) EXCEPT !.loader = "absent"]
             /\ c.owner = Own(r).owner /\ c.secret = Own(r).secret
             /\ c.volume = Own(r).volume /\ c.loader = "absent"
      BY <2>1, <2>2, LoaderReplaced, Zenon
    <2> QED
      BY <2>1, <2>3
  <1>3. Kubectl(r, "remove", c, "helm")
    BY <1>2 DEF RemoveLoader
  <1>4. /\ ChecksFor(r, "helm") /\ Own(r).secret = target[r]
        /\ Own(r).volume = [state |-> "whole", of |-> target[r]]
    BY <1>0, <1>1 DEF IInv, RunOK, ChecksFor, DataFor
  <1>5. {c.secret, c.volume.of} \subseteq {Nobody, target[r]}
    BY <1>2, <1>4
  <1> QED
    BY <1>0, <1>1, <1>2, <1>3, <1>4, <1>5, OwnCommand

LEMMA CreateJobKeeps ==
    ASSUME IInv, NEW r \in Runs, CreateJob(r)
    PROVE  IInv'
  <1>0. /\ pc[r] = "createJob" /\ "createJob" \in Owning /\ pc[r] \in Passed
        /\ pc[r] \in Supplied /\ pc[r] \in Filled
    BY DEF CreateJob, Kubectl, Owning, Supplied, Filled, Passed
  <1>1. "waitJob" \in Labels \ (Ended \cup Unmade) /\ "waitJob" \notin Pending
    BY DEF Labels, Ended, Unmade, Before, Passed, Pending
  <1>2. PICK c \in Scratch :
           /\ c = [Own(r) EXCEPT !.security = "running"]
           /\ c.owner = r /\ c.secret = Own(r).secret /\ c.volume = Own(r).volume
    <2>1. Own(r) \in Scratch /\ Own(r).owner = r
      BY <1>0, OwnIsOwn
    <2>2. "running" \in {"absent", "running", "complete"}
      OBVIOUS
    <2>3. PICK c \in Scratch :
             /\ c = [Own(r) EXCEPT !.security = "running"]
             /\ c.owner = Own(r).owner /\ c.secret = Own(r).secret
             /\ c.volume = Own(r).volume
      BY <2>1, <2>2, SecurityReplaced, Zenon
    <2> QED
      BY <2>1, <2>3
  <1>3. Kubectl(r, "createJob", c, "waitJob")
    BY <1>2 DEF CreateJob
  <1>4. /\ ChecksFor(r, "waitJob") /\ Own(r).secret = target[r]
        /\ Own(r).volume = [state |-> "whole", of |-> target[r]]
    BY <1>0, <1>1 DEF IInv, RunOK, ChecksFor, DataFor
  <1>5. {c.secret, c.volume.of} \subseteq {Nobody, target[r]}
    BY <1>2, <1>4
  <1> QED
    BY <1>0, <1>1, <1>2, <1>3, <1>4, <1>5, OwnCommand

LEMMA DropJobKeeps ==
    ASSUME IInv, NEW r \in Runs, DropJob(r)
    PROVE  IInv'
  <1>0. /\ pc[r] \in {"dropJob", "dropFailedJob"} /\ pc[r] \in Owning /\ pc[r] \in Passed
        /\ pc[r] \in Supplied /\ pc[r] \in Filled
        /\ {"dropJob", "dropFailedJob"} \subseteq Downloaded
    BY DEF DropJob, Kubectl, Downloaded, Verified, Owning, Supplied, Filled, Passed
  <1>1. /\ "claim" \in Labels \ (Ended \cup Unmade) /\ "claim" \notin Pending
        /\ "failed" \in Labels \ Unmade /\ "failed" \notin Downloaded
    BY DEF Labels, Ended, Unmade, Before, Pending, Downloaded, Verified, Owning, Supplied,
           Filled, Passed
  <1>2. PICK c \in Scratch :
           /\ c = [Own(r) EXCEPT !.security = "absent"]
           /\ c.owner = r /\ c.secret = Own(r).secret /\ c.volume = Own(r).volume
    <2>1. Own(r) \in Scratch /\ Own(r).owner = r
      BY <1>0, OwnIsOwn
    <2>2. "absent" \in {"absent", "running", "complete"}
      OBVIOUS
    <2>3. PICK c \in Scratch :
             /\ c = [Own(r) EXCEPT !.security = "absent"]
             /\ c.owner = Own(r).owner /\ c.secret = Own(r).secret
             /\ c.volume = Own(r).volume
      BY <2>1, <2>2, SecurityReplaced, Zenon
    <2> QED
      BY <2>1, <2>3
  <1>3. Kubectl(r, "dropJob", c, "claim") \/ Kubectl(r, "dropFailedJob", c, "failed")
    BY <1>2 DEF DropJob
  <1>4. /\ ChecksFor(r, "claim") /\ Own(r).secret = target[r]
        /\ Own(r).volume = [state |-> "whole", of |-> target[r]]
    BY <1>0, <1>1 DEF IInv, RunOK, ChecksFor, DataFor
  <1>5. {c.secret, c.volume.of} \subseteq {Nobody, target[r]}
    BY <1>2, <1>4
  <1>6. CASE Kubectl(r, "dropJob", c, "claim")
    <2>1. "dropJob" \in Owning
      BY <1>0, <1>6 DEF Kubectl
    <2> QED
      BY <1>1, <1>2, <1>4, <1>5, <1>6, <2>1, OwnCommand
  <1>7. CASE Kubectl(r, "dropFailedJob", c, "failed")
    <2>1. disturbed[r]
      BY <1>7 DEF Kubectl, IInv, RunOK, ChecksFor
    <2>2. ASSUME Goto(r, "failed"), pc'[r] = "failed", Own(r)' = c
          PROVE  RunOK(r)'
      <3>1. Excused(r)'
        BY <2>1, <2>2 DEF Goto, Excused
      <3>2. Moves(r)
        <4>1. UNCHANGED argv
          BY <1>7 DEF Kubectl
        <4>2. Before \subseteq Unmade
          BY DEF Unmade
        <4> QED
          BY <1>1, <2>2, <4>1, <4>2, GotoMoves
      <3> QED
        BY <2>2, <3>1, <3>2, FailedIsOK
    <2>3. Own(r).owner \in {Nobody, r}
      BY <1>0, OwnIsOwn
    <2> QED
      BY <1>1, <1>2, <1>5, <1>7, <2>2, <2>3, CommandStep
  <1> QED
    BY <1>3, <1>6, <1>7

\* A transfer into the volume of a run.
LEMMA FillKeeps ==
    ASSUME IInv, NEW r \in Runs,
           NEW v \in Content({"absent", "empty", "leftover", "partial", "damaged", "whole"}),
           NEW label \in Supplied \ (Passed \cup {"loader", "ready", "early"}),
           Fill(r, v), Goto(r, label), UNCHANGED <<bucket, argv, file>>,
           pc[r] \in Supplied, pc[r] \in Pending, label \in Pending,
           v.of = target[r],
           label \in Filled => v = [state |-> "whole", of |-> target[r]]
    PROVE  IInv'
  <1>0. /\ pc[r] \in Owning /\ pc[r] \in Downloaded /\ pc[r] \notin Unmade
        /\ UNCHANGED <<bucket, file>> /\ UNCHANGED argv /\ name[r] \in Names
    BY DEF Owning, Verified, Downloaded, Unmade, Before, Supplied, Filled, Passed, IInv, TypeOK
  <1>1. /\ label \in Labels /\ label \notin Unmade /\ label \notin Before
        /\ label \notin {"verify", "loader", "ready", "early", "failed", "check", "dropFailedJob"}
        /\ label \notin Passed
    BY DEF Supplied, Filled, Passed, Pending, Labels, Ended, Unmade, Before
  <1>2. Own(r) \in Scratch /\ Own(r).owner = r
    BY <1>0, OwnIsOwn
  <1>3. PICK c \in Scratch :
           /\ c = [Own(r) EXCEPT !.volume = v]
           /\ c.owner = Own(r).owner /\ c.secret = Own(r).secret /\ c.volume = v
    BY <1>2, VolumeReplaced, Zenon
  <1>4. scratch' = [scratch EXCEPT ![name[r]] = c]
    BY <1>3 DEF Fill, Own
  <1>5. Own(r).secret = target[r] /\ checked[r] = 0
    BY DEF IInv, RunOK, DataFor, ChecksFor
  <1>6. Moves(r) /\ pc'[r] = label /\ checked'[r] = checked[r]
    BY <1>0, <1>1, GotoMoves
  <1>7. RunOK(r)'
    <2>1. Own(r)' = c /\ target' = target /\ At(r)' = At(r) /\ file' = file
      BY <1>0, <1>4 DEF Own, argv, At, IInv, TypeOK
    <2>2. DataFor(r, label)'
      BY <1>0, <1>1, <1>2, <1>3, <1>5, <2>1 DEF IInv, RunOK, DataFor, Downloaded, Verified, Owning
    <2>3. ChecksFor(r, label)'
      BY <1>1, <1>5, <1>6 DEF ChecksFor
    <2> QED
      BY <1>1, <1>6, <2>2, <2>3 DEF RunOK
  <1>8. {c.secret, c.volume.of} \subseteq {Nobody, target[r]}
    BY <1>3, <1>5
  <1> QED
    BY <1>0, <1>1, <1>2, <1>3, <1>4, <1>6, <1>7, <1>8, CommandKeeps

LEMMA ExtractKeeps ==
    ASSUME IInv, NEW r \in Runs, Extract(r)
    PROVE  IInv'
  <1>0. pc[r] = "extract" /\ pc[r] \in Supplied /\ pc[r] \in Pending /\ pc[r] \in Owning
    BY DEF Extract, Supplied, Owning, Pending, Labels, Ended, Passed
  <1>1. /\ "extracting" \in Supplied \ (Passed \cup {"loader", "ready", "early"})
        /\ "extracting" \notin Filled /\ "extracting" \in Pending
    BY DEF Supplied, Filled, Passed, Pending, Labels, Ended
  <1>2. PICK v \in Content({"absent", "empty", "leftover", "partial", "damaged", "whole"}) :
           v = [state |-> "partial", of |-> file[At(r)].of] /\ v.of = target[r]
    <2>1. file[At(r)].of = target[r] /\ target[r] \in Backups
      <3>1. pc[r] \in Downloaded
        BY <1>0 DEF Downloaded, Verified
      <3> QED
        BY <3>1 DEF IInv, RunOK, DataFor, TypeOK
    <2>2. [state |-> "partial", of |-> file[At(r)].of]
             \in Content({"absent", "empty", "leftover", "partial", "damaged", "whole"})
      BY <2>1 DEF Content
    <2> QED
      BY <2>1, <2>2
  <1>3. Fill(r, v) /\ Goto(r, "extracting") /\ UNCHANGED <<bucket, argv, file>>
    BY <1>2 DEF Extract
  <1> QED
    BY <1>0, <1>1, <1>2, <1>3, FillKeeps

LEMMA ExtractedKeeps ==
    ASSUME IInv, NEW r \in Runs, Extracted(r)
    PROVE  IInv'
  <1>0. pc[r] = "extracting" /\ pc[r] \in Supplied /\ pc[r] \in Pending /\ pc[r] \in Owning
    BY DEF Extracted, Supplied, Owning, Pending, Labels, Ended, Passed
  <1>1. "remove" \in Supplied \ (Passed \cup {"loader", "ready", "early"}) /\ "remove" \in Pending
    BY DEF Supplied, Filled, Passed, Pending, Labels, Ended
  <1>2. PICK v \in Content({"absent", "empty", "leftover", "partial", "damaged", "whole"}) :
           /\ v = file[At(r)] /\ v = [state |-> "whole", of |-> target[r]]
           /\ v.of = target[r]
    <2>1. file[At(r)] = [state |-> "whole", of |-> target[r]] /\ target[r] \in Backups
      BY <1>0, OwnIsOwn DEF IInv, TypeOK
    <2> QED
      BY <2>1 DEF Content
  <1>3. Fill(r, v) /\ Goto(r, "remove") /\ UNCHANGED <<bucket, argv, file>>
    BY <1>2 DEF Extracted
  <1> QED
    BY <1>0, <1>1, <1>2, <1>3, FillKeeps

LEMMA ExtractFailsKeeps ==
    ASSUME IInv, NEW r \in Runs, ExtractFails(r)
    PROVE  IInv'
  <1>1. Break(r) /\ UNCHANGED <<bucket, argv, file, scratch>>
    BY DEF ExtractFails, ExitCode
  <1> QED
    BY <1>1, BrokenKeeps

-----------------------------------------------------------------------------
(* The port-forward, the checks and the end of a run.                      *)

\* A step that keeps file and namespace, and moves the run as it likes.
LEMMA MovedKeeps ==
    ASSUME IInv, NEW r \in Runs, Moves(r), UNCHANGED <<bucket, argv, file, scratch>>,
           pc'[r] \in Downloaded => pc[r] \in Downloaded,
           pc'[r] # "failed",
           DataFor(r, pc'[r]),
           ChecksFor(r, pc[r])'
    PROVE  IInv'
  <1>1. /\ target' = target /\ At(r)' = At(r) /\ file' = file /\ Own(r)' = Own(r)
        /\ UNCHANGED <<bucket, file, scratch>>
    BY DEF argv, At, Own
  <1>2. DataFor(r, pc[r])'
    BY <1>1 DEF DataFor, Sent
  <1>3. RunOK(r)'
    BY <1>2 DEF RunOK
  <1> QED
    BY <1>1, <1>3, LocalKeeps

LEMMA AwaitLoaderKeeps ==
    ASSUME IInv, NEW r \in Runs, AwaitLoader(r)
    PROVE  IInv'
  <1>0. pc[r] = "ready" /\ UNCHANGED <<bucket, argv, file, scratch>>
    BY DEF AwaitLoader, Local
  <1>1. /\ "extract" \in Labels \ Ended /\ "extract" \notin Before /\ "extract" \notin Unmade
        /\ pc[r] \in Supplied /\ pc[r] \in Owning /\ pc[r] \in Verified /\ pc[r] \in Downloaded
        /\ pc[r] \in Pending /\ "extract" \notin Filled /\ "extract" \notin Passed
    BY <1>0 DEF Labels, Ended, Before, Unmade, Pending, Passed, Downloaded, Verified,
           Owning, Supplied, Filled
  <1>2. CASE Goto(r, "extract")
    <2>1. DataFor(r, "extract") /\ ChecksFor(r, "extract")
      BY <1>1 DEF IInv, RunOK, DataFor, ChecksFor
    <2> QED
      BY <1>0, <1>1, <1>2, <2>1, LocalStepOn
  <1>3. CASE Leave(r, "early", FALSE)
    <2>1. /\ "early" \in Labels \ Unmade /\ "early" \notin Pending \cup Passed \cup Filled
          /\ "early" \notin {"verify", "ready", "extracting", "check", "failed", "dropFailedJob"}
      BY DEF Labels, Ended, Unmade, Before, Pending, Passed, Filled
    <2>2. Moves(r) /\ pc'[r] = "early"
      BY <1>0, <1>3, <2>1, LeaveMoves
    <2>3. DataFor(r, "early")
      BY <1>0, <1>1, <2>1 DEF IInv, RunOK, DataFor
    <2>4. ChecksFor(r, pc[r])'
      BY <2>1, <2>2 DEF ChecksFor
    <2> QED
      BY <1>0, <1>1, <2>1, <2>2, <2>3, <2>4, MovedKeeps
  <1>4. CASE Own(r).loader = "ended" /\ Reject(r)
    BY <1>0, <1>4, RejectedKeeps DEF Excused
  <1> QED
    BY <1>0, <1>2, <1>3, <1>4, BrokenKeeps DEF AwaitLoader, Local

LEMMA StartForwardKeeps ==
    ASSUME IInv, NEW r \in Runs, StartForward(r)
    PROVE  IInv'
  <1>0. pc[r] = "forward" /\ UNCHANGED <<bucket, argv, file, scratch>> /\ checked[r] = 0
    BY DEF StartForward, Local, IInv, RunOK, ChecksFor, Pending, Labels, Ended, Passed
  <1>1. CASE Break(r)
    BY <1>0, <1>1, BrokenKeeps
  <1>2. CASE /\ forward' = [forward EXCEPT ![r] = TRUE] /\ pc' = [pc EXCEPT ![r] = "check"]
             /\ UNCHANGED <<checked, disturbed>>
    <2>1. forward'[r] = TRUE /\ forward' = [forward EXCEPT ![r] = forward'[r]]
      BY <1>2, Zenon DEF IInv, TypeOK
    <2>2. /\ checked' = checked /\ checked[r] \in 0..Len(Checks)
          /\ checked' = [checked EXCEPT ![r] = checked'[r]]
      BY <1>2 DEF IInv, TypeOK
    <2>3. disturbed' = [disturbed EXCEPT ![r] = disturbed'[r]] /\ disturbed'[r] \in BOOLEAN
      BY <1>2, Zenon DEF IInv, TypeOK
    <2>4. pc'[r] = "check" /\ pc' = [pc EXCEPT ![r] = pc'[r]]
      BY <1>2 DEF IInv, TypeOK
    <2>5. "check" \in Labels /\ "check" \notin Before /\ "check" \notin Unmade
      BY DEF Labels, Before, Unmade
    <2>6. UNCHANGED argv
      BY <1>0
    <2>7. Moves(r)
      BY <2>1, <2>2, <2>3, <2>4, <2>5, <2>6 DEF Moves
    <2>8. DataFor(r, pc'[r]) /\ pc[r] \in Downloaded
      BY <1>0, <2>4 DEF IInv, RunOK, DataFor, Downloaded, Verified, Owning, Supplied, Filled, Passed
    <2>9. ChecksFor(r, pc[r])'
      BY <1>0, <2>1, <2>2, <2>4, FiveChecks DEF ChecksFor, Pending, Passed
    <2> QED
      BY <1>0, <2>4, <2>7, <2>8, <2>9, MovedKeeps
  <1> QED
    BY <1>1, <1>2 DEF StartForward, Local

\* What a step of the port-forward or of a check leaves in order.
LEMMA CheckKeeps ==
    ASSUME IInv, NEW r \in Runs, Check(r)
    PROVE  IInv'
  <1>0. /\ pc[r] = "check" /\ UNCHANGED <<bucket, argv, file, scratch>> /\ UNCHANGED argv
        /\ checked[r] \in 0..4 /\ checked[r] < Len(Checks) /\ checked[r] \in Nat
        /\ checked[r] # 0 => target[r] \in Seeded
        /\ disturbed[r] \/ forward[r]
    BY FiveChecks DEF Check, Local, IInv, TypeOK, RunOK, ChecksFor
  <1>1. /\ pc[r] \in Downloaded /\ pc[r] \in Verified /\ pc[r] \in Owning
        /\ pc[r] \in Supplied /\ pc[r] \in Filled /\ pc[r] \notin Before
    BY <1>0 DEF Downloaded, Verified, Owning, Supplied, Filled, Before
  <1>2. /\ Own(r).volume = [state |-> "whole", of |-> target[r]]
        /\ Own(r).volume.of = target[r]
        /\ target[r] \in Matching \ Damaged
        /\ file[At(r)].of = target[r] /\ file[At(r)].state = "whole"
        /\ Own(r).owner = r /\ Own(r).secret = target[r]
    BY <1>1 DEF IInv, RunOK, DataFor
  <1>3. CASE Break(r)
    BY <1>0, <1>3, BrokenKeeps
  <1>4. CASE ~Passes(r) /\ Reject(r)
    <2>1. ~forward[r] \/ (NextCheck(r) \in {"fixture", "application"} /\ target[r] \notin Seeded)
      BY <1>2, <1>4 DEF Passes
    <2>2. Excused(r)
      BY <1>0, <2>1 DEF Excused
    <2> QED
      BY <1>0, <1>4, <2>2, RejectedKeeps
  <1>5. CASE Passes(r) /\ Pass(r)
    <2>1. checked[r] = 0 => NextCheck(r) = "fixture"
      BY FiveChecks DEF NextCheck
    <2>2. target[r] \in Seeded
      BY <1>0, <1>2, <1>5, <2>1 DEF Passes
    <2>3. /\ checked'[r] = checked[r] + 1 /\ checked'[r] \in 0..Len(Checks)
          /\ checked' = [checked EXCEPT ![r] = checked'[r]]
      <3>1. checked' = [checked EXCEPT ![r] = checked[r] + 1]
        BY <1>5 DEF Pass
      <3>2. checked \in [Runs -> 0..Len(Checks)]
        BY DEF IInv, TypeOK
      <3> QED
        BY <1>0, <3>1, <3>2, FiveChecks
    <2>4. /\ forward'[r] = (NextCheck(r) # "binary") /\ forward'[r] \in BOOLEAN
          /\ forward' = [forward EXCEPT ![r] = forward'[r]]
      <3>1. forward' = [forward EXCEPT ![r] = (NextCheck(r) # "binary")]
        BY <1>5 DEF Pass
      <3>2. (NextCheck(r) # "binary") \in BOOLEAN
        OBVIOUS
      <3> QED
        BY <3>1, <3>2, Zenon DEF IInv, TypeOK
    <2>5. disturbed' = [disturbed EXCEPT ![r] = disturbed'[r]] /\ disturbed'[r] \in BOOLEAN
          /\ disturbed' = disturbed
      BY <1>5, Zenon DEF Pass, IInv, TypeOK
    <2>6. /\ pc'[r] = (IF checked[r] + 1 < Len(Checks) THEN "check" ELSE "find")
          /\ pc' = [pc EXCEPT ![r] = pc'[r]]
      BY <1>5 DEF Pass, IInv, TypeOK
    <2>7. /\ {"check", "find"} \subseteq Labels /\ {"check", "find"} \cap Before = {}
          /\ {"check", "find"} \cap Unmade = {} /\ {"check", "find"} \cap Pending = {}
          /\ {"check", "find"} \subseteq Filled
      BY DEF Labels, Before, Unmade, Pending, Filled, Passed
    <2>8. pc'[r] \in {"check", "find"}
      BY <2>6
    <2>9. Moves(r)
      BY <1>0, <2>3, <2>4, <2>5, <2>6, <2>7, <2>8 DEF Moves
    <2>10. DataFor(r, pc'[r])
      BY <1>2, <2>8 DEF DataFor
    <2>11. pc'[r] = "check" => checked'[r] < Len(Checks) /\ forward'[r]
      <3>1. pc'[r] = "check" => checked[r] + 1 < 5
        BY <2>6, FiveChecks
      <3>2. Checks[1] # "binary" /\ Checks[2] # "binary" /\ Checks[3] # "binary" /\ Checks[4] # "binary"
        BY DEF Checks
      <3>3. pc'[r] = "check" => NextCheck(r) # "binary"
        <4>1. checked[r] + 1 < 5 => checked[r] \in {0, 1, 2, 3}
          BY <1>0
        <4> QED
          BY <3>1, <3>2, <4>1 DEF NextCheck
      <3> QED
        BY <2>3, <2>4, <3>1, <3>3, FiveChecks
    <2>12. ChecksFor(r, pc[r])'
      <3>1. target' = target
        BY <1>0 DEF argv
      <3> QED
        BY <2>2, <2>7, <2>8, <2>11, <3>1 DEF ChecksFor
    <2>13. pc'[r] # "failed"
      BY <2>8
    <2> QED
      BY <1>0, <1>1, <2>9, <2>10, <2>12, <2>13, MovedKeeps
  <1> QED
    BY <1>3, <1>4, <1>5 DEF Check, Local

LEMMA ForwardLostKeeps ==
    ASSUME IInv, NEW r \in Runs, ForwardLost(r)
    PROVE  IInv'
  <1>0. /\ UNCHANGED <<bucket, argv, file, scratch>> /\ UNCHANGED argv
        /\ pc' = pc /\ checked' = checked
        /\ pc[r] \in Labels /\ checked[r] \in 0..Len(Checks)
    BY DEF ForwardLost, IInv, TypeOK
  <1>1. /\ forward' = [forward EXCEPT ![r] = forward'[r]] /\ forward'[r] \in BOOLEAN
        /\ disturbed' = [disturbed EXCEPT ![r] = disturbed'[r]] /\ disturbed'[r] \in BOOLEAN
        /\ disturbed'[r]
    BY Zenon DEF ForwardLost, IInv, TypeOK
  <1>2. /\ pc' = [pc EXCEPT ![r] = pc'[r]] /\ checked' = [checked EXCEPT ![r] = checked'[r]]
    BY <1>0 DEF IInv, TypeOK
  <1>3. Moves(r)
    BY <1>0, <1>1, <1>2 DEF Moves
  <1>4. /\ target' = target /\ At(r)' = At(r) /\ file' = file /\ Own(r)' = Own(r)
        /\ UNCHANGED <<bucket, file, scratch>>
    BY <1>0 DEF argv, At, Own
  <1>5. RunOK(r)'
    <2>1. DataFor(r, pc[r])'
      BY <1>0, <1>4 DEF IInv, RunOK, DataFor, Sent
    <2>2. ChecksFor(r, pc[r])'
      BY <1>0, <1>1, <1>4 DEF IInv, RunOK, ChecksFor
    <2>3. Excused(r)'
      BY <1>1 DEF Excused
    <2> QED
      BY <2>1, <2>2, <2>3 DEF RunOK
  <1> QED
    BY <1>0, <1>3, <1>4, <1>5, LocalKeeps

LEMMA KillKeeps ==
    ASSUME IInv, NEW r \in Runs, Kill(r)
    PROVE  IInv'
  <1>0. /\ UNCHANGED <<bucket, argv, file, scratch>> /\ UNCHANGED argv
        /\ pc' = [pc EXCEPT ![r] = "killed"] /\ pc'[r] = "killed"
        /\ forward' = forward /\ checked' = checked /\ disturbed' = disturbed
        /\ checked[r] \in 0..Len(Checks)
    BY DEF Kill, IInv, TypeOK
  <1>1. "killed" \in Labels \ (Before \cup Unmade \cup Downloaded \cup Pending \cup Passed)
    BY DEF Labels, Ended, Before, Unmade, Pending, Downloaded, Verified, Owning, Supplied,
           Filled, Passed
  <1>2. forward' = [forward EXCEPT ![r] = forward'[r]] /\ forward'[r] \in BOOLEAN
    BY <1>0, Zenon DEF IInv, TypeOK
  <1>3. disturbed' = [disturbed EXCEPT ![r] = disturbed'[r]] /\ disturbed'[r] \in BOOLEAN
    BY <1>0, Zenon DEF IInv, TypeOK
  <1>4. checked' = [checked EXCEPT ![r] = checked'[r]]
    BY <1>0 DEF IInv, TypeOK
  <1>5. Moves(r)
    BY <1>0, <1>1, <1>2, <1>3, <1>4 DEF Moves
  <1>6. DataFor(r, pc'[r]) /\ ChecksFor(r, pc[r])'
    BY <1>0, <1>1 DEF DataFor, ChecksFor, Downloaded, Verified, Owning, Supplied, Filled
  <1> QED
    BY <1>0, <1>1, <1>5, <1>6, MovedKeeps


\* Leaving with what the place requires.
LEMMA LeftIsOK ==
    ASSUME IInv, NEW r \in Runs, NEW label \in Labels \ Unmade, NEW fault \in BOOLEAN,
           Leave(r, label, fault), UNCHANGED <<bucket, argv, file, scratch>>,
           label # "failed", label \in Passed, pc[r] \in Downloaded,
           DataFor(r, label), target[r] \in Seeded,
           label = "dropFailedJob" => fault
    PROVE  IInv'
  <1>0. UNCHANGED argv /\ target' = target
    BY DEF argv
  <1>1. Moves(r) /\ pc'[r] = label /\ disturbed'[r] = (disturbed[r] \/ fault)
    BY <1>0, LeaveMoves
  <1>2. label \notin Pending /\ label # "check"
    BY DEF Pending, Passed
  <1>3. ChecksFor(r, pc[r])'
    BY <1>0, <1>1, <1>2 DEF ChecksFor
  <1> QED
    BY <1>1, <1>3, MovedKeeps

LEMMA AwaitJobKeeps ==
    ASSUME IInv, NEW r \in Runs, AwaitJob(r)
    PROVE  IInv'
  <1>0. pc[r] = "waitJob" /\ UNCHANGED <<bucket, argv, file, scratch>>
    BY DEF AwaitJob
  <1>1. /\ pc[r] \in Passed /\ pc[r] \in Downloaded /\ pc[r] \in Filled /\ pc[r] \in Supplied
        /\ pc[r] \in Owning /\ pc[r] \in Verified /\ pc[r] \notin Before /\ pc[r] \notin Unmade
    BY <1>0 DEF Passed, Downloaded, Filled, Supplied, Owning, Verified, Before, Unmade
  <1>2. /\ {"dropJob", "dropFailedJob"} \subseteq (Labels \ Unmade) \cap Passed
        /\ {"dropJob", "dropFailedJob"} \cap (Ended \cup Before \cup Pending) = {}
    BY DEF Labels, Ended, Unmade, Before, Passed, Pending
  <1>3. target[r] \in Seeded /\ DataFor(r, "dropJob") /\ DataFor(r, "dropFailedJob")
    BY <1>0, <1>1 DEF IInv, RunOK, DataFor, ChecksFor
  <1>4. CASE Goto(r, "dropJob")
    <2>1. ChecksFor(r, "dropJob")
      BY <1>2, <1>3 DEF ChecksFor
    <2>2. "dropJob" \in Labels \ Ended /\ "dropJob" \notin Before /\ "dropJob" \notin Unmade
      BY <1>2
    <2> QED
      BY <1>0, <1>1, <1>3, <1>4, <2>1, <2>2, LocalStepOn
  <1>5. CASE Leave(r, "dropFailedJob", TRUE)
    <2>1. "dropFailedJob" \in Labels \ Unmade /\ "dropFailedJob" \in Passed
      BY <1>2
    <2> QED
      BY <1>0, <1>1, <1>3, <1>5, <2>1, LeftIsOK
  <1> QED
    BY <1>4, <1>5 DEF AwaitJob

LEMMA RecordKeeps ==
    ASSUME IInv, NEW r \in Runs, Record(r)
    PROVE  IInv'
  <1>0. pc[r] = "claim" /\ UNCHANGED <<bucket, argv, file, scratch>>
    BY DEF Record, Local
  <1>1. /\ pc[r] \in Passed /\ pc[r] \in Downloaded /\ pc[r] \in Filled /\ pc[r] \in Supplied
        /\ pc[r] \in Owning /\ pc[r] \in Verified
    BY <1>0 DEF Passed, Downloaded, Filled, Supplied, Owning, Verified
  <1>2. target[r] \in Seeded /\ DataFor(r, "done")
    BY <1>0, <1>1 DEF IInv, RunOK, DataFor, ChecksFor
  <1>3. "done" \in Labels \ Unmade /\ "done" \in Passed
    BY DEF Labels, Ended, Unmade, Before, Passed
  <1> QED
    BY <1>0, <1>1, <1>2, <1>3, LeftIsOK, BrokenKeeps DEF Record, Local

-----------------------------------------------------------------------------
(* The cluster and the bucket.                                             *)

\* A Job of a namespace that goes on or ends leaves everything else of it.
LEMMA EndKeeps ==
    ASSUME IInv, NEW n \in Names, NEW c \in Scratch,
           scratch' = [scratch EXCEPT ![n] = c], UNCHANGED <<bucket, argv, file, run>>,
           c.owner = scratch[n].owner, c.secret = scratch[n].secret,
           c.volume = scratch[n].volume,
           scratch[n].loader # "absent" => c.loader # "absent",
           scratch[n].loader = "ended" => c.loader = "ended"
    PROVE  IInv'
  <1>0. /\ manifests' = manifests /\ archives' = archives /\ file' = file
        /\ place' = place /\ name' = name /\ target' = target
        /\ forward' = forward /\ pc' = pc /\ checked' = checked /\ disturbed' = disturbed
    BY DEF bucket, argv, run
  <1>1. TypeOK'
    BY <1>0 DEF IInv, TypeOK, Content, Scratch
  <1>2. \A m \in Names : /\ scratch'[m].owner = scratch[m].owner
                         /\ scratch'[m].secret = scratch[m].secret
                         /\ scratch'[m].volume = scratch[m].volume
                         /\ scratch[m].loader # "absent" => scratch'[m].loader # "absent"
                         /\ scratch[m].loader = "ended" => scratch'[m].loader = "ended"
    BY DEF IInv, TypeOK
  <1>3. FilesOK'
    BY <1>0 DEF IInv, FilesOK, At
  <1>4. ASSUME NEW m \in Names PROVE SpaceOK(m)'
    BY <1>0, <1>2 DEF IInv, SpaceOK
  <1>5. ASSUME NEW q \in Runs PROVE RunOK(q)'
    <2>1. /\ Own(q)'.owner = Own(q).owner /\ Own(q)'.secret = Own(q).secret
          /\ Own(q)'.volume = Own(q).volume
          /\ Own(q).loader # "absent" => Own(q)'.loader # "absent"
          /\ Own(q).loader = "ended" => Own(q)'.loader = "ended"
          /\ At(q)' = At(q)
      BY <1>0, <1>2 DEF Own, At, IInv, TypeOK
    <2>2. DataFor(q, pc[q])'
      BY <1>0, <2>1 DEF IInv, RunOK, DataFor, Sent
    <2>3. ChecksFor(q, pc[q])'
      BY <1>0 DEF IInv, RunOK, ChecksFor
    <2>4. (pc[q] = "failed" => Excused(q))'
      BY <1>0, <2>1 DEF IInv, RunOK, Excused
    <2> QED
      BY <2>2, <2>3, <2>4 DEF RunOK
  <1> QED
    BY <1>0, <1>1, <1>3, <1>4, <1>5 DEF IInv

\* What the cluster does with the loader Job of a namespace.
LEMMA LoaderMoves ==
    ASSUME IInv, NEW n \in Names, NEW l \in {"starting", "running", "ended"},
           scratch' = [scratch EXCEPT ![n].loader = l],
           scratch[n].loader # "ended", UNCHANGED <<bucket, argv, file, run>>
    PROVE  IInv'
  <1>1. /\ scratch[n] \in Scratch
        /\ l \in {"absent", "created", "starting", "running", "ended"}
    BY DEF IInv, TypeOK
  <1>2. PICK c \in Scratch :
           /\ c = [scratch[n] EXCEPT !.loader = l]
           /\ c.owner = scratch[n].owner /\ c.secret = scratch[n].secret
           /\ c.volume = scratch[n].volume /\ c.loader = l
    BY <1>1, LoaderReplaced, Zenon
  <1>3. scratch' = [scratch EXCEPT ![n] = c] /\ l # "absent"
    BY <1>2
  <1> QED
    BY <1>2, <1>3, EndKeeps

LEMMA CreatePodKeeps ==
    ASSUME IInv, NEW n \in Names, CreatePod(n)
    PROVE  IInv'
  BY LoaderMoves DEF CreatePod

LEMMA LoaderStartsKeeps ==
    ASSUME IInv, NEW n \in Names, LoaderStarts(n)
    PROVE  IInv'
  <1>1. PICK l \in {"running", "ended"} : scratch' = [scratch EXCEPT ![n].loader = l]
    BY DEF LoaderStarts
  <1> QED
    BY <1>1, LoaderMoves DEF LoaderStarts

LEMMA LoaderEndsKeeps ==
    ASSUME IInv, NEW n \in Names, LoaderEnds(n)
    PROVE  IInv'
  BY LoaderMoves DEF LoaderEnds

LEMMA JobEndsKeeps ==
    ASSUME IInv, NEW n \in Names, JobEnds(n)
    PROVE  IInv'
  <1>1. scratch[n] \in Scratch /\ "complete" \in {"absent", "running", "complete"}
    BY DEF IInv, TypeOK
  <1>2. PICK c \in Scratch :
           /\ c = [scratch[n] EXCEPT !.security = "complete"]
           /\ c.owner = scratch[n].owner /\ c.secret = scratch[n].secret
           /\ c.volume = scratch[n].volume /\ c.loader = scratch[n].loader
    BY <1>1, SecurityReplaced, Zenon
  <1>3. scratch' = [scratch EXCEPT ![n] = c] /\ UNCHANGED <<bucket, argv, file, run>>
    BY <1>2 DEF JobEnds
  <1> QED
    BY <1>2, <1>3, EndKeeps

LEMMA RetireKeeps ==
    ASSUME IInv, NEW k \in Expiring, Retire(k)
    PROVE  IInv'
  <1>0. /\ file' = file /\ scratch' = scratch
        /\ place' = place /\ name' = name /\ target' = target
        /\ forward' = forward /\ pc' = pc /\ checked' = checked /\ disturbed' = disturbed
    BY DEF Retire, argv, run
  <1>1. manifests' \subseteq manifests /\ archives' \subseteq archives
        /\ manifests' \subseteq archives'
    BY DEF Retire, IInv
  <1>2. TypeOK'
    BY <1>0, <1>1 DEF IInv, TypeOK, Content, Scratch
  <1>3. FilesOK'
    BY <1>0 DEF IInv, FilesOK, At
  <1>4. ASSUME NEW m \in Names PROVE SpaceOK(m)'
    BY <1>0 DEF IInv, SpaceOK
  <1>5. ASSUME NEW q \in Runs PROVE RunOK(q)'
    <2>1. DataFor(q, pc[q])'
      BY <1>0 DEF IInv, RunOK, DataFor, Sent, Own, At
    <2>2. ChecksFor(q, pc[q])'
      BY <1>0 DEF IInv, RunOK, ChecksFor
    <2>3. (pc[q] = "failed" => Excused(q))'
      BY <1>0, <1>1 DEF IInv, RunOK, Excused, Own
    <2> QED
      BY <2>1, <2>2, <2>3 DEF RunOK
  <1> QED
    BY <1>1, <1>2, <1>3, <1>4, <1>5 DEF IInv

LEMMA StutterKeeps ==
    ASSUME IInv, UNCHANGED vars
    PROVE  IInv'
  <1>0. /\ manifests' = manifests /\ archives' = archives /\ file' = file /\ scratch' = scratch
        /\ place' = place /\ name' = name /\ target' = target
        /\ forward' = forward /\ pc' = pc /\ checked' = checked /\ disturbed' = disturbed
    BY DEF vars, bucket, argv, run
  <1>1. TypeOK'
    BY <1>0 DEF IInv, TypeOK, Content, Scratch
  <1>2. FilesOK'
    BY <1>0 DEF IInv, FilesOK, At
  <1>3. \A m \in Names : SpaceOK(m)'
    BY <1>0 DEF IInv, SpaceOK
  <1>4. \A q \in Runs : RunOK(q)'
    BY <1>0 DEF IInv, RunOK, DataFor, ChecksFor, Excused, Sent, Own, At
  <1> QED
    BY <1>0, <1>1, <1>2, <1>3, <1>4 DEF IInv

-----------------------------------------------------------------------------
(* The theorems.                                                           *)

LEMMA InitIsOK == ASSUME Init PROVE IInv
  <1>1. TypeOK
    <2>1. checked \in [Runs -> 0..Len(Checks)]
      BY FiveChecks DEF Init
    <2>2. forward \in [Runs -> BOOLEAN] /\ disturbed \in [Runs -> BOOLEAN]
      BY Zenon DEF Init
    <2>3. pc \in [Runs -> Labels]
      BY DEF Init, Labels
    <2>4. file \in [Workstations \X Names -> Content({"absent", "partial", "damaged", "whole"})]
      BY DEF Init, Content, Nothing
    <2>5. scratch \in [Names -> Scratch]
      BY DEF Init, Scratch, Content, Nothing
    <2> QED
      BY <2>1, <2>2, <2>3, <2>4, <2>5 DEF Init, TypeOK
  <1>2. manifests \subseteq archives
    BY DEF Init
  <1>3. FilesOK
    BY DEF Init, FilesOK, Downloaded, Verified, Owning, Supplied, Filled, Passed
  <1>4. \A n \in Names : SpaceOK(n)
    BY DEF Init, SpaceOK
  <1>5. ASSUME NEW r \in Runs PROVE RunOK(r)
    <2>1. pc[r] = "connect" /\ checked[r] = 0
      BY DEF Init
    <2> QED
      BY <2>1 DEF RunOK, DataFor, ChecksFor, Downloaded, Verified, Owning, Supplied, Filled, Passed
  <1> QED
    BY <1>1, <1>2, <1>3, <1>4, <1>5 DEF IInv

LEMMA StepKeeps == ASSUME IInv, [Next]_vars PROVE IInv'
  <1>1. ASSUME NEW r \in Runs, RunStep(r) PROVE IInv'
    BY <1>1, ConnectKeeps, ManifestKeeps, OpenKeeps, ReceiveKeeps, VerifyKeeps,
       CredentialsKeeps, CreateNamespaceKeeps, CreateSecretKeeps, CreateVolumeKeeps,
       CreateLoaderKeeps, AwaitLoaderKeeps, ExtractKeeps, RemoveLoaderKeeps, InstallKeeps,
       StartForwardKeeps, CheckKeeps, FindBootstrapKeeps, CreateJobKeeps, AwaitJobKeeps,
       DropJobKeeps, RecordKeeps
    DEF RunStep
  <1>2. ASSUME NEW r \in Runs, Extracted(r) \/ ExtractFails(r) \/ ForwardLost(r) \/ Kill(r)
        PROVE  IInv'
    BY <1>2, ExtractedKeeps, ExtractFailsKeeps, ForwardLostKeeps, KillKeeps
  <1>3. ASSUME NEW n \in Names, CreatePod(n) \/ LoaderStarts(n) \/ LoaderEnds(n) \/ JobEnds(n)
        PROVE  IInv'
    BY <1>3, CreatePodKeeps, LoaderStartsKeeps, LoaderEndsKeeps, JobEndsKeeps
  <1>4. ASSUME NEW k \in Expiring, Retire(k) PROVE IInv'
    BY <1>4, RetireKeeps
  <1> QED
    BY <1>1, <1>2, <1>3, <1>4, StutterKeeps DEF Next

LEMMA Invariance == Spec => []IInv
  BY InitIsOK, StepKeeps, PTL DEF Spec

\* The state of bucket, workstations, cluster and runs stays within its types,
\* for any number of rehearsals at once.
THEOREM TypeCorrect == Spec => []TypeOK
  <1>1. IInv => TypeOK
    BY DEF IInv
  <1> QED
    BY <1>1, Invariance, PTL

\* kubectl create, and not apply, keeps two rehearsals with the same name for
\* their namespaces apart: restore-cluster.mjs fills a namespace only from the
\* backup of the run that created it.
THEOREM OneRestorePerNamespace == Spec => []NamespaceIsOneRestore
  <1>1. IInv => NamespaceIsOneRestore
    BY DEF IInv, SpaceOK, NamespaceIsOneRestore
  <1> QED
    BY <1>1, Invariance, PTL

\* A result.json stands for every byte of the backup that was asked for:
\* checksum, tar's exit code, the refused name and the checks of the outcome
\* together leave no other way to it.
THEOREM RecordedIsVerified == Spec => []VerifiedIsTheArchive
  <1>1. ASSUME IInv, NEW r \in Runs, pc[r] = "done"
        PROVE  /\ Own(r).owner = r /\ Own(r).secret = target[r]
               /\ Own(r).volume = [state |-> "whole", of |-> target[r]]
               /\ target[r] \in (Matching \cap Seeded) \ Damaged
    <2>1. /\ pc[r] \in Passed /\ pc[r] \in Filled /\ pc[r] \in Supplied
          /\ pc[r] \in Owning /\ pc[r] \in Verified
      BY <1>1 DEF Passed, Filled, Supplied, Owning, Verified
    <2> QED
      BY <1>1, <2>1 DEF IInv, RunOK, DataFor, ChecksFor
  <1>2. IInv => VerifiedIsTheArchive
    BY <1>1 DEF VerifiedIsTheArchive
  <1> QED
    BY <1>2, Invariance, PTL

\* restore-cluster.mjs rejects no good backup: the check that makes the server
\* close the forwarded connection comes last, and no other one is disturbed.
\* What is left of a run that fails without a reason is the wait for a pod that
\* does not exist yet, and then its volume has nothing of the backup.
THEOREM GoodBackupAccepted == Spec => []GoodRestoreAccepted
  <1>1. ASSUME IInv, NEW r \in Runs, pc[r] = "early"
        PROVE  Own(r).volume.state \in {"empty", "leftover"}
    BY <1>1 DEF IInv, RunOK, DataFor
  <1>2. IInv => GoodRestoreAccepted
    BY <1>1 DEF IInv, RunOK, Excused, GoodRestoreAccepted
  <1> QED
    BY <1>2, Invariance, PTL

-----------------------------------------------------------------------------
(* The bucket between backups, retentions and restores.                    *)

\* Every backup of this model is complete at the outset; a backup that is made
\* meanwhile is none that a run is given.
Bucket == INSTANCE BackupBucket WITH Keys <- Backups, completed <- Backups

\* A run of restore-cluster.mjs only reads.
LEMMA RunsRead ==
    ASSUME NEW r \in Runs,
           RunStep(r) \/ Extracted(r) \/ ExtractFails(r) \/ ForwardLost(r) \/ Kill(r)
    PROVE  UNCHANGED bucket
  <1>1. ASSUME NEW from, NEW changed, NEW label, Kubectl(r, from, changed, label)
        PROVE  UNCHANGED bucket
    BY <1>1 DEF Kubectl, bucket
  <1>2. CASE CreateNamespace(r)
    <2>1. CASE Own(r).owner = Nobody
      BY <1>1, <1>2, <2>1 DEF CreateNamespace
    <2>2. CASE Own(r).owner # Nobody
      BY <1>2, <2>2 DEF CreateNamespace, Local, bucket
    <2> QED
      BY <2>1, <2>2
  <1>3. CASE CreateVolume(r)
    BY <1>1, <1>3 DEF CreateVolume
  <1>4. CASE CreateSecret(r) \/ CreateLoader(r) \/ RemoveLoader(r) \/ CreateJob(r)
    BY <1>1, <1>4 DEF CreateSecret, CreateLoader, RemoveLoader, CreateJob
  <1>5. CASE DropJob(r)
    BY <1>1, <1>5 DEF DropJob
  <1>6. CASE Connect(r) \/ Manifest(r) \/ Verify(r) \/ Credentials(r) \/ AwaitLoader(r)
    BY <1>6 DEF Connect, Manifest, Verify, Credentials, AwaitLoader, Local, bucket
  <1>7. CASE Install(r) \/ StartForward(r) \/ Check(r) \/ FindBootstrap(r) \/ Record(r)
    BY <1>7 DEF Install, StartForward, Check, FindBootstrap, Record, Local, bucket
  <1>8. CASE Open(r) \/ Receive(r) \/ Extract(r) \/ AwaitJob(r)
    BY <1>8 DEF Open, Receive, Extract, AwaitJob, bucket
  <1>9. CASE Extracted(r) \/ ExtractFails(r) \/ ForwardLost(r) \/ Kill(r)
    BY <1>9 DEF Extracted, ExtractFails, ForwardLost, Kill, bucket
  <1> QED
    BY <1>2, <1>3, <1>4, <1>5, <1>6, <1>7, <1>8, <1>9 DEF RunStep

\* The steps that this model lets a retention take with the backups it may
\* delete are all that the protocol lets it take, and no others.
LEMMA RetireIsTheProtocol ==
    ASSUME IInv, NEW k \in Expiring, UNCHANGED <<argv, file, scratch, run>>
    PROVE  Retire(k) <=> Bucket!Withdraw(k) \/ Bucket!Delete(k)
  <1>1. k \in Backups /\ archives \subseteq Backups
    BY RestoreAssumption DEF IInv, TypeOK
  <1> QED
    BY <1>1 DEF Retire, Bucket!Withdraw, Bucket!Delete

\* No rehearsal writes to the bucket, and what this model lets happen there
\* meanwhile keeps to the protocol of BackupBucket, which the backup and the
\* retention of backup-cluster.mjs are proved to keep to: BackupKeepsBucket and
\* RetentionKeepsBucket discharge what is assumed of other pods here.
THEOREM RestoreKeepsBucket == Spec => Bucket!BucketSpec
  <1>1. Init => Bucket!BucketInit
    BY DEF Init, Bucket!BucketInit
  <1>2. ASSUME IInv, [Next]_vars
        PROVE  [Bucket!BucketNext]_(Bucket!bucketVars)
    <2>1. ASSUME NEW k \in Expiring, Retire(k)
          PROVE  Bucket!BucketNext
      <3>1. UNCHANGED <<argv, file, scratch, run>> /\ k \in Backups
        BY <2>1, RestoreAssumption DEF Retire
      <3> QED
        BY <1>2, <2>1, <3>1, RetireIsTheProtocol DEF Bucket!BucketNext
    <2>2. ASSUME NEW n \in Names,
                 CreatePod(n) \/ LoaderStarts(n) \/ LoaderEnds(n) \/ JobEnds(n)
          PROVE  UNCHANGED bucket
      BY <2>2 DEF CreatePod, LoaderStarts, LoaderEnds, JobEnds, bucket
    <2>3. CASE UNCHANGED bucket
      BY <2>3 DEF bucket, Bucket!bucketVars
    <2>4. CASE UNCHANGED vars
      BY <2>3, <2>4 DEF vars
    <2> QED
      BY <1>2, <2>1, <2>2, <2>3, <2>4, RunsRead DEF Next
  <1> QED
    BY <1>1, <1>2, Invariance, PTL DEF Spec, Bucket!BucketSpec

=============================================================================
