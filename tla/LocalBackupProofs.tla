-------------------------- MODULE LocalBackupProofs --------------------------
(* Proofs about LocalBackup, for any number of runs of every command.       *)
EXTENDS LocalBackup, TLAPS

-----------------------------------------------------------------------------
(* The inductive invariant.                                                *)

\* The places of each command.
KindOK(o, l) ==
    /\ l \in {"inspect", "stopGraph", "drain", "stopCassandra", "copy", "copying", "manifest"}
          => o \in Backups
    /\ l \in {"verify", "extract", "rehearse", "smoke"} => o \in Restores
    /\ l \in {"lock", "unlock"} => o \in Locking
    /\ l \in {"start", "startGraph"} => o \in Backups \cup Ups
    /\ l \in {"down", "downCassandra"} => o \in Downs
    /\ l \in {"check", "put", "readBack", "mark"} => o \in Uploads

Unwritten == {"lock", "inspect", "stopGraph", "drain", "stopCassandra", "copy", "copying", "manifest"}

\* What a backup has written at each place.
Written(b) ==
    /\ pc[b] \in Unwritten => ~manifest[b]
    /\ pc[b] = "manifest" => archive[b] = "full"
    /\ pc[b] \in Unwritten \ {"copying", "manifest"} => b \notin torn

\* What a backup that dev-data.mjs left alone knows of Cassandra.
Drained(b) ==
    \/ b \in touched
    \/ /\ pc[b] = "stopCassandra" => cassandra = "drained" /\ flushed
       /\ pc[b] = "copy" => cassandra = "stopped" /\ flushed
       /\ pc[b] = "copying" => cassandra = "stopped" /\ b \notin torn
       /\ pc[b] = "manifest" => b \notin torn
       /\ manifest[b] => b \notin torn

\* What a restore without an error has read.
Read(r) ==
    /\ pc[r] = "smoke" => rehearsal = r
    /\ pc[r] = "unlock" /\ ~erring[r] => rehearsed[r] = r
    /\ pc[r] = "done" => rehearsed[r] = r

IInv ==
    /\ TypeOK /\ OneOperation
    /\ \A o \in Runs : KindOK(o, pc[o])
    /\ \A b \in Backups : Written(b) /\ Drained(b)
    /\ \A r \in Restores : Read(r)

-----------------------------------------------------------------------------
(* Lemmas about one run that moves on.                                     *)

\* Run o goes to l and nothing else moves.
Moves(o, l) ==
    /\ l \in Places
    /\ pc' = [pc EXCEPT ![o] = l]
    /\ erring' \in [Runs -> BOOLEAN]
    /\ \A q \in Runs \ {o} : erring'[q] = erring[q]

LEMMA Kinds ==
    /\ \A b \in Backups : b \in Locking /\ b \in Runs /\ b \notin Restores
    /\ \A r \in Restores : r \in Locking /\ r \in Runs /\ r \notin Backups
    /\ \A o \in Ups \cup Downs \cup Uploads : o \in Runs /\ o \notin Locking
    /\ Ups \cap Downs = {} /\ Locking \subseteq Runs
  BY LocalAssumption DEF Runs, Locking

LEMMA GotoMoves ==
    ASSUME TypeOK, NEW o \in Runs, NEW l \in Places, Goto(o, l)
    PROVE  Moves(o, l) /\ erring'[o] = erring[o]
  BY DEF TypeOK, Moves, Goto

LEMMA ThrowMoves ==
    ASSUME TypeOK, NEW o \in Runs, NEW l \in Places, Throw(o, l)
    PROVE  Moves(o, l) /\ (l \notin Ended => erring'[o])
  <1>1. erring' \in [Runs -> BOOLEAN]
    BY Zenon DEF TypeOK, Throw
  <1>2. /\ \A q \in Runs \ {o} : erring'[q] = erring[q]
        /\ l \notin Ended => erring'[o]
    BY Zenon DEF TypeOK, Throw
  <1> QED
    BY <1>1, <1>2 DEF Moves, Throw

\* Where a run goes.
LEMMA MovedPlaces ==
    ASSUME TypeOK, NEW o \in Runs, NEW l, Moves(o, l)
    PROVE  /\ pc' \in [Runs -> Places] /\ pc'[o] = l
           /\ \A q \in Runs \ {o} : pc'[q] = pc[q] /\ erring'[q] = erring[q]
  BY DEF TypeOK, Moves

\* A run that works alone, or that does not lock, keeps what the other runs know
\* as long as it marks the backups whose Cassandra it changes.
LEMMA Step ==
    ASSUME IInv, TypeOK', NEW o \in Runs, NEW l, Moves(o, l), KindOK(o, l),
           AtWork(o) \/ o \notin Locking, UNCHANGED lock,
           \A b \in Backups \ {o} : manifest'[b] = manifest[b] /\ archive'[b] = archive[b],
           touched \subseteq touched',
           \A b \in Backups \ {o} : b \in torn' => b \in torn \/ pc[b] = "copying",
           \/ UNCHANGED <<cassandra, flushed, torn>>
           \/ \A b \in Backups \ {o} : AtWork(b) => b \in touched',
           o \in Backups => Written(o)' /\ Drained(o)',
           \/ UNCHANGED <<rehearsal, rehearsed>>
           \/ o \in Restores /\ \A r \in Restores \ {o} : rehearsed'[r] = rehearsed[r],
           o \in Restores => Read(o)'
    PROVE  IInv'
  <1>1. /\ pc' \in [Runs -> Places] /\ pc'[o] = l
        /\ \A q \in Runs \ {o} : pc'[q] = pc[q] /\ erring'[q] = erring[q]
    BY MovedPlaces DEF IInv
  <1>2. OneOperation'
    <2>1. \A q \in Locking : AtWork(q)' => AtWork(q)
      BY <1>1, Kinds DEF IInv, AtWork, Beginning
    <2> QED
      BY <2>1 DEF IInv, OneOperation
  <1>3. \A q \in Runs : KindOK(q, pc[q])'
    BY <1>1 DEF IInv, KindOK
  <1>4. ASSUME NEW b \in Backups, b # o
        PROVE  Written(b)' /\ Drained(b)'
    <2>1. pc'[b] = pc[b] /\ manifest'[b] = manifest[b] /\ archive'[b] = archive[b]
          /\ Written(b) /\ Drained(b) /\ (b \in torn' => b \in torn \/ pc[b] = "copying")
      BY <1>1, <1>4, Kinds DEF IInv
    <2>2. Written(b)'
      BY <2>1 DEF Written, Unwritten
    <2>3. Drained(b)'
      <3>1. CASE UNCHANGED <<cassandra, flushed, torn>>
        BY <2>1, <3>1 DEF Drained
      <3>2. CASE AtWork(b) => b \in touched'
        <4>1. CASE b \in touched'
          BY <4>1 DEF Drained
        <4>2. CASE pc[b] \in {"lock", "done", "failed"}
          BY <2>1, <4>2 DEF Drained
        <4>3. AtWork(b) \/ pc[b] \in {"lock", "done", "failed"}
          BY Kinds DEF AtWork, Beginning, Ended
        <4> QED
          BY <3>2, <4>1, <4>2, <4>3
      <3> QED
        BY <1>4, <3>1, <3>2
    <2> QED
      BY <2>2, <2>3
  <1>5. ASSUME NEW r \in Restores, r # o
        PROVE  Read(r)'
    <2>1. pc'[r] = pc[r] /\ erring'[r] = erring[r] /\ Read(r)
      BY <1>1, <1>5, Kinds DEF IInv
    <2>2. CASE UNCHANGED <<rehearsal, rehearsed>>
      BY <2>1, <2>2 DEF Read
    <2>3. CASE o \in Restores /\ rehearsed'[r] = rehearsed[r]
      <3>1. ~AtWork(r)
        BY <1>5, <2>3, Kinds DEF IInv, OneOperation
      <3>2. pc[r] # "smoke"
        BY <3>1, Kinds DEF AtWork, Beginning, Ended
      <3> QED
        BY <2>1, <2>3, <3>2 DEF Read
    <2> QED
      BY <1>5, <2>2, <2>3
  <1> QED
    BY <1>2, <1>3, <1>4, <1>5 DEF IInv

\* A backup at work is alone.
LEMMA Alone ==
    ASSUME IInv, NEW o \in Locking, AtWork(o)
    PROVE  \A b \in Locking \ {o} : ~AtWork(b)
  BY DEF IInv, OneOperation

\* A step that changes nothing but where its run is, and what only uploads and the
\* history use.
LEMMA QuietStep ==
    ASSUME IInv, TypeOK', NEW o \in Runs, NEW l, Moves(o, l), KindOK(o, l),
           AtWork(o) \/ o \notin Locking,
           UNCHANGED <<lock, cassandra, flushed, local, torn, touched, rehearsed>>,
           o \in Backups => Written(o)' /\ Drained(o)',
           o \in Restores => Read(o)'
    PROVE  IInv'
  BY Step DEF local

-----------------------------------------------------------------------------
(* The lock.                                                               *)

LEMMA LockPreserves ==
    ASSUME IInv, NEW o \in Runs, Lock(o)
    PROVE  IInv'
  <1>1. TypeOK /\ o \in Locking /\ pc[o] = "lock"
        /\ UNCHANGED <<stack, local, bucket, input, history>> /\ lock' = TRUE
    BY DEF IInv, Lock
  <1>2. PICK l \in {"failed", "inspect", "verify"} :
          /\ Goto(o, l)
          /\ l = "inspect" => o \in Backups
          /\ l = "verify" => o \in Restores
          /\ l # "failed" => ~lock
    BY <1>1 DEF Lock, Begin, Locking
  <1>3. Moves(o, l)
    BY <1>1, <1>2, GotoMoves DEF Places, Ended
  <1>4. /\ pc' \in [Runs -> Places] /\ pc'[o] = l
        /\ \A q \in Runs \ {o} : pc'[q] = pc[q] /\ erring'[q] = erring[q]
    BY <1>1, <1>3, MovedPlaces
  <1>5. TypeOK'
    BY <1>1, <1>3, <1>4 DEF TypeOK, Moves, stack, local, bucket, history
  <1>6. OneOperation'
    <2>1. CASE l = "failed"
      <3>1. \A q \in Locking : AtWork(q)' => AtWork(q)
        BY <1>4, <2>1, Kinds DEF AtWork, Beginning, Ended
      <3> QED
        BY <1>1, <3>1 DEF IInv, OneOperation
    <2>2. CASE l # "failed"
      <3>1. \A q \in Locking : ~AtWork(q)
        BY <1>2, <2>2 DEF IInv, OneOperation
      <3>2. \A q \in Locking \ {o} : ~AtWork(q)'
        BY <1>4, <3>1, Kinds DEF AtWork, Beginning
      <3> QED
        BY <1>1, <3>2 DEF OneOperation
    <2> QED
      BY <2>1, <2>2
  <1>7. \A q \in Runs : KindOK(q, pc[q])'
    BY <1>2, <1>4 DEF IInv, KindOK
  <1>8. \A b \in Backups : Written(b)' /\ Drained(b)'
    BY <1>1, <1>2, <1>4, Kinds DEF IInv, Written, Drained, Unwritten, stack, local, history
  <1>9. \A r \in Restores : Read(r)'
    BY <1>1, <1>2, <1>4, Kinds DEF IInv, Read, local, history
  <1> QED
    BY <1>5, <1>6, <1>7, <1>8, <1>9 DEF IInv

LEMMA UnlockPreserves ==
    ASSUME IInv, NEW o \in Runs, Unlock(o)
    PROVE  IInv'
  <1>1. TypeOK /\ o \in Locking /\ pc[o] = "unlock" /\ AtWork(o) /\ lock' = FALSE
        /\ UNCHANGED <<stack, local, bucket, input, history>>
    <2>1. o \in Locking
      BY DEF IInv, KindOK, Unlock
    <2> QED
      BY <2>1 DEF IInv, Unlock, AtWork, Beginning, Ended
  <1>2. PICK l \in {"failed", "done"} :
          Moves(o, l) /\ (l = "done" => ~erring[o])
    <2>1. CASE erring[o] \/ ~lock
      BY <1>1, <2>1, ThrowMoves DEF Unlock, Places, Ended
    <2>2. CASE ~(erring[o] \/ ~lock)
      BY <1>1, <2>2, GotoMoves DEF Unlock, Places, Ended
    <2> QED
      BY <2>1, <2>2
  <1>3. /\ pc' \in [Runs -> Places] /\ pc'[o] = l
        /\ \A q \in Runs \ {o} : pc'[q] = pc[q] /\ erring'[q] = erring[q]
    BY <1>1, <1>2, MovedPlaces
  <1>4. TypeOK'
    BY <1>1, <1>2, <1>3 DEF TypeOK, Moves, stack, local, bucket, history
  <1>5. OneOperation'
    <2>1. \A q \in Locking : ~AtWork(q)'
      BY <1>1, <1>2, <1>3, Alone, Kinds DEF AtWork, Beginning, Ended
    <2> QED
      BY <2>1 DEF OneOperation
  <1>6. \A q \in Runs : KindOK(q, pc[q])'
    BY <1>2, <1>3 DEF IInv, KindOK
  <1>7. \A b \in Backups : Written(b)' /\ Drained(b)'
    BY <1>1, <1>2, <1>3, Kinds DEF IInv, Written, Drained, Unwritten, stack, local, history
  <1>8. \A r \in Restores : Read(r)'
    BY <1>1, <1>2, <1>3, Kinds DEF IInv, Read, local, history
  <1> QED
    BY <1>4, <1>5, <1>6, <1>7, <1>8 DEF IInv

LEMMA RemoveLockPreserves ==
    ASSUME IInv, RemoveLock
    PROVE  IInv'
  <1>1. /\ UNCHANGED <<stack, local, bucket, pc, erring, input, history>> /\ lock' = FALSE
        /\ \A q \in Locking : ~AtWork(q)
    BY DEF RemoveLock
  <1>2. TypeOK'
    BY <1>1 DEF IInv, TypeOK, stack, local, bucket, history
  <1>3. OneOperation'
    BY <1>1 DEF OneOperation, AtWork
  <1>4. \A q \in Runs : KindOK(q, pc[q])'
    BY <1>1 DEF IInv, KindOK
  <1>5. /\ \A b \in Backups : Written(b)' /\ Drained(b)'
        /\ \A r \in Restores : Read(r)'
    BY <1>1 DEF IInv, Written, Drained, Read, stack, local, history
  <1> QED
    BY <1>2, <1>3, <1>4, <1>5 DEF IInv

\* What a killed run leaves behind is nothing the others rely on.
LEMMA KillPreserves ==
    ASSUME IInv, NEW o \in Runs, Kill(o)
    PROVE  IInv'
  <1>1. TypeOK /\ AtWork(o) /\ Throw(o, "failed") /\ excused' = (excused \/ o \in Backups)
        /\ UNCHANGED <<lock, stack, local, bucket, input, torn, touched, rehearsed, sent>>
    BY DEF IInv, Kill
  <1>2. Moves(o, "failed")
    BY <1>1, ThrowMoves DEF Places, Ended
  <1>3. pc' \in [Runs -> Places] /\ pc'[o] = "failed"
    BY <1>1, <1>2, MovedPlaces
  <1>4. TypeOK'
    <2>1. excused' \in BOOLEAN
      BY <1>1
    <2> QED
      BY <1>1, <1>2, <1>3, <2>1 DEF TypeOK, Moves, stack, local, bucket
  <1>5. /\ o \in Backups => Written(o)' /\ Drained(o)'
        /\ o \in Restores => Read(o)'
    BY <1>1, <1>3 DEF IInv, Written, Drained, Read, Unwritten, TypeOK, stack, local
  <1>6. KindOK(o, "failed")
    BY DEF KindOK
  <1> QED
    BY <1>1, <1>2, <1>4, <1>5, <1>6, QuietStep DEF stack

-----------------------------------------------------------------------------
(* Restores and uploads.                                                   *)

LEMMA RestorePreserves ==
    ASSUME IInv, NEW r \in Restores, VerifyArchive(r) \/ Extract(r) \/ Rehearse(r) \/ Smoke(r)
    PROVE  IInv'
  <1>1. TypeOK /\ r \in Runs /\ r \in Locking /\ AtWork(r) /\ r \notin Backups
    BY Kinds DEF IInv, VerifyArchive, Extract, Rehearse, Smoke, AtWork, Beginning, Ended
  <1>2. CASE VerifyArchive(r) \/ Extract(r)
    <2>1. UNCHANGED <<lock, stack, local, bucket, input, history>>
      BY <1>2 DEF VerifyArchive, Extract
    <2>2. PICK l \in {"extract", "rehearse", "unlock"} :
            Moves(r, l) /\ (l = "unlock" => erring'[r])
      <3>1. Goto(r, "extract") \/ Goto(r, "rehearse") \/ Throw(r, "unlock")
        BY <1>2 DEF VerifyArchive, Extract
      <3>2. {"extract", "rehearse", "unlock"} \subseteq Places \ Ended
        BY DEF Places, Ended
      <3> QED
        BY <1>1, <3>1, <3>2, GotoMoves, ThrowMoves
    <2>3. pc' \in [Runs -> Places] /\ pc'[r] = l
      BY <1>1, <2>2, MovedPlaces
    <2>4. TypeOK'
      BY <1>1, <2>1, <2>2, <2>3 DEF TypeOK, Moves, stack, local, bucket, history
    <2>5. Read(r)' /\ KindOK(r, l)
      BY <1>1, <2>2, <2>3 DEF Read, KindOK
    <2> QED
      BY <1>1, <2>1, <2>2, <2>4, <2>5, QuietStep DEF stack, history
  <1>3. CASE Rehearse(r)
    <2>1. UNCHANGED <<lock, stack, archive, manifest, bucket, input, history>>
          /\ rehearsal' \in {r, rehearsal}
      BY <1>3 DEF Rehearse, Call
    <2>2. PICK l \in {"smoke", "unlock"} :
            /\ Moves(r, l) /\ (l = "unlock" => erring'[r])
            /\ l = "smoke" => rehearsal' = r
      <3>1. \/ Goto(r, "smoke") /\ rehearsal' = r
            \/ Throw(r, "unlock")
        BY <1>3 DEF Rehearse, Call
      <3>2. {"smoke", "unlock"} \subseteq Places \ Ended
        BY DEF Places, Ended
      <3> QED
        BY <1>1, <3>1, <3>2, GotoMoves, ThrowMoves
    <2>3. pc' \in [Runs -> Places] /\ pc'[r] = l
      BY <1>1, <2>2, MovedPlaces
    <2>4. TypeOK'
      BY <1>1, <2>1, <2>2, <2>3 DEF TypeOK, Moves, stack, bucket, history
    <2>5. Read(r)' /\ KindOK(r, l)
      BY <1>1, <2>2, <2>3 DEF Read, KindOK
    <2> QED
      BY <1>1, <2>1, <2>2, <2>4, <2>5, Step DEF stack, history
  <1>4. CASE Smoke(r)
    <2>1. UNCHANGED <<lock, stack, local, bucket, input, torn, touched, sent, excused>>
          /\ rehearsed' = [rehearsed EXCEPT ![r] = rehearsal] /\ pc[r] = "smoke"
      BY <1>4 DEF Smoke
    <2>2. Moves(r, "unlock")
      <3>1. "unlock" \in Places
        BY DEF Places
      <3> QED
        BY <1>1, <1>4, <3>1, GotoMoves, ThrowMoves DEF Smoke
    <2>3. pc' \in [Runs -> Places] /\ pc'[r] = "unlock"
      BY <1>1, <2>2, MovedPlaces
    <2>4. /\ rehearsed' \in [Restores -> Restores \cup {None}]
          /\ rehearsed'[r] = rehearsal
          /\ \A q \in Restores \ {r} : rehearsed'[q] = rehearsed[q]
      BY <1>1, <2>1 DEF TypeOK
    <2>5. TypeOK'
      BY <1>1, <2>1, <2>2, <2>3, <2>4 DEF TypeOK, Moves, stack, local, bucket
    <2>6. rehearsal = r
      BY <2>1 DEF IInv, Read
    <2>7. Read(r)' /\ KindOK(r, "unlock")
      BY <1>1, <2>3, <2>4, <2>6 DEF Read, KindOK
    <2> QED
      BY <1>1, <2>1, <2>2, <2>4, <2>5, <2>7, Step DEF stack, local
  <1> QED
    BY <1>2, <1>3, <1>4

LEMMA UploadPreserves ==
    ASSUME IInv, NEW u \in Uploads, Check(u) \/ Put(u) \/ ReadBack(u) \/ Mark(u)
    PROVE  IInv'
  <1>1. TypeOK /\ u \in Runs /\ u \notin Locking /\ u \notin Backups /\ u \notin Restores
    BY Kinds DEF IInv
  <1>2. UNCHANGED <<lock, stack, local, torn, touched, rehearsed, excused>>
    BY DEF Check, Put, ReadBack, Mark, history
  <1>3. PICK l \in {"put", "readBack", "mark", "done", "failed"} : Moves(u, l)
    <2>1. {"put", "readBack", "mark", "done", "failed"} \subseteq Places
      BY DEF Places, Ended
    <2>2. \E l \in {"put", "readBack", "mark", "done", "failed"} : Goto(u, l) \/ Throw(u, l)
      BY DEF Check, Put, ReadBack, Mark, Call
    <2> QED
      BY <1>1, <2>1, <2>2, GotoMoves, ThrowMoves
  <1>4. pc' \in [Runs -> Places]
    BY <1>1, <1>3, MovedPlaces
  <1>5. /\ input' \in [Uploads -> Backups \cup {None}]
        /\ remote' \in [Backups -> {"none", "good", "damaged"}]
        /\ marked' \in [Backups -> BOOLEAN]
        /\ sent' \subseteq Uploads
    <2>1. CASE Check(u)
      BY <1>1, <2>1 DEF Check, TypeOK, bucket, history
    <2>2. CASE Put(u)
      BY <1>1, <2>2 DEF Put, TypeOK
    <2>3. CASE ReadBack(u)
      BY <1>1, <2>3 DEF ReadBack, TypeOK, bucket, history
    <2>4. CASE Mark(u)
      <3>1. UNCHANGED <<remote, input, sent>>
            /\ (marked' = [marked EXCEPT ![input[u]] = TRUE] \/ UNCHANGED marked)
        BY <2>4 DEF Mark, Call, history
      <3>2. marked' \in [Backups -> BOOLEAN]
        BY <1>1, <3>1, Zenon DEF TypeOK
      <3> QED
        BY <1>1, <3>1, <3>2 DEF TypeOK
    <2> QED
      BY <2>1, <2>2, <2>3, <2>4
  <1>6. TypeOK'
    BY <1>1, <1>2, <1>3, <1>4, <1>5 DEF TypeOK, Moves, stack, local
  <1>7. KindOK(u, l)
    BY <1>3 DEF KindOK
  <1> QED
    BY <1>1, <1>2, <1>3, <1>6, <1>7, QuietStep DEF stack

-----------------------------------------------------------------------------
(* Steps on the stack.                                                     *)

\* Who changes the stack is the only backup at work or marks those that are.
LEMMA OthersMarked ==
    ASSUME IInv, NEW o \in Backups \cup Ups \cup Downs, AtWork(o) \/ o \notin Backups,
           touched' = Touches(o)
    PROVE  /\ touched \subseteq touched' /\ touched' \subseteq Backups
           /\ o \in Backups => touched' = touched
           /\ \A b \in Backups \ {o} : AtWork(b) => b \in touched'
  <1>1. touched \subseteq Backups
    BY DEF IInv, TypeOK
  <1>2. CASE o \in Backups
    BY <1>1, <1>2, Alone, Kinds DEF Touches
  <1>3. CASE o \notin Backups
    BY <1>1, <1>3, Kinds DEF Touches
  <1> QED
    BY <1>2, <1>3

LEMMA StopGraphPreserves ==
    ASSUME IInv, NEW o \in Runs, StopGraph(o)
    PROVE  IInv'
  <1>1. /\ TypeOK /\ o \in Backups \cup Ups \cup Downs /\ (AtWork(o) \/ o \notin Backups)
        /\ (o \in Backups => pc[o] = "stopGraph")
        /\ (o \in Backups \/ (o \in Downs /\ o \notin Locking /\ o \notin Restores))
    <2>1. (pc[o] = "stopGraph" /\ o \in Backups) \/ (pc[o] = "down" /\ o \in Downs)
      BY DEF IInv, KindOK, StopGraph
    <2> QED
      BY <2>1, Kinds DEF IInv, AtWork, Beginning, Ended
  <1>2. /\ UNCHANGED <<lock, cassandra, flushed, local, bucket, input, torn, rehearsed, sent>>
        /\ touched' = Touches(o) /\ excused' = (excused \/ o \in Downs)
    BY DEF StopGraph
  <1>3. graph' \in {"up", "stopped"}
    BY <1>1 DEF StopGraph, Call, TypeOK
  <1>4. PICK l \in {"downCassandra", "drain", "failed", "start"} :
          /\ Moves(o, l)
          /\ l \in {"drain", "start"} <=> pc[o] = "stopGraph"
          /\ l \in {"downCassandra", "failed"} <=> pc[o] = "down"
    <2>1. {"downCassandra", "drain", "failed", "start"} \subseteq Places
      BY DEF Places, Ended
    <2>2. \E l \in {"downCassandra", "drain", "failed", "start"} :
            /\ Goto(o, l) \/ Throw(o, l)
            /\ l \in {"drain", "start"} <=> pc[o] = "stopGraph"
            /\ l \in {"downCassandra", "failed"} <=> pc[o] = "down"
      BY DEF StopGraph, Call
    <2> QED
      BY <1>1, <2>1, <2>2, GotoMoves, ThrowMoves
  <1>5. pc' \in [Runs -> Places] /\ pc'[o] = l
    BY <1>1, <1>4, MovedPlaces
  <1>6. /\ touched \subseteq touched' /\ touched' \subseteq Backups
        /\ o \in Backups => touched' = touched
        /\ \A b \in Backups \ {o} : AtWork(b) => b \in touched'
    BY <1>1, <1>2, OthersMarked
  <1>7. TypeOK'
    <2>1. excused' \in BOOLEAN
      BY <1>2
    <2> QED
      BY <1>1, <1>2, <1>3, <1>4, <1>5, <1>6, <2>1 DEF TypeOK, Moves, local, bucket
  <1>8. KindOK(o, l)
    BY <1>1, <1>4, Kinds DEF KindOK, IInv, StopGraph
  <1>9. o \in Backups => Written(o)' /\ Drained(o)'
    BY <1>1, <1>2, <1>4, <1>5, <1>6 DEF IInv, Written, Drained, Unwritten, local
  <1>10. AtWork(o) \/ o \notin Locking
    BY <1>1
  <1> QED
    BY <1>1, <1>2, <1>4, <1>6, <1>7, <1>8, <1>9, <1>10, Kinds, Step DEF local

LEMMA DrainPreserves ==
    ASSUME IInv, NEW o \in Runs, Drain(o)
    PROVE  IInv'
  <1>1. TypeOK /\ o \in Backups /\ o \in Locking /\ o \notin Restores /\ AtWork(o) /\ pc[o] = "drain"
        /\ UNCHANGED <<lock, graph, local, bucket, input, history>>
    <2>1. o \in Backups /\ pc[o] = "drain"
      BY DEF IInv, KindOK, Drain
    <2> QED
      BY <2>1, Kinds DEF IInv, AtWork, Beginning, Ended, Drain
  <1>2. PICK l \in {"stopCassandra", "start"} :
          /\ Moves(o, l)
          /\ cassandra' \in {"up", "drained", "stopped"} /\ flushed' \in BOOLEAN
          /\ l = "stopCassandra" => cassandra' = "drained" /\ flushed'
    <2>1. {"stopCassandra", "start"} \subseteq Places
      BY DEF Places
    <2>2. \E l \in {"stopCassandra", "start"} :
            /\ Goto(o, l) \/ Throw(o, l)
            /\ \/ UNCHANGED <<cassandra, flushed>>
               \/ cassandra' = "drained" /\ flushed' = TRUE
            /\ l = "stopCassandra" => cassandra' = "drained" /\ flushed' = TRUE
      BY DEF Drain, Call
    <2> QED
      BY <1>1, <2>1, <2>2, GotoMoves, ThrowMoves DEF TypeOK
  <1>3. pc' \in [Runs -> Places] /\ pc'[o] = l
    BY <1>1, <1>2, MovedPlaces
  <1>4. TypeOK'
    BY <1>1, <1>2, <1>3 DEF TypeOK, Moves, local, bucket, history
  <1>5. KindOK(o, l)
    BY <1>1, <1>2 DEF KindOK
  <1>6. Written(o)' /\ Drained(o)'
    BY <1>1, <1>2, <1>3 DEF IInv, Written, Drained, Unwritten, local, history
  <1>7. \A b \in Backups \ {o} : ~AtWork(b)
    BY <1>1, Alone, Kinds
  <1> QED
    BY <1>1, <1>2, <1>4, <1>5, <1>6, <1>7, Step DEF local, history

LEMMA StopCassandraPreserves ==
    ASSUME IInv, NEW o \in Runs, StopCassandra(o)
    PROVE  IInv'
  <1>1. /\ TypeOK /\ o \in Backups \cup Ups \cup Downs /\ (AtWork(o) \/ o \notin Backups)
        /\ (o \in Backups => pc[o] = "stopCassandra")
        /\ (o \in Backups \/ (o \in Downs /\ o \notin Locking /\ o \notin Restores))
    <2>1. (pc[o] = "stopCassandra" /\ o \in Backups) \/ (pc[o] = "downCassandra" /\ o \in Downs)
      BY DEF IInv, KindOK, StopCassandra
    <2> QED
      BY <2>1, Kinds DEF IInv, AtWork, Beginning, Ended
  <1>2. /\ UNCHANGED <<lock, graph, flushed, local, bucket, input, torn, rehearsed, sent>>
        /\ touched' = Touches(o) /\ excused' = (excused \/ o \in Downs)
    BY DEF StopCassandra
  <1>3. PICK l \in {"done", "failed", "copy", "start"} :
          /\ Moves(o, l)
          /\ cassandra' \in {"stopped", cassandra}
          /\ l = "copy" => cassandra' = "stopped"
          /\ l \in {"copy", "start"} <=> pc[o] = "stopCassandra"
    <2>1. {"done", "failed", "copy", "start"} \subseteq Places
      BY DEF Places, Ended
    <2>2. \E l \in {"done", "failed", "copy", "start"} :
            /\ Goto(o, l) \/ Throw(o, l)
            /\ cassandra' \in {"stopped", cassandra}
            /\ l = "copy" => cassandra' = "stopped"
            /\ l \in {"copy", "start"} <=> pc[o] = "stopCassandra"
      BY DEF StopCassandra, Call
    <2> QED
      BY <1>1, <2>1, <2>2, GotoMoves, ThrowMoves
  <1>4. pc' \in [Runs -> Places] /\ pc'[o] = l
    BY <1>1, <1>3, MovedPlaces
  <1>5. /\ touched \subseteq touched' /\ touched' \subseteq Backups
        /\ o \in Backups => touched' = touched
        /\ \A b \in Backups \ {o} : AtWork(b) => b \in touched'
    BY <1>1, <1>2, OthersMarked
  <1>6. TypeOK'
    <2>1. excused' \in BOOLEAN /\ cassandra' \in {"up", "drained", "stopped"}
      BY <1>1, <1>2, <1>3 DEF TypeOK
    <2> QED
      BY <1>1, <1>2, <1>3, <1>4, <1>5, <2>1 DEF TypeOK, Moves, local, bucket
  <1>7. KindOK(o, l)
    BY <1>1, <1>3, Kinds DEF KindOK, IInv, StopCassandra
  <1>8. o \in Backups => Written(o)' /\ Drained(o)'
    BY <1>1, <1>2, <1>3, <1>4, <1>5 DEF IInv, Written, Drained, Unwritten, local
  <1>9. AtWork(o) \/ o \notin Locking
    BY <1>1
  <1> QED
    BY <1>1, <1>2, <1>3, <1>5, <1>6, <1>7, <1>8, <1>9, Kinds, Step DEF local

LEMMA StartPreserves ==
    ASSUME IInv, NEW o \in Runs, Start(o)
    PROVE  IInv'
  <1>1. /\ TypeOK /\ o \in Backups \cup Ups \cup Downs /\ (AtWork(o) \/ o \notin Backups)
        /\ pc[o] = "start"
        /\ (o \in Backups \/ (o \in Ups /\ o \notin Locking /\ o \notin Restores))
    <2>1. pc[o] = "start" /\ o \in Backups \cup Ups
      BY DEF IInv, KindOK, Start
    <2> QED
      BY <2>1, Kinds DEF IInv, AtWork, Beginning, Ended
  <1>2. UNCHANGED <<lock, graph, local, bucket, input, rehearsed, sent>> /\ touched' = Touches(o)
    BY DEF Start
  <1>3. \/ UNCHANGED <<cassandra, flushed, torn>>
        \/ /\ cassandra' = "up" /\ flushed' = FALSE
           /\ torn' = torn \cup {b \in Backups : pc[b] = "copying"}
    BY DEF Start
  <1>4. PICK l \in {"startGraph", "failed", "unlock"} :
          /\ Moves(o, l)
          /\ l = "unlock" => o \notin Ups
          /\ excused' \in BOOLEAN
    <2>1. CASE pc' = [pc EXCEPT ![o] = "startGraph"] /\ UNCHANGED <<erring, excused>>
      <3>1. "startGraph" \in Places
        BY DEF Places
      <3>2. erring' = erring /\ erring \in [Runs -> BOOLEAN]
        BY <1>1, <2>1 DEF TypeOK
      <3>3. Moves(o, "startGraph")
        BY <2>1, <3>1, <3>2 DEF Moves
      <3>4. excused' \in BOOLEAN
        <4>1. excused \in BOOLEAN
          BY <1>1 DEF TypeOK
        <4>2. excused' = excused
          BY <2>1
        <4> QED
          BY <4>1, <4>2
      <3> QED
        BY <3>3, <3>4
    <2>2. CASE UpFailed(o)
      <3>1. {"failed", "unlock"} \subseteq Places
        BY DEF Places, Ended
      <3> QED
        BY <1>1, <2>2, <3>1, ThrowMoves DEF UpFailed
    <2> QED
      BY <2>1, <2>2 DEF Start
  <1>5. pc' \in [Runs -> Places] /\ pc'[o] = l
    BY <1>1, <1>4, MovedPlaces
  <1>6. /\ touched \subseteq touched' /\ touched' \subseteq Backups
        /\ o \in Backups => touched' = touched
        /\ \A b \in Backups \ {o} : AtWork(b) => b \in touched'
    BY <1>1, <1>2, OthersMarked
  <1>7. TypeOK'
    <2>1. cassandra' \in {"up", "drained", "stopped"} /\ flushed' \in BOOLEAN /\ torn' \subseteq Backups
      BY <1>1, <1>3 DEF TypeOK
    <2> QED
      BY <1>1, <1>2, <1>4, <1>5, <1>6, <2>1 DEF TypeOK, Moves, local, bucket
  <1>8. KindOK(o, l)
    BY <1>1, <1>4, Kinds DEF KindOK
  <1>9. o \in Backups => Written(o)' /\ Drained(o)'
    BY <1>1, <1>2, <1>3, <1>4, <1>5, <1>6 DEF IInv, Written, Drained, Unwritten, local
  <1>10. \A b \in Backups \ {o} : b \in torn' => b \in torn \/ pc[b] = "copying"
    BY <1>3
  <1>11. AtWork(o) \/ o \notin Locking
    BY <1>1
  <1> QED
    BY <1>1, <1>2, <1>4, <1>6, <1>7, <1>8, <1>9, <1>10, <1>11, Kinds, Step DEF local

LEMMA StartGraphPreserves ==
    ASSUME IInv, NEW o \in Runs, StartGraph(o)
    PROVE  IInv'
  <1>1. /\ TypeOK /\ o \in Backups \cup Ups \cup Downs /\ (AtWork(o) \/ o \notin Backups)
        /\ pc[o] = "startGraph"
        /\ (o \in Backups \/ (o \in Ups /\ o \notin Locking /\ o \notin Restores))
    <2>1. pc[o] = "startGraph" /\ o \in Backups \cup Ups
      BY DEF IInv, KindOK, StartGraph
    <2> QED
      BY <2>1, Kinds DEF IInv, AtWork, Beginning, Ended
  <1>2. UNCHANGED <<lock, cassandra, flushed, local, bucket, input, torn, rehearsed, sent>>
        /\ touched' = Touches(o)
    BY DEF StartGraph
  <1>3. PICK l \in {"done", "failed", "unlock"} :
          /\ Moves(o, l)
          /\ l = "unlock" => o \notin Ups
          /\ l = "done" => o \in Ups
          /\ excused' \in BOOLEAN /\ graph' \in {"up", "stopped"}
    <2>1. {"done", "failed", "unlock"} \subseteq Places
      BY DEF Places, Ended
    <2>2. CASE cassandra = "up" /\ graph' = "up" /\ excused' = FALSE /\ Goto(o, AfterUp(o))
      BY <1>1, <2>1, <2>2, GotoMoves DEF AfterUp
    <2>3. CASE graph' \in {graph, "up"} /\ UpFailed(o)
      BY <1>1, <2>1, <2>3, ThrowMoves DEF UpFailed, TypeOK
    <2> QED
      BY <2>2, <2>3 DEF StartGraph
  <1>4. pc' \in [Runs -> Places] /\ pc'[o] = l
    BY <1>1, <1>3, MovedPlaces
  <1>5. /\ touched \subseteq touched' /\ touched' \subseteq Backups
        /\ o \in Backups => touched' = touched
    BY <1>1, <1>2, OthersMarked
  <1>6. TypeOK'
    BY <1>1, <1>2, <1>3, <1>4, <1>5 DEF TypeOK, Moves, local, bucket
  <1>7. KindOK(o, l)
    BY <1>1, <1>3, Kinds DEF KindOK
  <1>8. o \in Backups => Written(o)' /\ Drained(o)'
    BY <1>1, <1>2, <1>3, <1>4, <1>5, Kinds DEF IInv, Written, Drained, Unwritten, local
  <1>9. AtWork(o) \/ o \notin Locking
    BY <1>1
  <1> QED
    BY <1>1, <1>2, <1>3, <1>5, <1>6, <1>7, <1>8, <1>9, Kinds, Step DEF local

-----------------------------------------------------------------------------
(* What a backup writes.                                                   *)

LEMMA InspectPreserves ==
    ASSUME IInv, NEW b \in Backups, Inspect(b)
    PROVE  IInv'
  <1>1. TypeOK /\ b \in Runs /\ b \in Locking /\ b \notin Restores /\ AtWork(b) /\ pc[b] = "inspect"
        /\ UNCHANGED <<lock, stack, local, bucket, input, history>>
    BY Kinds DEF IInv, AtWork, Beginning, Ended, Inspect
  <1>2. PICK l \in {"stopGraph", "unlock"} : Moves(b, l)
    <2>1. {"stopGraph", "unlock"} \subseteq Places
      BY DEF Places
    <2> QED
      BY <1>1, <2>1, GotoMoves, ThrowMoves DEF Inspect
  <1>3. pc' \in [Runs -> Places] /\ pc'[b] = l
    BY <1>1, <1>2, MovedPlaces
  <1>4. TypeOK'
    BY <1>1, <1>2, <1>3 DEF TypeOK, Moves, stack, local, bucket, history
  <1>5. KindOK(b, l) /\ Written(b)' /\ Drained(b)'
    BY <1>1, <1>2, <1>3 DEF IInv, KindOK, Written, Drained, Unwritten, stack, local, history
  <1> QED
    BY <1>1, <1>2, <1>4, <1>5, QuietStep DEF stack, history

LEMMA CopyPreserves ==
    ASSUME IInv, NEW b \in Backups, Copy(b)
    PROVE  IInv'
  <1>1. TypeOK /\ b \in Runs /\ b \in Locking /\ b \notin Restores /\ AtWork(b) /\ pc[b] = "copy"
        /\ UNCHANGED <<lock, stack, manifest, rehearsal, bucket, input,
                       touched, rehearsed, sent, excused>>
    BY Kinds DEF IInv, AtWork, Beginning, Ended, Copy
  <1>2. PICK l \in {"copying", "start"} :
          /\ Moves(b, l)
          /\ archive' \in [Backups -> {"none", "partial", "full"}]
          /\ \A c \in Backups \ {b} : archive'[c] = archive[c]
          /\ l = "copying" => torn' = IF cassandra = "stopped" /\ flushed THEN torn ELSE torn \cup {b}
          /\ l = "start" => torn' = torn
          /\ manifest[b] => archive'[b] = "full"
    <2>1. {"copying", "start"} \subseteq Places
      BY DEF Places
    <2>2. ~manifest[b]
      BY <1>1 DEF IInv, Written, Unwritten
    <2>3. CASE /\ archive' = [archive EXCEPT ![b] = "partial"]
               /\ torn' = IF cassandra = "stopped" /\ flushed THEN torn ELSE torn \cup {b}
               /\ Goto(b, "copying")
      <3>1. Moves(b, "copying")
        BY <1>1, <2>1, <2>3, GotoMoves
      <3>2. archive' \in [Backups -> {"none", "partial", "full"}]
            /\ \A c \in Backups \ {b} : archive'[c] = archive[c]
        BY <1>1, <2>3 DEF TypeOK
      <3> QED
        BY <2>2, <2>3, <3>1, <3>2
    <2>4. CASE Throw(b, "start") /\ UNCHANGED <<archive, torn>>
      <3>1. Moves(b, "start")
        BY <1>1, <2>1, <2>4, ThrowMoves
      <3> QED
        BY <1>1, <2>2, <2>4, <3>1 DEF TypeOK
    <2> QED
      BY <2>3, <2>4 DEF Copy
  <1>3. pc' \in [Runs -> Places] /\ pc'[b] = l
    BY <1>1, <1>2, MovedPlaces
  <1>4. TypeOK'
    <2>1. torn' \subseteq Backups
      BY <1>1, <1>2 DEF TypeOK
    <2>2. \A c \in Backups : manifest'[c] => archive'[c] = "full"
      BY <1>1, <1>2 DEF TypeOK
    <2> QED
      BY <1>1, <1>2, <1>3, <2>1, <2>2 DEF TypeOK, Moves, stack, bucket
  <1>5. KindOK(b, l) /\ Written(b)'
    BY <1>1, <1>2, <1>3 DEF IInv, KindOK, Written, Unwritten
  <1>6. Drained(b)'
    BY <1>1, <1>2, <1>3 DEF IInv, Written, Drained, Unwritten, stack
  <1>7. /\ \A c \in Backups \ {b} : c \in torn' => c \in torn
        /\ \A c \in Backups \ {b} : ~AtWork(c)
    BY <1>1, <1>2, Alone, Kinds
  <1> QED
    BY <1>1, <1>2, <1>4, <1>5, <1>6, <1>7, Step DEF stack

LEMMA CopiedPreserves ==
    ASSUME IInv, NEW b \in Backups, Copied(b)
    PROVE  IInv'
  <1>1. TypeOK /\ b \in Runs /\ b \in Locking /\ b \notin Restores /\ AtWork(b) /\ pc[b] = "copying"
        /\ UNCHANGED <<lock, stack, manifest, rehearsal, bucket, input, history>>
    BY Kinds DEF IInv, AtWork, Beginning, Ended, Copied
  <1>2. PICK l \in {"manifest", "start"} :
          /\ Moves(b, l)
          /\ archive' \in [Backups -> {"none", "partial", "full"}]
          /\ \A c \in Backups \ {b} : archive'[c] = archive[c]
          /\ l = "manifest" => archive'[b] = "full"
          /\ archive'[b] \in {"full", archive[b]}
    <2>1. {"manifest", "start"} \subseteq Places
      BY DEF Places
    <2>2. CASE archive' = [archive EXCEPT ![b] = "full"] /\ Goto(b, "manifest")
      <3>1. Moves(b, "manifest")
        BY <1>1, <2>1, <2>2, GotoMoves
      <3> QED
        BY <1>1, <2>2, <3>1 DEF TypeOK
    <2>3. CASE UNCHANGED archive /\ Throw(b, "start")
      <3>1. Moves(b, "start")
        BY <1>1, <2>1, <2>3, ThrowMoves
      <3> QED
        BY <1>1, <2>3, <3>1 DEF TypeOK
    <2> QED
      BY <2>2, <2>3 DEF Copied
  <1>3. pc' \in [Runs -> Places] /\ pc'[b] = l
    BY <1>1, <1>2, MovedPlaces
  <1>4. TypeOK'
    <2>1. \A c \in Backups : manifest'[c] => archive'[c] = "full"
      BY <1>1, <1>2 DEF TypeOK
    <2> QED
      BY <1>1, <1>2, <1>3, <2>1 DEF TypeOK, Moves, stack, bucket, history
  <1>5. KindOK(b, l) /\ Written(b)' /\ Drained(b)'
    BY <1>1, <1>2, <1>3 DEF IInv, KindOK, Written, Drained, Unwritten, stack, history
  <1> QED
    BY <1>1, <1>2, <1>4, <1>5, Step DEF stack, history

LEMMA WriteManifestPreserves ==
    ASSUME IInv, NEW b \in Backups, WriteManifest(b)
    PROVE  IInv'
  <1>1. TypeOK /\ b \in Runs /\ b \in Locking /\ b \notin Restores /\ AtWork(b) /\ pc[b] = "manifest"
        /\ UNCHANGED <<lock, stack, archive, rehearsal, bucket, input, history>>
    BY Kinds DEF IInv, AtWork, Beginning, Ended, WriteManifest
  <1>2. manifest' = [manifest EXCEPT ![b] = TRUE] \/ UNCHANGED manifest
    BY DEF WriteManifest
  <1>3. Moves(b, "start")
    <2>1. "start" \in Places
      BY DEF Places
    <2> QED
      BY <1>1, <2>1, GotoMoves, ThrowMoves DEF WriteManifest
  <1>4. pc' \in [Runs -> Places] /\ pc'[b] = "start"
    BY <1>1, <1>3, MovedPlaces
  <1>5. /\ manifest' \in [Backups -> BOOLEAN]
        /\ \A c \in Backups \ {b} : manifest'[c] = manifest[c]
    BY <1>1, <1>2, Zenon DEF TypeOK
  <1>6. archive[b] = "full"
    BY <1>1 DEF IInv, Written
  <1>7. TypeOK'
    <2>1. \A c \in Backups : manifest'[c] => archive'[c] = "full"
      BY <1>1, <1>5, <1>6 DEF TypeOK
    <2> QED
      BY <1>1, <1>3, <1>4, <1>5, <2>1 DEF TypeOK, Moves, stack, bucket, history
  <1>8. KindOK(b, "start") /\ Written(b)' /\ Drained(b)'
    BY <1>1, <1>4 DEF IInv, KindOK, Written, Drained, Unwritten, stack, history
  <1> QED
    BY <1>1, <1>3, <1>5, <1>7, <1>8, Step DEF stack, history

-----------------------------------------------------------------------------
(* The theorems.                                                           *)

LEMMA InitEstablishes ==
    Init => IInv
  <1> SUFFICES ASSUME Init PROVE IInv
    OBVIOUS
  <1>1. TypeOK
    <2>1. pc \in [Runs -> Places]
      BY DEF Init, Beginning, Places
    <2>2. /\ archive \in [Backups -> {"none", "partial", "full"}]
          /\ remote \in [Backups -> {"none", "good", "damaged"}]
          /\ input \in [Uploads -> Backups \cup {None}]
          /\ rehearsed \in [Restores -> Restores \cup {None}]
      BY DEF Init
    <2>3. /\ manifest \in [Backups -> BOOLEAN] /\ marked \in [Backups -> BOOLEAN]
          /\ erring \in [Runs -> BOOLEAN]
          /\ \A b \in Backups : ~manifest[b]
      BY Zenon DEF Init
    <2> QED
      BY <2>1, <2>2, <2>3 DEF Init, TypeOK
  <1>2. \A o \in Runs : ~AtWork(o) /\ pc[o] = Beginning(o)
    BY DEF Init, AtWork
  <1>3. OneOperation
    BY <1>2, Kinds DEF OneOperation
  <1>4. \A o \in Runs : KindOK(o, pc[o])
    BY <1>2 DEF KindOK, Beginning, Runs
  <1>5. \A b \in Backups : Written(b) /\ Drained(b)
    BY <1>1, <1>2, Kinds DEF Init, Written, Drained, Beginning
  <1>6. \A r \in Restores : Read(r)
    BY <1>2, Kinds DEF Read, Beginning
  <1> QED
    BY <1>1, <1>3, <1>4, <1>5, <1>6 DEF IInv

LEMMA StutterPreserves ==
    ASSUME IInv, UNCHANGED vars
    PROVE  IInv'
  <1>1. UNCHANGED <<lock, graph, cassandra, flushed, archive, manifest, rehearsal, remote, marked,
                    pc, erring, input, torn, touched, rehearsed, sent, excused>>
    BY DEF vars, stack, local, bucket, history
  <1>2. TypeOK' /\ OneOperation'
    BY <1>1 DEF IInv, TypeOK, OneOperation, AtWork
  <1>3. \A q \in Runs : KindOK(q, pc[q])'
    BY <1>1 DEF IInv, KindOK
  <1>4. /\ \A b \in Backups : Written(b)' /\ Drained(b)'
        /\ \A r \in Restores : Read(r)'
    BY <1>1 DEF IInv, Written, Drained, Read
  <1> QED
    BY <1>2, <1>3, <1>4 DEF IInv

\* Every step of every command keeps the inductive invariant.
THEOREM LocalInvariant ==
    Spec => []IInv
  <1>1. IInv /\ [Next]_vars => IInv'
    <2> SUFFICES ASSUME IInv, [Next]_vars
                 PROVE  IInv'
      OBVIOUS
    <2>1. CASE RemoveLock
      BY <2>1, RemoveLockPreserves
    <2>2. ASSUME NEW o \in Runs,
                 \/ Lock(o) \/ Unlock(o) \/ Kill(o)
                 \/ StopGraph(o) \/ Drain(o) \/ StopCassandra(o) \/ Start(o) \/ StartGraph(o)
          PROVE  IInv'
      BY <2>2, LockPreserves, UnlockPreserves, KillPreserves, StopGraphPreserves, DrainPreserves,
         StopCassandraPreserves, StartPreserves, StartGraphPreserves
    <2>3. ASSUME NEW b \in Backups, Inspect(b) \/ Copy(b) \/ Copied(b) \/ WriteManifest(b)
          PROVE  IInv'
      BY <2>3, InspectPreserves, CopyPreserves, CopiedPreserves, WriteManifestPreserves
    <2>4. ASSUME NEW r \in Restores, VerifyArchive(r) \/ Extract(r) \/ Rehearse(r) \/ Smoke(r)
          PROVE  IInv'
      BY <2>4, RestorePreserves
    <2>5. ASSUME NEW u \in Uploads, Check(u) \/ Put(u) \/ ReadBack(u) \/ Mark(u)
          PROVE  IInv'
      BY <2>5, UploadPreserves
    <2> QED
      BY <2>1, <2>2, <2>3, <2>4, <2>5, StutterPreserves DEF Next
  <1> QED
    BY <1>1, InitEstablishes, PTL DEF Spec

\* Types, and no manifest beside a partial archive.
THEOREM LocalTypes ==
    Spec => []TypeOK
  <1>1. IInv => TypeOK
    BY DEF IInv
  <1> QED
    BY <1>1, LocalInvariant, PTL

\* The lock admits one backup or restore at a time, and it is there as long as
\* one works, whatever refused and killed ones did.
THEOREM LockAdmitsOne ==
    Spec => []OneOperation
  <1>1. IInv => OneOperation
    BY DEF IInv
  <1> QED
    BY <1>1, LocalInvariant, PTL

\* A manifest tells the truth: its archive holds all that tar wrote, and was
\* made of a drained and stopped Cassandra unless dev-data.mjs intervened.
THEOREM ManifestsTellTheTruth ==
    Spec => []ManifestIsTrue
  <1>1. IInv => ManifestIsTrue
    BY DEF IInv, TypeOK, Drained, ManifestIsTrue
  <1> QED
    BY <1>1, LocalInvariant, PTL

\* A successful rehearsal is one of the restored data.
THEOREM RehearsalsAreGenuine ==
    Spec => []RehearsedItsOwn
  <1>1. IInv => RehearsedItsOwn
    BY DEF IInv, Read, RehearsedItsOwn
  <1> QED
    BY <1>1, LocalInvariant, PTL

-----------------------------------------------------------------------------
(* The stack is started again.                                             *)

\* Where a run goes, of every command.
LEMMA GoesTo ==
    ASSUME NEW o \in Runs, NEW l \in Places, Goto(o, l) \/ Throw(o, l), TypeOK
    PROVE  pc'[o] = l /\ \A q \in Runs \ {o} : pc'[q] = pc[q]
  BY GotoMoves, ThrowMoves, MovedPlaces

\* Between the first stop and the last start of a backup.
Stopping == {"drain", "stopCassandra", "copy", "copying", "manifest", "start", "startGraph"}

Restarting == excused \/ Serving \/ \E b \in Backups : pc[b] \in Stopping

\* A step that takes no stack down, and leaves no backup at a stop.
LEMMA Undisturbed ==
    ASSUME Restarting, NEW o \in Runs,
           \A q \in Runs \ {o} : pc'[q] = pc[q],
           Serving => Serving' \/ excused' \/ (o \in Backups /\ pc'[o] \in Stopping),
           excused => excused' \/ Serving',
           o \in Backups /\ pc[o] \in Stopping =>
               pc'[o] \in Stopping \/ excused' \/ Serving'
    PROVE  Restarting'
  BY Kinds DEF Restarting

LEMMA RestartingStep ==
    ASSUME IInv, Restarting, [Next]_vars
    PROVE  Restarting'
  <1> USE DEF Serving
  <1>0. /\ TypeOK /\ Backups \cup Restores \cup Uploads \subseteq Runs
        /\ \A o \in Runs : KindOK(o, pc[o])
        /\ Places = {"lock", "inspect", "stopGraph", "drain", "stopCassandra", "copy",
                     "copying", "manifest", "start", "startGraph", "unlock", "verify",
                     "extract", "rehearse", "smoke", "check", "put", "readBack", "mark",
                     "down", "downCassandra", "done", "failed"}
    BY Kinds DEF IInv, Places, Ended
  <1>1. CASE RemoveLock
    BY <1>1 DEF RemoveLock, Restarting, stack, history
  <1>2. ASSUME NEW o \in Runs, Lock(o) \/ Unlock(o)
        PROVE  Restarting'
    <2>1. /\ UNCHANGED <<stack, history>> /\ pc[o] \in {"lock", "unlock"}
          /\ \E l \in Places : Goto(o, l) \/ Throw(o, l)
      BY <1>0, <1>2 DEF Lock, Unlock, Begin
    <2> QED
      BY <1>0, <2>1, GoesTo, Undisturbed DEF Stopping, stack, history
  <1>3. ASSUME NEW o \in Runs, Kill(o)
        PROVE  Restarting'
    <2>1. /\ UNCHANGED stack /\ excused' = (excused \/ o \in Backups)
          /\ \A q \in Runs \ {o} : pc'[q] = pc[q]
      BY <1>0, <1>3, GoesTo DEF Kill
    <2> QED
      BY <2>1, Undisturbed DEF stack
  <1>4. ASSUME NEW o \in Runs, StopGraph(o)
        PROVE  Restarting'
    <2>1. /\ pc[o] \in {"stopGraph", "down"} /\ UNCHANGED cassandra
          /\ excused' = (excused \/ o \in Downs)
          /\ \E l \in Places :
                /\ Goto(o, l) \/ Throw(o, l)
                /\ pc[o] = "stopGraph" => l \in {"drain", "start"}
      BY <1>0, <1>4 DEF StopGraph, Call
    <2> QED
      BY <1>0, <2>1, GoesTo, Undisturbed DEF Stopping, KindOK
  <1>5. ASSUME NEW o \in Runs, Drain(o)
        PROVE  Restarting'
    <2>1. /\ pc[o] = "drain" /\ UNCHANGED excused
          /\ \E l \in {"start", "stopCassandra"} : Goto(o, l) \/ Throw(o, l)
      BY <1>5 DEF Drain, Call, history
    <2> QED
      BY <1>0, <2>1, GoesTo, Undisturbed DEF Stopping, KindOK
  <1>6. ASSUME NEW o \in Runs, StopCassandra(o)
        PROVE  Restarting'
    <2>1. /\ pc[o] \in {"stopCassandra", "downCassandra"}
          /\ excused' = (excused \/ o \in Downs)
          /\ \E l \in Places :
                /\ Goto(o, l) \/ Throw(o, l)
                /\ pc[o] = "stopCassandra" => l \in {"copy", "start"}
      BY <1>0, <1>6 DEF StopCassandra, Call
    <2> QED
      BY <1>0, <2>1, GoesTo, Undisturbed DEF Stopping, KindOK
  <1>7. ASSUME NEW o \in Runs, Start(o)
        PROVE  Restarting'
    <2>1. CASE UpFailed(o)
      BY <2>1 DEF UpFailed, Restarting
    <2>2. CASE ~UpFailed(o)
      <3>1. /\ pc' = [pc EXCEPT ![o] = "startGraph"] /\ UNCHANGED <<graph, excused>>
            /\ cassandra = "up" => cassandra' = "up"
        BY <1>7, <2>2 DEF Start
      <3>2. pc'[o] = "startGraph" /\ \A q \in Runs \ {o} : pc'[q] = pc[q]
        BY <1>0, <3>1 DEF TypeOK
      <3> QED
        BY <3>1, <3>2, Undisturbed DEF Stopping
    <2> QED
      BY <2>1, <2>2
  <1>8. ASSUME NEW o \in Runs, StartGraph(o)
        PROVE  Restarting'
    BY <1>8 DEF StartGraph, UpFailed, Restarting
  <1>9. ASSUME NEW b \in Backups, Inspect(b) \/ Copy(b) \/ Copied(b) \/ WriteManifest(b)
        PROVE  Restarting'
    <2>1. /\ UNCHANGED <<stack, excused>>
          /\ \E l \in Places :
                /\ Goto(b, l) \/ Throw(b, l)
                /\ pc[b] \in {"copy", "copying", "manifest"} =>
                      l \in {"copying", "manifest", "start"}
          /\ pc[b] \in {"inspect", "copy", "copying", "manifest"}
      BY <1>0, <1>9 DEF Inspect, Copy, Copied, WriteManifest, history
    <2> QED
      BY <1>0, <2>1, GoesTo, Undisturbed DEF Stopping, stack
  <1>10. ASSUME NEW r \in Restores, VerifyArchive(r) \/ Extract(r) \/ Rehearse(r) \/ Smoke(r)
         PROVE  Restarting'
    <2>1. /\ UNCHANGED <<stack, excused>>
          /\ \E l \in Places : Goto(r, l) \/ Throw(r, l)
      BY <1>0, <1>10 DEF VerifyArchive, Extract, Rehearse, Smoke, Call, history
    <2> QED
      BY <1>0, <2>1, GoesTo, Undisturbed, Kinds DEF stack
  <1>11. ASSUME NEW u \in Uploads, Check(u) \/ Put(u) \/ ReadBack(u) \/ Mark(u)
         PROVE  Restarting'
    <2>1. /\ UNCHANGED <<stack, excused>>
          /\ \E l \in Places : Goto(u, l) \/ Throw(u, l)
      BY <1>0, <1>11 DEF Check, Put, ReadBack, Mark, Call, history
    <2> QED
      BY <1>0, <2>1, GoesTo, Undisturbed, Kinds DEF stack, Locking
  <1>12. CASE UNCHANGED vars
    BY <1>12 DEF vars, stack, history, Restarting
  <1> QED
    BY <1>1, <1>2, <1>3, <1>4, <1>5, <1>6, <1>7, <1>8, <1>9, <1>10, <1>11, <1>12 DEF Next

\* After every backup, failed or not, the stack serves or somebody was told that
\* it may not.
THEOREM StackIsStartedAgain ==
    Spec => []StartedAgain
  <1>1. Init => Restarting
    BY DEF Init, Restarting, Serving
  <1>2. IInv /\ Restarting => StartedAgain
    BY Kinds DEF Restarting, Stopping, StartedAgain, AtWork, Beginning, Ended
  <1> QED
    BY <1>1, <1>2, RestartingStep, LocalInvariant, PTL DEF Spec

-----------------------------------------------------------------------------
(* Completion manifests off-host.                                          *)

\* An upload that wrote the object of a backup has not ended well.
Known(b) == \E u \in sent : input[u] = b /\ pc[u] \in {"readBack", "failed"}

\* What an upload has done at each place.
UploadOK(u) ==
    /\ pc[u] \in {"put", "readBack", "mark"} => input[u] \in Backups
    /\ pc[u] \in {"readBack", "mark"} => remote[input[u]] # "none"

\* Only such an upload leaves a damaged object, and every manifest has an object.
Marked ==
    /\ \A u \in Uploads : UploadOK(u)
    /\ \A b \in Backups : remote[b] = "damaged" => Known(b)
    /\ \A b \in Backups : marked[b] => remote[b] # "none"

\* A step that uploads nothing.
LEMMA NoUpload ==
    ASSUME TypeOK, Marked, UNCHANGED <<bucket, input, sent>>,
           \A u \in Uploads : pc'[u] = pc[u] \/ pc'[u] = "failed"
    PROVE  Marked'
  <1>1. \A b \in Backups : Known(b) => Known(b)'
    BY DEF Known, TypeOK
  <1>2. ASSUME NEW u \in Uploads PROVE UploadOK(u)'
    BY DEF Marked, UploadOK, bucket
  <1> QED
    BY <1>1, <1>2 DEF Marked, bucket

LEMMA CheckMarked ==
    ASSUME IInv, Marked, NEW u \in Uploads, Check(u)
    PROVE  Marked'
  <1>0. TypeOK /\ u \in Runs /\ {"put", "failed"} \subseteq Places
    BY Kinds DEF IInv, Places, Ended
  <1>1. CASE UNCHANGED input /\ Throw(u, "failed")
    <2>1. pc'[u] = "failed" /\ \A q \in Runs \ {u} : pc'[q] = pc[q]
      BY <1>0, <1>1, GoesTo
    <2> QED
      BY <1>0, <1>1, <2>1, NoUpload, Kinds DEF Check, history
  <1>2. ASSUME NEW b \in Backups, input' = [input EXCEPT ![u] = b], Goto(u, "put")
        PROVE  Marked'
    <2>1. pc'[u] = "put" /\ \A q \in Runs \ {u} : pc'[q] = pc[q]
      BY <1>0, <1>2, GoesTo
    <2>2. /\ UNCHANGED <<bucket, sent>> /\ pc[u] = "check"
          /\ input'[u] = b /\ \A v \in Uploads \ {u} : input'[v] = input[v]
          /\ sent \subseteq Uploads
      BY <1>0, <1>2 DEF Check, TypeOK, history
    <2>3. \A c \in Backups : Known(c) => Known(c)'
      BY <2>1, <2>2, Kinds DEF Known
    <2>4. ASSUME NEW v \in Uploads PROVE UploadOK(v)'
      BY <2>1, <2>2, Kinds DEF Marked, UploadOK, bucket
    <2> QED
      BY <2>2, <2>3, <2>4 DEF Marked, bucket
  <1> QED
    BY <1>1, <1>2 DEF Check

LEMMA PutMarked ==
    ASSUME IInv, Marked, NEW u \in Uploads, Put(u)
    PROVE  Marked'
  <1>0. TypeOK /\ u \in Runs /\ {"readBack", "failed"} \subseteq Places
    BY Kinds DEF IInv, Places, Ended
  <1>1. CASE UNCHANGED <<remote, sent>> /\ Throw(u, "failed")
    <2>1. pc'[u] = "failed" /\ \A q \in Runs \ {u} : pc'[q] = pc[q]
      BY <1>0, <1>1, GoesTo
    <2> QED
      BY <1>0, <1>1, <2>1, NoUpload, Kinds DEF Put, bucket
  <1>2. ASSUME NEW state \in {"good", "damaged"},
               remote' = [remote EXCEPT ![input[u]] = state], sent' = sent \cup {u},
               Goto(u, "readBack") \/ Throw(u, "failed")
        PROVE  Marked'
    <2>1. pc'[u] \in {"readBack", "failed"} /\ \A q \in Runs \ {u} : pc'[q] = pc[q]
      BY <1>0, <1>2, GoesTo
    <2>2. /\ UNCHANGED <<marked, input>> /\ pc[u] = "put" /\ input[u] \in Backups
          /\ sent \subseteq Uploads
      BY <1>0, <1>2 DEF Put, Marked, UploadOK, TypeOK
    <2>3. /\ \A c \in Backups \ {input[u]} : remote'[c] = remote[c]
          /\ remote'[input[u]] = state
      BY <1>0, <1>2, <2>2 DEF TypeOK
    <2>4. \A c \in Backups : Known(c) => Known(c)'
      BY <1>2, <2>1, <2>2, Kinds DEF Known
    <2>5. Known(input[u])'
      BY <1>2, <2>1, <2>2 DEF Known
    <2>6. ASSUME NEW v \in Uploads PROVE UploadOK(v)'
      BY <2>1, <2>2, <2>3, Kinds DEF Marked, UploadOK
    <2>7. \A c \in Backups : remote'[c] = "damaged" => Known(c)'
      BY <2>2, <2>3, <2>4, <2>5 DEF Marked
    <2>8. \A c \in Backups : marked'[c] => remote'[c] # "none"
      BY <2>2, <2>3 DEF Marked
    <2> QED
      BY <2>6, <2>7, <2>8 DEF Marked
  <1> QED
    BY <1>1, <1>2 DEF Put

LEMMA MarkMarked ==
    ASSUME IInv, Marked, NEW u \in Uploads, ReadBack(u) \/ Mark(u)
    PROVE  Marked'
  <1>0. TypeOK /\ u \in Runs /\ {"mark", "done", "failed"} \subseteq Places
    BY Kinds DEF IInv, Places, Ended
  <1>1. CASE ReadBack(u)
    <2>1. /\ UNCHANGED <<bucket, input, sent>> /\ pc[u] = "readBack"
          /\ (remote[input[u]] = "good" /\ Goto(u, "mark")) \/ Throw(u, "failed")
      BY <1>1 DEF ReadBack, history
    <2>2. /\ \A q \in Runs \ {u} : pc'[q] = pc[q]
          /\ pc'[u] = "failed" \/ (pc'[u] = "mark" /\ remote[input[u]] = "good")
      BY <1>0, <2>1, GoesTo
    <2>3. \A b \in Backups : remote[b] = "damaged" /\ Known(b) => Known(b)'
      BY <1>0, <2>1, <2>2, Kinds DEF Known, TypeOK
    <2>4. ASSUME NEW v \in Uploads PROVE UploadOK(v)'
      BY <2>1, <2>2, Kinds DEF Marked, UploadOK, bucket
    <2> QED
      BY <2>1, <2>3, <2>4 DEF Marked, bucket
  <1>2. CASE Mark(u)
    <2>1. /\ UNCHANGED <<remote, input, sent>> /\ pc[u] = "mark"
          /\ Goto(u, "done") \/ Throw(u, "failed")
          /\ marked' = [marked EXCEPT ![input[u]] = TRUE] \/ UNCHANGED marked
      BY <1>2 DEF Mark, Call, history
    <2>2. /\ \A q \in Runs \ {u} : pc'[q] = pc[q]
          /\ pc'[u] \in {"done", "failed"}
      BY <1>0, <2>1, GoesTo
    <2>3. \A b \in Backups : Known(b) => Known(b)'
      BY <1>0, <2>1, <2>2, Kinds DEF Known, TypeOK
    <2>4. ASSUME NEW v \in Uploads PROVE UploadOK(v)'
      BY <2>1, <2>2, Kinds DEF Marked, UploadOK
    <2>5. \A b \in Backups : marked'[b] => marked[b] \/ b = input[u]
      BY <1>0, <2>1, Zenon DEF TypeOK
    <2>6. remote[input[u]] # "none"
      BY <2>1 DEF Marked, UploadOK
    <2> QED
      BY <2>1, <2>3, <2>4, <2>5, <2>6 DEF Marked
  <1> QED
    BY <1>1, <1>2

\* What is not an upload.
LEMMA OthersUploadNothing ==
    ASSUME IInv,
           \/ RemoveLock \/ UNCHANGED vars
           \/ \E o \in Runs :
                 \/ Lock(o) \/ Unlock(o) \/ Kill(o)
                 \/ StopGraph(o) \/ Drain(o) \/ StopCassandra(o) \/ Start(o) \/ StartGraph(o)
           \/ \E b \in Backups : Inspect(b) \/ Copy(b) \/ Copied(b) \/ WriteManifest(b)
           \/ \E r \in Restores : VerifyArchive(r) \/ Extract(r) \/ Rehearse(r) \/ Smoke(r)
    PROVE  /\ UNCHANGED <<bucket, input, sent>>
           /\ \A u \in Uploads : pc'[u] = pc[u] \/ pc'[u] = "failed"
  <1>0. /\ TypeOK /\ \A o \in Runs : KindOK(o, pc[o])
    BY DEF IInv
  <1>1. UNCHANGED <<bucket, input, sent>>
    BY DEF RemoveLock, vars, Lock, Unlock, Kill, StopGraph, Drain, StopCassandra, Start, StartGraph,
           Inspect, Copy, Copied, WriteManifest, VerifyArchive, Extract, Rehearse, Smoke, history
  <1>2. \/ UNCHANGED pc
        \/ \E o \in Runs \ Uploads, l \in Places : pc' = [pc EXCEPT ![o] = l]
        \/ \E o \in Runs : pc' = [pc EXCEPT ![o] = "failed"]
    <2>1. CASE RemoveLock \/ UNCHANGED vars
      BY <2>1 DEF RemoveLock, vars
    <2>2. ASSUME NEW o \in Runs, Kill(o)
          PROVE  pc' = [pc EXCEPT ![o] = "failed"]
      BY <2>2 DEF Kill, Throw
    <2>3. ASSUME NEW o \in Runs,
                 \/ Lock(o) \/ Unlock(o)
                 \/ StopGraph(o) \/ Drain(o) \/ StopCassandra(o) \/ Start(o) \/ StartGraph(o)
          PROVE  o \notin Uploads /\ \E l \in Places : pc' = [pc EXCEPT ![o] = l]
      <3>1. pc[o] \in {"lock", "unlock", "stopGraph", "down", "drain", "stopCassandra",
                       "downCassandra", "start", "startGraph"}
        BY <2>3 DEF Lock, Unlock, StopGraph, Drain, StopCassandra, Start, StartGraph
      <3>2. o \notin Uploads
        BY <1>0, <3>1, LocalAssumption, Kinds DEF KindOK, Locking
      <3>3. \E l \in Places : pc' = [pc EXCEPT ![o] = l]
        BY <2>3 DEF Lock, Unlock, StopGraph, Drain, StopCassandra, Start, StartGraph, Goto, Throw,
                    Call, UpFailed, AfterUp, Begin, Places, Ended
      <3> QED
        BY <3>2, <3>3
    <2>4. ASSUME NEW b \in Backups, Inspect(b) \/ Copy(b) \/ Copied(b) \/ WriteManifest(b)
          PROVE  \E l \in Places : pc' = [pc EXCEPT ![b] = l]
      BY <2>4 DEF Inspect, Copy, Copied, WriteManifest, Goto, Throw, Places, Ended
    <2>5. ASSUME NEW r \in Restores, VerifyArchive(r) \/ Extract(r) \/ Rehearse(r) \/ Smoke(r)
          PROVE  \E l \in Places : pc' = [pc EXCEPT ![r] = l]
      BY <2>5 DEF VerifyArchive, Extract, Rehearse, Smoke, Call, Goto, Throw, Places, Ended
    <2>6. Backups \cup Restores \subseteq Runs \ Uploads
      BY Kinds DEF Locking
    <2> QED
      BY <2>1, <2>2, <2>3, <2>4, <2>5, <2>6
  <1>3. \A u \in Uploads : u \in Runs
    BY Kinds
  <1> QED
    BY <1>0, <1>1, <1>2, <1>3 DEF TypeOK

\* A completion manifest off-host stands for an archive as it was verified, or
\* an upload that wrote over it is yet to read it back or has failed, for any
\* number of uploads of the same backup at once.
THEOREM MarkedStandsForVerified ==
    Spec => []MarkedIsVerified
  <1>1. Init => Marked
    <2> SUFFICES ASSUME Init PROVE Marked
      OBVIOUS
    <2>1. \A u \in Uploads : pc[u] = "check"
      BY Kinds DEF Init, Beginning
    <2>2. \A b \in Backups : ~marked[b]
      BY Zenon DEF Init
    <2> QED
      BY <2>1, <2>2 DEF Init, Marked, UploadOK
  <1>2. IInv /\ Marked /\ [Next]_vars => Marked'
    BY OthersUploadNothing, NoUpload, CheckMarked, PutMarked, MarkMarked DEF Next, IInv
  <1>3. IInv /\ Marked => MarkedIsVerified
    BY DEF IInv, TypeOK, Marked, Known, MarkedIsVerified
  <1> QED
    BY <1>1, <1>2, <1>3, LocalInvariant, PTL DEF Spec

=============================================================================
