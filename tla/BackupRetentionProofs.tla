----------------------- MODULE BackupRetentionProofs -----------------------
(* Proofs about BackupRetention, for every policy (14 and 56 days, 7 days  *)
(* a week) and any number of backups.                                      *)
EXTENDS BackupRetention, TLAPS

-----------------------------------------------------------------------------
(* The inductive invariant.                                                *)

\* A manifest is published after its archive, and deleted before it.
MarkersOK ==
    /\ manifests \subseteq archives
    /\ manifests \subseteq completed
    /\ pc = "publish" =>
          made \in 1..MaxBackups /\ made \in archives /\ made \notin completed
    /\ pc = "archive" => doomed \notin manifests

\* Every week the loop has noted is that of a completed backup newer than all
\* backups it has yet to visit.
WeeksOK ==
    pc \in {"visit", "archive"} =>
        \A w \in weeks : \E c \in completed :
            Week(c) = w /\ \A b \in todo : b < c

\* A restore works on a completed backup, and finds no archive only for one
\* whose manifest is gone.
RestoreOK ==
    /\ restore.state # "none" => restore.backup \in completed
    /\ restore.state = "missing" => restore.backup \notin manifests

\* An archive without a manifest is the one under way or was abandoned, and an
\* abandoned one is on no listing.
LeftoversOK ==
    /\ archives \subseteq manifests \cup abandoned \cup Unfinished
    /\ abandoned \subseteq archives \ manifests
    /\ abandoned \cap (todo \cup Unfinished) = {}

IInv == TypeOK /\ MarkersOK /\ WeeksOK /\ PromisedIsRetained /\ RestoreOK /\ LeftoversOK

-----------------------------------------------------------------------------
(* Lemmas.                                                                 *)

\* The number of a week is a natural number.
LEMMA WeekIsNatural ==
    ASSUME NEW d \in Nat
    PROVE  (d + WeekOffset) \div WeekDays \in Nat
  BY RetentionAssumption

\* A step that changes no recorded date and no history, lets no time run back
\* and takes no manifest away keeps what was promised.
LEMMA PromiseCarries ==
    ASSUME TypeOK, PromisedIsRetained,
           day' = day, completed' = completed,
           manifests \subseteq manifests',
           today' \in Nat, today <= today'
    PROVE  PromisedIsRetained'
  <1> SUFFICES ASSUME NEW b \in completed, Promised(b)'
               PROVE  b \in manifests'
    BY DEF PromisedIsRetained
  <1>1. b \in Backups /\ day[b] \in Nat
    BY RetentionAssumption DEF TypeOK, Backups
  <1>2. NewestOfWeek(b)' <=> NewestOfWeek(b)
    BY DEF NewestOfWeek, Week
  <1>3. Promised(b)
    BY <1>1, <1>2, RetentionAssumption DEF Promised, TypeOK
  <1> QED
    BY <1>3 DEF PromisedIsRetained

\* What the loop does not keep was not promised: it is too old, or a newer
\* backup of its week has been completed.
LEMMA UnkeptIsUnpromised ==
    ASSUME TypeOK, WeeksOK, pc = "visit", NEW b \in todo, ~Keep(b)
    PROVE  ~Promised(b)
  <1>1. b \in Backups /\ day[b] \in Nat /\ today \in Nat
    BY RetentionAssumption DEF TypeOK, Backups
  <1>2. ~(today <= day[b] + KeepDays)
    BY <1>1, RetentionAssumption DEF Keep, Age
  <1>3. CASE Week(b) \in weeks
    <2>1. PICK c \in completed : Week(c) = Week(b) /\ b < c
      BY <1>3 DEF WeeksOK
    <2>2. ~NewestOfWeek(b)
      BY <2>1, <1>1, RetentionAssumption DEF NewestOfWeek, TypeOK, Backups
    <2> QED
      BY <1>2, <2>2 DEF Promised
  <1>4. CASE Week(b) \notin weeks
    BY <1>1, <1>2, <1>4, RetentionAssumption DEF Keep, Age, Promised
  <1> QED
    BY <1>3, <1>4

-----------------------------------------------------------------------------
LEMMA InitEstablishes == Init => IInv
  BY RetentionAssumption
  DEF Init, IInv, TypeOK, MarkersOK, WeeksOK, PromisedIsRetained, RestoreOK,
      LeftoversOK, Backups

LEMMA UploadPreserves == IInv /\ Upload => IInv'
  <1> SUFFICES ASSUME IInv, Upload PROVE IInv'
    OBVIOUS
  <1> USE DEF Upload, loop
  <1>1. TypeOK'
    BY RetentionAssumption DEF IInv, TypeOK
  <1>2. MarkersOK'
    BY RetentionAssumption DEF IInv, TypeOK, MarkersOK
  <1>3. WeeksOK'
    BY DEF WeeksOK
  <1>4. PromisedIsRetained'
    BY PromiseCarries, RetentionAssumption DEF IInv, TypeOK
  <1>5. RestoreOK'
    BY DEF IInv, RestoreOK
  <1>6. LeftoversOK'
    <2>1. made + 1 \notin archives \cup manifests \cup abandoned /\ made + 1 > made
      BY RetentionAssumption DEF IInv, TypeOK
    <2> QED
      BY <2>1 DEF IInv, LeftoversOK, Unfinished, MarkersOK, TypeOK
  <1> QED
    BY <1>1, <1>2, <1>3, <1>4, <1>5, <1>6 DEF IInv

LEMMA PublishPreserves == IInv /\ Publish => IInv'
  <1> SUFFICES ASSUME IInv, Publish PROVE IInv'
    OBVIOUS
  <1> USE DEF Publish, loop
  <1>0. made \in Backups /\ made \notin completed
    BY DEF IInv, MarkersOK, Backups
  <1>1. TypeOK'
    BY <1>0, RetentionAssumption DEF IInv, TypeOK, Backups
  <1>2. MarkersOK'
    BY DEF IInv, MarkersOK
  <1>3. WeeksOK'
    BY DEF WeeksOK
  <1>4. PromisedIsRetained'
    <2> SUFFICES ASSUME NEW b \in completed, Promised(b)'
                 PROVE  b \in manifests
      BY DEF PromisedIsRetained
    <2>1. \A c \in completed : c # made /\ c \in Backups
      BY <1>0, RetentionAssumption DEF IInv, TypeOK, Backups
    <2>2. \A c \in completed : day'[c] = day[c]
      BY <2>1 DEF IInv, TypeOK
    <2>3. \A c \in completed : Week(c)' = Week(c)
      BY <2>2 DEF Week
    <2>4. NewestOfWeek(b)' => NewestOfWeek(b)
      BY <2>3 DEF NewestOfWeek
    <2>5. Promised(b)
      BY <2>2, <2>4 DEF Promised
    <2> QED
      BY <2>5 DEF IInv, PromisedIsRetained
  <1>5. RestoreOK'
    BY <1>0 DEF IInv, RestoreOK
  <1>6. LeftoversOK'
    BY DEF IInv, LeftoversOK, Unfinished, MarkersOK
  <1> QED
    BY <1>1, <1>2, <1>3, <1>4, <1>5, <1>6 DEF IInv

LEMMA ListPreserves == IInv /\ List => IInv'
  <1> SUFFICES ASSUME IInv, List PROVE IInv'
    OBVIOUS
  <1> USE DEF List, objects
  <1>1. TypeOK'
    BY DEF IInv, TypeOK, MarkersOK
  <1>2. MarkersOK'
    BY DEF IInv, MarkersOK
  <1>3. WeeksOK'
    BY DEF WeeksOK
  <1>4. PromisedIsRetained'
    BY PromiseCarries, RetentionAssumption DEF IInv, TypeOK
  <1>5. RestoreOK'
    BY DEF IInv, RestoreOK
  <1>6. LeftoversOK'
    BY DEF IInv, LeftoversOK, Unfinished
  <1> QED
    BY <1>1, <1>2, <1>3, <1>4, <1>5, <1>6 DEF IInv

LEMMA VisitPreserves ==
    ASSUME NEW b \in Backups, IInv, Visit(b)
    PROVE  IInv'
  <1>0. b \in todo /\ b \in completed /\ pc = "visit"
    BY DEF Visit, Newest, IInv, TypeOK
  <1>1. TypeOK'
    <2>1. day[b] \in Nat
      BY RetentionAssumption DEF IInv, TypeOK
    <2>2. Week(b) \in Nat
      BY <2>1, WeekIsNatural DEF Week
    <2>3. weeks' \subseteq Nat /\ todo' \subseteq completed'
      BY <2>2 DEF Visit, IInv, TypeOK
    <2>4. manifests' \subseteq manifests
      BY DEF Visit
    <2>5. pc' \in {"visit", "archive"} /\ doomed' \in 0..MaxBackups
      BY RetentionAssumption DEF Visit, IInv, TypeOK, Backups
    <2> QED
      BY <2>3, <2>4, <2>5 DEF Visit, IInv, TypeOK
  <1>2. MarkersOK'
    BY <1>0 DEF Visit, IInv, MarkersOK
  <1>3. WeeksOK'
    <2> SUFFICES ASSUME NEW w \in weeks'
                 PROVE  \E c \in completed : Week(c) = w /\ \A t \in todo' : t < c
      BY DEF WeeksOK, Visit, Week
    <2>1. CASE w \in weeks
      BY <2>1, <1>0 DEF IInv, WeeksOK, Visit
    <2>2. CASE w = Week(b)
      <3>1. \A t \in todo' : t < b
        BY RetentionAssumption DEF Visit, Newest, IInv, TypeOK, Backups
      <3> QED
        BY <2>2, <3>1, <1>0
    <2> QED
      BY <2>1, <2>2 DEF Visit
  <1>4. PromisedIsRetained'
    <2>1. CASE Keep(b)
      BY <2>1, PromiseCarries, RetentionAssumption DEF Visit, IInv, TypeOK
    <2>2. CASE ~Keep(b)
      <3>1. ~Promised(b)
        BY <2>2, <1>0, UnkeptIsUnpromised DEF IInv
      <3>2. \A c \in completed : Promised(c)' <=> Promised(c)
        BY DEF Visit, Promised, NewestOfWeek, Week
      <3>3. manifests' = manifests \ {b} /\ completed' = completed
        BY <2>2 DEF Visit
      <3> QED
        BY <3>1, <3>2, <3>3 DEF IInv, PromisedIsRetained
    <2> QED
      BY <2>1, <2>2
  <1>5. RestoreOK'
    BY DEF Visit, IInv, RestoreOK
  <1>6. LeftoversOK'
    <2>1. b \notin abandoned /\ Unfinished = {}
      BY <1>0 DEF IInv, LeftoversOK, Unfinished
    <2>2. UNCHANGED <<archives, abandoned>> /\ todo' = todo \ {b}
      BY DEF Visit
    <2>3. CASE Keep(b)
      BY <1>0, <2>1, <2>2, <2>3 DEF Visit, IInv, LeftoversOK, Unfinished
    <2>4. CASE ~Keep(b)
      BY <1>0, <2>1, <2>2, <2>4 DEF Visit, IInv, LeftoversOK, Unfinished
    <2> QED
      BY <2>3, <2>4
  <1> QED
    BY <1>1, <1>2, <1>3, <1>4, <1>5, <1>6 DEF IInv

LEMMA DeleteArchivePreserves == IInv /\ DeleteArchive => IInv'
  <1> SUFFICES ASSUME IInv, DeleteArchive PROVE IInv'
    OBVIOUS
  <1> USE DEF DeleteArchive
  <1>1. TypeOK'
    BY RetentionAssumption DEF IInv, TypeOK
  <1>2. MarkersOK'
    BY DEF IInv, MarkersOK
  <1>3. WeeksOK'
    BY DEF IInv, WeeksOK, Week
  <1>4. PromisedIsRetained'
    BY PromiseCarries, RetentionAssumption DEF IInv, TypeOK
  <1>5. RestoreOK'
    BY DEF IInv, RestoreOK
  <1>6. LeftoversOK'
    BY DEF IInv, LeftoversOK, Unfinished
  <1> QED
    BY <1>1, <1>2, <1>3, <1>4, <1>5, <1>6 DEF IInv

LEMMA EndPreserves == IInv /\ (Finish \/ Fail) => IInv'
  <1> SUFFICES ASSUME IInv, Finish \/ Fail PROVE IInv'
    OBVIOUS
  <1>0. /\ EndLoop /\ UNCHANGED <<archives, manifests, completed>>
        /\ Unfinished \subseteq archives \ manifests
        /\ \/ pc = "visit" /\ abandoned' = abandoned
           \/ abandoned' = abandoned \cup Unfinished
    BY DEF Finish, Fail, EndLoop, Unfinished, IInv, TypeOK, MarkersOK
  <1> USE DEF EndLoop
  <1>1. TypeOK'
    <2>1. abandoned' \subseteq 1..made
      BY <1>0 DEF IInv, TypeOK
    <2> QED
      BY <1>0, <2>1, RetentionAssumption DEF IInv, TypeOK
  <1>2. MarkersOK'
    BY <1>0 DEF IInv, MarkersOK
  <1>3. WeeksOK'
    BY <1>0 DEF WeeksOK
  <1>4. PromisedIsRetained'
    BY <1>0, PromiseCarries, RetentionAssumption DEF IInv, TypeOK
  <1>5. RestoreOK'
    BY <1>0 DEF IInv, RestoreOK
  <1>6. LeftoversOK'
    <2>1. pc = "visit" => Unfinished = {}
      BY DEF Unfinished
    <2>2. Unfinished' = {} /\ todo' = {}
      BY <1>0 DEF Unfinished
    <2> QED
      BY <1>0, <2>1, <2>2 DEF IInv, LeftoversOK
  <1> QED
    BY <1>1, <1>2, <1>3, <1>4, <1>5, <1>6 DEF IInv

LEMMA RestorePreserves ==
    ASSUME IInv, (\E b \in Backups : FetchManifest(b)) \/ FetchArchive \/ EndRestore
    PROVE  IInv'
  <1> USE DEF objects, loop
  <1>0. UNCHANGED <<today, made, day, objects, pc, loop>>
    BY DEF FetchManifest, FetchArchive, EndRestore
  <1>1. TypeOK'
    <2>1. restore' \in [state : {"none", "manifest", "verified", "missing"},
                        backup : 0..MaxBackups]
      BY RetentionAssumption
      DEF FetchManifest, FetchArchive, EndRestore, IInv, TypeOK, Backups
    <2> QED
      BY <2>1, <1>0 DEF IInv, TypeOK
  <1>2. MarkersOK' /\ WeeksOK'
    BY <1>0 DEF IInv, MarkersOK, WeeksOK, Week
  <1>3. PromisedIsRetained'
    BY <1>0, PromiseCarries, RetentionAssumption DEF IInv, TypeOK
  <1>4. RestoreOK'
    BY <1>0
    DEF FetchManifest, FetchArchive, EndRestore, IInv, TypeOK, RestoreOK, MarkersOK
  <1>5. LeftoversOK'
    BY <1>0 DEF IInv, LeftoversOK, Unfinished
  <1> QED
    BY <1>1, <1>2, <1>3, <1>4, <1>5 DEF IInv

LEMMA NextDayPreserves == IInv /\ NextDay => IInv'
  <1> SUFFICES ASSUME IInv, NextDay PROVE IInv'
    OBVIOUS
  <1> USE DEF NextDay, objects, loop
  <1>1. TypeOK'
    BY RetentionAssumption DEF IInv, TypeOK
  <1>2. MarkersOK' /\ WeeksOK' /\ RestoreOK' /\ LeftoversOK'
    BY DEF IInv, MarkersOK, WeeksOK, Week, RestoreOK, LeftoversOK, Unfinished
  <1>3. PromisedIsRetained'
    BY PromiseCarries, RetentionAssumption DEF IInv, TypeOK
  <1> QED
    BY <1>1, <1>2, <1>3 DEF IInv

LEMMA StutterPreserves == IInv /\ UNCHANGED vars => IInv'
  BY DEF vars, objects, loop, IInv, TypeOK, MarkersOK, WeeksOK, Week, RestoreOK,
         PromisedIsRetained, Promised, NewestOfWeek, LeftoversOK, Unfinished

-----------------------------------------------------------------------------
(* The theorems.                                                           *)

LEMMA Inductive == Spec => []IInv
  <1>1. IInv /\ [Next]_vars => IInv'
    <2> SUFFICES ASSUME IInv, [Next]_vars PROVE IInv'
      OBVIOUS
    <2>1. CASE Finish \/ Fail
      BY <2>1, EndPreserves
    <2>2. CASE \E b \in Backups : Visit(b)
      BY <2>2, VisitPreserves
    <2>3. CASE (\E b \in Backups : FetchManifest(b)) \/ FetchArchive \/ EndRestore
      BY <2>3, RestorePreserves
    <2> QED
      BY <2>1, <2>2, <2>3, UploadPreserves, PublishPreserves, ListPreserves,
         DeleteArchivePreserves, NextDayPreserves, StutterPreserves DEF Next
  <1> QED
    BY <1>1, InitEstablishes, PTL DEF Spec

\* The listing, the loop and the restore stay within their types; only
\* completed backups are ever listed for deletion.
THEOREM RetentionTypes == Spec => []TypeOK
  BY Inductive, PTL DEF IInv

\* Every completed backup of the last 14 days and the newest of each week up to
\* day 56 keeps its manifest, through any number of interrupted retentions.
THEOREM PolicyIsKept == Spec => []PromisedIsRetained
  BY Inductive, PTL DEF IInv

\* A restore that read the manifest of a promised backup finds the archive.
THEOREM RestoreIsSafe == Spec => []RestoreFindsPromised
  <1>1. IInv => RestoreFindsPromised
    BY DEF IInv, RestoreOK, PromisedIsRetained, RestoreFindsPromised
  <1> QED
    BY <1>1, Inductive, PTL

-----------------------------------------------------------------------------
(***************************************************************************)
(* What the loop leaves.  That the newest backup of a week exists needs no *)
(* induction over backups: a publication hands the title over.             *)
(***************************************************************************)

\* Backups are numbered by their dates.
DatesOK ==
    \A c \in completed :
        /\ day[c] <= today
        /\ \A b \in completed : b <= c => day[b] <= day[c]

WeeksCovered ==
    \A c \in completed : \E m \in completed : Week(m) = Week(c) /\ NewestOfWeek(m)

\* A backup that the loop has left is promised on the day of the listing, and
\* has claimed its week.
LeftBehind(b) ==
    /\ Week(b) \in weeks
    /\ \/ listedOn <= day[b] + KeepDays
       \/ listedOn <= day[b] + WeeklyDays /\ NewestOfWeek(b)

VisitedOK ==
    pc \in {"visit", "archive"} =>
        listedOn <= today /\ \A b \in manifests \ todo : LeftBehind(b)

RetiredInv == DatesOK /\ WeeksCovered /\ VisitedOK

\* A step that publishes nothing changes no date and no week.
LEMMA DatesCarry ==
    ASSUME IInv, RetiredInv, day' = day, completed' = completed,
           today' \in Nat, today <= today'
    PROVE  DatesOK' /\ WeeksCovered'
  <1>1. \A c \in completed : c \in Backups /\ day[c] \in Nat
    BY RetentionAssumption DEF IInv, TypeOK, Backups
  <1>2. DatesOK'
    BY <1>1, RetentionAssumption DEF RetiredInv, DatesOK, IInv, TypeOK
  <1>3. WeeksCovered'
    BY DEF RetiredInv, WeeksCovered, NewestOfWeek, Week
  <1> QED
    BY <1>2, <1>3

\* The new backup is the newest of its week, and no other week changes.
LEMMA PublishCovers ==
    ASSUME IInv, RetiredInv, Publish
    PROVE  RetiredInv'
  <1>1. /\ made \in Backups /\ made \notin completed /\ today \in Nat
        /\ made \in Nat
        /\ \A c \in completed : c \in Nat /\ c < made /\ day[c] \in Nat
    BY RetentionAssumption DEF Publish, IInv, MarkersOK, TypeOK, Backups
  <1>2. /\ day'[made] = today /\ \A c \in completed : day'[c] = day[c]
        /\ completed' = completed \cup {made} /\ today' = today /\ made' = made
        /\ pc' = "list"
    BY <1>1 DEF Publish, IInv, TypeOK
  <1>3. DatesOK'
    BY <1>1, <1>2 DEF RetiredInv, DatesOK
  <1>4. \A c \in completed : Week(c)' = Week(c)
    BY <1>2 DEF Week
  <1>5. NewestOfWeek(made)'
    BY <1>1, <1>2 DEF NewestOfWeek, Backups
  <1>6. ASSUME NEW c \in completed'
        PROVE  \E m \in completed' : (Week(m) = Week(c) /\ NewestOfWeek(m))'
    <2>1. CASE Week(c)' = Week(made)'
      BY <1>2, <1>5, <2>1
    <2>2. CASE Week(c)' # Week(made)'
      <3>1. c \in completed
        BY <1>2, <2>2
      <3>2. PICK m \in completed : Week(m) = Week(c) /\ NewestOfWeek(m)
        BY <3>1 DEF RetiredInv, WeeksCovered
      <3>3. NewestOfWeek(m)'
        BY <1>2, <1>4, <2>2, <3>1, <3>2 DEF NewestOfWeek
      <3> QED
        BY <1>2, <1>4, <3>1, <3>2, <3>3
    <2> QED
      BY <2>1, <2>2
  <1>7. WeeksCovered'
    BY <1>6 DEF WeeksCovered
  <1> QED
    BY <1>2, <1>3, <1>7 DEF RetiredInv, VisitedOK

\* A weekly backup that is kept is the newest of its week: the newest one is
\* promised, so it is in the bucket, and would have claimed the week.
LEMMA KeptIsNewest ==
    ASSUME IInv, RetiredInv, pc = "visit", NEW b \in todo, Newest(b),
           Age(b) <= WeeklyDays, Week(b) \notin weeks
    PROVE  NewestOfWeek(b)
  <1>1. b \in completed /\ today \in Nat
    BY DEF IInv, TypeOK
  <1>2. PICK m \in completed : Week(m) = Week(b) /\ NewestOfWeek(m)
    BY <1>1 DEF RetiredInv, WeeksCovered
  <1>3. b \in Nat /\ m \in Nat /\ day[b] \in Nat /\ day[m] \in Nat
    BY <1>1, RetentionAssumption DEF IInv, TypeOK, Backups
  <1>4. b <= m /\ day[b] <= day[m]
    BY <1>1, <1>2 DEF NewestOfWeek, RetiredInv, DatesOK
  <1>5. today <= day[m] + WeeklyDays
    BY <1>1, <1>3, <1>4, RetentionAssumption DEF Age
  <1>6. m \in manifests
    BY <1>2, <1>5 DEF IInv, PromisedIsRetained, Promised
  <1>7. m \in todo
    BY <1>2, <1>6 DEF RetiredInv, VisitedOK, LeftBehind
  <1>8. m = b
    BY <1>3, <1>4, <1>7 DEF Newest
  <1> QED
    BY <1>2, <1>8

LEMMA VisitLeaves ==
    ASSUME NEW b \in Backups, IInv, RetiredInv, Visit(b)
    PROVE  RetiredInv'
  <1>1. b \in todo /\ b \in completed /\ pc = "visit" /\ Newest(b) /\ pc' \in {"visit", "archive"}
    BY DEF Visit, Newest, IInv, TypeOK
  <1>2. /\ UNCHANGED <<day, completed, today, listedOn>>
        /\ weeks' = weeks \cup {Week(b)} /\ todo' = todo \ {b}
        /\ manifests' \subseteq manifests /\ (~Keep(b) => b \notin manifests')
    BY DEF Visit
  <1>3. today \in Nat /\ listedOn \in Nat /\ day[b] \in Nat
    BY RetentionAssumption DEF IInv, TypeOK
  <1>4. DatesOK' /\ WeeksCovered'
    BY <1>2, <1>3, DatesCarry
  <1>5. listedOn <= today /\ \A c \in manifests \ todo : LeftBehind(c)
    BY <1>1 DEF RetiredInv, VisitedOK
  <1>6. \A c \in manifests \ todo : LeftBehind(c)'
    BY <1>2, <1>5 DEF LeftBehind, Week, NewestOfWeek
  <1>7. Keep(b) => LeftBehind(b)'
    <2>1. Keep(b) => \/ listedOn <= day[b] + KeepDays
                     \/ listedOn <= day[b] + WeeklyDays /\ NewestOfWeek(b)
      <3>1. CASE Age(b) <= KeepDays
        BY <1>3, <1>5, <3>1, RetentionAssumption DEF Age
      <3>2. CASE Age(b) <= WeeklyDays /\ Week(b) \notin weeks
        BY <1>1, <1>3, <1>5, <3>2, KeptIsNewest, RetentionAssumption DEF Age
      <3> QED
        BY <3>1, <3>2 DEF Keep
    <2> QED
      BY <1>2, <2>1 DEF LeftBehind, Week, NewestOfWeek
  <1>8. VisitedOK'
    BY <1>2, <1>5, <1>6, <1>7 DEF VisitedOK
  <1> QED
    BY <1>4, <1>8 DEF RetiredInv

LEMMA RetiredStep ==
    ASSUME IInv, RetiredInv, [Next]_vars
    PROVE  RetiredInv'
  <1>1. today \in Nat
    BY RetentionAssumption DEF IInv, TypeOK
  <1>2. CASE Publish
    BY <1>2, PublishCovers
  <1>3. CASE \E b \in Backups : Visit(b)
    BY <1>3, VisitLeaves
  <1>4. CASE List
    <2>1. DatesOK' /\ WeeksCovered'
      BY <1>1, <1>4, DatesCarry DEF List, objects
    <2> QED
      BY <1>1, <1>4, <2>1 DEF List, objects, RetiredInv, VisitedOK
  <1>5. CASE Upload \/ Finish \/ Fail
    <2>1. DatesOK' /\ WeeksCovered'
      BY <1>1, <1>5, DatesCarry DEF Upload, Finish, Fail, EndLoop, objects
    <2> QED
      BY <1>5, <2>1 DEF Upload, Finish, Fail, EndLoop, RetiredInv, VisitedOK
  <1>6. CASE DeleteArchive \/ (\E b \in Backups : FetchManifest(b)) \/ FetchArchive
             \/ EndRestore \/ NextDay \/ UNCHANGED vars
    <2>1. /\ UNCHANGED <<day, manifests, completed, todo, weeks, listedOn>>
          /\ today' \in Nat /\ today <= today'
          /\ pc' \in {"visit", "archive"} => pc \in {"visit", "archive"}
      BY <1>1, <1>6
         DEF DeleteArchive, FetchManifest, FetchArchive, EndRestore, NextDay, objects, loop, vars
    <2>2. DatesOK' /\ WeeksCovered'
      BY <1>1, <2>1, DatesCarry
    <2>3. \A b \in manifests : LeftBehind(b)' <=> LeftBehind(b)
      BY <2>1 DEF LeftBehind, Week, NewestOfWeek
    <2>4. listedOn \in Nat
      BY RetentionAssumption DEF IInv, TypeOK
    <2> QED
      BY <1>1, <2>1, <2>2, <2>3, <2>4 DEF RetiredInv, VisitedOK
  <1> QED
    BY <1>2, <1>3, <1>4, <1>5, <1>6 DEF Next

\* What the loop has visited and left, manifests and archives, is what the
\* policy promised on the day of the listing, so the backlog of interrupted
\* retentions goes too; all that may be left beside it is an archive that a
\* failed job gave up without its manifest.
THEOREM BacklogIsRetired == Spec => []SurplusRetired
  <1>1. Init => RetiredInv
    BY DEF Init, RetiredInv, DatesOK, WeeksCovered, VisitedOK
  <1>2. IInv /\ RetiredInv /\ [Next]_vars => RetiredInv'
    BY RetiredStep
  <1>3. ASSUME IInv, RetiredInv, pc = "visit"
        PROVE  \A b \in (manifests \cup archives) \ todo :
                   LeftBehind(b) \/ b \in abandoned \ manifests
    <2>1. \A b \in manifests \ todo : LeftBehind(b)
      BY <1>3 DEF RetiredInv, VisitedOK
    <2>2. archives \subseteq manifests \cup abandoned /\ abandoned \cap manifests = {}
      BY <1>3 DEF IInv, LeftoversOK, Unfinished
    <2> QED
      BY <2>1, <2>2
  <1>4. IInv /\ RetiredInv => SurplusRetired
    BY <1>3 DEF LeftBehind, SurplusRetired
  <1> QED
    BY <1>1, <1>2, <1>4, Inductive, PTL DEF Spec

\* An archive that a failed job left without its manifest stays in the bucket
\* for ever: retireOldBackups takes its list from the manifests
\* (backup-cluster.mjs:44), and nothing publishes or deletes that archive again.
THEOREM AbandonedStays ==
    Spec => /\ [](abandoned \subseteq archives \ manifests)
            /\ [][abandoned \subseteq abandoned']_vars
  <1>1. IInv => abandoned \subseteq archives \ manifests
    BY DEF IInv, LeftoversOK
  <1>2. [Next]_vars => [abandoned \subseteq abandoned']_vars
    BY DEF Next, Upload, Publish, List, Visit, DeleteArchive, Finish, Fail, FetchManifest,
           FetchArchive, EndRestore, NextDay, objects
  <1> QED
    BY <1>1, <1>2, Inductive, PTL DEF Spec

-----------------------------------------------------------------------------
(* The bucket as restores see it.                                          *)

\* The loop deletes archives of completed backups only.
DoomedOK == pc = "archive" => doomed \in completed

\* Every step stores, completes, withdraws or deletes one backup in the order
\* that the protocol asks for, or leaves the bucket alone.
LEMMA NextBucket ==
    ASSUME IInv, DoomedOK, [Next]_vars
    PROVE  DoomedOK' /\ [Bucket!BucketNext]_Bucket!bucketVars
  <1> USE DEF Bucket!BucketNext, Bucket!bucketVars
  <1>1. CASE Upload
    <2>1. made + 1 \in Backups /\ made + 1 \notin archives \cup completed
      BY <1>1, RetentionAssumption DEF Upload, IInv, TypeOK, Backups
    <2>2. Bucket!Store(made + 1) /\ DoomedOK'
      BY <1>1, <2>1 DEF Upload, Bucket!Store, DoomedOK
    <2> QED
      BY <2>1, <2>2
  <1>2. CASE Publish
    <2>1. made \in Backups /\ Bucket!Complete(made)
      BY <1>2 DEF Publish, Bucket!Complete, IInv, MarkersOK, Backups
    <2> QED
      BY <1>2, <2>1 DEF Publish, DoomedOK
  <1>3. ASSUME NEW b \in Backups, Visit(b)
        PROVE  DoomedOK' /\ [Bucket!BucketNext]_Bucket!bucketVars
    <2>1. b \in completed
      BY <1>3 DEF Visit, Newest, IInv, TypeOK
    <2>2. CASE Keep(b) \/ b \notin manifests
      BY <1>3, <2>1, <2>2 DEF Visit, DoomedOK
    <2>3. CASE ~Keep(b) /\ b \in manifests
      <3>1. Bucket!Withdraw(b)
        BY <1>3, <2>3 DEF Visit, Bucket!Withdraw
      <3> QED
        BY <1>3, <2>1, <2>3, <3>1 DEF Visit, DoomedOK
    <2> QED
      BY <2>2, <2>3
  <1>4. CASE DeleteArchive
    <2>1. doomed \in Backups /\ doomed \in completed /\ doomed \notin manifests
      BY <1>4, RetentionAssumption DEF DeleteArchive, DoomedOK, IInv, TypeOK, MarkersOK, Backups
    <2>2. Bucket!Delete(doomed) \/ UNCHANGED <<archives, manifests, completed>>
      BY <1>4, <2>1 DEF DeleteArchive, Bucket!Delete
    <2> QED
      BY <1>4, <2>1, <2>2 DEF DeleteArchive, DoomedOK
  <1>5. CASE \/ List \/ Finish \/ Fail \/ FetchArchive \/ EndRestore \/ NextDay
             \/ \E b \in Backups : FetchManifest(b)
             \/ UNCHANGED vars
    BY <1>5 DEF List, Finish, Fail, EndLoop, FetchArchive, EndRestore, NextDay, FetchManifest,
                vars, loop, objects, DoomedOK
  <1> QED
    BY <1>1, <1>2, <1>3, <1>4, <1>5 DEF Next

\* retireOldBackups (backup-cluster.mjs:34-59) and the upload before it keep the
\* bucket's protocol, for any policy and wherever they fail: each key is stored
\* and completed once, and the manifest goes before its archive.
THEOREM RetentionKeepsBucket == Spec => ImplementsBucket
  <1>1. Init => DoomedOK /\ Bucket!BucketInit
    BY DEF Init, DoomedOK, Bucket!BucketInit
  <1>2. IInv /\ DoomedOK /\ [Next]_vars => DoomedOK' /\ [Bucket!BucketNext]_Bucket!bucketVars
    BY NextBucket
  <1> QED
    BY <1>1, <1>2, Inductive, PTL DEF Spec, ImplementsBucket, Bucket!BucketSpec

\* Whoever keeps the bucket's protocol leaves no manifest without its archive
\* and brings no withdrawn manifest back.
THEOREM BucketIsSound ==
    Bucket!BucketSpec =>
        /\ []Bucket!NoneDangling
        /\ [][\A k \in completed \ manifests : k \notin manifests']_Bucket!bucketVars
  <1> USE DEF Bucket!NoneDangling, Bucket!bucketVars
  <1>1. Bucket!BucketInit => Bucket!NoneDangling
    BY DEF Bucket!BucketInit
  <1>2. Bucket!NoneDangling /\ [Bucket!BucketNext]_Bucket!bucketVars => Bucket!NoneDangling'
    BY DEF Bucket!BucketNext, Bucket!Store, Bucket!Complete, Bucket!Withdraw, Bucket!Delete
  <1>3. [Bucket!BucketNext]_Bucket!bucketVars =>
          [\A k \in completed \ manifests : k \notin manifests']_Bucket!bucketVars
    BY DEF Bucket!BucketNext, Bucket!Store, Bucket!Complete, Bucket!Withdraw, Bucket!Delete
  <1> QED
    BY <1>1, <1>2, <1>3, PTL DEF Bucket!BucketSpec

\* So retention, wherever it fails, leaves no manifest without its archive: a
\* partial deletion is never restorable.
THEOREM NoDanglingManifest == Spec => []Bucket!NoneDangling
  BY RetentionKeepsBucket, BucketIsSound, PTL DEF ImplementsBucket

=============================================================================
