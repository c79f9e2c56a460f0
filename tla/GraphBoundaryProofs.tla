------------------------- MODULE GraphBoundaryProofs -------------------------
(* Proofs about GraphBoundary, for any number of channels and any limits.  *)
EXTENDS GraphBoundary, SequenceTheorems, TLAPS

-----------------------------------------------------------------------------
(* The inductive invariant.                                                *)

\* A channel is authenticated as its owner or not at all, and has nothing to
\* execute before.
UserOK ==
    \A c \in Channels :
        /\ user[c] \in {Nobody, Owner[c]}
        /\ work[c] # <<>> => user[c] = Owner[c]

\* Inside the gates the local principal is the channel's own, and the request
\* in hand has passed authorizeRequest once the second handler sees it.
StageOK ==
    \A c \in Channels : open[c] =>
        /\ stage[c] # "enter" => work[c] # <<>>
        /\ stage[c] \in {"policy", "authorize"} => principal[c] = Owner[c]
        /\ stage[c] \in {"read", "authorize"} =>
              RequestAllowed(Owner[c], Head(work[c]))

\* What the SASL handler holds has been counted, but for one message.
HeldOK ==
    \A c \in Channels :
        /\ ~open[c] => held[c] = <<>>
        /\ ~negotiating[c] => held[c] = <<>>
        /\ negotiating[c] => Len(held[c]) <= pending[c] + 1

IInv == TypeOK /\ UserOK /\ StageOK /\ HeldOK /\ OnlyPermittedRuns

-----------------------------------------------------------------------------
(* Lemmas.                                                                 *)

\* What passes both gates for a user is permitted to that user.
LEMMA GatesPermit ==
    ASSUME NEW u \in Users, NEW m, RequestAllowed(u, m), OperationAllowed(u, m)
    PROVE  m \in Requests /\ m \in Permitted(u)
  BY DEF Users, RequestAllowed, OperationAllowed, Requests, Permitted

LEMMA OwnerIsUser == \A c \in Channels : Owner[c] \in Users /\ Owner[c] # Nobody
  BY BoundaryAssumption DEF Users, Nobody

-----------------------------------------------------------------------------
LEMMA InitEstablishes == Init => IInv
  <1> SUFFICES ASSUME Init PROVE IInv
    OBVIOUS
  <1>1. TypeOK
    <2>1. <<>> \in Seq(Messages)
      OBVIOUS
    <2>2. /\ open \in [Channels -> BOOLEAN] /\ gate \in [Channels -> BOOLEAN]
          /\ negotiating \in [Channels -> BOOLEAN]
      BY DEF Init
    <2>3. [c \in Channels |-> <<>>] \in [Channels -> Seq(Messages)]
      BY <2>1, Zenon
    <2>4. held \in [Channels -> Seq(Messages)] /\ work \in [Channels -> Seq(Messages)]
      BY <2>3, Zenon DEF Init
    <2>5. \A c \in Channels : pending[c] <= MaxPending /\ attempts[c] <= MaxAttempts
      <3>1. \A c \in Channels : pending[c] = 0 /\ attempts[c] = 0
        BY DEF Init
      <3>2. 0 <= MaxPending /\ 0 <= MaxAttempts
        BY BoundaryAssumption
      <3> QED
        BY <3>1, <3>2
    <2> QED
      BY <2>2, <2>4, <2>5 DEF Init, TypeOK
  <1>2. UserOK /\ StageOK /\ HeldOK /\ OnlyPermittedRuns
    BY DEF Init, UserOK, StageOK, HeldOK, OnlyPermittedRuns
  <1> QED
    BY <1>1, <1>2 DEF IInv

LEMMA ClosePreserves ==
    ASSUME NEW c \in Channels, IInv, Close(c),
           pending' \in [Channels -> Nat], attempts' \in [Channels -> Nat],
           deadline' \in [Channels -> {"armed", "cancelled", "over"}],
           \A d \in Channels \ {c} : pending'[d] = pending[d] /\ attempts'[d] = attempts[d]
    PROVE  IInv'
  <1>1. /\ open' \in [Channels -> BOOLEAN] /\ open'[c] = FALSE
        /\ \A d \in Channels \ {c} : open'[d] = open[d]
    BY DEF Close, IInv, TypeOK
  <1>2. /\ held' \in [Channels -> Seq(Messages)] /\ held'[c] = <<>>
        /\ work' \in [Channels -> Seq(Messages)] /\ work'[c] = <<>>
        /\ \A d \in Channels \ {c} : held'[d] = held[d] /\ work'[d] = work[d]
    BY DEF Close, IInv, TypeOK
  <1>3. UNCHANGED <<user, gate, negotiating, stage, principal, executed>>
    BY DEF Close
  <1>4. TypeOK'
    <2>1. \A d \in Channels : open'[d] =>
             pending'[d] <= MaxPending /\ attempts'[d] <= MaxAttempts
      BY <1>1 DEF IInv, TypeOK
    <2> QED
      BY <1>1, <1>2, <1>3, <2>1 DEF IInv, TypeOK
  <1>5. UserOK'
    BY <1>2, <1>3 DEF IInv, UserOK
  <1>6. StageOK'
    BY <1>1, <1>2, <1>3 DEF IInv, StageOK
  <1>7. HeldOK'
    <2>1. Len(<<>>) <= pending'[c] + 1
      OBVIOUS
    <2>2. ASSUME NEW d \in Channels \ {c}
          PROVE  /\ ~open'[d] => held'[d] = <<>>
                 /\ ~negotiating'[d] => held'[d] = <<>>
                 /\ negotiating'[d] => Len(held'[d]) <= pending'[d] + 1
      BY <1>1, <1>2, <1>3 DEF IInv, HeldOK
    <2> QED
      BY <2>1, <2>2, <1>2 DEF HeldOK
  <1>8. OnlyPermittedRuns'
    BY <1>3 DEF IInv, OnlyPermittedRuns
  <1> QED
    BY <1>4, <1>5, <1>6, <1>7, <1>8 DEF IInv

LEMMA ReceiveEarlyPreserves ==
    ASSUME NEW c \in Channels, NEW m \in Messages, IInv, ReceiveEarly(c, m)
    PROVE  IInv'
  <1>1. /\ pending' \in [Channels -> Nat] /\ attempts' \in [Channels -> Nat]
        /\ \A d \in Channels \ {c} : pending'[d] = pending[d] /\ attempts'[d] = attempts[d]
    <2>1. \/ pending' = [pending EXCEPT ![c] = pending[c] + 1] /\ UNCHANGED attempts
          \/ attempts' = [attempts EXCEPT ![c] = attempts[c] + 1] /\ UNCHANGED pending
      BY Zenon DEF ReceiveEarly, Count
    <2>2. pending \in [Channels -> Nat] /\ attempts \in [Channels -> Nat]
      BY DEF IInv, TypeOK
    <2> QED
      BY <2>1, <2>2
  <1>2. CASE Exceeded(c, m) /\ Close(c)
    BY <1>1, <1>2, ClosePreserves DEF ReceiveEarly, IInv, TypeOK
  <1>3. CASE /\ ~Exceeded(c, m) /\ Negotiate(c, m)
             /\ UNCHANGED <<open, gate, stage, principal, executed>>
    <2>1. open[c] /\ work[c] = <<>> /\ user[c] = Nobody /\ UNCHANGED deadline
      BY DEF ReceiveEarly, Idle, Authenticated
    <2>2. pending'[c] <= MaxPending /\ attempts'[c] <= MaxAttempts
      BY <1>3, <2>1, BoundaryAssumption DEF ReceiveEarly, Count, Exceeded, IInv, TypeOK
    <2>3. \A d \in Channels : open'[d] =>
             pending'[d] <= MaxPending /\ attempts'[d] <= MaxAttempts
      BY <1>1, <1>3, <2>2 DEF IInv, TypeOK
    <2>4. CASE (~negotiating[c] \/ m \in Requests) /\ Hold(c, m)
      <3>1. /\ held' \in [Channels -> Seq(Messages)]
            /\ \A d \in Channels \ {c} : held'[d] = held[d]
            /\ Len(held'[c]) = Len(held[c]) + 1
        BY <2>4 DEF Hold, IInv, TypeOK
      <3>2. /\ negotiating' \in [Channels -> BOOLEAN] /\ negotiating'[c]
            /\ \A d \in Channels \ {c} : negotiating'[d] = negotiating[d]
        BY <2>4 DEF Hold, IInv, TypeOK
      <3>3. UNCHANGED <<user, work>>
        BY <2>4 DEF Hold
      <3>4. TypeOK'
        BY <1>1, <1>3, <2>1, <2>3, <3>1, <3>2, <3>3 DEF IInv, TypeOK
      <3>5. UserOK' /\ StageOK' /\ OnlyPermittedRuns'
        BY <1>3, <3>3 DEF IInv, UserOK, StageOK, OnlyPermittedRuns
      <3>6. Len(held'[c]) <= pending'[c] + 1
        <4>1. CASE ~negotiating[c]
          BY <4>1, <3>1, <1>1 DEF IInv, HeldOK, TypeOK
        <4>2. CASE negotiating[c] /\ m \in Requests
          <5>1. pending'[c] = pending[c] + 1
            BY <4>2 DEF ReceiveEarly, Count, IInv, TypeOK
          <5> QED
            BY <4>2, <5>1, <3>1 DEF IInv, HeldOK, TypeOK
        <4> QED
          BY <4>1, <4>2, <2>4
      <3>7. HeldOK'
        BY <3>6, <3>1, <3>2, <1>1, <1>3, <2>1 DEF IInv, HeldOK
      <3> QED
        BY <3>4, <3>5, <3>7 DEF IInv
    <2>5. CASE negotiating[c] /\ m = "login" /\ Admit(c)
      <3>1. /\ user' = [user EXCEPT ![c] = Owner[c]]
            /\ work' = [work EXCEPT ![c] = held[c]]
            /\ held' = [held EXCEPT ![c] = <<>>]
            /\ UNCHANGED negotiating
        BY <2>5 DEF Admit
      <3>2. TypeOK'
        <4>1. user' \in [Channels -> Users \cup {Nobody}]
          BY <3>1, OwnerIsUser DEF IInv, TypeOK
        <4>2. held' \in [Channels -> Seq(Messages)] /\ work' \in [Channels -> Seq(Messages)]
          BY <3>1 DEF IInv, TypeOK
        <4> QED
          BY <1>1, <1>3, <2>1, <2>3, <3>1, <4>1, <4>2 DEF IInv, TypeOK
      <3>3. UserOK'
        BY <3>1 DEF IInv, TypeOK, UserOK
      <3>4. StageOK'
        <4>1. stage[c] = "enter"
          BY <2>1 DEF IInv, StageOK
        <4> QED
          BY <4>1, <1>3, <3>1 DEF IInv, TypeOK, StageOK
      <3>5. HeldOK'
        <4>1. held'[c] = <<>> /\ \A d \in Channels \ {c} : held'[d] = held[d]
          BY <3>1 DEF IInv, TypeOK
        <4>2. Len(held'[c]) = 0 /\ pending'[c] \in Nat
          BY <4>1, <1>1
        <4> QED
          BY <4>1, <4>2, <3>1, <1>1, <1>3 DEF IInv, HeldOK
      <3>6. OnlyPermittedRuns'
        BY <3>1, <1>3 DEF IInv, TypeOK, OnlyPermittedRuns
      <3> QED
        BY <3>2, <3>3, <3>4, <3>5, <3>6 DEF IInv
    <2>6. CASE negotiating[c] /\ m = "wrongLogin" /\ UNCHANGED <<user, negotiating, held, work>>
      <3>1. TypeOK'
        BY <2>6, <1>1, <1>3, <2>1, <2>3 DEF IInv, TypeOK
      <3>2. UserOK' /\ StageOK' /\ OnlyPermittedRuns'
        BY <2>6, <1>3 DEF IInv, UserOK, StageOK, OnlyPermittedRuns
      <3>3. pending'[c] = pending[c]
        BY <2>6 DEF ReceiveEarly, Count, Requests
      <3>4. HeldOK'
        BY <3>3, <2>6, <1>1, <1>3 DEF IInv, HeldOK
      <3> QED
        BY <3>1, <3>2, <3>4 DEF IInv
    <2> QED
      BY <1>3, <2>4, <2>5, <2>6 DEF Negotiate
  <1> QED
    BY <1>2, <1>3 DEF ReceiveEarly

LEMMA ReceiveLatePreserves ==
    ASSUME NEW c \in Channels, NEW m \in Messages, IInv, ReceiveLate(c, m)
    PROVE  IInv'
  <1>1. work[c] = <<>> /\ user[c] = Owner[c] /\ open[c]
    BY DEF ReceiveLate, Idle, Authenticated, IInv, UserOK, TypeOK
  <1>2. /\ work' \in [Channels -> Seq(Messages)]
        /\ \A d \in Channels \ {c} : work'[d] = work[d]
    BY DEF ReceiveLate, IInv, TypeOK
  <1>3. /\ gate' \in [Channels -> BOOLEAN]
        /\ deadline' \in [Channels -> {"armed", "cancelled", "over"}]
    BY DEF ReceiveLate, IInv, TypeOK
  <1>4. UNCHANGED <<open, user, pending, attempts, negotiating, held, stage, principal,
                    executed>>
    BY DEF ReceiveLate
  <1>5. TypeOK'
    BY <1>2, <1>3, <1>4 DEF IInv, TypeOK
  <1>6. UserOK'
    BY <1>1, <1>2, <1>4 DEF IInv, UserOK
  <1>7. StageOK'
    <2>1. stage[c] = "enter"
      BY <1>1 DEF IInv, StageOK
    <2> QED
      BY <2>1, <1>2, <1>4 DEF IInv, StageOK
  <1>8. HeldOK' /\ OnlyPermittedRuns'
    BY <1>4 DEF IInv, HeldOK, OnlyPermittedRuns
  <1> QED
    BY <1>5, <1>6, <1>7, <1>8 DEF IInv

LEMMA TimerPreserves ==
    ASSUME NEW c \in Channels, IInv, Deadline(c) \/ Disconnect(c)
    PROVE  IInv'
  <1>1. /\ deadline' \in [Channels -> {"armed", "cancelled", "over"}]
        /\ UNCHANGED <<pending, attempts>>
    BY DEF Deadline, Disconnect, IInv, TypeOK
  <1>2. CASE Close(c)
    BY <1>1, <1>2, ClosePreserves DEF IInv, TypeOK
  <1>3. CASE UNCHANGED <<open, user, gate, negotiating, held, request>>
    <2>1. UNCHANGED <<open, user, gate, negotiating, held, work, stage, principal, executed>>
      BY <1>3 DEF request
    <2>2. TypeOK'
      BY <1>1, <2>1 DEF IInv, TypeOK
    <2>3. UserOK' /\ StageOK' /\ HeldOK' /\ OnlyPermittedRuns'
      BY <1>1, <2>1 DEF IInv, UserOK, StageOK, HeldOK, OnlyPermittedRuns
    <2> QED
      BY <2>2, <2>3 DEF IInv
  <1> QED
    BY <1>2, <1>3 DEF Deadline, Disconnect

LEMMA ServerStepPreserves ==
    ASSUME NEW c \in Channels, IInv, ServerStep(c)
    PROVE  IInv'
  <1>1. open[c] /\ work[c] # <<>> /\ user[c] = Owner[c] /\ UNCHANGED <<open, user, handshake>>
    BY DEF ServerStep, Enter, Policy, Read, Authorize, At, IInv, UserOK
  <1>2. UNCHANGED <<gate, pending, attempts, deadline, negotiating, held>>
    BY <1>1 DEF handshake
  <1>3. Tail(work[c]) \in Seq(Messages) /\ Head(work[c]) \in Messages
    BY <1>1 DEF IInv, TypeOK
  <1>4. /\ work' \in [Channels -> Seq(Messages)]
        /\ stage' \in [Channels -> {"enter", "policy", "read", "authorize"}]
        /\ \A d \in Channels \ {c} : work'[d] = work[d] /\ stage'[d] = stage[d]
    <2>1. Drop(c) \/ \E s \in {"policy", "read", "authorize"} : Go(c, s)
      BY DEF ServerStep, Enter, Policy, Read, Authorize
    <2>2. CASE Drop(c)
      BY <2>2, <1>3 DEF Drop, IInv, TypeOK
    <2>3. CASE \E s \in {"policy", "read", "authorize"} : Go(c, s)
      BY <2>3 DEF Go, IInv, TypeOK
    <2> QED
      BY <2>1, <2>2, <2>3
  <1>5. /\ principal' \in [Channels -> Users \cup {Nobody}]
        /\ \A d \in Channels \ {c} : principal'[d] = principal[d]
    BY <1>1, OwnerIsUser
    DEF ServerStep, Enter, Policy, Read, Authorize, ReadPrincipal, IInv, TypeOK
  <1>6. stage[c] = "authorize" =>
           principal[c] = Owner[c] /\ RequestAllowed(Owner[c], Head(work[c]))
    BY <1>1 DEF IInv, StageOK
  <1>7. /\ executed' \in [Channels -> Requests \cup {Nobody}]
        /\ \A d \in Channels \ {c} : executed'[d] = executed[d]
        /\ executed'[c] # executed[c] => executed'[c] \in Permitted(Owner[c])
    <2>1. CASE Authorize(c)
      <3>1. stage[c] = "authorize"
        BY <2>1 DEF Authorize, At
      <3>2. CASE OperationAllowed(principal[c], Head(work[c]))
        <4>1. Head(work[c]) \in Requests /\ Head(work[c]) \in Permitted(Owner[c])
          BY <3>1, <3>2, <1>6, OwnerIsUser, GatesPermit
        <4> QED
          BY <2>1, <3>2, <4>1 DEF Authorize, IInv, TypeOK
      <3>3. CASE ~OperationAllowed(principal[c], Head(work[c]))
        BY <2>1, <3>3 DEF Authorize, IInv, TypeOK
      <3> QED
        BY <3>2, <3>3
    <2>2. CASE Enter(c) \/ Policy(c) \/ Read(c)
      BY <2>2 DEF Enter, Policy, Read, IInv, TypeOK
    <2> QED
      BY <2>1, <2>2 DEF ServerStep
  <1>8. TypeOK'
    BY <1>1, <1>2, <1>4, <1>5, <1>7 DEF IInv, TypeOK
  <1>9. UserOK'
    BY <1>1, <1>4 DEF IInv, UserOK
  <1>10. StageOK'
    <2>1. /\ stage'[c] # "enter" => work'[c] # <<>>
          /\ stage'[c] \in {"policy", "authorize"} => principal'[c] = Owner[c]
          /\ stage'[c] \in {"read", "authorize"} =>
                RequestAllowed(Owner[c], Head(work'[c]))
      <3>1. CASE Enter(c)
        BY <3>1, <1>1 DEF Enter, ReadPrincipal, Go, IInv, TypeOK
      <3>2. CASE Policy(c)
        <4>1. principal[c] = Owner[c]
          BY <3>2, <1>1 DEF Policy, At, IInv, StageOK
        <4> QED
          BY <3>2, <4>1, <1>1 DEF Policy, Go, Drop, IInv, TypeOK
      <3>3. CASE Read(c)
        <4>1. RequestAllowed(Owner[c], Head(work[c]))
          BY <3>3, <1>1 DEF Read, At, IInv, StageOK
        <4> QED
          BY <3>3, <4>1, <1>1 DEF Read, ReadPrincipal, Go, IInv, TypeOK
      <3>4. CASE Authorize(c)
        BY <3>4 DEF Authorize, Drop, IInv, TypeOK
      <3> QED
        BY <3>1, <3>2, <3>3, <3>4 DEF ServerStep
    <2> QED
      BY <2>1, <1>1, <1>4, <1>5 DEF IInv, StageOK
  <1>11. HeldOK'
    BY <1>1, <1>2 DEF IInv, HeldOK
  <1>12. OnlyPermittedRuns'
    BY <1>1, <1>7 DEF IInv, OnlyPermittedRuns
  <1> QED
    BY <1>8, <1>9, <1>10, <1>11, <1>12 DEF IInv

LEMMA StepPreserves == IInv /\ [Next]_vars => IInv'
  <1> SUFFICES ASSUME IInv, [Next]_vars PROVE IInv'
    OBVIOUS
  <1>1. CASE Next
    BY <1>1, ReceiveEarlyPreserves, ReceiveLatePreserves, TimerPreserves,
       ServerStepPreserves DEF Next
  <1>2. CASE UNCHANGED vars
    <2>1. UNCHANGED <<open, user, gate, pending, attempts, deadline, negotiating, held,
                      work, stage, principal, executed>>
      BY <1>2 DEF vars, handshake, request
    <2> QED
      BY <2>1 DEF IInv, TypeOK, UserOK, StageOK, HeldOK, OnlyPermittedRuns
  <1> QED
    BY <1>1, <1>2

LEMMA Inductive == Spec => []IInv
  BY InitEstablishes, StepPreserves, PTL DEF Spec

-----------------------------------------------------------------------------
(* The theorems.                                                           *)

\* Principals, messages and counters stay in range.
THEOREM BoundaryTypes == Spec => []TypeOK
  BY Inductive, PTL DEF IInv

\* Whatever the channels interleave, a request is executed only if it is
\* permitted to the principal that authenticated on its own channel.
THEOREM OnlyPermittedRequestsRun == Spec => []OnlyPermittedRuns
  BY Inductive, PTL DEF IInv

\* The SASL handler never holds more than the gate lets through.
THEOREM HandshakeIsBounded == Spec => []HeldIsBounded
  <1>1. IInv => HeldIsBounded
    <2> SUFFICES ASSUME IInv, NEW c \in Channels PROVE Len(held[c]) <= MaxPending + 1
      BY DEF HeldIsBounded
    <2>1. CASE held[c] = <<>>
      BY <2>1, BoundaryAssumption
    <2>2. CASE open[c] /\ negotiating[c]
      BY <2>2, BoundaryAssumption DEF IInv, TypeOK, HeldOK
    <2> QED
      BY <2>1, <2>2 DEF IInv, HeldOK
  <1> QED
    BY <1>1, Inductive, PTL

-----------------------------------------------------------------------------
(* The handshake limits.                                                   *)

\* The limits close a channel only before its login, so a deadline that runs
\* out or an attempt that is counted never closes an authenticated channel.
THEOREM AuthenticatedStaysOpen == Spec => AuthenticatedIsSpared
  <1>1. ASSUME IInv, [Next]_vars, NEW c \in Channels,
               open[c], Authenticated(c), ~open'[c]
        PROVE  UNCHANGED deadline /\ UNCHANGED attempts
    <2>1. ASSUME NEW d \in Channels, d # c, Close(d)
          PROVE  FALSE
      BY <1>1, <2>1 DEF Close, IInv, TypeOK
    <2>2. ASSUME NEW d \in Channels, NEW m \in Messages, ReceiveEarly(d, m)
          PROVE  FALSE
      <3>1. CASE Close(d)
        BY <1>1, <2>1, <2>2, <3>1 DEF ReceiveEarly
      <3>2. CASE UNCHANGED open
        BY <1>1, <3>2
      <3> QED
        BY <2>2, <3>1, <3>2 DEF ReceiveEarly
    <2>3. ASSUME NEW d \in Channels, NEW m \in Messages, ReceiveLate(d, m)
          PROVE  FALSE
      BY <1>1, <2>3 DEF ReceiveLate
    <2>4. ASSUME NEW d \in Channels, ServerStep(d)
          PROVE  FALSE
      BY <1>1, <2>4 DEF ServerStep, Enter, Policy, Read, Authorize
    <2>5. ASSUME NEW d \in Channels, Deadline(d)
          PROVE  FALSE
      <3>1. CASE Overdue(d) /\ Close(d)
        BY <1>1, <2>1, <3>1 DEF Overdue
      <3>2. CASE UNCHANGED open
        BY <1>1, <3>2
      <3> QED
        BY <2>5, <3>1, <3>2 DEF Deadline
    <2>6. ASSUME NEW d \in Channels, Disconnect(d)
          PROVE  UNCHANGED deadline /\ UNCHANGED attempts
      BY <2>6 DEF Disconnect
    <2>7. CASE UNCHANGED vars
      BY <1>1, <2>7 DEF vars
    <2> QED
      BY <1>1, <2>2, <2>3, <2>4, <2>5, <2>6, <2>7 DEF Next
  <1>2. IInv /\ [Next]_vars =>
          [\A c \in Channels :
              open[c] /\ Authenticated(c) /\ ~open'[c]
              => UNCHANGED deadline /\ UNCHANGED attempts]_vars
    BY <1>1
  <1> QED
    BY <1>2, Inductive, PTL DEF Spec, AuthenticatedIsSpared

\* An open channel that has not logged in has its timer armed and nothing on
\* its way through the gates: the deadline can always strike.
StaysLimited ==
    \A c \in Channels : open[c] /\ ~Authenticated(c) =>
        deadline[c] = "armed" /\ work[c] = <<>> /\ gate[c]

\* No message, attempt or other channel disarms the deadline of a channel
\* (handlerAdded of AuthenticationGate) before it has logged in: the safety half
\* of HandshakeEnds.
THEOREM HandshakeStaysLimited == Spec => []StaysLimited
  <1>1. Init => StaysLimited
    BY DEF Init, StaysLimited
  <1>2. ASSUME IInv, StaysLimited, [Next]_vars
        PROVE  StaysLimited'
    <2>1. ASSUME NEW c \in Channels, NEW m \in Messages, ReceiveEarly(c, m)
          PROVE  StaysLimited'
      <3>1. CASE Close(c)
        BY <1>2, <2>1, <3>1 DEF ReceiveEarly, Close, StaysLimited, Authenticated, IInv, TypeOK
      <3>2. CASE Negotiate(c, m) /\ UNCHANGED <<open, gate>>
        BY <1>2, <2>1, <3>2, OwnerIsUser
        DEF ReceiveEarly, Negotiate, Hold, Admit, StaysLimited, Authenticated, IInv, TypeOK
      <3> QED
        BY <2>1, <3>1, <3>2 DEF ReceiveEarly
    <2>2. ASSUME NEW c \in Channels, NEW m \in Messages, ReceiveLate(c, m)
          PROVE  StaysLimited'
      BY <1>2, <2>2 DEF ReceiveLate, StaysLimited, Authenticated, IInv, TypeOK
    <2>3. ASSUME NEW c \in Channels, Deadline(c) \/ Disconnect(c)
          PROVE  StaysLimited'
      <3>1. CASE Close(c)
        BY <1>2, <2>3, <3>1
        DEF Deadline, Disconnect, Close, StaysLimited, Authenticated, IInv, TypeOK
      <3>2. CASE Deadline(c) /\ ~Overdue(c) /\ UNCHANGED <<open, user, gate, negotiating, held, request>>
        BY <1>2, <3>2
        DEF Deadline, Overdue, request, StaysLimited, Authenticated, IInv, TypeOK
      <3> QED
        BY <2>3, <3>1, <3>2 DEF Deadline, Disconnect
    <2>4. ASSUME NEW c \in Channels, ServerStep(c)
          PROVE  StaysLimited'
      <3>1. work[c] # <<>> /\ open[c] /\ UNCHANGED <<open, user, gate, deadline>>
        BY <2>4 DEF ServerStep, Enter, Policy, Read, Authorize, At, handshake
      <3>2. \A d \in Channels \ {c} : work'[d] = work[d]
        BY <1>2, <2>4 DEF ServerStep, Enter, Policy, Read, Authorize, Go, Drop, IInv, TypeOK
      <3> QED
        BY <1>2, <3>1, <3>2 DEF StaysLimited, Authenticated
    <2>5. CASE UNCHANGED vars
      BY <1>2, <2>5 DEF vars, handshake, request, StaysLimited, Authenticated
    <2> QED
      BY <1>2, <2>1, <2>2, <2>3, <2>4, <2>5 DEF Next
  <1> QED
    BY <1>1, <1>2, Inductive, PTL DEF Spec

-----------------------------------------------------------------------------
(* The boundary implements a monitor.                                      *)

\* Both gates together let through what is permitted, and nothing else.
LEMMA GatesDecide ==
    ASSUME NEW u \in Users, NEW m \in Messages
    PROVE  /\ m \in Permitted(u) => RequestAllowed(u, m) /\ OperationAllowed(u, m)
           /\ RequestAllowed(u, m) /\ OperationAllowed(u, m) => m \in Permitted(u)
  BY GatesPermit
  DEF Users, Messages, Requests, RequestAllowed, OperationAllowed, Permitted

\* What the monitor sees of a channel.
Awaiting(c) == IF Authenticated(c) THEN work[c] ELSE held[c]

\* A step of one channel that leaves the others alone.
OnlyOf(c) ==
    \A d \in Channels \ {c} :
        Awaiting(d)' = Awaiting(d) /\ user'[d] = user[d] /\ open'[d] = open[d]

LEMMA SubmitStep ==
    ASSUME NEW c \in Channels, NEW m \in Messages, open[c], OnlyOf(c),
           Awaiting(c)' = Append(Awaiting(c), m),
           UNCHANGED <<open, user, executed>>
    PROVE  Monitor!Submit(c)
  <1>1. \A d \in Channels :
           Awaiting(d)' = IF d = c THEN Append(Awaiting(c), m) ELSE Awaiting(d)
    BY DEF OnlyOf
  <1>2. [d \in Channels |-> Awaiting(d)]'
        = [[d \in Channels |-> Awaiting(d)] EXCEPT ![c] = Append(Awaiting(c), m)]
    BY <1>1
  <1>3. {d \in Channels : Authenticated(d)}' = {d \in Channels : Authenticated(d)}
    BY DEF Authenticated
  <1> QED
    BY <1>2, <1>3 DEF Awaiting, Authenticated, Monitor!Submit

LEMMA AdmissionStep ==
    ASSUME NEW c \in Channels, open[c], OnlyOf(c), ~Authenticated(c), Authenticated(c)',
           Awaiting(c)' = Awaiting(c),
           UNCHANGED <<open, executed>>
    PROVE  Monitor!Admission(c)
  BY DEF OnlyOf, Awaiting, Authenticated, Monitor!Admission

LEMMA DecideStep ==
    ASSUME NEW c \in Channels, open[c], OnlyOf(c), Authenticated(c),
           work[c] # <<>>, work'[c] = Tail(work[c]),
           executed' = [executed EXCEPT ![c] =
              IF Head(work[c]) \in Permitted(Owner[c]) THEN Head(work[c]) ELSE executed[c]],
           UNCHANGED <<open, user>>
    PROVE  Monitor!Decide(c)
  BY DEF OnlyOf, Awaiting, Authenticated, Monitor!Decide

LEMMA LeaveStep ==
    ASSUME NEW c \in Channels, open[c], OnlyOf(c), ~open'[c], Awaiting(c)' = <<>>,
           UNCHANGED <<user, executed>>
    PROVE  Monitor!Leave(c)
  BY DEF OnlyOf, Awaiting, Authenticated, Monitor!Leave

LEMMA StutterStep ==
    ASSUME UNCHANGED <<open, user, executed>>,
           \A c \in Channels : Awaiting(c)' = Awaiting(c)
    PROVE  UNCHANGED Monitor!monVars
  BY DEF Awaiting, Authenticated, Monitor!monVars

LEMMA CloseLeaves ==
    ASSUME NEW c \in Channels, IInv, open[c], Close(c)
    PROVE  Monitor!Leave(c)
  <1>1. OnlyOf(c) /\ ~open'[c] /\ Awaiting(c)' = <<>> /\ UNCHANGED <<user, executed>>
    BY DEF Close, OnlyOf, Awaiting, Authenticated, IInv, TypeOK
  <1> QED
    BY <1>1, LeaveStep

\* Every step of the boundary is a step of the monitor or leaves it alone.
LEMMA NextMonitor ==
    ASSUME IInv, [Next]_vars
    PROVE  [Monitor!MonitorNext]_Monitor!monVars
  <1> USE DEF Monitor!MonitorNext
  <1>1. ASSUME NEW c \in Channels, NEW m \in Messages, ReceiveEarly(c, m)
        PROVE  [Monitor!MonitorNext]_Monitor!monVars
    <2>1. open[c] /\ work[c] = <<>> /\ ~Authenticated(c)
      BY <1>1 DEF ReceiveEarly, Idle
    <2>2. CASE Close(c)
      BY <2>1, <2>2, CloseLeaves
    <2>3. CASE Hold(c, m) /\ UNCHANGED <<open, executed>>
      <3>1. OnlyOf(c) /\ Awaiting(c)' = Append(Awaiting(c), m) /\ UNCHANGED user
        BY <2>1, <2>3 DEF Hold, OnlyOf, Awaiting, Authenticated, IInv, TypeOK
      <3> QED
        BY <2>1, <2>3, <3>1, SubmitStep
    <2>4. CASE Admit(c) /\ UNCHANGED <<open, executed>>
      <3>1. OnlyOf(c) /\ Authenticated(c)' /\ Awaiting(c)' = Awaiting(c)
        BY <2>1, <2>4, OwnerIsUser
        DEF Admit, OnlyOf, Awaiting, Authenticated, IInv, TypeOK
      <3> QED
        BY <2>1, <2>4, <3>1, AdmissionStep
    <2>5. CASE UNCHANGED <<open, user, held, work, executed>>
      BY <2>5, StutterStep DEF Awaiting, Authenticated
    <2> QED
      BY <1>1, <2>2, <2>3, <2>4, <2>5 DEF ReceiveEarly, Negotiate
  <1>2. ASSUME NEW c \in Channels, NEW m \in Messages, ReceiveLate(c, m)
        PROVE  [Monitor!MonitorNext]_Monitor!monVars
    <2>1. /\ open[c] /\ OnlyOf(c) /\ Awaiting(c)' = Append(Awaiting(c), m)
          /\ UNCHANGED <<open, user, executed>>
      BY <1>2 DEF ReceiveLate, Idle, OnlyOf, Awaiting, Authenticated, IInv, TypeOK
    <2> QED
      BY <2>1, SubmitStep
  <1>3. ASSUME NEW c \in Channels, Deadline(c) \/ Disconnect(c)
        PROVE  [Monitor!MonitorNext]_Monitor!monVars
    <2>1. CASE Close(c)
      BY <1>3, <2>1, CloseLeaves DEF Deadline, Disconnect, Idle
    <2>2. CASE UNCHANGED <<open, user, held, request>>
      BY <2>2, StutterStep DEF Awaiting, Authenticated, request
    <2> QED
      BY <1>3, <2>1, <2>2 DEF Deadline, Disconnect
  <1>4. ASSUME NEW c \in Channels, Enter(c) \/ Read(c)
        PROVE  [Monitor!MonitorNext]_Monitor!monVars
    BY <1>4, StutterStep DEF Enter, Read, Go, handshake, Awaiting, Authenticated
  <1>5. ASSUME NEW c \in Channels, Policy(c) \/ Authorize(c)
        PROVE  [Monitor!MonitorNext]_Monitor!monVars
    <2>1. /\ open[c] /\ work[c] # <<>> /\ Authenticated(c) /\ user[c] = Owner[c]
          /\ principal[c] = Owner[c] /\ UNCHANGED <<open, user, held>>
          /\ Head(work[c]) \in Messages
      BY <1>5, OwnerIsUser
      DEF Policy, Authorize, At, handshake, Authenticated, IInv, TypeOK, UserOK, StageOK
    <2>2. CASE Go(c, "read") /\ Policy(c)
      BY <2>1, <2>2, StutterStep DEF Go, Policy, Awaiting, Authenticated
    <2>3. CASE Drop(c)
      <3>1. OnlyOf(c) /\ work'[c] = Tail(work[c])
        BY <2>1, <2>3 DEF Drop, OnlyOf, Awaiting, Authenticated, IInv, TypeOK
      <3>2. executed' = [executed EXCEPT ![c] =
               IF Head(work[c]) \in Permitted(Owner[c]) THEN Head(work[c]) ELSE executed[c]]
        <4>1. CASE Policy(c) /\ ~RequestAllowed(Owner[c], Head(work[c]))
          BY <2>1, <4>1, GatesDecide, OwnerIsUser DEF Policy, IInv, TypeOK
        <4>2. CASE Authorize(c)
          <5>1. RequestAllowed(Owner[c], Head(work[c]))
            BY <4>2 DEF Authorize, At, IInv, StageOK
          <5> QED
            BY <2>1, <4>2, <5>1, GatesDecide, OwnerIsUser DEF Authorize
        <4>3. CASE Policy(c) /\ RequestAllowed(Owner[c], Head(work[c]))
          BY <2>1, <2>3, <4>3 DEF Policy, Go, Drop, At, IInv, TypeOK
        <4> QED
          BY <1>5, <4>1, <4>2, <4>3
      <3> QED
        BY <2>1, <3>1, <3>2, DecideStep
    <2> QED
      BY <1>5, <2>2, <2>3 DEF Policy, Authorize
  <1>6. CASE UNCHANGED vars
    BY <1>6, StutterStep DEF vars, handshake, request, Awaiting, Authenticated
  <1> QED
    BY <1>1, <1>2, <1>3, <1>4, <1>5, <1>6 DEF Next, ServerStep

\* For any channels and limits: what a client sends is decided exactly once, in
\* the order sent, after its login and for its own principal, through the queue
\* of the SASL handler and both gates.
THEOREM MonitorImplemented == Spec => ImplementsMonitor
  <1>1. Init => Monitor!MonitorInit
    BY DEF Init, Authenticated, Monitor!MonitorInit
  <1>2. IInv /\ [Next]_vars => [Monitor!MonitorNext]_Monitor!monVars
    BY NextMonitor
  <1> QED
    BY <1>1, <1>2, Inductive, PTL DEF Spec, ImplementsMonitor, Monitor!MonitorSpec

=============================================================================
