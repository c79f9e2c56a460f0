---------------------------- MODULE GraphBoundary ----------------------------
(***************************************************************************)
(* The request boundary of the graph server: the pipeline that             *)
(* IdentityChannelizer builds for every WebSocket channel, from the        *)
(* handshake limits of AuthenticationGate over the SASL handler of Gremlin *)
(* Server (external) to RequestGate and WebSocketAuthorizationHandler.     *)
(*                                                                         *)
(* One event loop serves a channel, so its messages and its deadline do    *)
(* not overlap; two channels do overlap.  Each has a RequestGate of its    *)
(* own (IdentityChannelizer.java:41), but that gate inherits from a        *)
(* @Sharable handler, and all of them call one authorizer.                 *)
(***************************************************************************)
EXTENDS Integers, Sequences

CONSTANTS
    Channels,
    Owner,                   \* whose password the client of a channel holds
    MaxPending, MaxAttempts  \* 8 and 4

Users == {"admin", "application", "other"}

\* Operations: SASL answers, traversals within and outside the vocabulary of
\* the policy, scripts and session closes.
Requests == {"traversal", "configuration", "script", "close"}
Messages == Requests \cup {"login", "wrongLogin"}

ASSUME BoundaryAssumption ==
    /\ Owner \in [Channels -> Users]
    /\ MaxPending \in Nat /\ MaxAttempts \in Nat

VARIABLES
    open,               \* the channel is connected
    user,               \* StateKey.AUTHENTICATED_USER of each channel
    gate,               \* the AuthenticationGate is in the pipeline
    pending, attempts,  \* its counters
    deadline,           \* its timer: armed, cancelled or over
    negotiating,        \* the SASL handler has begun a negotiation
    held,               \* the messages that it keeps until it succeeds
    work,               \* the messages on their way through the gates
    stage,              \* what the event loop does next with the first one
    principal,          \* the local variable user of that call
    executed            \* of each channel: what the server last executed

handshake == <<gate, pending, attempts, deadline, negotiating, held>>
request   == <<work, stage, principal, executed>>
vars      == <<open, user, handshake, request>>

Nobody == "none"

\* Principals, messages and counters stay in range; the gate's counters exceed
\* their limits only on the channel that they close.
TypeOK ==
    /\ open \in [Channels -> BOOLEAN]
    /\ user \in [Channels -> Users \cup {Nobody}]
    /\ gate \in [Channels -> BOOLEAN]
    /\ pending \in [Channels -> Nat] /\ attempts \in [Channels -> Nat]
    /\ deadline \in [Channels -> {"armed", "cancelled", "over"}]
    /\ negotiating \in [Channels -> BOOLEAN]
    /\ held \in [Channels -> Seq(Messages)]
    /\ work \in [Channels -> Seq(Messages)]
    /\ stage \in [Channels -> {"enter", "policy", "read", "authorize"}]
    /\ principal \in [Channels -> Users \cup {Nobody}]
    /\ executed \in [Channels -> Requests \cup {Nobody}]
    /\ \A c \in Channels : open[c] =>
          pending[c] <= MaxPending /\ attempts[c] <= MaxAttempts

Init ==
    /\ open = [c \in Channels |-> TRUE]
    /\ user = [c \in Channels |-> Nobody]
    /\ gate = [c \in Channels |-> TRUE]
    /\ pending = [c \in Channels |-> 0]
    /\ attempts = [c \in Channels |-> 0]
    /\ deadline = [c \in Channels |-> "armed"]
    /\ negotiating = [c \in Channels |-> FALSE]
    /\ held = [c \in Channels |-> <<>>]
    /\ work = [c \in Channels |-> <<>>]
    /\ stage = [c \in Channels |-> "enter"]
    /\ principal = [c \in Channels |-> Nobody]
    /\ executed = [c \in Channels |-> Nobody]

\* The event loop of a channel takes the next message or timer.
Idle(c) == open[c] /\ work[c] = <<>>

Authenticated(c) == user[c] # Nobody

\* Closing drops what the channel had in flight.
Close(c) ==
    /\ open' = [open EXCEPT ![c] = FALSE]
    /\ held' = [held EXCEPT ![c] = <<>>]
    /\ work' = [work EXCEPT ![c] = <<>>]
    /\ UNCHANGED <<user, gate, negotiating, stage, principal, executed>>

-----------------------------------------------------------------------------
(* SaslAuthenticationHandler of Gremlin Server, behind the gate.           *)

Hold(c, m) ==
    /\ held' = [held EXCEPT ![c] = Append(held[c], m)]
    /\ negotiating' = [negotiating EXCEPT ![c] = TRUE]
    /\ UNCHANGED <<user, work>>

\* Seeded fault: only the message that began the negotiation is fired on.
AdmitFirst(c) ==
    /\ user' = [user EXCEPT ![c] = Owner[c]]
    /\ work' = [work EXCEPT ![c] = SubSeq(held[c], 1, 1)]
    /\ held' = [held EXCEPT ![c] = <<>>]
    /\ UNCHANGED negotiating

\* The negotiation succeeds: everything held is fired down the pipeline.
Admit(c) ==
    /\ user' = [user EXCEPT ![c] = Owner[c]]
    /\ work' = [work EXCEPT ![c] = held[c]]
    /\ held' = [held EXCEPT ![c] = <<>>]
    /\ UNCHANGED negotiating

Negotiate(c, m) ==
    \/ (~negotiating[c] \/ m \in Requests) /\ Hold(c, m)
    \/ negotiating[c] /\ m = "login" /\ Admit(c)
    \/ negotiating[c] /\ m = "wrongLogin" /\ UNCHANGED <<user, negotiating, held, work>>

-----------------------------------------------------------------------------
(* AuthenticationGate.                                                     *)

\* Seeded fault: one message too many is let through.
ExceededLate(c, m) ==
    IF m \in Requests THEN pending[c] > MaxPending ELSE attempts[c] > MaxAttempts

Exceeded(c, m) ==
    IF m \in Requests THEN pending[c] + 1 > MaxPending
                      ELSE attempts[c] + 1 > MaxAttempts

Count(c, m) ==
    IF m \in Requests
    THEN pending' = [pending EXCEPT ![c] = pending[c] + 1] /\ UNCHANGED attempts
    ELSE attempts' = [attempts EXCEPT ![c] = attempts[c] + 1] /\ UNCHANGED pending

\* A message on a channel that is not authenticated yet.
ReceiveEarly(c, m) ==
    /\ Idle(c) /\ ~Authenticated(c)
    /\ Count(c, m)
    /\ UNCHANGED deadline
    /\ \/ Exceeded(c, m) /\ Close(c)
       \/ /\ ~Exceeded(c, m)
          /\ Negotiate(c, m)
          /\ UNCHANGED <<open, gate, stage, principal, executed>>

\* The gate leaves the pipeline with the first message after authentication.
ReceiveLate(c, m) ==
    /\ Idle(c) /\ Authenticated(c)
    /\ gate' = [gate EXCEPT ![c] = FALSE]
    /\ deadline' = [deadline EXCEPT ![c] = IF @ = "armed" THEN "cancelled" ELSE @]
    /\ work' = [work EXCEPT ![c] = <<m>>]
    /\ UNCHANGED <<open, user, pending, attempts, negotiating, held, stage, principal,
                   executed>>

\* Seeded faults: the timer closes without a look at the channel, or spares
\* those that have tried to log in.
Expires(c) == TRUE
ExpiresUntried(c) == ~Authenticated(c) /\ attempts[c] = 0

Overdue(c) == ~Authenticated(c)

Deadline(c) ==
    /\ Idle(c) /\ deadline[c] = "armed"
    /\ deadline' = [deadline EXCEPT ![c] = "over"]
    /\ UNCHANGED <<pending, attempts>>
    /\ \/ Overdue(c) /\ Close(c)
       \/ ~Overdue(c) /\ UNCHANGED <<open, user, gate, negotiating, held, request>>

-----------------------------------------------------------------------------
(* RequestGate, then WebSocketAuthorizationHandler.                        *)

\* Seeded fault: the principal is a field, and one handler, as @Sharable admits,
\* serves all channels.
ReadShared(c) == principal' = [d \in Channels |-> user[c]]

ReadPrincipal(c) == principal' = [principal EXCEPT ![c] = user[c]]

\* authorizeRequest: everything for the operator, bytecode for the application.
RequestAllowed(u, m) ==
    \/ u = "admin"
    \/ u = "application" /\ m \in {"traversal", "configuration"}

\* The switch on the operation and the two authorize methods.
OperationAllowed(u, m) ==
    \/ m \in {"traversal", "configuration", "script"} /\ u = "admin"
    \/ m = "traversal" /\ u = "application"
    \/ m = "close"

Drop(c) ==
    /\ work' = [work EXCEPT ![c] = Tail(work[c])]
    /\ stage' = [stage EXCEPT ![c] = "enter"]

Go(c, s) == stage' = [stage EXCEPT ![c] = s] /\ UNCHANGED work

At(c, s) == open[c] /\ work[c] # <<>> /\ stage[c] = s

Enter(c) ==
    /\ At(c, "enter")
    /\ ReadPrincipal(c) /\ Go(c, "policy")
    /\ UNCHANGED <<open, user, handshake, executed>>

Policy(c) ==
    /\ At(c, "policy")
    /\ \/ RequestAllowed(principal[c], Head(work[c])) /\ Go(c, "read")
       \/ ~RequestAllowed(principal[c], Head(work[c])) /\ Drop(c)
    /\ UNCHANGED <<open, user, handshake, principal, executed>>

\* super.channelRead reads the attribute again.
Read(c) ==
    /\ At(c, "read")
    /\ ReadPrincipal(c) /\ Go(c, "authorize")
    /\ UNCHANGED <<open, user, handshake, executed>>

Authorize(c) ==
    /\ At(c, "authorize")
    /\ Drop(c)
    /\ executed' = [executed EXCEPT ![c] =
          IF OperationAllowed(principal[c], Head(work[c])) THEN Head(work[c]) ELSE @]
    /\ UNCHANGED <<open, user, handshake, principal>>

\* The peer leaves or the idle timeout strikes.
Disconnect(c) ==
    /\ open[c]
    /\ Close(c)
    /\ UNCHANGED <<pending, attempts, deadline>>

ServerStep(c) == Enter(c) \/ Policy(c) \/ Read(c) \/ Authorize(c)

Next ==
    \E c \in Channels :
        \/ \E m \in Messages : ReceiveEarly(c, m) \/ ReceiveLate(c, m)
        \/ Deadline(c) \/ ServerStep(c) \/ Disconnect(c)

Spec == Init /\ [][Next]_vars

\* Timers fire and event loops run.
FairSpec ==
    Spec /\ \A c \in Channels : WF_vars(Deadline(c)) /\ WF_vars(ServerStep(c))

-----------------------------------------------------------------------------
(* Properties.                                                             *)

\* What SECURITY.md lets each principal do.
Permitted(u) ==
    CASE u = "admin"       -> Requests
      [] u = "application" -> {"traversal"}
      [] OTHER             -> {}

\* The server executes a request only for the principal that authenticated on
\* the request's own channel, whatever other channels do in the same handlers
\* and although requests sent before the login are executed after it.
OnlyPermittedRuns ==
    \A c \in Channels : executed[c] # Nobody =>
        user[c] = Owner[c] /\ executed[c] \in Permitted(Owner[c])

\* What an unauthenticated client makes the server keep is bounded: the pending
\* requests and the message that began the negotiation.
HeldIsBounded ==
    \A c \in Channels : Len(held[c]) <= MaxPending + 1

\* The handshake limits never close a channel that has authenticated.
AuthenticatedIsSpared ==
    [][\A c \in Channels :
          open[c] /\ Authenticated(c) /\ ~open'[c] => UNCHANGED deadline /\ UNCHANGED attempts]_vars

\* The two gates and the handlers around them implement one monitor per
\* channel; what a channel has sent is held before its login and on its way
\* through the gates after it.
Monitor == INSTANCE RequestMonitor WITH
    Allowed   <- [c \in Channels |-> Permitted(Owner[c])],
    Nothing   <- Nobody,
    connected <- {c \in Channels : open[c]},
    admitted  <- {c \in Channels : Authenticated(c)},
    queue     <- [c \in Channels |-> IF Authenticated(c) THEN work[c] ELSE held[c]],
    performed <- executed

\* Every request is decided once, in the order sent, after its channel's login
\* and by what SECURITY.md lets its owner do: none is lost between the SASL
\* handler's queue and the gates, decided twice or overtaken.
ImplementsMonitor == Monitor!MonitorSpec

\* Every channel authenticates or is closed; repeated attempts do not prolong
\* the handshake.
HandshakeEnds ==
    \A c \in Channels : open[c] ~> (Authenticated(c) \/ ~open[c])

=============================================================================
