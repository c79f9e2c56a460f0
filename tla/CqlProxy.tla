------------------------------ MODULE CqlProxy ------------------------------
(***************************************************************************)
(* cql-proxy.py: one connection of the forwarder to the local Cassandra.   *)
(* The handler connects to the server, starts a thread that copies from    *)
(* the client to the server ("out"), copies the other way ("in") itself,   *)
(* waits for the thread and closes both sockets.  Client and server may    *)
(* write, end their stream, read and leave whenever they like.             *)
(***************************************************************************)
EXTENDS Naturals, Sequences

CONSTANTS
    Writes,   \* bound: how many pieces a peer writes
    Room      \* how many pieces the buffers of a socket take

ASSUME ProxyAssumption == Writes \in Nat /\ Room \in Nat \ {0}

VARIABLES
    sent, ended,      \* of each direction: what its writer has written, its end
    got, seen,        \* what its reader has read, whether it saw an end
    gone,             \* of each peer: it has closed its connection, or died
    up, down,         \* of each direction: on the way to and from the forwarder
    shut,             \* the forwarder has ended the stream to the reader
    cut,              \* the reader's connection is reset by the forwarder
    hand,             \* of each copy(): `data`, the part not passed on yet
    worker,           \* and its place
    handler, failed   \* the handler's place; the thread could not be started

peers   == <<sent, ended, got, seen, gone>>
sockets == <<up, down, shut, cut>>
copies  == <<hand, worker>>
vars    == <<peers, sockets, copies, handler, failed>>

Directions == {"out", "in"}
Peers == {"client", "server"}
Source(d) == IF d = "out" THEN "client" ELSE "server"
Target(d) == IF d = "out" THEN "server" ELSE "client"
Back(d)   == IF d = "out" THEN "in" ELSE "out"

\* Peers, sockets, copies and the handler stay within their types.
TypeOK ==
    /\ sent \in [Directions -> 0..Writes]
    /\ ended \in [Directions -> BOOLEAN] /\ seen \in [Directions -> BOOLEAN]
    /\ gone \in [Peers -> BOOLEAN]
    /\ \A f \in {got, up, down, hand} : f \in [Directions -> Seq(Nat)]
    /\ shut \in [Directions -> BOOLEAN] /\ cut \in [Directions -> BOOLEAN]
    /\ worker \in [Directions -> {"recv", "send", "shutdown", "ended"}]
    /\ handler \in {"connect", "start", "copy", "close", "release", "done"}
    /\ failed \in BOOLEAN

Init ==
    /\ sent = [d \in Directions |-> 0]
    /\ ended = [d \in Directions |-> FALSE] /\ seen = [d \in Directions |-> FALSE]
    /\ gone = [p \in Peers |-> FALSE]
    /\ got = [d \in Directions |-> <<>>] /\ hand = [d \in Directions |-> <<>>]
    /\ up = [d \in Directions |-> <<>>] /\ down = [d \in Directions |-> <<>>]
    /\ shut = [d \in Directions |-> FALSE] /\ cut = [d \in Directions |-> FALSE]
    /\ worker = [d \in Directions |-> "recv"]
    /\ handler = "connect" /\ failed = FALSE

-----------------------------------------------------------------------------
(* The peers.                                                              *)

\* A peer that is connected: the server is once create_connection has returned.
There(p) == ~gone[p] /\ (p = "server" => handler # "connect")

\* The forwarder has closed its socket to a peer.
ClosedTo(p) == handler \in (IF p = "client" THEN {"done"} ELSE {"release", "done"})

\* What arrives at a closed socket is answered with a reset.
Write(d) ==
    /\ There(Source(d)) /\ ~ended[d] /\ sent[d] < Writes /\ Len(up[d]) < Room
    /\ sent' = [sent EXCEPT ![d] = @ + 1]
    /\ up' = [up EXCEPT ![d] = Append(@, sent'[d])]
    /\ cut' = [cut EXCEPT ![Back(d)] = @ \/ ClosedTo(Source(d))]
    /\ UNCHANGED <<ended, got, seen, gone, down, shut, copies, handler, failed>>

\* shutdown, or close where nothing more is expected: the end of a stream.
Finish(d) ==
    /\ There(Source(d)) /\ ~ended[d]
    /\ ended' = [ended EXCEPT ![d] = TRUE]
    /\ UNCHANGED <<sent, got, seen, gone, sockets, copies, handler, failed>>

Read(d) ==
    /\ There(Target(d)) /\ ~seen[d] /\ down[d] # <<>>
    /\ got' = [got EXCEPT ![d] = Append(@, Head(down[d]))]
    /\ down' = [down EXCEPT ![d] = Tail(@)]
    /\ UNCHANGED <<sent, ended, seen, gone, up, shut, cut, copies, handler, failed>>

\* An end of stream after all that was passed on, or a reset at any time.
SeeEnd(d) ==
    /\ There(Target(d)) /\ ~seen[d]
    /\ (shut[d] /\ down[d] = <<>>) \/ cut[d]
    /\ seen' = [seen EXCEPT ![d] = TRUE]
    /\ UNCHANGED <<sent, ended, got, gone, sockets, copies, handler, failed>>

Leave(p) ==
    /\ There(p)
    /\ gone' = [gone EXCEPT ![p] = TRUE]
    /\ UNCHANGED <<sent, ended, got, seen, sockets, copies, handler, failed>>

-----------------------------------------------------------------------------
(* copy().                                                                 *)

\* Seeded fault: one direction is copied to its end before the other.
RunningInTurn(d) == handler = "copy" /\ (d = "in" => worker["out"] = "ended")

\* Both copies run at once, each on a thread of its own.
Running(d) == handler = "copy"

\* recv: a part of what has arrived, the end of the stream, or an OSError,
\* which a peer that has left may cause before its last piece is read.
Receive(d) ==
    /\ Running(d) /\ worker[d] = "recv"
    /\ \/ \E n \in 1..Len(up[d]) :
             /\ hand' = [hand EXCEPT ![d] = SubSeq(up[d], 1, n)]
             /\ up' = [up EXCEPT ![d] = SubSeq(up[d], n + 1, Len(up[d]))]
             /\ worker' = [worker EXCEPT ![d] = "send"]
       \/ /\ (ended[d] /\ up[d] = <<>>) \/ gone[Source(d)]
          /\ worker' = [worker EXCEPT ![d] = "shutdown"]
          /\ UNCHANGED <<hand, up>>
    /\ UNCHANGED <<peers, down, shut, cut, handler, failed>>

\* Seeded fault: send, whose rest is forgotten, for sendall.
RestForgotten(data) == <<>>

Rest(data) == Tail(data)

\* sendall, piece by piece as there is room; to a peer that has left it goes
\* nowhere or raises.
Pass(d) ==
    /\ Running(d) /\ worker[d] = "send"
    /\ \/ /\ Len(down[d]) < Room \/ gone[Target(d)]
          /\ down' = [down EXCEPT ![d] = Append(@, Head(hand[d]))]
          /\ hand' = [hand EXCEPT ![d] = Rest(@)]
          /\ worker' = [worker EXCEPT ![d] = IF Rest(hand[d]) = <<>> THEN "recv" ELSE "send"]
       \/ /\ gone[Target(d)]
          /\ worker' = [worker EXCEPT ![d] = "shutdown"]
          /\ UNCHANGED <<down, hand>>
    /\ UNCHANGED <<peers, up, shut, cut, handler, failed>>

\* Seeded fault: the finally block of copy() is missing.
StreamLeftOpen(d) == UNCHANGED shut

\* SHUT_WR, whatever ended the copy; an OSError of its own is ignored.
EndStream(d) == shut' = [shut EXCEPT ![d] = TRUE]

Shutdown(d) ==
    /\ worker[d] = "shutdown"
    /\ EndStream(d)
    /\ worker' = [worker EXCEPT ![d] = "ended"]
    /\ UNCHANGED <<peers, up, down, cut, hand, handler, failed>>

-----------------------------------------------------------------------------
(* Handler.handle and the server's shutdown_request.                       *)

\* create_connection, with its timeout: refused means that no server is there.
Connect ==
    /\ handler = "connect"
    /\ \/ handler' = "start" /\ UNCHANGED gone
       \/ handler' = "release" /\ gone' = [gone EXCEPT !["server"] = TRUE]
    /\ UNCHANGED <<sent, ended, got, seen, sockets, copies, failed>>

\* outbound.start(), which raises when the container has no thread left.
Start ==
    /\ handler = "start"
    /\ \/ handler' = "copy" /\ UNCHANGED failed
       \/ handler' = "close" /\ failed' = TRUE
    /\ UNCHANGED <<peers, sockets, copies>>

\* Closing a socket to a reader: unread data make it a reset.
CloseSocket(d) ==
    /\ shut' = [shut EXCEPT ![d] = TRUE]
    /\ cut' = [cut EXCEPT ![d] = @ \/ up[Back(d)] # <<>>]

\* outbound.join() after the handler's own copy, then upstream.close().
Close ==
    /\ \/ handler = "copy" /\ \A d \in Directions : worker[d] = "ended"
       \/ handler = "close"
    /\ CloseSocket("out")
    /\ handler' = "release"
    /\ UNCHANGED <<peers, up, down, copies, failed>>

Release ==
    /\ handler = "release"
    /\ CloseSocket("in")
    /\ handler' = "done"
    /\ UNCHANGED <<peers, up, down, copies, failed>>

Next ==
    \/ \E d \in Directions :
          \/ Write(d) \/ Finish(d) \/ Read(d) \/ SeeEnd(d)
          \/ Receive(d) \/ Pass(d) \/ Shutdown(d)
    \/ \E p \in Peers : Leave(p)
    \/ Connect \/ Start \/ Close \/ Release

Spec == Init /\ [][Next]_vars

\* Threads run; a peer reads, and leaves once it has seen the end of what it
\* reads, as drivers and Cassandra do.
FairSpec ==
    /\ Spec
    /\ WF_vars(Connect) /\ WF_vars(Start) /\ WF_vars(Close) /\ WF_vars(Release)
    /\ \A d \in Directions :
          /\ WF_vars(Receive(d)) /\ WF_vars(Pass(d)) /\ WF_vars(Shutdown(d))
          /\ WF_vars(Read(d)) /\ WF_vars(SeeEnd(d))
          /\ WF_vars(seen[d] /\ Leave(Target(d)))

-----------------------------------------------------------------------------
(* Properties.                                                             *)

\* The handler could not start its thread: to the client no server is there.
Duplex == INSTANCE DuplexPipe
    WITH gone <- [p \in Peers |-> gone[p] \/ (p = "server" /\ failed)]

\* The forwarder is two streams, in order and whole: an end of stream reaches
\* a peer before everything the other one has written only where one of them
\* has left (or there never was a server), whatever the order in which the two
\* copies, the half-closes and the two close calls come.
ImplementsDuplex == Duplex!Spec

\* No copy() waits for the other: what a peer has written arrives, also while
\* the other direction is idle or has ended.
Delivers ==
    \A d \in Directions : \A n \in 1..Writes :
        (sent[d] >= n) ~> (Len(got[d]) >= n \/ failed \/ \E p \in Peers : gone[p])

\* Once a peer has ended its stream or left, both copies end, though only the
\* write side of the other socket is shut down, and the handler's threads and
\* sockets are free again.
HandlerEnds ==
    (\E d \in Directions : ended[d] \/ gone[Source(d)]) ~> (handler = "done")

=============================================================================
