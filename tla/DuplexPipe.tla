----------------------------- MODULE DuplexPipe -----------------------------
(* What a client and a server may expect of the forwarder between them:    *)
(* two streams, each in order and whole while both of them are there, and  *)
(* an end of a stream only where the writer has ended it.                  *)
EXTENDS Naturals, Sequences

VARIABLES
    sent,    \* of each direction: the writer has written pieces 1 to sent
    ended,   \* and no more will follow
    got,     \* what the reader has read
    seen,    \* it has found the stream at its end
    gone     \* of each peer: it has left

pipe == <<sent, ended, got, seen, gone>>

Directions == {"out", "in"}
Peers == {"client", "server"}

Init ==
    /\ sent = [d \in Directions |-> 0] /\ ended = [d \in Directions |-> FALSE]
    /\ got = [d \in Directions |-> <<>>] /\ seen = [d \in Directions |-> FALSE]
    /\ gone = [p \in Peers |-> FALSE]

Write(d) ==
    /\ ~ended[d]
    /\ sent' = [sent EXCEPT ![d] = @ + 1]
    /\ UNCHANGED <<ended, got, seen, gone>>

Finish(d) ==
    /\ ended' = [ended EXCEPT ![d] = TRUE]
    /\ UNCHANGED <<sent, got, seen, gone>>

\* The next piece, no other.
Read(d) ==
    /\ Len(got[d]) < sent[d] /\ ~seen[d]
    /\ got' = [got EXCEPT ![d] = Append(@, Len(@) + 1)]
    /\ UNCHANGED <<sent, ended, seen, gone>>

\* After the last piece; earlier only where somebody has left.
SeeEnd(d) ==
    /\ \/ ended[d] /\ Len(got[d]) = sent[d]
       \/ \E p \in Peers : gone[p]
    /\ seen' = [seen EXCEPT ![d] = TRUE]
    /\ UNCHANGED <<sent, ended, got, gone>>

Leave(p) ==
    /\ gone' = [gone EXCEPT ![p] = TRUE]
    /\ UNCHANGED <<sent, ended, got, seen>>

Next ==
    \/ \E d \in Directions : Write(d) \/ Finish(d) \/ Read(d) \/ SeeEnd(d)
    \/ \E p \in Peers : Leave(p)

Spec == Init /\ [][Next]_pipe

=============================================================================
