--------------------------- MODULE CqlProxyProofs ---------------------------
(* Proofs about CqlProxy, for any number of writes and any room.           *)
EXTENDS CqlProxy, TLAPS

-----------------------------------------------------------------------------
(* The inductive invariant.                                                *)

\* The n pieces that follow piece a.
Pieces(a, n) == [i \in 1..n |-> a + i]

Passed(d) == Len(got[d]) + Len(down[d])
Taken(d)  == Passed(d) + Len(hand[d])

\* What is on the way continues what was read, without a gap, to what was sent.
Whole(d) ==
    /\ down[d] = Pieces(Len(got[d]), Len(down[d]))
    /\ hand[d] = Pieces(Passed(d), Len(hand[d]))
    /\ up[d] = Pieces(Taken(d), Len(up[d]))
    /\ sent[d] = Taken(d) + Len(up[d])

\* Somebody has left, or there is no server for this client.
Broken == failed \/ \E p \in Peers : gone[p]

\* Everything that will be written has been passed on.
Clean(d) == ended[d] /\ up[d] = <<>> /\ hand[d] = <<>>

StreamOK(d) ==
    /\ worker[d] = "recv" => hand[d] = <<>>
    /\ worker[d] = "send" => hand[d] # <<>>
    /\ worker[d] \in {"shutdown", "ended"} => Clean(d) \/ Broken
    /\ shut[d] => Clean(d) \/ Broken
    /\ cut[d] => Broken

HandlerOK ==
    /\ handler = "close" => failed
    /\ handler \in {"release", "done"} =>
          Broken \/ \A d \in Directions : worker[d] = "ended"

IInv ==
    /\ TypeOK
    /\ \A d \in Directions : Whole(d) /\ StreamOK(d)
    /\ HandlerOK

-----------------------------------------------------------------------------
(* Pieces.                                                                 *)

LEMMA PiecesType ==
    ASSUME NEW a \in Nat, NEW n \in Nat
    PROVE  Pieces(a, n) \in Seq(Nat) /\ Len(Pieces(a, n)) = n
  BY DEF Pieces

LEMMA PiecesAppend ==
    ASSUME NEW a \in Nat, NEW n \in Nat
    PROVE  Append(Pieces(a, n), a + n + 1) = Pieces(a, n + 1)
  BY DEF Pieces

LEMMA PiecesTail ==
    ASSUME NEW a \in Nat, NEW n \in Nat \ {0}
    PROVE  /\ Head(Pieces(a, n)) = a + 1
           /\ Tail(Pieces(a, n)) = Pieces(a + 1, n - 1)
  BY DEF Pieces

LEMMA PiecesSplit ==
    ASSUME NEW a \in Nat, NEW n \in Nat, NEW k \in 1..n
    PROVE  /\ SubSeq(Pieces(a, n), 1, k) = Pieces(a, k)
           /\ SubSeq(Pieces(a, n), k + 1, n) = Pieces(a + k, n - k)
  BY DEF Pieces

-----------------------------------------------------------------------------
(* What the steps have in common.                                          *)

\* The streams of a direction, with their types.
LEMMA Types ==
    ASSUME TypeOK, NEW d \in Directions
    PROVE  /\ got[d] \in Seq(Nat) /\ up[d] \in Seq(Nat)
           /\ down[d] \in Seq(Nat) /\ hand[d] \in Seq(Nat)
           /\ sent[d] \in Nat /\ Len(got[d]) \in Nat /\ Len(up[d]) \in Nat
           /\ Len(down[d]) \in Nat /\ Len(hand[d]) \in Nat
           /\ Passed(d) \in Nat /\ Taken(d) \in Nat
  <1>1. /\ got[d] \in Seq(Nat) /\ up[d] \in Seq(Nat)
        /\ down[d] \in Seq(Nat) /\ hand[d] \in Seq(Nat)
    BY DEF TypeOK
  <1>2. sent[d] \in Nat
    BY ProxyAssumption DEF TypeOK
  <1>3. /\ Len(got[d]) \in Nat /\ Len(up[d]) \in Nat
        /\ Len(down[d]) \in Nat /\ Len(hand[d]) \in Nat
    BY <1>1
  <1>4. Passed(d) \in Nat /\ Taken(d) \in Nat
    <2>1. PICK g, n, h \in Nat : g = Len(got[d]) /\ n = Len(down[d]) /\ h = Len(hand[d])
      BY <1>3
    <2>2. Passed(d) = g + n /\ Taken(d) = g + n + h
      BY <2>1 DEF Passed, Taken
    <2> QED
      BY <2>2
  <1> QED
    BY <1>1, <1>2, <1>3, <1>4

LEMMA Both ==
    /\ Directions = {"out", "in"} /\ Peers = {"client", "server"}
    /\ \A d \in Directions :
          /\ Source(d) \in Peers /\ Target(d) \in Peers /\ Back(d) \in Directions
          /\ Back(Back(d)) = d /\ Source(Back(d)) = Target(d)
  BY DEF Directions, Peers, Source, Target, Back

\* What does not change for a direction stays in line.
LEMMA WholeKept ==
    ASSUME NEW d \in Directions, Whole(d),
           got'[d] = got[d], down'[d] = down[d], hand'[d] = hand[d],
           up'[d] = up[d], sent'[d] = sent[d]
    PROVE  Whole(d)'
  BY DEF Whole, Passed, Taken

LEMMA StreamKept ==
    ASSUME NEW d \in Directions, StreamOK(d), Broken => Broken',
           hand'[d] = hand[d], up'[d] = up[d], worker'[d] = worker[d],
           ended[d] => ended'[d],
           shut'[d] => shut[d] \/ Clean(d) \/ Broken,
           cut'[d] => cut[d] \/ Broken
    PROVE  StreamOK(d)'
  BY DEF StreamOK, Clean

\* A step of the peers leaves the forwarder's own state.
LEMMA HandlerKept ==
    ASSUME HandlerOK, UNCHANGED <<worker, handler, failed>>, Broken => Broken'
    PROVE  HandlerOK'
  BY DEF HandlerOK

-----------------------------------------------------------------------------
(* The peers.                                                              *)

LEMMA WriteKeeps ==
    ASSUME IInv, NEW d \in Directions, Write(d)
    PROVE  IInv'
  <1>0. /\ UNCHANGED <<ended, got, seen, gone, down, shut, hand, worker, handler, failed>>
        /\ sent' = [sent EXCEPT ![d] = sent[d] + 1] /\ sent[d] < Writes /\ ~ended[d]
        /\ up' = [up EXCEPT ![d] = Append(up[d], sent'[d])]
    BY DEF Write, copies
  <1>1. /\ sent[d] \in 0..Writes /\ sent'[d] = sent[d] + 1
        /\ sent' \in [Directions -> 0..Writes]
    BY <1>0, ProxyAssumption DEF IInv, TypeOK
  <1>2. Broken <=> Broken'
    BY <1>0 DEF Broken
  <1>3. up' \in [Directions -> Seq(Nat)]
    <2>1. sent'[d] \in Nat
      BY <1>1, ProxyAssumption
    <2>2. up \in [Directions -> Seq(Nat)]
      BY DEF IInv, TypeOK
    <2> QED
      BY <1>0, <2>1, <2>2
  <1>4. cut' \in [Directions -> BOOLEAN]
    <2>1. cut' = [cut EXCEPT ![Back(d)] = cut[Back(d)] \/ ClosedTo(Source(d))]
      BY DEF Write
    <2>2. (cut[Back(d)] \/ ClosedTo(Source(d))) \in BOOLEAN
      OBVIOUS
    <2> QED
      BY <2>1, <2>2, Zenon DEF IInv, TypeOK
  <1>5. TypeOK'
    BY <1>0, <1>1, <1>3, <1>4 DEF IInv, TypeOK
  <1>6. ASSUME NEW e \in Directions PROVE Whole(e)'
    <2>1. CASE e # d
      BY <1>0, <2>1, WholeKept DEF IInv, TypeOK
    <2>2. CASE e = d
      <3>1. up'[d] = Append(Pieces(Taken(d), Len(up[d])), Taken(d) + Len(up[d]) + 1)
        <4>1. up'[d] = Append(up[d], sent'[d])
          BY <1>0 DEF IInv, TypeOK
        <4>2. /\ up[d] = Pieces(Taken(d), Len(up[d]))
              /\ sent'[d] = Taken(d) + Len(up[d]) + 1
          BY <1>1 DEF IInv, Whole
        <4> QED
          BY <4>1, <4>2
      <3>2. Taken(d) \in Nat /\ Len(up[d]) \in Nat
        BY Types DEF IInv
      <3>3. up'[d] = Pieces(Taken(d), Len(up[d]) + 1) /\ Len(up'[d]) = Len(up[d]) + 1
        <4>1. up'[d] = Pieces(Taken(d), Len(up[d]) + 1)
          BY <3>1, <3>2, PiecesAppend
        <4>2. Len(up[d]) + 1 \in Nat
          BY <3>2
        <4> QED
          BY <3>2, <4>1, <4>2, PiecesType
      <3>4. Taken(d)' = Taken(d) /\ Passed(d)' = Passed(d)
        BY <1>0 DEF Taken, Passed
      <3> QED
        BY <1>0, <1>1, <2>2, <3>2, <3>3, <3>4 DEF IInv, Whole
    <2> QED
      BY <2>1, <2>2
  <1>7. worker[d] # "ended" \/ Broken
    BY <1>0 DEF IInv, StreamOK, Clean
  <1>8. ClosedTo(Source(d)) => Broken
    BY <1>7 DEF IInv, HandlerOK, ClosedTo
  <1>9. ASSUME NEW e \in Directions PROVE StreamOK(e)'
    <2>1. cut'[e] => cut[e] \/ Broken
      BY <1>8 DEF Write, IInv, TypeOK
    <2>2. CASE e # d
      BY <1>0, <1>2, <2>1, <2>2, StreamKept DEF IInv, TypeOK
    <2>3. CASE e = d
      BY <1>0, <1>2, <2>1, <2>3 DEF IInv, StreamOK, Clean
    <2> QED
      BY <2>2, <2>3
  <1>10. HandlerOK'
    BY <1>0, <1>2, HandlerKept DEF IInv
  <1> QED
    BY <1>5, <1>6, <1>9, <1>10 DEF IInv

LEMMA FinishKeeps ==
    ASSUME IInv, NEW d \in Directions, Finish(d)
    PROVE  IInv'
  <1>0. UNCHANGED <<sent, got, seen, gone, up, down, shut, cut, hand, worker, handler, failed>>
    BY DEF Finish, sockets, copies
  <1>1. ended' \in [Directions -> BOOLEAN] /\ \A e \in Directions : ended[e] => ended'[e]
    BY Zenon DEF Finish, IInv, TypeOK
  <1>2. Broken <=> Broken'
    BY <1>0 DEF Broken
  <1>3. TypeOK'
    BY <1>0, <1>1 DEF IInv, TypeOK
  <1>4. ASSUME NEW e \in Directions PROVE Whole(e)' /\ StreamOK(e)'
    BY <1>0, <1>1, <1>2, WholeKept, StreamKept DEF IInv
  <1>5. HandlerOK'
    BY <1>0, <1>2, HandlerKept DEF IInv
  <1> QED
    BY <1>3, <1>4, <1>5 DEF IInv

LEMMA ReadKeeps ==
    ASSUME IInv, NEW d \in Directions, Read(d)
    PROVE  IInv'
  <1>0. /\ UNCHANGED <<sent, ended, seen, gone, up, shut, cut, hand, worker, handler, failed>>
        /\ got' = [got EXCEPT ![d] = Append(got[d], Head(down[d]))]
        /\ down' = [down EXCEPT ![d] = Tail(down[d])] /\ down[d] # <<>>
    BY DEF Read, copies
  <1>1. got[d] \in Seq(Nat) /\ down[d] \in Seq(Nat) /\ Len(down[d]) \in Nat \ {0}
    BY <1>0, Types DEF IInv
  <1>2. /\ got' \in [Directions -> Seq(Nat)] /\ down' \in [Directions -> Seq(Nat)]
        /\ got'[d] = Append(got[d], Head(down[d])) /\ down'[d] = Tail(down[d])
        /\ \A e \in Directions \ {d} : got'[e] = got[e] /\ down'[e] = down[e]
    BY <1>0, <1>1 DEF IInv, TypeOK
  <1>3. TypeOK'
    BY <1>0, <1>2 DEF IInv, TypeOK
  <1>4. Broken <=> Broken'
    BY <1>0 DEF Broken
  <1>5. ASSUME NEW e \in Directions PROVE Whole(e)'
    <2>1. CASE e # d
      BY <1>0, <1>2, <2>1, WholeKept DEF IInv
    <2>2. CASE e = d
      <3>1. down[d] = Pieces(Len(got[d]), Len(down[d])) /\ Len(got[d]) \in Nat
        BY <1>1 DEF IInv, Whole
      <3>2. down'[d] = Pieces(Len(got[d]) + 1, Len(down[d]) - 1)
        BY <1>1, <1>2, <3>1, PiecesTail
      <3>3. Len(got'[d]) = Len(got[d]) + 1 /\ Len(down'[d]) = Len(down[d]) - 1
        BY <1>1, <1>2
      <3>4. Passed(d)' = Passed(d) /\ Taken(d)' = Taken(d)
        <4>1. Len(got'[d]) + Len(down'[d]) = Len(got[d]) + Len(down[d])
          <5>1. PICK g \in Nat, n \in Nat \ {0} : g = Len(got[d]) /\ n = Len(down[d])
            BY <1>1, <3>1
          <5>2. Len(got'[d]) = g + 1 /\ Len(down'[d]) = n - 1
            BY <3>3, <5>1
          <5>3. (g + 1) + (n - 1) = g + n
            OBVIOUS
          <5> QED
            BY <5>1, <5>2, <5>3
        <4> QED
          BY <1>0, <4>1 DEF Passed, Taken
      <3> QED
        BY <1>0, <2>2, <3>2, <3>3, <3>4 DEF IInv, Whole
    <2> QED
      BY <2>1, <2>2
  <1>6. ASSUME NEW e \in Directions PROVE StreamOK(e)'
    BY <1>0, <1>4, StreamKept DEF IInv
  <1>7. HandlerOK'
    BY <1>0, <1>4, HandlerKept DEF IInv
  <1> QED
    BY <1>3, <1>5, <1>6, <1>7 DEF IInv

LEMMA SeeEndKeeps ==
    ASSUME IInv, NEW d \in Directions, SeeEnd(d)
    PROVE  IInv'
  <1>0. UNCHANGED <<sent, ended, got, gone, up, down, shut, cut, hand, worker, handler, failed>>
    BY DEF SeeEnd, sockets, copies
  <1>1. seen' \in [Directions -> BOOLEAN]
    BY Zenon DEF SeeEnd, IInv, TypeOK
  <1>2. Broken <=> Broken'
    BY <1>0 DEF Broken
  <1>3. TypeOK'
    BY <1>0, <1>1 DEF IInv, TypeOK
  <1>4. ASSUME NEW e \in Directions PROVE Whole(e)' /\ StreamOK(e)'
    BY <1>0, <1>2, WholeKept, StreamKept DEF IInv
  <1>5. HandlerOK'
    BY <1>0, <1>2, HandlerKept DEF IInv
  <1> QED
    BY <1>3, <1>4, <1>5 DEF IInv

LEMMA LeaveKeeps ==
    ASSUME IInv, NEW p \in Peers, Leave(p)
    PROVE  IInv'
  <1>0. UNCHANGED <<sent, ended, got, seen, up, down, shut, cut, hand, worker, handler, failed>>
    BY DEF Leave, sockets, copies
  <1>1. gone' \in [Peers -> BOOLEAN] /\ \A q \in Peers : gone[q] => gone'[q]
    BY Zenon DEF Leave, IInv, TypeOK
  <1>2. Broken => Broken'
    BY <1>0, <1>1 DEF Broken
  <1>3. TypeOK'
    BY <1>0, <1>1 DEF IInv, TypeOK
  <1>4. ASSUME NEW e \in Directions PROVE Whole(e)' /\ StreamOK(e)'
    BY <1>0, <1>2, WholeKept, StreamKept DEF IInv
  <1>5. HandlerOK'
    BY <1>0, <1>2, HandlerKept DEF IInv
  <1> QED
    BY <1>3, <1>4, <1>5 DEF IInv

-----------------------------------------------------------------------------
(* The copies.                                                             *)

\* A worker that moves, and nothing of the other direction.
LEMMA WorkerMoves ==
    ASSUME IInv, NEW d \in Directions,
           NEW to \in {"recv", "send", "shutdown", "ended"},
           worker' = [worker EXCEPT ![d] = to]
    PROVE  /\ worker' \in [Directions -> {"recv", "send", "shutdown", "ended"}]
           /\ worker'[d] = to
           /\ \A e \in Directions \ {d} : worker'[e] = worker[e]
  BY DEF IInv, TypeOK

\* A copy that has come to its end, by end of stream or by an error.
LEMMA EndingKeeps ==
    ASSUME IInv, NEW d \in Directions, handler = "copy",
           worker' = [worker EXCEPT ![d] = "shutdown"],
           UNCHANGED <<peers, sockets, hand, handler, failed>>,
           Clean(d) \/ Broken
    PROVE  IInv'
  <1>0. UNCHANGED <<sent, ended, got, seen, gone, up, down, shut, cut, hand, handler, failed>>
    BY DEF peers, sockets
  <1>1. /\ worker' \in [Directions -> {"recv", "send", "shutdown", "ended"}]
        /\ worker'[d] = "shutdown"
        /\ \A e \in Directions \ {d} : worker'[e] = worker[e]
    BY WorkerMoves
  <1>2. Broken <=> Broken'
    BY <1>0 DEF Broken
  <1>3. TypeOK'
    BY <1>0, <1>1 DEF IInv, TypeOK
  <1>4. ASSUME NEW e \in Directions PROVE Whole(e)'
    BY <1>0, WholeKept DEF IInv
  <1>5. ASSUME NEW e \in Directions PROVE StreamOK(e)'
    <2>1. CASE e # d
      BY <1>0, <1>1, <1>2, <2>1, StreamKept DEF IInv
    <2>2. CASE e = d
      BY <1>0, <1>1, <1>2, <2>2 DEF IInv, StreamOK, Clean
    <2> QED
      BY <2>1, <2>2
  <1>6. HandlerOK'
    BY <1>0 DEF HandlerOK
  <1> QED
    BY <1>3, <1>4, <1>5, <1>6 DEF IInv

LEMMA ReceiveKeeps ==
    ASSUME IInv, NEW d \in Directions, Receive(d)
    PROVE  IInv'
  <1>0. /\ handler = "copy" /\ worker[d] = "recv" /\ hand[d] = <<>>
        /\ UNCHANGED <<peers, down, shut, cut, handler, failed>>
        /\ UNCHANGED <<sent, ended, got, seen, gone>>
    BY DEF Receive, Running, peers, IInv, StreamOK
  <1>1. CASE /\ (ended[d] /\ up[d] = <<>>) \/ gone[Source(d)]
             /\ worker' = [worker EXCEPT ![d] = "shutdown"]
             /\ UNCHANGED <<hand, up>>
    <2>1. Clean(d) \/ Broken
      BY <1>0, <1>1, Both DEF Clean, Broken
    <2>2. UNCHANGED <<peers, sockets, hand, handler, failed>>
      BY <1>0, <1>1 DEF sockets
    <2> QED
      BY <1>0, <1>1, <2>1, <2>2, EndingKeeps
  <1>2. ASSUME NEW n \in 1..Len(up[d]),
               hand' = [hand EXCEPT ![d] = SubSeq(up[d], 1, n)],
               up' = [up EXCEPT ![d] = SubSeq(up[d], n + 1, Len(up[d]))],
               worker' = [worker EXCEPT ![d] = "send"]
        PROVE  IInv'
    <2>0. PICK t, m \in Nat : t = Taken(d) /\ m = Len(up[d]) /\ sent[d] = t + m
      BY Types DEF IInv, Whole
    <2>1. up[d] = Pieces(t, m) /\ n \in 1..m
      BY <1>2, <2>0 DEF IInv, Whole
    <2>2. /\ SubSeq(up[d], 1, n) = Pieces(t, n)
          /\ SubSeq(up[d], n + 1, Len(up[d])) = Pieces(t + n, m - n)
      <3>1. /\ SubSeq(Pieces(t, m), 1, n) = Pieces(t, n)
            /\ SubSeq(Pieces(t, m), n + 1, m) = Pieces(t + n, m - n)
        BY <2>1, PiecesSplit
      <3> QED
        BY <2>0, <2>1, <3>1
    <2>3. /\ n \in Nat /\ t + n \in Nat /\ m - n \in Nat
      BY <2>0, <2>1
    <2>4. /\ Pieces(t, n) \in Seq(Nat) /\ Len(Pieces(t, n)) = n
          /\ Pieces(t + n, m - n) \in Seq(Nat) /\ Len(Pieces(t + n, m - n)) = m - n
      BY <2>0, <2>3, PiecesType
    <2>5. /\ hand' \in [Directions -> Seq(Nat)] /\ hand'[d] = Pieces(t, n)
          /\ up' \in [Directions -> Seq(Nat)] /\ up'[d] = Pieces(t + n, m - n)
          /\ \A e \in Directions \ {d} : hand'[e] = hand[e] /\ up'[e] = up[e]
      BY <1>2, <2>2, <2>4 DEF IInv, TypeOK
    <2>6. /\ worker' \in [Directions -> {"recv", "send", "shutdown", "ended"}]
          /\ worker'[d] = "send"
          /\ \A e \in Directions \ {d} : worker'[e] = worker[e]
      BY <1>2, WorkerMoves
    <2>7. Broken <=> Broken'
      BY <1>0 DEF Broken
    <2>8. TypeOK'
      BY <1>0, <2>5, <2>6 DEF IInv, TypeOK
    <2>9. ASSUME NEW e \in Directions PROVE Whole(e)'
      <3>1. CASE e # d
        BY <1>0, <2>5, <3>1, WholeKept DEF IInv
      <3>2. CASE e = d
        <4>1. Len(hand[d]) = 0
          BY <1>0
        <4>2. PICK q \in Nat : q = Passed(d)
          BY Types DEF IInv
        <4>3. t = q
          BY <2>0, <4>1, <4>2 DEF Taken
        <4>4. Passed(d)' = q /\ Len(hand'[d]) = n /\ Len(up'[d]) = m - n
          BY <1>0, <2>4, <2>5, <4>2 DEF Passed
        <4>5. Taken(d)' = t + n
          BY <4>3, <4>4 DEF Taken
        <4>6. sent'[d] = (t + n) + (m - n)
          BY <1>0, <2>0, <2>3
        <4>7. down'[d] = Pieces(Len(got[d]), Len(down[d])) /\ got'[d] = got[d] /\ down'[d] = down[d]
          BY <1>0 DEF IInv, Whole
        <4> QED
          BY <2>5, <3>2, <4>3, <4>4, <4>5, <4>6, <4>7 DEF Whole
      <3> QED
        BY <3>1, <3>2
    <2>10. ASSUME NEW e \in Directions PROVE StreamOK(e)'
      <3>1. CASE e # d
        BY <1>0, <2>5, <2>6, <2>7, <3>1, StreamKept DEF IInv
      <3>2. CASE e = d
        <4>1. ~Clean(d)
          BY <2>0, <2>1 DEF Clean
        <4>2. hand'[d] # <<>>
          BY <2>1, <2>4, <2>5
        <4> QED
          BY <1>0, <2>6, <2>7, <3>2, <4>1, <4>2 DEF IInv, StreamOK
      <3> QED
        BY <3>1, <3>2
    <2>11. HandlerOK'
      BY <1>0 DEF HandlerOK
    <2> QED
      BY <2>8, <2>9, <2>10, <2>11 DEF IInv
  <1> QED
    BY <1>1, <1>2 DEF Receive

LEMMA PassKeeps ==
    ASSUME IInv, NEW d \in Directions, Pass(d)
    PROVE  IInv'
  <1>0. /\ handler = "copy" /\ worker[d] = "send" /\ hand[d] # <<>>
        /\ UNCHANGED <<peers, up, shut, cut, handler, failed>>
        /\ UNCHANGED <<sent, ended, got, seen, gone>>
    BY DEF Pass, Running, peers, IInv, StreamOK
  <1>1. CASE /\ gone[Target(d)]
             /\ worker' = [worker EXCEPT ![d] = "shutdown"]
             /\ UNCHANGED <<down, hand>>
    <2>1. Clean(d) \/ Broken
      BY <1>1, Both DEF Broken
    <2>2. UNCHANGED <<peers, sockets, hand, handler, failed>>
      BY <1>0, <1>1 DEF sockets
    <2> QED
      BY <1>0, <1>1, <2>1, <2>2, EndingKeeps
  <1>2. CASE /\ down' = [down EXCEPT ![d] = Append(down[d], Head(hand[d]))]
             /\ hand' = [hand EXCEPT ![d] = Tail(hand[d])]
             /\ worker' = [worker EXCEPT ![d] = IF Tail(hand[d]) = <<>> THEN "recv" ELSE "send"]
    <2>0. PICK g, n, h \in Nat :
             /\ g = Len(got[d]) /\ n = Len(down[d]) /\ h = Len(hand[d])
             /\ Passed(d) = g + n /\ Taken(d) = g + n + h
      <3>1. PICK g, n, h \in Nat : g = Len(got[d]) /\ n = Len(down[d]) /\ h = Len(hand[d])
        BY Types DEF IInv
      <3> QED
        BY <3>1 DEF Passed, Taken
    <2>1. h \in Nat \ {0}
      <3>1. hand[d] \in Seq(Nat)
        BY Types DEF IInv
      <3> QED
        BY <1>0, <2>0, <3>1
    <2>2. down[d] = Pieces(g, n) /\ hand[d] = Pieces(g + n, h) /\ g + n \in Nat
      <3>1. /\ down[d] = Pieces(Len(got[d]), Len(down[d]))
            /\ hand[d] = Pieces(Passed(d), Len(hand[d]))
        BY DEF IInv, Whole
      <3>2. down[d] = Pieces(g, n) /\ hand[d] = Pieces(g + n, h)
        BY <2>0, <3>1, Zenon
      <3> QED
        BY <3>2
    <2>3. Head(hand[d]) = g + n + 1 /\ Tail(hand[d]) = Pieces(g + n + 1, h - 1)
      BY <2>1, <2>2, PiecesTail
    <2>4. Append(down[d], Head(hand[d])) = Pieces(g, n + 1)
      <3>1. Append(Pieces(g, n), g + n + 1) = Pieces(g, n + 1)
        BY PiecesAppend
      <3> QED
        BY <2>2, <2>3, <3>1
    <2>5. /\ Pieces(g, n + 1) \in Seq(Nat) /\ Len(Pieces(g, n + 1)) = n + 1
          /\ Pieces(g + n + 1, h - 1) \in Seq(Nat) /\ Len(Pieces(g + n + 1, h - 1)) = h - 1
      <3>1. n + 1 \in Nat /\ h - 1 \in Nat /\ g + n + 1 \in Nat
        BY <2>1
      <3> QED
        BY <3>1, PiecesType
    <2>6. /\ down' \in [Directions -> Seq(Nat)] /\ down'[d] = Pieces(g, n + 1)
          /\ hand' \in [Directions -> Seq(Nat)] /\ hand'[d] = Pieces(g + n + 1, h - 1)
          /\ \A e \in Directions \ {d} : hand'[e] = hand[e] /\ down'[e] = down[e]
      <3>1. down \in [Directions -> Seq(Nat)] /\ hand \in [Directions -> Seq(Nat)]
        BY DEF IInv, TypeOK
      <3>2. down' = [down EXCEPT ![d] = Pieces(g, n + 1)]
        BY <1>2, <2>4
      <3>3. hand' = [hand EXCEPT ![d] = Pieces(g + n + 1, h - 1)]
        BY <1>2, <2>3
      <3> QED
        BY <2>5, <3>1, <3>2, <3>3
    <2>7. PICK to \in {"recv", "send"} :
             /\ worker' = [worker EXCEPT ![d] = to]
             /\ to = "recv" => Tail(hand[d]) = <<>>
             /\ to = "send" => Tail(hand[d]) # <<>>
      BY <1>2
    <2>8. /\ worker' \in [Directions -> {"recv", "send", "shutdown", "ended"}]
          /\ worker'[d] = to
          /\ \A e \in Directions \ {d} : worker'[e] = worker[e]
      BY <2>7, WorkerMoves
    <2>9. Broken <=> Broken'
      BY <1>0 DEF Broken
    <2>10. TypeOK'
      BY <1>0, <2>6, <2>8 DEF IInv, TypeOK
    <2>11. ASSUME NEW e \in Directions PROVE Whole(e)'
      <3>1. CASE e # d
        BY <1>0, <2>6, <3>1, WholeKept DEF IInv
      <3>2. CASE e = d
        <4>1. Len(got'[d]) = g /\ Len(down'[d]) = n + 1 /\ Len(hand'[d]) = h - 1
          BY <1>0, <2>0, <2>5, <2>6
        <4>2. Passed(d)' = g + n + 1
          BY <4>1 DEF Passed
        <4>3. Taken(d)' = Taken(d)
          <5>1. Taken(d)' = (g + n + 1) + (h - 1)
            BY <4>1, <4>2 DEF Taken
          <5>2. (g + n + 1) + (h - 1) = g + n + h
            BY <2>1
          <5> QED
            BY <2>0, <5>1, <5>2
        <4>4. up[d] = Pieces(Taken(d), Len(up[d])) /\ sent[d] = Taken(d) + Len(up[d])
          BY DEF IInv, Whole
        <4> QED
          BY <1>0, <2>6, <3>2, <4>1, <4>2, <4>3, <4>4 DEF Whole
      <3> QED
        BY <3>1, <3>2
    <2>12. ASSUME NEW e \in Directions PROVE StreamOK(e)'
      <3>1. CASE e # d
        BY <1>0, <2>6, <2>8, <2>9, <3>1, StreamKept DEF IInv
      <3>2. CASE e = d
        <4>1. ~Clean(d)
          BY <1>0 DEF Clean
        <4>2. hand'[d] = Tail(hand[d])
          BY <2>3, <2>6
        <4> QED
          BY <1>0, <2>7, <2>8, <2>9, <3>2, <4>1, <4>2 DEF IInv, StreamOK
      <3> QED
        BY <3>1, <3>2
    <2>13. HandlerOK'
      BY <1>0 DEF HandlerOK
    <2> QED
      BY <2>10, <2>11, <2>12, <2>13 DEF IInv
  <1> QED
    BY <1>1, <1>2 DEF Pass, Rest

LEMMA ShutdownKeeps ==
    ASSUME IInv, NEW d \in Directions, Shutdown(d)
    PROVE  IInv'
  <1>0. /\ worker[d] = "shutdown" /\ worker' = [worker EXCEPT ![d] = "ended"]
        /\ UNCHANGED <<sent, ended, got, seen, gone, up, down, cut, hand, handler, failed>>
    BY DEF Shutdown, peers
  <1>1. /\ worker' \in [Directions -> {"recv", "send", "shutdown", "ended"}]
        /\ worker'[d] = "ended"
        /\ \A e \in Directions \ {d} : worker'[e] = worker[e]
    BY <1>0, WorkerMoves
  <1>2. /\ shut' \in [Directions -> BOOLEAN]
        /\ \A e \in Directions \ {d} : shut'[e] = shut[e]
    BY Zenon DEF Shutdown, EndStream, IInv, TypeOK
  <1>3. Broken <=> Broken'
    BY <1>0 DEF Broken
  <1>4. TypeOK'
    BY <1>0, <1>1, <1>2 DEF IInv, TypeOK
  <1>5. ASSUME NEW e \in Directions PROVE Whole(e)'
    BY <1>0, WholeKept DEF IInv
  <1>6. ASSUME NEW e \in Directions PROVE StreamOK(e)'
    <2>1. CASE e # d
      BY <1>0, <1>1, <1>2, <1>3, <2>1, StreamKept DEF IInv
    <2>2. CASE e = d
      BY <1>0, <1>1, <1>3, <2>2 DEF IInv, StreamOK, Clean
    <2> QED
      BY <2>1, <2>2
  <1>7. HandlerOK'
    BY <1>0, <1>1, <1>3 DEF IInv, HandlerOK
  <1> QED
    BY <1>4, <1>5, <1>6, <1>7 DEF IInv

-----------------------------------------------------------------------------
(* The handler.                                                            *)

LEMMA ConnectKeeps ==
    ASSUME IInv, Connect
    PROVE  IInv'
  <1>0. /\ handler = "connect"
        /\ UNCHANGED <<sent, ended, got, seen, up, down, shut, cut, hand, worker, failed>>
    BY DEF Connect, sockets, copies
  <1>1. /\ gone' \in [Peers -> BOOLEAN] /\ \A q \in Peers : gone[q] => gone'[q]
    BY Zenon DEF Connect, IInv, TypeOK
  <1>2. handler' = "start" \/ (handler' = "release" /\ gone'["server"])
    BY Both DEF Connect, IInv, TypeOK
  <1>3. Broken => Broken'
    BY <1>0, <1>1 DEF Broken
  <1>4. TypeOK'
    BY <1>0, <1>1, <1>2 DEF IInv, TypeOK
  <1>5. ASSUME NEW e \in Directions PROVE Whole(e)' /\ StreamOK(e)'
    BY <1>0, <1>3, WholeKept, StreamKept DEF IInv
  <1>6. HandlerOK'
    BY <1>2, Both DEF HandlerOK, Broken
  <1> QED
    BY <1>4, <1>5, <1>6 DEF IInv

LEMMA StartKeeps ==
    ASSUME IInv, Start
    PROVE  IInv'
  <1>0. /\ UNCHANGED <<sent, ended, got, seen, gone, up, down, shut, cut, hand, worker>>
        /\ handler = "start"
    BY DEF Start, peers, sockets, copies
  <1>1. /\ failed' \in BOOLEAN
        /\ failed => failed'
        /\ handler' = "copy" \/ (handler' = "close" /\ failed')
    BY DEF Start, IInv, TypeOK
  <1>2. Broken => Broken'
    BY <1>0, <1>1 DEF Broken
  <1>3. TypeOK'
    BY <1>0, <1>1 DEF IInv, TypeOK
  <1>4. ASSUME NEW e \in Directions PROVE Whole(e)' /\ StreamOK(e)'
    BY <1>0, <1>2, WholeKept, StreamKept DEF IInv
  <1>5. HandlerOK'
    BY <1>1 DEF HandlerOK
  <1> QED
    BY <1>3, <1>4, <1>5 DEF IInv

\* Closing a socket where the copies have ended, or something is broken.
LEMMA CloseKeeps ==
    ASSUME IInv, NEW d \in Directions, CloseSocket(d), handler' \in {"release", "done"},
           UNCHANGED <<peers, up, down, copies, failed>>,
           Broken \/ \A e \in Directions : worker[e] = "ended"
    PROVE  IInv'
  <1>0. UNCHANGED <<sent, ended, got, seen, gone, up, down, hand, worker, failed>>
    BY DEF peers, copies
  <1>1. Broken <=> Broken'
    BY <1>0 DEF Broken
  <1>2. /\ shut' \in [Directions -> BOOLEAN]
        /\ \A e \in Directions \ {d} : shut'[e] = shut[e]
    BY Zenon DEF CloseSocket, IInv, TypeOK
  <1>3. /\ cut' \in [Directions -> BOOLEAN]
        /\ \A e \in Directions \ {d} : cut'[e] = cut[e]
        /\ cut'[d] <=> (cut[d] \/ up[Back(d)] # <<>>)
    <2>1. cut' = [cut EXCEPT ![d] = cut[d] \/ up[Back(d)] # <<>>]
      BY DEF CloseSocket
    <2>2. (cut[d] \/ up[Back(d)] # <<>>) \in BOOLEAN
      OBVIOUS
    <2> QED
      BY <2>1, <2>2, Zenon DEF IInv, TypeOK
  <1>4. Back(d) \in Directions
    BY Both
  <1>5. ASSUME NEW e \in Directions PROVE Clean(e) \/ Broken
    BY DEF IInv, StreamOK
  <1>6. up[Back(d)] # <<>> => Broken
    BY <1>4, <1>5 DEF Clean
  <1>7. TypeOK'
    BY <1>0, <1>2, <1>3 DEF IInv, TypeOK
  <1>8. ASSUME NEW e \in Directions PROVE Whole(e)'
    BY <1>0, WholeKept DEF IInv
  <1>9. ASSUME NEW e \in Directions PROVE StreamOK(e)'
    <2>1. cut'[e] => cut[e] \/ Broken
      BY <1>3, <1>6
    <2> QED
      BY <1>0, <1>1, <1>5, <2>1, StreamKept DEF IInv
  <1>10. HandlerOK'
    BY <1>0, <1>1 DEF HandlerOK
  <1> QED
    BY <1>7, <1>8, <1>9, <1>10 DEF IInv

LEMMA BothClosed ==
    ASSUME IInv, Close \/ Release
    PROVE  IInv'
  <1>1. Broken \/ \A e \in Directions : worker[e] = "ended"
    BY DEF Close, Release, IInv, HandlerOK, Broken
  <1>2. handler' \in {"release", "done"} /\ UNCHANGED <<peers, up, down, copies, failed>>
    BY DEF Close, Release
  <1>3. (CloseSocket("out") \/ CloseSocket("in")) /\ {"out", "in"} = Directions
    BY DEF Close, Release, Directions
  <1> QED
    BY <1>1, <1>2, <1>3, CloseKeeps

LEMMA StutterKeeps ==
    ASSUME IInv, UNCHANGED vars
    PROVE  IInv'
  <1>0. UNCHANGED <<sent, ended, got, seen, gone, up, down, shut, cut, hand, worker, handler, failed>>
    BY DEF vars, peers, sockets, copies
  <1>1. Broken <=> Broken'
    BY <1>0 DEF Broken
  <1>2. TypeOK'
    BY <1>0 DEF IInv, TypeOK
  <1>3. ASSUME NEW e \in Directions PROVE Whole(e)' /\ StreamOK(e)'
    BY <1>0, <1>1, WholeKept, StreamKept DEF IInv
  <1>4. HandlerOK'
    BY <1>0, <1>1, HandlerKept DEF IInv
  <1> QED
    BY <1>2, <1>3, <1>4 DEF IInv

LEMMA InitIsOK == ASSUME Init PROVE IInv
  <1>1. TypeOK
    <2>1. <<>> \in Seq(Nat) /\ 0 \in 0..Writes
      BY ProxyAssumption
    <2>2. /\ ended \in [Directions -> BOOLEAN] /\ seen \in [Directions -> BOOLEAN]
          /\ gone \in [Peers -> BOOLEAN]
          /\ shut \in [Directions -> BOOLEAN] /\ cut \in [Directions -> BOOLEAN]
      BY Zenon DEF Init
    <2>3. /\ sent \in [Directions -> 0..Writes]
          /\ got \in [Directions -> Seq(Nat)] /\ up \in [Directions -> Seq(Nat)]
          /\ down \in [Directions -> Seq(Nat)] /\ hand \in [Directions -> Seq(Nat)]
          /\ worker \in [Directions -> {"recv", "send", "shutdown", "ended"}]
          /\ handler \in {"connect", "start", "copy", "close", "release", "done"}
          /\ failed \in BOOLEAN
      BY <2>1 DEF Init
    <2> QED
      BY <2>2, <2>3 DEF TypeOK
  <1>2. ASSUME NEW d \in Directions PROVE Whole(d)
    <2>1. /\ got[d] = <<>> /\ down[d] = <<>> /\ hand[d] = <<>> /\ up[d] = <<>> /\ sent[d] = 0
      BY DEF Init
    <2>2. Pieces(0, 0) = <<>>
      BY DEF Pieces
    <2> QED
      BY <2>1, <2>2 DEF Whole, Passed, Taken
  <1>3. ASSUME NEW d \in Directions PROVE StreamOK(d)
    BY Zenon DEF Init, StreamOK
  <1>4. HandlerOK
    BY DEF Init, HandlerOK
  <1> QED
    BY <1>1, <1>2, <1>3, <1>4 DEF IInv

LEMMA StepKeeps == ASSUME IInv, [Next]_vars PROVE IInv'
  BY WriteKeeps, FinishKeeps, ReadKeeps, SeeEndKeeps, ReceiveKeeps, PassKeeps,
     ShutdownKeeps, LeaveKeeps, ConnectKeeps, StartKeeps, BothClosed, StutterKeeps
  DEF Next

LEMMA Invariance == Spec => []IInv
  BY InitIsOK, StepKeeps, PTL DEF Spec

\* Peers, sockets, copies and the handler of cql-proxy.py stay within their
\* types, however much is written.
THEOREM TypeCorrect == Spec => []TypeOK
  <1>1. IInv => TypeOK
    BY DEF IInv
  <1> QED
    BY <1>1, Invariance, PTL

-----------------------------------------------------------------------------
(* The forwarder is two streams.                                           *)

\* To the two streams, somebody has left where the forwarder is Broken.
LEMMA LeftIsBroken ==
    /\ Broken <=> \E p \in Peers : [q \in Peers |-> gone[q] \/ (q = "server" /\ failed)][p]
    /\ Duplex!Peers = Peers /\ Duplex!Directions = Directions
  BY Both, Zenon DEF Broken, Duplex!Peers, Duplex!Directions, Peers, Directions

LEMMA InitMaps == ASSUME Init PROVE Duplex!Init
  <1>1. [p \in Peers |-> gone[p] \/ (p = "server" /\ failed)] = [p \in Peers |-> FALSE]
    BY Zenon DEF Init
  <1> QED
    BY <1>1 DEF Init, Duplex!Init, Duplex!Directions, Duplex!Peers, Directions, Peers

\* What the steps of a direction are to the streams.
LEMMA DirectionMaps ==
    ASSUME IInv, NEW d \in Directions,
           Write(d) \/ Finish(d) \/ Read(d) \/ SeeEnd(d)
    PROVE  Duplex!Next
  <1>0. d \in Duplex!Directions
    BY LeftIsBroken
  <1>1. ASSUME UNCHANGED <<gone, failed>>
        PROVE  [p \in Peers |-> gone[p] \/ (p = "server" /\ failed)]'
                  = [p \in Peers |-> gone[p] \/ (p = "server" /\ failed)]
    BY <1>1
  <1>2. CASE Write(d)
    BY <1>0, <1>1, <1>2 DEF Write, Duplex!Next, Duplex!Write
  <1>3. CASE Finish(d)
    BY <1>0, <1>1, <1>3 DEF Finish, Duplex!Next, Duplex!Finish
  <1>4. CASE Read(d)
    <2>1. got[d] \in Seq(Nat) /\ down[d] \in Seq(Nat) /\ down[d] # <<>>
      BY <1>4, Types DEF Read, IInv
    <2>2. PICK g, n, h, m \in Nat :
             /\ g = Len(got[d]) /\ n = Len(down[d]) /\ h = Len(hand[d]) /\ m = Len(up[d])
      BY Types DEF IInv
    <2>3. n # 0
      BY <2>1, <2>2
    <2>4. down[d] = Pieces(g, n) /\ sent[d] = g + n + h + m
      <3>1. down[d] = Pieces(Len(got[d]), Len(down[d])) /\ sent[d] = Taken(d) + Len(up[d])
        BY DEF IInv, Whole
      <3> QED
        BY <2>2, <3>1 DEF Taken, Passed
    <2>5. Head(down[d]) = g + 1
      <3>1. n \in Nat \ {0}
        BY <2>3
      <3> QED
        BY <2>4, <3>1, PiecesTail
    <2>6. g < sent[d]
      BY <2>3, <2>4
    <2>7. got' = [got EXCEPT ![d] = Append(got[d], Len(got[d]) + 1)]
      BY <1>4, <2>2, <2>5 DEF Read
    <2>8. Len(got[d]) < sent[d] /\ ~seen[d] /\ UNCHANGED <<sent, ended, seen, gone, failed>>
      BY <1>4, <2>2, <2>6 DEF Read
    <2> QED
      BY <1>0, <1>1, <2>7, <2>8 DEF Duplex!Next, Duplex!Read
  <1>5. CASE SeeEnd(d)
    <2>1. Clean(d) /\ down[d] = <<>> => Len(got[d]) = sent[d]
      <3>1. ASSUME Clean(d), down[d] = <<>>
            PROVE  Len(got[d]) = sent[d]
        <4>1. PICK g \in Nat : g = Len(got[d])
          BY Types DEF IInv
        <4>2. Len(down[d]) = 0 /\ Len(hand[d]) = 0 /\ Len(up[d]) = 0
          BY <3>1 DEF Clean
        <4>3. sent[d] = Len(got[d]) + Len(down[d]) + Len(hand[d]) + Len(up[d])
          BY DEF IInv, Whole, Taken, Passed
        <4>4. sent[d] = g + 0 + 0 + 0
          BY <4>1, <4>2, <4>3
        <4> QED
          BY <4>1, <4>4
      <3> QED
        BY <3>1
    <2>2. \/ ended[d] /\ Len(got[d]) = sent[d]
          \/ Broken
      BY <1>5, <2>1 DEF SeeEnd, IInv, StreamOK, Clean
    <2>3. UNCHANGED <<sent, ended, got, gone, failed>> /\ seen' = [seen EXCEPT ![d] = TRUE]
      BY <1>5 DEF SeeEnd
    <2> QED
      BY <1>0, <1>1, <2>2, <2>3, LeftIsBroken DEF Duplex!Next, Duplex!SeeEnd
  <1> QED
    BY <1>2, <1>3, <1>4, <1>5

\* A peer that leaves, a server that is not there, a thread that cannot start.
LEMMA LeavingMaps ==
    ASSUME IInv, NEW p \in Peers, UNCHANGED <<sent, ended, got, seen>>,
           \/ gone' = [gone EXCEPT ![p] = TRUE] /\ failed' = failed
           \/ gone' = gone /\ p = "server" /\ failed' = TRUE
    PROVE  Duplex!Next
  <1>1. [q \in Peers |-> gone[q] \/ (q = "server" /\ failed)]'
           = [[q \in Peers |-> gone[q] \/ (q = "server" /\ failed)] EXCEPT ![p] = TRUE]
    <2>1. CASE gone' = [gone EXCEPT ![p] = TRUE] /\ failed' = failed
      <3>1. ASSUME NEW q \in Peers
            PROVE  (gone[q] \/ (q = "server" /\ failed))'
                      = (IF q = p THEN TRUE ELSE gone[q] \/ (q = "server" /\ failed))
        BY <2>1, Zenon DEF IInv, TypeOK
      <3> QED
        BY <3>1, Zenon
    <2>2. CASE gone' = gone /\ p = "server" /\ failed' = TRUE
      <3>1. ASSUME NEW q \in Peers
            PROVE  (gone[q] \/ (q = "server" /\ failed))'
                      = (IF q = p THEN TRUE ELSE gone[q] \/ (q = "server" /\ failed))
        <4>1. CASE q = p
          BY <2>2, <4>1, Zenon
        <4>2. CASE q # p
          BY <2>2, <4>2, Zenon
        <4> QED
          BY <4>1, <4>2
      <3> QED
        BY <3>1, Zenon
    <2> QED
      BY <2>1, <2>2
  <1> QED
    BY <1>1, LeftIsBroken DEF Duplex!Next, Duplex!Leave

\* A step of the forwarder alone is none of the streams.
LEMMA QuietMaps ==
    ASSUME UNCHANGED <<peers, failed>>
    PROVE  UNCHANGED Duplex!pipe
  BY DEF peers, Duplex!pipe

\* cql-proxy.py implements two streams that are in order and whole, and that
\* end only where the writer has ended them or somebody has left: for any
\* number of pieces, any room in the sockets and any order of the two copies,
\* the half-closes and the two close calls.
THEOREM ProxyIsDuplex == Spec => ImplementsDuplex
  <1>1. ASSUME IInv, [Next]_vars PROVE [Duplex!Next]_(Duplex!pipe)
    <2>1. ASSUME NEW d \in Directions,
                 Write(d) \/ Finish(d) \/ Read(d) \/ SeeEnd(d)
          PROVE  Duplex!Next
      BY <1>1, <2>1, DirectionMaps
    <2>2. ASSUME NEW d \in Directions, Receive(d) \/ Pass(d) \/ Shutdown(d)
          PROVE  UNCHANGED <<peers, failed>>
      BY <2>2 DEF Receive, Pass, Shutdown
    <2>3. ASSUME NEW p \in Peers, Leave(p)
          PROVE  Duplex!Next
      BY <1>1, <2>3, LeavingMaps DEF Leave
    <2>4. ASSUME Connect
          PROVE  Duplex!Next \/ UNCHANGED <<peers, failed>>
      <3>1. UNCHANGED <<sent, ended, got, seen, failed>>
        BY <2>4 DEF Connect
      <3>2. CASE UNCHANGED gone
        BY <3>1, <3>2 DEF peers
      <3>3. CASE gone' = [gone EXCEPT !["server"] = TRUE]
        BY <1>1, <3>1, <3>3, LeavingMaps, Both
      <3> QED
        BY <2>4, <3>2, <3>3 DEF Connect
    <2>5. ASSUME Start
          PROVE  Duplex!Next \/ UNCHANGED <<peers, failed>>
      <3>1. UNCHANGED peers /\ UNCHANGED <<sent, ended, got, seen>> /\ gone' = gone
        BY <2>5 DEF Start, peers
      <3>2. CASE failed' = TRUE
        BY <1>1, <3>1, <3>2, LeavingMaps, Both
      <3> QED
        BY <2>5, <3>1, <3>2 DEF Start
    <2>6. ASSUME Close \/ Release \/ UNCHANGED vars
          PROVE  UNCHANGED <<peers, failed>>
      BY <2>6 DEF Close, Release, vars
    <2> QED
      BY <1>1, <2>1, <2>2, <2>3, <2>4, <2>5, <2>6, QuietMaps DEF Next
  <1> QED
    BY <1>1, InitMaps, Invariance, PTL DEF Spec, ImplementsDuplex, Duplex!Spec

-----------------------------------------------------------------------------
(* A slow reader.                                                          *)

\* No buffer holds more than it takes, as long as its reader is there.
RoomKept(d) ==
    /\ Len(up[d]) \leq Room /\ Len(hand[d]) \leq Room
    /\ ~gone[Target(d)] => Len(down[d]) \leq Room

\* A piece that is read, or taken from the front, makes room.
LEMMA TailIsShorter ==
    ASSUME NEW s \in Seq(Nat), s # <<>>
    PROVE  Tail(s) \in Seq(Nat) /\ Len(Tail(s)) = Len(s) - 1
  OBVIOUS

LEMMA RoomCarries ==
    ASSUME NEW d \in Directions, RoomKept(d), gone[Target(d)] => gone'[Target(d)],
           up'[d] = up[d], hand'[d] = hand[d], down'[d] = down[d]
    PROVE  RoomKept(d)'
  BY DEF RoomKept, Target

LEMMA WriteKeepsRoom ==
    ASSUME IInv, NEW e \in Directions, Write(e), NEW d \in Directions, RoomKept(d)
    PROVE  RoomKept(d)'
  <1>0. UNCHANGED <<gone, down, hand>>
    BY DEF Write, copies
  <1>1. CASE d # e
    BY <1>0, <1>1, RoomCarries DEF Write, IInv, TypeOK
  <1>2. CASE d = e
    <2>1. up[e] \in Seq(Nat) /\ sent'[e] \in Nat /\ Len(up[e]) < Room
      <3>1. sent'[e] = sent[e] + 1
        BY DEF Write, IInv, TypeOK
      <3> QED
        BY <3>1, Types DEF Write, IInv
    <2>2. up'[e] = Append(up[e], sent'[e])
      BY DEF Write, IInv, TypeOK
    <2>3. Len(up'[e]) = Len(up[e]) + 1
      BY <2>1, <2>2
    <2>4. Len(up'[e]) \leq Room
      BY <2>1, <2>3, ProxyAssumption
    <2> QED
      BY <1>0, <1>2, <2>4 DEF RoomKept, Target
  <1> QED
    BY <1>1, <1>2

LEMMA ReadKeepsRoom ==
    ASSUME IInv, NEW e \in Directions, Read(e), NEW d \in Directions, RoomKept(d)
    PROVE  RoomKept(d)'
  <1>0. UNCHANGED <<gone, up, hand>>
    BY DEF Read, copies
  <1>1. CASE d # e
    BY <1>0, <1>1, RoomCarries DEF Read, IInv, TypeOK
  <1>2. CASE d = e
    <2>1. down[e] \in Seq(Nat) /\ down[e] # <<>> /\ down'[e] = Tail(down[e])
      BY DEF Read, IInv, TypeOK
    <2>2. Len(down'[e]) = Len(down[e]) - 1 /\ Len(down[e]) \in Nat
      BY <2>1, TailIsShorter
    <2> QED
      BY <1>0, <1>2, <2>2, ProxyAssumption DEF RoomKept, Target
  <1> QED
    BY <1>1, <1>2

LEMMA ReceiveKeepsRoom ==
    ASSUME IInv, NEW e \in Directions, Receive(e), NEW d \in Directions, RoomKept(d)
    PROVE  RoomKept(d)'
  <1>0. UNCHANGED <<gone, down>>
    BY DEF Receive, peers
  <1>1. CASE UNCHANGED <<hand, up>>
    BY <1>0, <1>1, RoomCarries
  <1>2. ASSUME NEW n \in 1..Len(up[e]),
               hand' = [hand EXCEPT ![e] = SubSeq(up[e], 1, n)],
               up' = [up EXCEPT ![e] = SubSeq(up[e], n + 1, Len(up[e]))]
        PROVE  RoomKept(d)'
    <2>1. CASE d # e
      BY <1>0, <1>2, <2>1, RoomCarries DEF IInv, TypeOK
    <2>2. CASE d = e
      <3>1. /\ up[e] \in Seq(Nat) /\ Len(up[e]) \in Nat /\ Len(up[e]) \leq Room
            /\ hand'[e] = SubSeq(up[e], 1, n)
            /\ up'[e] = SubSeq(up[e], n + 1, Len(up[e]))
        BY <1>2, <2>2, Types DEF IInv, TypeOK, RoomKept
      <3>2. Len(hand'[e]) = n /\ Len(up'[e]) = Len(up[e]) - n
        BY <3>1
      <3>3. Len(hand'[e]) \leq Room /\ Len(up'[e]) \leq Room
        BY <3>1, <3>2, ProxyAssumption
      <3> QED
        BY <1>0, <2>2, <3>3 DEF RoomKept, Target
    <2> QED
      BY <2>1, <2>2
  <1> QED
    BY <1>1, <1>2 DEF Receive

LEMMA PassKeepsRoom ==
    ASSUME IInv, NEW e \in Directions, Pass(e), NEW d \in Directions, RoomKept(d)
    PROVE  RoomKept(d)'
  <1>0. UNCHANGED <<gone, up>> /\ hand[e] # <<>>
    BY DEF Pass, peers, IInv, StreamOK
  <1>1. CASE UNCHANGED <<down, hand>>
    BY <1>0, <1>1, RoomCarries
  <1>2. CASE /\ Len(down[e]) < Room \/ gone[Target(e)]
             /\ down' = [down EXCEPT ![e] = Append(down[e], Head(hand[e]))]
             /\ hand' = [hand EXCEPT ![e] = Tail(hand[e])]
    <2>1. CASE d # e
      BY <1>0, <1>2, <2>1, RoomCarries DEF IInv, TypeOK
    <2>2. CASE d = e
      <3>1. /\ down[e] \in Seq(Nat) /\ hand[e] \in Seq(Nat)
            /\ down'[e] = Append(down[e], Head(hand[e])) /\ hand'[e] = Tail(hand[e])
        BY <1>2 DEF IInv, TypeOK
      <3>2. /\ Len(hand'[e]) = Len(hand[e]) - 1 /\ Len(hand[e]) \in Nat
            /\ Len(down'[e]) = Len(down[e]) + 1 /\ Len(down[e]) \in Nat
        BY <1>0, <3>1, TailIsShorter
      <3> QED
        BY <1>0, <1>2, <2>2, <3>2, ProxyAssumption DEF RoomKept, Target
    <2> QED
      BY <2>1, <2>2
  <1> QED
    BY <1>1, <1>2 DEF Pass, Rest

LEMMA OthersKeepRoom ==
    ASSUME IInv, NEW d \in Directions, RoomKept(d),
           \/ \E e \in Directions : Finish(e) \/ SeeEnd(e) \/ Shutdown(e)
           \/ \E p \in Peers : Leave(p)
           \/ Connect \/ Start \/ Close \/ Release \/ UNCHANGED vars
    PROVE  RoomKept(d)'
  <1>1. UNCHANGED <<up, hand, down>>
    BY DEF Finish, SeeEnd, Shutdown, Leave, Connect, Start, Close, Release, vars, peers,
           sockets, copies
  <1>2. \A p \in Peers : gone[p] => gone'[p]
    <2>1. ASSUME NEW q \in Peers, gone' = [gone EXCEPT ![q] = TRUE]
          PROVE  \A p \in Peers : gone[p] => gone'[p]
      BY <2>1, Zenon DEF IInv, TypeOK
    <2>2. \/ gone' = gone
          \/ \E q \in Peers : gone' = [gone EXCEPT ![q] = TRUE]
      BY Both
      DEF Finish, SeeEnd, Shutdown, Leave, Connect, Start, Close, Release, vars, peers
    <2> QED
      BY <2>1, <2>2
  <1> QED
    BY <1>1, <1>2, Both, RoomCarries

\* While its reader is there, a writer is ahead of it by three buffers at the
\* most: the forwarder keeps no more than one recv in hand, however much the
\* one side writes and however slowly the other one reads.
SlowReaderHoldsWriter ==
    \A d \in Directions :
        /\ Len(hand[d]) \leq Room
        /\ ~gone[Target(d)] => sent[d] \leq Len(got[d]) + 3 * Room

\* copy() of cql-proxy.py takes no piece before it is rid of the last ones, so
\* back-pressure reaches the writer and the forwarder's memory is bounded.
THEOREM MemoryIsBounded == Spec => []SlowReaderHoldsWriter
  <1> DEFINE Inv == \A d \in Directions : RoomKept(d)
  <1>1. Init => Inv
    BY ProxyAssumption DEF Init, RoomKept
  <1>2. IInv /\ Inv /\ [Next]_vars => Inv'
    BY WriteKeepsRoom, ReadKeepsRoom, ReceiveKeepsRoom, PassKeepsRoom, OthersKeepRoom
    DEF Next
  <1>3. IInv /\ Inv => SlowReaderHoldsWriter
    <2> SUFFICES ASSUME IInv, NEW d \in Directions, RoomKept(d)
                 PROVE  /\ Len(hand[d]) \leq Room
                        /\ ~gone[Target(d)] => sent[d] \leq Len(got[d]) + 3 * Room
      BY DEF SlowReaderHoldsWriter
    <2>1. sent[d] = Len(got[d]) + Len(down[d]) + Len(hand[d]) + Len(up[d])
      BY DEF IInv, Whole, Taken, Passed
    <2>2. PICK g, n, h, u \in Nat :
             g = Len(got[d]) /\ n = Len(down[d]) /\ h = Len(hand[d]) /\ u = Len(up[d])
      BY Types DEF IInv
    <2>3. h \leq Room /\ u \leq Room /\ (~gone[Target(d)] => n \leq Room)
      BY <2>2 DEF RoomKept
    <2>4. sent[d] = g + n + h + u
      BY <2>1, <2>2
    <2>5. n \leq Room => g + n + h + u \leq g + 3 * Room
      BY <2>3, ProxyAssumption
    <2> QED
      BY <2>2, <2>3, <2>4, <2>5
  <1> HIDE DEF Inv
  <1> QED
    BY <1>1, <1>2, <1>3, Invariance, PTL DEF Spec

=============================================================================
