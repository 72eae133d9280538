------------------------ MODULE BrowserClientProofs ------------------------
(***************************************************************************)
(* Theorems about the browser client, for any number of attempts and of    *)
(* messages, any sizes and any limits of the queue.                        *)
(***************************************************************************)
EXTENDS BrowserClient, SequenceTheorems, TLAPS

(***************************************************************************)
(* The dial.                                                               *)
(***************************************************************************)
SocketStates == {"none", "connecting", "open", "taken", "closing", "closed"}

DialType ==
    /\ attempt \in 0 .. MaxDials
    /\ dial \in {"idle", "waiting", "connected"} \cup Outcomes
    /\ sockets \in [Dials -> SocketStates]
    /\ handlers \in [Dials -> SUBSET {"onopen", "onerror"}]

\* A dial that waits hears how its handshake ends, and its context has not
\* ended: without the handlers it would wait on with an open or a closed socket.
WaitsForHandshake ==
    /\ dial = "waiting" => /\ attempt \in Dials
                           /\ sockets[attempt] = "connecting"
                           /\ handlers[attempt] = {"onopen", "onerror"}
                           /\ ~cancelled
    /\ Woken => attempt \in Dials

\* A dial returns what happened to its own socket or context: the socket it
\* makes a connection of is still open then.
WokenByTheEvent ==
    /\ dial = "open" => sockets[attempt] = "open"
    /\ dial = "error" => sockets[attempt] = "closed"
    /\ dial = "cancel" => cancelled

DialInv ==
    DialType /\ WaitsForHandshake /\ WokenByTheEvent /\ NoOrphanSocket /\ NoReleasedHandler

LEMMA DialInit == ClientInit => DialInv
  BY DialAssumption
  DEF ClientInit, DialInv, DialType, WaitsForHandshake, WokenByTheEvent, NoOrphanSocket, NoReleasedHandler,
      SocketStates, Woken, Outcomes, Dials

LEMMA DialInductive == DialInv /\ [ClientNext]_clientVars => DialInv'
  <1> SUFFICES ASSUME DialInv, [ClientNext]_clientVars
               PROVE  DialInv'
    OBVIOUS
  <1> USE DialAssumption DEF DialInv, Woken, Outcomes
  <1>1. CASE DialStarts
    <2>1. attempt + 1 \in Dials /\ attempt' = attempt + 1
      BY <1>1 DEF DialStarts, DialType, Dials
    <2>2. \A d \in Dials : sockets[d] \notin {"connecting", "open"} /\ handlers[d] = {}
      BY <1>1 DEF DialStarts, NoOrphanSocket, NoReleasedHandler
    <2>3. dial' \in {"waiting", "cancel"}
      BY <1>1 DEF DialStarts
    <2>4. DialType'
      BY <1>1, <2>1, <2>3 DEF DialStarts, DialType, SocketStates, Dials
    <2>. QED
      BY <1>1, <2>1, <2>2, <2>3, <2>4
      DEF DialStarts, DialType, WaitsForHandshake, WokenByTheEvent, NoOrphanSocket, NoReleasedHandler
  <1>2. CASE DialUnavailable
    BY <1>2 DEF DialUnavailable, DialType, WaitsForHandshake, WokenByTheEvent, NoOrphanSocket, NoReleasedHandler
  <1>3. CASE Cancel
    BY <1>3 DEF Cancel, DialType, WaitsForHandshake, WokenByTheEvent, NoOrphanSocket, NoReleasedHandler
  <1>4. CASE ReturnConn
    BY <1>4 DEF ReturnConn, ClearHandlers, DialType, SocketStates, WaitsForHandshake, WokenByTheEvent,
                NoOrphanSocket, NoReleasedHandler
  <1>5. CASE ReturnError
    BY <1>5 DEF ReturnError, ClearHandlers, CloseSocket, DialType, SocketStates, WaitsForHandshake, WokenByTheEvent,
                NoOrphanSocket, NoReleasedHandler
  <1>6. CASE ReturnCancelled
    BY <1>6 DEF ReturnCancelled, ClearHandlers, CloseSocket, DialType, SocketStates,
                WaitsForHandshake, WokenByTheEvent, NoOrphanSocket, NoReleasedHandler
  <1>7. ASSUME NEW d \in Dials, OpenFires(d) \/ ErrorFires(d)
        PROVE  DialInv'
    <2>1. d = attempt /\ dial = "waiting"
      BY <1>7 DEF OpenFires, ErrorFires, Event, NoOrphanSocket
    <2>. QED
      BY <1>7, <2>1
      DEF OpenFires, ErrorFires, Event, Calls, DialType, SocketStates, WaitsForHandshake, WokenByTheEvent,
          NoOrphanSocket, NoReleasedHandler
  <1>8. ASSUME NEW d \in Dials, CloseFires(d)
        PROVE  DialInv'
    <2>1. d = attempt => dial # "waiting"
      BY <1>8 DEF CloseFires, Event, WaitsForHandshake
    <2>2. dial' = dial
      BY <1>8, <2>1 DEF CloseFires, Calls
    <2>. QED
      BY <1>8, <2>1, <2>2
      DEF CloseFires, Event, DialType, SocketStates, WaitsForHandshake, WokenByTheEvent, NoOrphanSocket,
          NoReleasedHandler
  <1>9. CASE UNCHANGED dialVars
    BY <1>9 DEF dialVars, DialType, WaitsForHandshake, WokenByTheEvent, NoOrphanSocket, NoReleasedHandler
  <1>. QED
    BY <1>1, <1>2, <1>3, <1>4, <1>5, <1>6, <1>7, <1>8, <1>9
    DEF ClientNext, DialStep, clientVars, dialVars

\* No attempt leaves a socket behind that may still open or is open, and an
\* open one goes to its connection with no event in between (dialer.go:107-135).
THEOREM NoSocketIsLeftBehind == ClientSpec => []NoOrphanSocket
  <1>1. DialInv => NoOrphanSocket
    BY DEF DialInv
  <1>. QED
    BY <1>1, DialInit, DialInductive, PTL DEF ClientSpec

\* A socket whose dial has returned, connected, failed or cancelled, keeps no
\* handler of it, so nothing calls a released js.Func (dialer.go:107-135).
THEOREM NoHandlerIsLeftBehind == ClientSpec => []NoReleasedHandler
  <1>1. DialInv => NoReleasedHandler
    BY DEF DialInv
  <1>. QED
    BY <1>1, DialInit, DialInductive, PTL DEF ClientSpec

\* A dial that waits has a socket that is still connecting, both handlers on it
\* and a context that has not ended, so whatever happens next wakes it; and it
\* returns what happened: the connection is made of a socket that is open
\* (dialer.go:73-135).
THEOREM WaitingDialIsHeard == ClientSpec => [](WaitsForHandshake /\ WokenByTheEvent)
  <1>1. DialInv => WaitsForHandshake /\ WokenByTheEvent
    BY DEF DialInv
  <1>. QED
    BY <1>1, DialInit, DialInductive, PTL DEF ClientSpec

-----------------------------------------------------------------------------
(***************************************************************************)
(* Runs of consecutive bytes.                                              *)
(***************************************************************************)
LEMMA BytesProperties ==
    ASSUME NEW a \in Nat, NEW b \in Nat, 1 <= a, a <= b + 1
    PROVE  /\ Bytes(a, b) \in Seq(Nat)
           /\ Len(Bytes(a, b)) = b - a + 1
           /\ \A i \in 1 .. b - a + 1 : Bytes(a, b)[i] = a + i - 1
  <1>1. Bytes(a, b) \in [1 .. b - a + 1 -> Nat] /\ b - a + 1 \in Nat
    BY DEF Bytes
  <1>. QED
    BY <1>1, SeqDef DEF Bytes

LEMMA BytesEqual ==
    ASSUME NEW a \in Nat, NEW b \in Nat, 1 <= a, a <= b + 1, NEW s \in Seq(Nat),
           Len(s) = b - a + 1, \A i \in 1 .. b - a + 1 : s[i] = a + i - 1
    PROVE  s = Bytes(a, b)
  <1>1. /\ Bytes(a, b) \in Seq(Nat)
        /\ Len(Bytes(a, b)) = b - a + 1
        /\ \A i \in 1 .. b - a + 1 : Bytes(a, b)[i] = a + i - 1
    BY BytesProperties
  <1>2. Len(s) = Len(Bytes(a, b)) /\ \A i \in 1 .. Len(s) : s[i] = Bytes(a, b)[i]
    BY <1>1
  <1>. QED
    BY <1>1, <1>2, SeqEqual

LEMMA BytesConcat ==
    ASSUME NEW a \in Nat, NEW b \in Nat, NEW c \in Nat, 1 <= a, a <= b + 1, b <= c
    PROVE  Bytes(a, b) \o Bytes(b + 1, c) = Bytes(a, c)
  <1> DEFINE s == Bytes(a, b)
             t == Bytes(b + 1, c)
  <1>1. s \in Seq(Nat) /\ Len(s) = b - a + 1 /\ \A i \in 1 .. b - a + 1 : s[i] = a + i - 1
    BY BytesProperties
  <1>2. t \in Seq(Nat) /\ Len(t) = c - b /\ \A i \in 1 .. c - b : t[i] = b + i
    <2>1. b + 1 \in Nat /\ 1 <= b + 1 /\ b + 1 <= c + 1
      OBVIOUS
    <2>2. /\ t \in Seq(Nat)
          /\ Len(t) = c - (b + 1) + 1
          /\ \A i \in 1 .. c - (b + 1) + 1 : t[i] = (b + 1) + i - 1
      BY <2>1, BytesProperties
    <2> HIDE DEF t
    <2>. QED
      BY <2>2
  <1> HIDE DEF s, t
  <1>3. /\ s \o t \in Seq(Nat)
        /\ Len(s \o t) = Len(s) + Len(t)
        /\ \A i \in 1 .. Len(s) + Len(t) :
              (s \o t)[i] = IF i <= Len(s) THEN s[i] ELSE t[i - Len(s)]
    BY <1>1, <1>2, ConcatProperties
  <1>4. Len(s) + Len(t) = c - a + 1 /\ a <= c + 1
    BY <1>1, <1>2
  <1>5. \A i \in 1 .. c - a + 1 : (s \o t)[i] = a + i - 1
    BY <1>1, <1>2, <1>3, <1>4
  <1>6. s \o t = Bytes(a, c)
    BY <1>3, <1>4, <1>5, BytesEqual
  <1>. QED
    BY <1>6 DEF s, t

\* Cutting a run after its byte b gives two runs.
LEMMA BytesSplit ==
    ASSUME NEW a \in Nat, NEW b \in Nat, NEW c \in Nat, 1 <= a, a <= b + 1, b <= c
    PROVE  /\ SubSeq(Bytes(a, c), 1, b - a + 1) = Bytes(a, b)
           /\ Rest(Bytes(a, c), b - a + 1) = Bytes(b + 1, c)
  <1> DEFINE s == Bytes(a, c)
  <1>1. s \in Seq(Nat) /\ Len(s) = c - a + 1 /\ \A i \in 1 .. c - a + 1 : s[i] = a + i - 1
    BY BytesProperties
  <1> HIDE DEF s
  <1>2. SubSeq(s, 1, b - a + 1) = Bytes(a, b)
    <2>1. \A i \in 1 .. b - a + 1 : s[i] \in Nat
      BY <1>1
    <2>2. /\ SubSeq(s, 1, b - a + 1) \in Seq(Nat)
          /\ Len(SubSeq(s, 1, b - a + 1)) = b - a + 1
          /\ \A i \in 1 .. b - a + 1 : SubSeq(s, 1, b - a + 1)[i] = s[i]
      BY <2>1, SubSeqProperties
    <2>3. \A i \in 1 .. b - a + 1 : SubSeq(s, 1, b - a + 1)[i] = a + i - 1
      BY <1>1, <2>2
    <2>. QED
      BY <2>2, <2>3, BytesEqual
  <1>3. SubSeq(s, b - a + 1 + 1, c - a + 1) = Bytes(b + 1, c)
    <2> DEFINE r == SubSeq(s, b - a + 1 + 1, c - a + 1)
    <2>1. \A i \in b - a + 1 + 1 .. c - a + 1 : s[i] \in Nat
      BY <1>1
    <2>2. /\ r \in Seq(Nat)
          /\ Len(r) = c - b
          /\ \A i \in 1 .. c - b : r[i] = s[b - a + 1 + i]
      BY <2>1, SubSeqProperties
    <2> HIDE DEF r
    <2>3. \A i \in 1 .. c - b : r[i] = b + i
      BY <1>1, <2>2
    <2>4. /\ b + 1 \in Nat /\ 1 <= b + 1 /\ b + 1 <= c + 1 /\ Len(r) = c - (b + 1) + 1
          /\ \A i \in 1 .. c - (b + 1) + 1 : r[i] = (b + 1) + i - 1
      BY <2>2, <2>3
    <2>5. r = Bytes(b + 1, c)
      BY <2>2, <2>4, BytesEqual
    <2>. QED
      BY <2>5 DEF r
  <1>. QED
    BY <1>1, <1>2, <1>3 DEF s, Rest

-----------------------------------------------------------------------------
(***************************************************************************)
(* The queue.  Its slots beyond head hold consecutive runs of bytes, some  *)
(* of them empty: off says where each of them ends.                        *)
(***************************************************************************)
Cuts(off, q, h, from, to) ==
    /\ off \in [h .. Len(q) -> 0 .. to]
    /\ off[h] = from /\ off[Len(q)] = to
    /\ \A i \in h + 1 .. Len(q) : off[i - 1] <= off[i] /\ q[i] = Bytes(off[i - 1] + 1, off[i])

Lined(q, h, from, to) == \E off : Cuts(off, q, h, from, to)

Queue(q, h) == q \in Seq(Seq(Nat)) /\ h \in 0 .. Len(q)

LEMMA LinedEmpty ==
    ASSUME NEW to \in Nat
    PROVE  Queue(<<>>, 0) /\ Lined(<<>>, 0, to, to)
  <1> DEFINE off == [i \in 0 .. 0 |-> to]
  <1>1. Cuts(off, <<>>, 0, to, to)
    BY DEF Cuts
  <1>. QED
    BY <1>1 DEF Lined, Queue

LEMMA LinedAppend ==
    ASSUME NEW q, NEW h, Queue(q, h), NEW from, NEW to \in Nat, NEW size \in Nat,
           Lined(q, h, from, to)
    PROVE  /\ Queue(Append(q, Bytes(to + 1, to + size)), h)
           /\ Len(Append(q, Bytes(to + 1, to + size))) = Len(q) + 1
           /\ Lined(Append(q, Bytes(to + 1, to + size)), h, from, to + size)
  <1> DEFINE m == Bytes(to + 1, to + size)
             a == Append(q, m)
  <1>1. m \in Seq(Nat)
    BY BytesProperties
  <1> HIDE DEF m
  <1>2. /\ a \in Seq(Seq(Nat)) /\ Len(a) = Len(q) + 1
        /\ \A i \in 1 .. Len(q) : a[i] = q[i]
        /\ a[Len(q) + 1] = m
    BY <1>1, AppendProperties DEF Queue
  <1> HIDE DEF a
  <1>3. PICK off : Cuts(off, q, h, from, to)
    BY DEF Lined
  <1> DEFINE new == [i \in h .. Len(q) + 1 |-> IF i <= Len(q) THEN off[i] ELSE to + size]
  <1>4. Len(q) \in Nat /\ h \in 0 .. Len(q)
    BY DEF Queue
  <1>5. new \in [h .. Len(a) -> 0 .. to + size]
    BY <1>2, <1>3, <1>4 DEF Cuts
  <1>6. new[h] = from /\ new[Len(a)] = to + size
    BY <1>2, <1>3, <1>4 DEF Cuts
  <1>7. ASSUME NEW i \in h + 1 .. Len(a)
        PROVE  new[i - 1] <= new[i] /\ a[i] = Bytes(new[i - 1] + 1, new[i])
    <2>1. CASE i <= Len(q)
      BY <1>2, <1>3, <1>4, <2>1, SMTT(30) DEF Cuts
    <2>2. CASE i = Len(q) + 1
      <3>1. new[i - 1] = to /\ new[i] = to + size
        BY <1>3, <1>4, <2>2 DEF Cuts
      <3>. QED
        BY <1>2, <2>2, <3>1 DEF m
    <2>. QED
      BY <1>2, <1>4, <2>1, <2>2
  <1>8. Cuts(new, a, h, from, to + size)
    BY <1>5, <1>6, <1>7 DEF Cuts
  <1>. QED
    BY <1>2, <1>4, <1>8 DEF Lined, Queue, a, m

\* Moving the unread messages to the front.
LEMMA LinedRest ==
    ASSUME NEW q, NEW h, Queue(q, h), NEW from, NEW to \in Nat, Lined(q, h, from, to)
    PROVE  /\ Queue(Rest(q, h), 0)
           /\ Len(Rest(q, h)) = Len(q) - h
           /\ Lined(Rest(q, h), 0, from, to)
  <1> DEFINE r == Rest(q, h)
  <1>1. Len(q) \in Nat /\ h \in 0 .. Len(q) /\ \A i \in h + 1 .. Len(q) : q[i] \in Seq(Nat)
    BY DEF Queue
  <1>2. /\ r \in Seq(Seq(Nat)) /\ Len(r) = Len(q) - h
        /\ \A i \in 1 .. Len(q) - h : r[i] = q[h + i]
    <2>1. /\ SubSeq(q, h + 1, Len(q)) \in Seq(Seq(Nat))
          /\ Len(SubSeq(q, h + 1, Len(q))) = IF h + 1 <= Len(q) THEN Len(q) - (h + 1) + 1 ELSE 0
          /\ \A i \in 1 .. Len(q) - (h + 1) + 1 : SubSeq(q, h + 1, Len(q))[i] = q[h + 1 + i - 1]
      BY <1>1, SubSeqProperties
    <2>. QED
      BY <1>1, <2>1 DEF Rest
  <1> HIDE DEF r
  <1>3. PICK off : Cuts(off, q, h, from, to)
    BY DEF Lined
  <1> DEFINE new == [i \in 0 .. Len(q) - h |-> off[i + h]]
  <1>4. new \in [0 .. Len(r) -> 0 .. to]
    BY <1>1, <1>2, <1>3 DEF Cuts
  <1>5. new[0] = from /\ new[Len(r)] = to
    BY <1>1, <1>2, <1>3 DEF Cuts
  <1>6. ASSUME NEW j \in 1 .. Len(r)
        PROVE  new[j - 1] <= new[j] /\ r[j] = Bytes(new[j - 1] + 1, new[j])
    <2>1. j \in 1 .. Len(q) - h
      BY <1>2
    <2>2. PICK k \in h + 1 .. Len(q) : k = h + j
      BY <1>1, <2>1
    <2>3. r[j] = q[k]
      BY <1>2, <2>1, <2>2
    <2>4. off[k - 1] <= off[k] /\ q[k] = Bytes(off[k - 1] + 1, off[k])
      BY <1>3 DEF Cuts
    <2>5. new[j - 1] = off[k - 1] /\ new[j] = off[k]
      BY <1>1, <2>1, <2>2
    <2>. QED
      BY <2>3, <2>4, <2>5
  <1>7. Cuts(new, r, 0, from, to)
    BY <1>4, <1>5, <1>6 DEF Cuts
  <1>. QED
    BY <1>1, <1>2, <1>7 DEF Lined, Queue, r

\* Taking the first unread message.
LEMMA LinedTake ==
    ASSUME NEW q, NEW h, Queue(q, h), NEW from, NEW to \in Nat, Lined(q, h, from, to),
           h < Len(q)
    PROVE  \E mid \in from .. to :
              /\ from \in Nat
              /\ q[h + 1] = Bytes(from + 1, mid)
              /\ Queue([q EXCEPT ![h + 1] = Nil], h + 1)
              /\ Len([q EXCEPT ![h + 1] = Nil]) = Len(q)
              /\ Lined([q EXCEPT ![h + 1] = Nil], h + 1, mid, to)
              /\ h + 1 = Len(q) => mid = to
  <1> DEFINE t == [q EXCEPT ![h + 1] = Nil]
  <1>1. Len(q) \in Nat /\ h \in Nat /\ h + 1 \in 1 .. Len(q)
    BY DEF Queue
  <1>2. Nil \in Seq(Nat)
    BY DEF Nil
  <1>3. /\ t \in Seq(Seq(Nat)) /\ Len(t) = Len(q)
        /\ \A i \in 1 .. Len(q) : t[i] = IF i = h + 1 THEN Nil ELSE q[i]
    BY <1>1, <1>2, ExceptSeq DEF Queue
  <1> HIDE DEF t
  <1>4. PICK off : Cuts(off, q, h, from, to)
    BY DEF Lined
  <1> DEFINE new == [i \in h + 1 .. Len(q) |-> off[i]]
  <1>5. from \in Nat /\ off[h + 1] \in from .. to
    BY <1>1, <1>4 DEF Cuts
  <1>6. q[h + 1] = Bytes(from + 1, off[h + 1])
    BY <1>1, <1>4 DEF Cuts
  <1>7. new \in [h + 1 .. Len(t) -> 0 .. to]
    BY <1>1, <1>3, <1>4 DEF Cuts
  <1>8. new[h + 1] = off[h + 1] /\ new[Len(t)] = to
    BY <1>1, <1>3, <1>4 DEF Cuts
  <1>9. \A i \in h + 1 + 1 .. Len(t) : new[i - 1] <= new[i] /\ t[i] = Bytes(new[i - 1] + 1, new[i])
    BY <1>1, <1>3, <1>4 DEF Cuts
  <1>10. Cuts(new, t, h + 1, off[h + 1], to)
    BY <1>7, <1>8, <1>9 DEF Cuts
  <1>11. h + 1 = Len(q) => off[h + 1] = to
    BY <1>4 DEF Cuts
  <1>. QED
    BY <1>1, <1>3, <1>5, <1>6, <1>10, <1>11 DEF Lined, Queue, t

LEMMA CompactLined ==
    ASSUME NEW q, NEW h, Queue(q, h), NEW spare \in BOOLEAN,
           NEW from, NEW to \in Nat, Lined(q, h, from, to)
    PROVE  LET c == Compact(q, h, spare)
           IN  /\ Queue(c.queue, c.head)
               /\ Len(c.queue) - c.head = Len(q) - h
               /\ c.head = 0 \/ c.head < Len(c.queue) \div 2
               /\ Lined(c.queue, c.head, from, to)
  <1>1. Len(q) \in Nat /\ h \in 0 .. Len(q)
    BY DEF Queue
  <1>2. CASE h = 0 \/ (h < Len(q) \div 2 /\ spare)
    BY <1>1, <1>2 DEF Compact
  <1>3. CASE ~(h = 0 \/ (h < Len(q) \div 2 /\ spare))
    <2>1. Compact(q, h, spare) = [queue |-> Rest(q, h), head |-> 0]
      BY <1>3 DEF Compact
    <2>. QED
      BY <1>1, <2>1, LinedRest
  <1>. QED
    BY <1>2, <1>3

-----------------------------------------------------------------------------
(***************************************************************************)
(* The connection.  Until it is closed, what Read returned, what it kept   *)
(* of the last message and what is queued are consecutive runs that end    *)
(* with the last byte that came.                                           *)
(***************************************************************************)
Taken == Len(got) + Len(readBuffer)

StreamType ==
    /\ Queue(queue, head)
    /\ readBuffer \in Seq(Nat) /\ got \in Seq(Nat)
    /\ want \in Nat /\ arrived \in Nat
    /\ closed \in BOOLEAN

InOrder ==
    IF closed
    THEN queue = <<>> /\ head = 0
    ELSE /\ got = Bytes(1, Len(got))
         /\ readBuffer = Bytes(Len(got) + 1, Taken)
         /\ Lined(queue, head, Taken, arrived)
         /\ reader # "idle" => readBuffer = <<>>

StreamInv == StreamType /\ InOrder /\ QueueBounded

LEMMA PendingLength ==
    ASSUME NEW q, NEW h, Queue(q, h)
    PROVE  /\ Len(Rest(q, h)) = Len(q) - h
           /\ (Rest(q, h) = <<>>) <=> (h = Len(q))
  <1>1. Len(q) \in Nat /\ h \in 0 .. Len(q) /\ \A i \in h + 1 .. Len(q) : q[i] \in Seq(Nat)
    BY DEF Queue
  <1>2. /\ SubSeq(q, h + 1, Len(q)) \in Seq(Seq(Nat))
        /\ Len(SubSeq(q, h + 1, Len(q))) = IF h + 1 <= Len(q) THEN Len(q) - (h + 1) + 1 ELSE 0
    BY <1>1, SubSeqProperties
  <1>3. Len(Rest(q, h)) = Len(q) - h /\ Rest(q, h) \in Seq(Seq(Nat))
    BY <1>1, <1>2 DEF Rest
  <1>. QED
    BY <1>1, <1>3, EmptySeq

LEMMA StreamInit == Init => StreamInv
  <1> SUFFICES ASSUME Init PROVE StreamInv
    OBVIOUS
  <1>1. Queue(<<>>, 0) /\ Lined(<<>>, 0, 0, 0) /\ Len(Rest(<<>>, 0)) = 0
    BY LinedEmpty, PendingLength
  <1>2. Bytes(1, 0) = <<>>
    BY DEF Bytes
  <1>3. <<>> \in Seq(Nat) /\ Len(<<>>) = 0
    OBVIOUS
  <1>4. StreamType
    BY <1>1, <1>3 DEF Init, StreamType
  <1>5. InOrder
    BY <1>1, <1>2, <1>3 DEF Init, InOrder, Taken
  <1>6. QueueBounded
    BY <1>1, <1>3, LimitAssumption DEF Init, QueueBounded, Pending
  <1>. QED
    BY <1>4, <1>5, <1>6 DEF StreamInv

\* OnOverflow, OnClose and the first Close.
LEMMA ClosingStep ==
    ASSUME StreamInv,
           closed' = TRUE, queue' = <<>>, head' = 0, queuedBytes' = 0,
           readBuffer' \in {<<>>, readBuffer}, got' = got, want' = want,
           arrived' \in Nat, arrived' >= arrived
    PROVE  StreamInv' /\ Stream!Next
  <1>1. Queue(<<>>, 0) /\ Len(Rest(<<>>, 0)) = 0
    BY LinedEmpty, PendingLength
  <1>2. StreamType' /\ InOrder'
    <2>1. closed' \in BOOLEAN
      OBVIOUS
    <2>2. readBuffer' \in Seq(Nat)
      BY EmptySeq DEF StreamInv, StreamType
    <2>. QED
      BY <1>1, <2>1, <2>2 DEF StreamInv, StreamType, InOrder
  <1>3. QueueBounded'
    BY <1>1, LimitAssumption DEF QueueBounded, Pending
  <1>4. Stream!Arrive
    BY DEF Stream!Arrive
  <1>. QED
    BY <1>2, <1>3, <1>4 DEF StreamInv, Stream!Next

\* Steps that move no byte.
LEMMA QuietStep ==
    ASSUME StreamInv,
           UNCHANGED <<queueVars, closed, readBuffer, got, arrived>>, want' \in Nat,
           reader' # "idle" => reader # "idle" \/ readBuffer = <<>>
    PROVE  StreamInv' /\ UNCHANGED Stream!vars
  BY DEF StreamInv, StreamType, InOrder, Taken, QueueBounded, Pending, queueVars, Stream!vars

LEMMA MessageStep == StreamInv /\ OnMessage => StreamInv' /\ Stream!Arrive
  <1> SUFFICES ASSUME StreamInv, OnMessage PROVE StreamInv' /\ Stream!Arrive
    OBVIOUS
  <1>1. PICK size \in MessageSizes, spare \in BOOLEAN :
            LET c == Compact(queue, head, spare)
            IN  /\ ~Overflows(size)
                /\ queue' = Append(c.queue, Bytes(arrived + 1, arrived + size))
                /\ head' = c.head
                /\ queuedBytes' = queuedBytes + size
                /\ arrived' = arrived + size
    BY DEF OnMessage
  <1> DEFINE c == Compact(queue, head, spare)
  <1>2. size \in Nat /\ arrived \in Nat /\ ~closed /\ closed' = FALSE
    BY SizeAssumption DEF OnMessage, Attached, StreamInv, StreamType
  <1>3. Queue(queue, head) /\ Lined(queue, head, Taken, arrived)
    BY <1>2 DEF StreamInv, StreamType, InOrder
  <1>4. /\ Queue(c.queue, c.head)
        /\ Len(c.queue) - c.head = Len(queue) - head
        /\ c.head = 0 \/ c.head < Len(c.queue) \div 2
        /\ Lined(c.queue, c.head, Taken, arrived)
    BY <1>2, <1>3, CompactLined
  <1> DEFINE q == c.queue
             h == c.head
  <1>5. /\ queue' = Append(q, Bytes(arrived + 1, arrived + size)) /\ head' = h
        /\ queuedBytes' = queuedBytes + size /\ arrived' = arrived + size
    BY <1>1
  <1> HIDE DEF q, h, c
  <1>6. Queue(q, h) /\ Lined(q, h, Taken, arrived) /\ Len(q) - h = Len(queue) - head
        /\ (h = 0 \/ h < Len(q) \div 2)
    BY <1>4 DEF q, h
  <1>7. /\ Queue(queue', head')
        /\ Len(queue') = Len(q) + 1
        /\ Lined(queue', head', Taken, arrived')
    BY <1>2, <1>5, <1>6, LinedAppend
  <1>8. /\ UNCHANGED <<readBuffer, want, got>>
        /\ reader' # "idle" => reader # "idle"
    BY DEF OnMessage, Signal
  <1>9. StreamType'
    <2>1. closed' \in BOOLEAN
      BY <1>2
    <2>. QED
      BY <1>2, <1>5, <1>7, <1>8, <2>1 DEF StreamInv, StreamType
  <1>10. InOrder'
    BY <1>2, <1>7, <1>8 DEF StreamInv, InOrder, Taken
  <1>11. QueueBounded'
    <2>1. /\ Len(queue) - head < QueueLimit
          /\ ByteLimit - size >= 0
          /\ queuedBytes <= ByteLimit - size
      <3>1. ~Overflows(size)
        BY <1>1
      <3>2. queuedBytes \in Int /\ Len(queue) \in Int /\ head \in Int
        BY <1>2, <1>3 DEF StreamInv, StreamType, QueueBounded, Queue
      <3>. QED
        BY <1>2, <3>1, <3>2, LimitAssumption DEF Overflows
    <2>2. Len(q) \in Nat /\ h \in 0 .. Len(q) /\ Len(queue) \in Nat /\ head \in Nat
      BY <1>3, <1>6 DEF Queue
    <2>3. Len(Pending)' = Len(queue') - head'
      BY <1>7, PendingLength DEF Pending
    <2>4. Len(Pending)' <= QueueLimit
      BY <1>5, <1>6, <1>7, <2>1, <2>2, <2>3, LimitAssumption
    <2>5. head' = 0 \/ head' < Len(queue') \div 2
      BY <1>5, <1>6, <1>7, <2>2
    <2>6. queuedBytes' <= ByteLimit
          /\ queuedBytes' = IF closed' THEN 0 ELSE arrived' - Len(got') - Len(readBuffer')
      BY <1>2, <1>5, <1>8, <2>1, LimitAssumption DEF StreamInv, StreamType, QueueBounded
    <2>. QED
      BY <2>4, <2>5, <2>6 DEF QueueBounded
  <1>12. Stream!Arrive
    BY <1>2, <1>5, <1>8 DEF Stream!Arrive, OnMessage
  <1>. QED
    BY <1>9, <1>10, <1>11, <1>12 DEF StreamInv

\* Handing over the bytes from r + 1 to m of the run behind the r bytes that
\* Read returned so far.
LEMMA HandOver ==
    ASSUME NEW r \in Nat, NEW m \in Nat, NEW mid \in Nat, r <= m, m <= mid
    PROVE  /\ Bytes(1, r) \o SubSeq(Bytes(r + 1, mid), 1, m - r) = Bytes(1, m)
           /\ Rest(Bytes(r + 1, mid), m - r) = Bytes(m + 1, mid)
           /\ Bytes(1, m) \in Seq(Nat) /\ Len(Bytes(1, m)) = m
           /\ Bytes(m + 1, mid) \in Seq(Nat) /\ Len(Bytes(m + 1, mid)) = mid - m
  <1>1. /\ 1 \in Nat /\ 1 <= 1 /\ r + 1 \in Nat /\ 1 <= r + 1 /\ r + 1 <= m + 1 /\ m - r = m - (r + 1) + 1
        /\ m + 1 \in Nat /\ 1 <= m + 1 /\ m + 1 <= mid + 1
    OBVIOUS
  <1>2. /\ SubSeq(Bytes(r + 1, mid), 1, m - (r + 1) + 1) = Bytes(r + 1, m)
        /\ Rest(Bytes(r + 1, mid), m - (r + 1) + 1) = Bytes(m + 1, mid)
    BY <1>1, BytesSplit
  <1>3. Bytes(1, r) \o Bytes(r + 1, m) = Bytes(1, m)
    BY <1>1, BytesConcat, Zenon
  <1>4. Bytes(1, m) \in Seq(Nat) /\ Len(Bytes(1, m)) = m - 1 + 1
    BY BytesProperties
  <1>5. Bytes(m + 1, mid) \in Seq(Nat) /\ Len(Bytes(m + 1, mid)) = mid - (m + 1) + 1
    BY <1>1, BytesProperties
  <1>6. /\ SubSeq(Bytes(r + 1, mid), 1, m - r) = Bytes(r + 1, m)
        /\ Rest(Bytes(r + 1, mid), m - r) = Bytes(m + 1, mid)
    BY <1>1, <1>2
  <1>7. m - 1 + 1 = m /\ mid - (m + 1) + 1 = mid - m
    OBVIOUS
  <1>. QED
    BY <1>3, <1>4, <1>5, <1>6, <1>7

LEMMA LinedWithin ==
    ASSUME NEW q, NEW h, Queue(q, h), NEW from, NEW to \in Nat, Lined(q, h, from, to)
    PROVE  from \in 0 .. to
  <1>1. PICK off : Cuts(off, q, h, from, to)
    BY DEF Lined
  <1>2. h \in h .. Len(q)
    BY DEF Queue
  <1>. QED
    BY <1>1, <1>2 DEF Cuts

LEMMA TakeStep ==
    ASSUME Len(got) \in Nat, arrived \in Nat, ~closed, closed' = closed, arrived' = arrived,
           NEW m \in Nat, Len(got) <= m, m <= arrived,
           got' = Bytes(1, m), m = Len(got) => got' = got
    PROVE  Stream!Take \/ UNCHANGED Stream!vars
  <1>1. CASE m = Len(got)
    BY <1>1 DEF Stream!vars
  <1>2. CASE m # Len(got)
    <2>1. m \in Len(got) + 1 .. arrived
      BY <1>2
    <2>2. got' = Stream!Bytes(1, m)
      BY DEF Bytes, Stream!Bytes
    <2>. QED
      BY <2>1, <2>2 DEF Stream!Take
  <1>. QED
    BY <1>1, <1>2

LEMMA BufferedStep == StreamInv /\ ReadBuffered => StreamInv' /\ (Stream!Take \/ UNCHANGED Stream!vars)
  <1> SUFFICES ASSUME StreamInv, ReadBuffered
               PROVE  StreamInv' /\ (Stream!Take \/ UNCHANGED Stream!vars)
    OBVIOUS
  <1>1. PICK size \in ReadSizes :
            LET n == Smaller(size, Len(readBuffer))
            IN  /\ got' = got \o SubSeq(readBuffer, 1, n)
                /\ readBuffer' = Rest(readBuffer, n)
    BY DEF ReadBuffered
  <1>2. ~closed /\ UNCHANGED <<queue, head, queuedBytes, closed, want, arrived>> /\ reader' = "idle"
    BY DEF ReadBuffered, queueVars, Returns
  <1>3. StreamType /\ Len(got) \in Nat /\ Len(readBuffer) \in Nat
    BY DEF StreamInv, StreamType
  <1>4. /\ got = Bytes(1, Len(got)) /\ readBuffer = Bytes(Len(got) + 1, Taken)
        /\ Lined(queue, head, Taken, arrived) /\ Taken \in Nat
    BY <1>2, <1>3 DEF StreamInv, InOrder, Taken
  <1>5. Taken <= arrived
    BY <1>3, <1>4, LinedWithin DEF StreamType
  <1>6. PICK m \in Nat : /\ Len(got) <= m /\ m <= Taken
                         /\ Smaller(size, Len(readBuffer)) = m - Len(got)
    <2>1. Smaller(size, Len(readBuffer)) \in 0 .. Len(readBuffer)
      BY <1>3, SizeAssumption DEF Smaller
    <2>2. /\ Len(got) + Smaller(size, Len(readBuffer)) \in Nat
          /\ Len(got) + Smaller(size, Len(readBuffer)) <= Taken
      BY <1>3, <2>1 DEF Taken
    <2>. QED
      BY <1>3, <2>1, <2>2
  <1>7. /\ Bytes(1, Len(got)) \o SubSeq(Bytes(Len(got) + 1, Taken), 1, m - Len(got)) = Bytes(1, m)
        /\ Rest(Bytes(Len(got) + 1, Taken), m - Len(got)) = Bytes(m + 1, Taken)
        /\ Bytes(1, m) \in Seq(Nat) /\ Len(Bytes(1, m)) = m
        /\ Bytes(m + 1, Taken) \in Seq(Nat) /\ Len(Bytes(m + 1, Taken)) = Taken - m
    <2>1. Len(got) \in Nat /\ Taken \in Nat /\ Len(got) <= m /\ m <= Taken
      BY <1>3, <1>4, <1>6
    <2>. QED
      BY <2>1, HandOver
  <1>8. /\ got' = Bytes(1, m) /\ readBuffer' = Bytes(m + 1, Taken)
        /\ got' \in Seq(Nat) /\ Len(got') = m
        /\ readBuffer' \in Seq(Nat) /\ Len(readBuffer') = Taken - m
    BY <1>1, <1>4, <1>6, <1>7
  <1>9. Taken' = Taken
    BY <1>4, <1>8, SMTT(30) DEF Taken
  <1>10. StreamType'
    BY <1>2, <1>8 DEF StreamInv, StreamType
  <1>11. InOrder'
    BY <1>2, <1>4, <1>8, <1>9 DEF InOrder
  <1>12. QueueBounded'
    <2>1. Len(got') + Len(readBuffer') = Len(got) + Len(readBuffer) /\ Len(got') \in Nat
          /\ Len(readBuffer') \in Nat /\ arrived \in Nat
      <3>1. Taken = Len(got) + Len(readBuffer) /\ arrived \in Nat
        BY <1>3 DEF Taken, StreamType
      <3>2. /\ Len(got') = m /\ Len(readBuffer') = Taken - m
            /\ m \in Nat /\ Taken \in Nat /\ m <= Taken
        BY <1>4, <1>6, <1>8
      <3>. QED
        BY <3>1, <3>2
    <2>2. arrived' - Len(got') - Len(readBuffer') = arrived - Len(got) - Len(readBuffer)
      BY <1>2, <1>3, <2>1
    <2>. QED
      BY <1>2, <2>2 DEF StreamInv, QueueBounded, Pending
  <1>13. m = Len(got) => got' = got
    BY <1>4, <1>8
  <1>14. m <= arrived
    BY <1>3, <1>4, <1>5, <1>6 DEF StreamType
  <1>15. Stream!Take \/ UNCHANGED Stream!vars
    BY <1>2, <1>3, <1>6, <1>8, <1>13, <1>14, TakeStep DEF StreamType
  <1>. QED
    BY <1>10, <1>11, <1>12, <1>15 DEF StreamInv

LEMMA MessageTakenStep ==
    StreamInv /\ ReadMessage => StreamInv' /\ (Stream!Take \/ UNCHANGED Stream!vars)
  <1> SUFFICES ASSUME StreamInv, ReadMessage
               PROVE  StreamInv' /\ (Stream!Take \/ UNCHANGED Stream!vars)
    OBVIOUS
  <1> DEFINE message == queue[head + 1]
             n == Smaller(want, Len(message))
             taken == [queue EXCEPT ![head + 1] = Nil]
             c(spare) == IF head + 1 >= Len(queue)
                         THEN [queue |-> <<>>, head |-> 0]
                         ELSE Compact(taken, head + 1, spare)
  <1>1. PICK spare \in BOOLEAN :
            /\ queue' = c(spare).queue /\ head' = c(spare).head
            /\ queuedBytes' = IF queuedBytes < Len(message) THEN 0 ELSE queuedBytes - Len(message)
            /\ got' = got \o SubSeq(message, 1, n)
            /\ readBuffer' = Rest(message, n)
    BY DEF ReadMessage
  <1> HIDE DEF message, n, taken, c
  <1>2. UNCHANGED <<closed, want, arrived>> /\ reader = "loop" /\ reader' = "idle"
    BY DEF ReadMessage, Returns
  <1>3. /\ StreamType /\ Queue(queue, head) /\ Len(got) \in Nat /\ arrived \in Nat /\ want \in Nat
        /\ Len(queue) \in Nat /\ head \in 0 .. Len(queue)
    BY DEF StreamInv, StreamType, Queue
  <1>4. head < Len(queue)
    <2>1. Pending # <<>>
      BY DEF ReadMessage
    <2>. QED
      BY <1>3, <2>1, PendingLength DEF Pending
  <1>5. ~closed
    BY <1>3, <1>4 DEF StreamInv, InOrder
  <1>6. /\ got = Bytes(1, Len(got)) /\ readBuffer = <<>> /\ Taken = Len(got)
        /\ Lined(queue, head, Len(got), arrived)
    <2>1. readBuffer = <<>> /\ Lined(queue, head, Taken, arrived) /\ got = Bytes(1, Len(got))
      BY <1>2, <1>5 DEF StreamInv, InOrder
    <2>2. Taken = Len(got)
      BY <1>3, <2>1 DEF Taken
    <2>. QED
      BY <2>1, <2>2
  <1>7. PICK mid \in Len(got) .. arrived :
            /\ message = Bytes(Len(got) + 1, mid)
            /\ Queue(taken, head + 1) /\ Len(taken) = Len(queue)
            /\ Lined(taken, head + 1, mid, arrived)
            /\ head + 1 = Len(queue) => mid = arrived
    <2>1. Queue(queue, head) /\ Lined(queue, head, Len(got), arrived) /\ head < Len(queue) /\ arrived \in Nat
      BY <1>3, <1>4, <1>6
    <2>2. \E mid \in Len(got) .. arrived :
              /\ Len(got) \in Nat
              /\ queue[head + 1] = Bytes(Len(got) + 1, mid)
              /\ Queue([queue EXCEPT ![head + 1] = Nil], head + 1)
              /\ Len([queue EXCEPT ![head + 1] = Nil]) = Len(queue)
              /\ Lined([queue EXCEPT ![head + 1] = Nil], head + 1, mid, arrived)
              /\ head + 1 = Len(queue) => mid = arrived
      BY <2>1, LinedTake, Zenon
    <2>. QED
      BY <2>2 DEF message, taken
  <1>8. mid \in Nat /\ Len(message) = mid - Len(got)
    <2>1. mid \in Nat /\ Len(got) + 1 \in Nat /\ 1 <= Len(got) + 1 /\ Len(got) + 1 <= mid + 1
      BY <1>3
    <2>2. Len(Bytes(Len(got) + 1, mid)) = mid - (Len(got) + 1) + 1
      BY <2>1, BytesProperties
    <2>. QED
      BY <1>3, <1>7, <2>1, <2>2
  <1>9. PICK m \in Nat : Len(got) <= m /\ m <= mid /\ n = m - Len(got)
    <2>1. n \in 0 .. Len(message)
      BY <1>3, <1>8 DEF Smaller, n
    <2>2. Len(got) + n \in Nat /\ Len(got) + n <= mid
      BY <1>3, <1>8, <2>1
    <2>. QED
      BY <1>3, <2>1, <2>2
  <1>10. /\ got' = Bytes(1, m) /\ readBuffer' = Bytes(m + 1, mid)
         /\ got' \in Seq(Nat) /\ Len(got') = m
         /\ readBuffer' \in Seq(Nat) /\ Len(readBuffer') = mid - m
    <2>1. Len(got) \in Nat /\ mid \in Nat /\ Len(got) <= m /\ m <= mid
      BY <1>3, <1>8, <1>9
    <2>2. /\ Bytes(1, Len(got)) \o SubSeq(Bytes(Len(got) + 1, mid), 1, m - Len(got)) = Bytes(1, m)
          /\ Rest(Bytes(Len(got) + 1, mid), m - Len(got)) = Bytes(m + 1, mid)
          /\ Bytes(1, m) \in Seq(Nat) /\ Len(Bytes(1, m)) = m
          /\ Bytes(m + 1, mid) \in Seq(Nat) /\ Len(Bytes(m + 1, mid)) = mid - m
      BY <2>1, HandOver
    <2>. QED
      BY <1>1, <1>6, <1>7, <1>9, <2>2
  <1>11. Taken' = mid
    BY <1>8, <1>9, <1>10 DEF Taken
  <1>12. /\ Queue(queue', head') /\ Lined(queue', head', mid, arrived)
         /\ Len(queue') - head' = Len(queue) - (head + 1)
         /\ head' = 0 \/ head' < Len(queue') \div 2
    <2>1. CASE head + 1 >= Len(queue)
      <3>1. queue' = <<>> /\ head' = 0
        BY <1>1, <2>1 DEF c
      <3>2. head + 1 = Len(queue) /\ mid = arrived
        BY <1>3, <1>4, <1>7, <2>1
      <3>. QED
        BY <1>3, <3>1, <3>2, LinedEmpty
    <2>2. CASE ~(head + 1 >= Len(queue))
      <3>1. queue' = Compact(taken, head + 1, spare).queue /\ head' = Compact(taken, head + 1, spare).head
        BY <1>1, <2>2 DEF c
      <3>2. /\ Queue(queue', head') /\ Len(queue') - head' = Len(taken) - (head + 1)
            /\ head' = 0 \/ head' < Len(queue') \div 2
            /\ Lined(queue', head', mid, arrived)
        <4>1. Queue(taken, head + 1) /\ Lined(taken, head + 1, mid, arrived) /\ arrived \in Nat
          BY <1>3, <1>7
        <4>. QED
          BY <3>1, <4>1, CompactLined
      <3>. QED
        BY <1>7, <3>2
    <2>. QED
      BY <2>1, <2>2
  <1>13. StreamType'
    BY <1>2, <1>10, <1>12 DEF StreamInv, StreamType
  <1>14. InOrder'
    BY <1>2, <1>5, <1>10, <1>11, <1>12 DEF InOrder
  <1>15. QueueBounded'
    <2>1. queuedBytes = arrived - Len(got) /\ queuedBytes <= ByteLimit
          /\ Len(Pending) <= QueueLimit
      BY <1>3, <1>5, <1>6 DEF StreamInv, QueueBounded
    <2>2. queuedBytes' = arrived - mid
      <3>1. mid <= arrived /\ mid \in Nat /\ Len(message) = mid - Len(got)
        BY <1>3, <1>8
      <3>2. ~(queuedBytes < Len(message)) /\ queuedBytes - Len(message) = arrived - mid
        BY <1>3, <2>1, <3>1
      <3>. QED
        BY <1>1, <3>2
    <2>3. arrived' - Len(got') - Len(readBuffer') = arrived - mid
      BY <1>2, <1>3, <1>8, <1>9, <1>10, SMTT(30)
    <2>4. queuedBytes' <= ByteLimit
      BY <1>3, <1>8, <2>1, <2>2, LimitAssumption
    <2>5. Len(Pending) = Len(queue) - head
      BY <1>3, PendingLength DEF Pending
    <2>6. Len(Pending)' = Len(queue') - head'
      BY <1>12, PendingLength DEF Pending
    <2>7. Len(Pending)' <= QueueLimit
      BY <1>3, <1>12, <2>1, <2>5, <2>6, LimitAssumption
    <2>. QED
      BY <1>2, <1>5, <1>12, <2>2, <2>3, <2>4, <2>7 DEF QueueBounded
  <1>16. m = Len(got) => got' = got
    BY <1>6, <1>10
  <1>17. Stream!Take \/ UNCHANGED Stream!vars
    <2>1. m <= arrived
      BY <1>3, <1>8, <1>9
    <2>. QED
      BY <1>2, <1>3, <1>5, <1>9, <1>10, <1>16, <2>1, TakeStep
  <1>. QED
    BY <1>13, <1>14, <1>15, <1>17 DEF StreamInv

LEMMA StreamStep ==
    StreamInv /\ [Next]_vars => StreamInv' /\ [Stream!Next]_(Stream!vars)
  <1> SUFFICES ASSUME StreamInv, [Next]_vars
               PROVE  StreamInv' /\ [Stream!Next]_(Stream!vars)
    OBVIOUS
  <1>1. CASE OnMessage
    BY <1>1, MessageStep DEF Stream!Next
  <1>2. CASE ReadBuffered
    BY <1>2, BufferedStep DEF Stream!Next
  <1>3. CASE ReadMessage
    BY <1>3, MessageTakenStep DEF Stream!Next
  <1>4. CASE OnOverflow
    <2>1. arrived' \in Nat /\ arrived' >= arrived
      BY <1>4, SizeAssumption DEF OnOverflow, StreamInv, StreamType
    <2>. QED
      BY <1>4, <2>1, ClosingStep DEF OnOverflow
  <1>5. CASE CloseChannels /\ UNCHANGED <<got, want, arrived>>
    <2>1. arrived' \in Nat /\ arrived' >= arrived
      BY <1>5 DEF StreamInv, StreamType
    <2>. QED
      BY <1>5, <2>1, ClosingStep DEF CloseChannels
  <1>6. CASE OnClose \/ (Close /\ ~closed)
    BY <1>5, <1>6 DEF OnClose, Close
  <1>7. CASE OnError \/ (Close /\ closed) \/ ReadClosed \/ SelectError \/ SelectClosed \/ SelectToken
             \/ SelectBlocks
    <2>1. /\ UNCHANGED <<queueVars, closed, readBuffer, got, arrived, want>>
          /\ reader' # "idle" => reader # "idle"
      BY <1>7 DEF OnError, Close, ReadClosed, SelectError, SelectClosed, SelectToken, SelectBlocks,
                  Returns, readVars, queueVars
    <2>2. want' \in Nat
      BY <2>1 DEF StreamInv, StreamType
    <2>. QED
      BY <2>1, <2>2, QuietStep
  <1>8. CASE ReadEnters
    <2>1. /\ UNCHANGED <<queueVars, closed, readBuffer, got, arrived>>
          /\ readBuffer = <<>> /\ want' \in Nat
      BY <1>8, SizeAssumption DEF ReadEnters
    <2>. QED
      BY <2>1, QuietStep
  <1>9. CASE UNCHANGED vars
    <2>1. want' \in Nat
      BY <1>9 DEF vars, readVars, StreamInv, StreamType
    <2>. QED
      BY <1>9, <2>1, QuietStep DEF vars, readVars
  <1>. QED
    BY <1>1, <1>2, <1>3, <1>4, <1>6, <1>7, <1>8, <1>9 DEF Next, Read

\* A step of the client is one of its connection, or leaves that alone.
LEMMA ClientStepsTheConn == [ClientNext]_clientVars => [Next]_vars
  BY DEF ClientNext, DialStep, DialStarts, DialUnavailable, Cancel, ReturnConn, ReturnError,
         ReturnCancelled, OpenFires, ErrorFires, CloseFires, Event, clientVars

LEMMA ClientStep ==
    StreamInv /\ [ClientNext]_clientVars => StreamInv' /\ [Stream!Next]_(Stream!vars)
  BY ClientStepsTheConn, StreamStep

\* A Read blocked in its select has nothing to take: no message, tail, error or
\* token waits, and the callbacks that will bring the next one are still set.
BlockedReadHasNothing ==
    reader = "blocked" =>
        /\ Pending = <<>> /\ readBuffer = <<>> /\ errors = <<>>
        /\ ~token /\ Attached

WakeInv ==
    /\ BlockedReadHasNothing
    /\ reader # "idle" => readBuffer = <<>>
    /\ closed <=> jsSocket # "open"

LEMMA WakeInductive == WakeInv /\ [Next]_vars => WakeInv'
  <1> SUFFICES ASSUME WakeInv, [Next]_vars
               PROVE  WakeInv'
    OBVIOUS
  <1> USE DEF WakeInv, BlockedReadHasNothing, Attached
  <1>1. CASE OnMessage
    BY <1>1 DEF OnMessage, Signal
  <1>2. CASE OnOverflow
    BY <1>2 DEF OnOverflow
  <1>3. CASE OnError
    BY <1>3 DEF OnError, Pending, Rest, queueVars
  <1>4. CASE OnClose
    BY <1>4 DEF OnClose, CloseChannels
  <1>5. CASE Close
    BY <1>5 DEF Close, CloseChannels
  <1>6. CASE ReadClosed \/ ReadBuffered \/ ReadMessage \/ SelectError \/ SelectClosed
    BY <1>6 DEF ReadClosed, ReadBuffered, ReadMessage, SelectError, SelectClosed, Returns
  <1>7. CASE ReadEnters
    BY <1>7 DEF ReadEnters
  <1>8. CASE SelectToken
    BY <1>8 DEF SelectToken, readVars
  <1>9. CASE SelectBlocks
    BY <1>9 DEF SelectBlocks, Pending, Rest, queueVars
  <1>10. CASE UNCHANGED vars
    BY <1>10 DEF vars, readVars, queueVars, Pending, Rest
  <1>. QED
    BY <1>1, <1>2, <1>3, <1>4, <1>5, <1>6, <1>7, <1>8, <1>9, <1>10 DEF Next, Read

\* No wake-up is lost: a Read blocked in its select has taken everything there
\* was, in every order of callbacks, reads and close, and its socket still has
\* the callbacks that wake it (websocket_conn.go:204-336).
THEOREM NoWakeUpIsLost == ClientSpec => []BlockedReadHasNothing
  <1>1. ClientInit => WakeInv
    BY DEF ClientInit, Init, WakeInv, BlockedReadHasNothing
  <1>2. WakeInv /\ [ClientNext]_clientVars => WakeInv'
    BY ClientStepsTheConn, WakeInductive
  <1>3. WakeInv => BlockedReadHasNothing
    BY DEF WakeInv
  <1>. QED
    BY <1>1, <1>2, <1>3, PTL DEF ClientSpec

\* A slow reader cannot make the queue grow: messages and bytes stay within the
\* limits and compaction keeps up, whatever the limits, the sizes of messages
\* and reads, and the spare capacity append leaves (websocket_conn.go:133-202).
THEOREM QueueStaysBounded == ClientSpec => []QueueBounded
  <1>1. ClientInit => StreamInv
    BY StreamInit DEF ClientInit
  <1>2. StreamInv => QueueBounded
    BY DEF StreamInv
  <1>. QED
    BY <1>1, <1>2, ClientStep, PTL DEF ClientSpec

\* The connection implements a byte stream: Read returns every byte once and in
\* order, across message boundaries, short reads, compaction, overflow and
\* close (websocket_conn.go:133-336).
THEOREM ConnIsByteStream == ClientSpec => IsByteStream
  <1>1. ClientInit => StreamInv /\ Stream!Init
    BY StreamInit DEF ClientInit, Init, Stream!Init
  <1>. QED
    BY <1>1, ClientStep, PTL DEF ClientSpec, IsByteStream, Stream!Spec
=============================================================================
