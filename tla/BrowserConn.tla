----------------------------- MODULE BrowserConn -----------------------------
(***************************************************************************)
(* The browser side's net.Conn over a JavaScript WebSocket                 *)
(* (pkg/wasm/dialer/websocket_conn.go): callbacks of the socket fill a     *)
(* bounded queue and an error channel, Read drains them.                   *)
(*                                                                         *)
(* GOOS=js runs goroutines on one thread without preemption, so a callback *)
(* or a call runs until it blocks.  Read blocks in its select only; what   *)
(* happens between its being woken and its running again is up to the      *)
(* scheduler, and so is everything between two rounds of its loop.         *)
(*                                                                         *)
(* Message bytes are numbered in the order of arrival.                     *)
(***************************************************************************)
EXTENDS Integers, Sequences

CONSTANTS
    QueueLimit,         \* limitConnectionQueuedMessages
    ByteLimit,          \* limitConnectionQueuedBytes
    ErrorCap,           \* capacity of incomingErrorsChannel
    MessageSizes,       \* sizes of the messages the peer sends
    ReadSizes,          \* lengths of the buffers Read is called with
    MaxMessages         \* bound: messages the peer sends

ASSUME LimitAssumption ==
    /\ QueueLimit \in Nat \ {0}
    /\ ByteLimit \in Nat \ {0}
    /\ ErrorCap \in Nat \ {0}
    /\ MaxMessages \in Nat
ASSUME SizeAssumption ==
    /\ MessageSizes \subseteq Nat
    /\ ReadSizes \subseteq Nat \ {0}

VARIABLES
    queue,      \* queuedMessages; a consumed slot holds Nil
    head,       \* shiftQueueStart
    queuedBytes,
    token,      \* incomingMessagesChannel holds its token
    errors,     \* incomingErrorsChannel
    closed,     \* isClosed; the channels are closed and the callbacks detached
    readBuffer, \* readMessageBuffer
    reader,     \* Read: "idle", "loop", "blocked" in the select
    want,       \* len(dst) of the Read under way
    jsSocket,   \* the browser's socket: "open", "closed"
    messages,   \* messages that came so far
    arrived,    \* history: bytes that came so far
    got,        \* history: bytes Read returned
    result      \* history: how the last Read ended

queueVars == <<queue, head, queuedBytes>>
readVars  == <<readBuffer, reader, want, got, result>>
vars == <<queueVars, token, errors, closed, readVars, jsSocket, messages, arrived>>

Nil == <<>>      \* a nil slice has no bytes
Bytes(from, to) == [i \in 1 .. (to - from + 1) |-> from + i - 1]
Rest(s, n) == SubSeq(s, n + 1, Len(s))
Smaller(a, b) == IF a < b THEN a ELSE b

Pending == Rest(queue, head)    \* what Read has not taken yet

Init ==
    /\ queue = <<>> /\ head = 0 /\ queuedBytes = 0
    /\ token = FALSE
    /\ errors = <<>>
    /\ closed = FALSE
    /\ readBuffer = <<>> /\ reader = "idle" /\ want = 0
    /\ jsSocket = "open"
    /\ messages = 0
    /\ arrived = 0
    /\ got = <<>> /\ result = "none"

-----------------------------------------------------------------------------
(***************************************************************************)
(* The queue.                                                              *)
(***************************************************************************)

\* clearQueuedMessagesHeadLocked on slice q with h consumed slots; whether the
\* slice has spare capacity is up to append's growth.
CompactLate(q, h, spare) ==
    IF h = 0 \/ (h <= Len(q) \div 2 /\ spare)
    THEN [queue |-> q, head |-> h]
    ELSE [queue |-> Rest(q, h), head |-> 0]
Compact(q, h, spare) ==
    IF h = 0 \/ (h < Len(q) \div 2 /\ spare)
    THEN [queue |-> q, head |-> h]
    ELSE [queue |-> Rest(q, h), head |-> 0]

OverflowsMessagesOnly(size) == Len(queue) - head >= QueueLimit
Overflows(size) ==
    \/ Len(queue) - head >= QueueLimit
    \/ ByteLimit - size < 0
    \/ queuedBytes > ByteLimit - size

\* A blocked Read takes a token or an error as it is sent; otherwise the token
\* waits in the channel (a second one is dropped).
SignalLost ==
    IF reader = "blocked"
    THEN reader' = "blocked" /\ token' = TRUE
    ELSE UNCHANGED <<reader, token>>
Signal ==
    IF reader = "blocked"
    THEN reader' = "loop" /\ UNCHANGED token
    ELSE token' = TRUE /\ UNCHANGED reader

\* closeChannels: drop the queue, and the read buffer unless a Read holds
\* readMu; closing the error channel ends a blocked Read once the channel is
\* drained, and a blocked Read has found it empty.
CloseChannelsNoWake ==
    /\ closed' = TRUE
    /\ queue' = <<>> /\ head' = 0 /\ queuedBytes' = 0
    /\ readBuffer' = IF reader = "idle" THEN <<>> ELSE readBuffer
    /\ UNCHANGED <<reader, result>>
CloseChannels ==
    /\ closed' = TRUE
    /\ queue' = <<>> /\ head' = 0 /\ queuedBytes' = 0
    /\ readBuffer' = IF reader = "idle" THEN <<>> ELSE readBuffer
    /\ IF reader = "blocked"
       THEN reader' = "idle" /\ result' = "closed"
       ELSE UNCHANGED <<reader, result>>

-----------------------------------------------------------------------------
(***************************************************************************)
(* Callbacks of the browser's socket; all are gone once the connection is  *)
(* closed on this side.                                                    *)
(***************************************************************************)
Attached == ~closed /\ jsSocket = "open"

\* onmessage with binary data that fits: queue it and signal.
OnMessage ==
    /\ Attached /\ messages < MaxMessages
    /\ \E size \in MessageSizes, spare \in BOOLEAN :
        LET c == Compact(queue, head, spare)
        IN  /\ ~Overflows(size)
            /\ queue' = Append(c.queue, Bytes(arrived + 1, arrived + size))
            /\ head' = c.head
            /\ queuedBytes' = queuedBytes + size
            /\ arrived' = arrived + size
    /\ messages' = messages + 1
    /\ Signal
    /\ UNCHANGED <<errors, closed, readBuffer, want, got, result, jsSocket>>

\* onmessage beyond the limits: the overflow error, then the connection closes
\* and the browser's socket with it.  A Read blocked in the select gets the
\* error, any other the buffered error if it is already past its closed check.
OnOverflow ==
    /\ Attached /\ messages < MaxMessages
    /\ \E size \in MessageSizes :
        /\ Overflows(size)
        /\ arrived' = arrived + size
    /\ messages' = messages + 1
    /\ closed' = TRUE
    /\ queue' = <<>> /\ head' = 0 /\ queuedBytes' = 0
    /\ readBuffer' = IF reader = "idle" THEN <<>> ELSE readBuffer
    /\ IF reader = "blocked"
       THEN reader' = "idle" /\ result' = "error" /\ UNCHANGED errors
       ELSE /\ errors' = IF Len(errors) < ErrorCap THEN Append(errors, "overflow") ELSE errors
            /\ UNCHANGED <<reader, result>>
    /\ jsSocket' = "closed"
    /\ UNCHANGED <<token, want, got>>

\* onerror, or onmessage with data that is not binary: storeConnectionError,
\* which drops the error when the channel is full.
OnError ==
    /\ Attached
    /\ IF reader = "blocked"
       THEN reader' = "idle" /\ result' = "error" /\ UNCHANGED errors
       ELSE /\ errors' = IF Len(errors) < ErrorCap THEN Append(errors, "socket") ELSE errors
            /\ UNCHANGED <<reader, result>>
    /\ UNCHANGED <<queueVars, token, closed, readBuffer, want, got, jsSocket, messages, arrived>>

\* onclose.
OnClose ==
    /\ Attached
    /\ CloseChannels
    /\ jsSocket' = "closed"
    /\ UNCHANGED <<token, errors, want, got, messages, arrived>>

\* Close: closeChannels (once) and the socket's own close.
Close ==
    /\ jsSocket = "open"
    /\ IF closed THEN UNCHANGED <<queueVars, closed, readBuffer, reader, result>>
                 ELSE CloseChannels
    /\ jsSocket' = "closed"
    /\ UNCHANGED <<token, errors, want, got, messages, arrived>>

-----------------------------------------------------------------------------
(***************************************************************************)
(* Read.                                                                   *)
(***************************************************************************)
Returns(how) == reader' = "idle" /\ result' = how

ReadClosed ==
    /\ reader = "idle" /\ closed
    /\ Returns("closed")
    /\ UNCHANGED <<queueVars, token, errors, closed, readBuffer, want, got, jsSocket, messages, arrived>>

\* The tail of the last message first.
ReadBuffered ==
    /\ reader = "idle" /\ ~closed /\ readBuffer # <<>>
    /\ \E size \in ReadSizes :
        LET n == Smaller(size, Len(readBuffer))
        IN  /\ got' = got \o SubSeq(readBuffer, 1, n)
            /\ readBuffer' = Rest(readBuffer, n)
    /\ Returns("data")
    /\ UNCHANGED <<queueVars, token, errors, closed, want, jsSocket, messages, arrived>>

ReadEnters ==
    /\ reader = "idle" /\ ~closed /\ readBuffer = <<>>
    /\ reader' = "loop"
    /\ want' \in ReadSizes
    /\ UNCHANGED <<queueVars, token, errors, closed, readBuffer, got, result, jsSocket, messages, arrived>>

\* shiftQueuedMessage found a message: as much as fits, the tail is kept.
ReadMessageDropsTail ==
    /\ reader = "loop" /\ Pending # <<>>
    /\ \E spare \in BOOLEAN :
        LET message == queue[head + 1]
            n == Smaller(want, Len(message))
            taken == [queue EXCEPT ![head + 1] = Nil]
            c == Compact(taken, head + 1, spare)
        IN  /\ queue' = c.queue /\ head' = c.head
            /\ queuedBytes' = queuedBytes - Len(message)
            /\ got' = got \o SubSeq(message, 1, n)
            /\ readBuffer' = <<>>
    /\ Returns("data")
    /\ UNCHANGED <<token, errors, closed, want, jsSocket, messages, arrived>>
ReadMessage ==
    /\ reader = "loop" /\ Pending # <<>>
    /\ \E spare \in BOOLEAN :
        LET message == queue[head + 1]
            n == Smaller(want, Len(message))
            taken == [queue EXCEPT ![head + 1] = Nil]
            c == IF head + 1 >= Len(queue)
                 THEN [queue |-> <<>>, head |-> 0]
                 ELSE Compact(taken, head + 1, spare)
        IN  /\ queue' = c.queue /\ head' = c.head
            /\ queuedBytes' = IF queuedBytes < Len(message) THEN 0 ELSE queuedBytes - Len(message)
            /\ got' = got \o SubSeq(message, 1, n)
            /\ readBuffer' = Rest(message, n)
    /\ Returns("data")
    /\ UNCHANGED <<token, errors, closed, want, jsSocket, messages, arrived>>

\* The queue is empty: the select takes an error, the end of the closed error
\* channel, or the token, whichever is ready; with none it blocks.
SelectError ==
    /\ reader = "loop" /\ Pending = <<>> /\ errors # <<>>
    /\ errors' = Tail(errors)
    /\ Returns("error")
    /\ UNCHANGED <<queueVars, token, closed, readBuffer, want, got, jsSocket, messages, arrived>>

SelectClosed ==
    /\ reader = "loop" /\ Pending = <<>> /\ errors = <<>> /\ closed
    /\ Returns("closed")
    /\ UNCHANGED <<queueVars, token, errors, closed, readBuffer, want, got, jsSocket, messages, arrived>>

SelectToken ==
    /\ reader = "loop" /\ Pending = <<>> /\ token
    /\ token' = FALSE
    /\ UNCHANGED <<queueVars, errors, closed, readVars, jsSocket, messages, arrived>>

SelectBlocks ==
    /\ reader = "loop" /\ Pending = <<>> /\ errors = <<>> /\ ~closed /\ ~token
    /\ reader' = "blocked"
    /\ UNCHANGED <<queueVars, token, errors, closed, readBuffer, want, got, result,
                   jsSocket, messages, arrived>>

Read ==
    \/ ReadClosed \/ ReadBuffered \/ ReadEnters \/ ReadMessage
    \/ SelectError \/ SelectClosed \/ SelectToken \/ SelectBlocks

Next ==
    \/ OnMessage \/ OnOverflow \/ OnError \/ OnClose \/ Close
    \/ Read

\* The transport keeps reading; the network and the user owe nothing.
Spec == Init /\ [][Next]_vars /\ WF_vars(Read)

-----------------------------------------------------------------------------
(***************************************************************************)
(* Properties.                                                             *)
(***************************************************************************)

\* Every variable has its type.
TypeOK ==
    /\ queue \in Seq(Seq(Nat))
    /\ head \in 0 .. Len(queue)
    /\ queuedBytes \in Nat
    /\ token \in BOOLEAN /\ closed \in BOOLEAN
    /\ errors \in Seq({"socket", "overflow"}) /\ Len(errors) <= ErrorCap
    /\ readBuffer \in Seq(Nat)
    /\ reader \in {"idle", "loop", "blocked"}
    /\ want \in ReadSizes \cup {0}
    /\ jsSocket \in {"open", "closed"}
    /\ messages \in 0 .. MaxMessages
    /\ arrived \in Nat
    /\ got \in Seq(Nat)
    /\ result \in {"none", "data", "error", "closed"}

\* A slow reader cannot make the queue grow: the unread messages and bytes
\* stay within the limits, the byte count is what came and was not yet taken
\* from the queue, and the consumed slots kept at the front are fewer than half
\* of the slice.
QueueBounded ==
    /\ Len(Pending) <= QueueLimit
    /\ queuedBytes <= ByteLimit
    /\ queuedBytes = IF closed THEN 0 ELSE arrived - Len(got) - Len(readBuffer)
    /\ head = 0 \/ head < Len(queue) \div 2

Stream == INSTANCE ByteStream

\* To its reader the connection is a byte stream: every byte once, in order,
\* across message boundaries, short reads, compaction and overflow.
IsByteStream == Stream!Spec

\* Whatever arrived is read in the end, unless the connection is closed.
EverythingIsRead ==
    \A n \in 1 .. ByteLimit : arrived >= n ~> Len(got) >= n \/ closed

\* Closing, by either side or by overflow, ends the Read that is under way and
\* the reader is told, with an error.
CloseReachesReader ==
    closed ~> reader = "idle" /\ result \in {"closed", "error"}
=============================================================================
