----------------------------- MODULE FrameReader -----------------------------
(***************************************************************************)
(* The read side of the net.Conn over a gorilla websocket: Read turns      *)
(* messages into a byte stream (pkg/grpctunnel/conn.go and                 *)
(* pkg/bridge/conn.go, which differ in the error for a text message).      *)
(*                                                                         *)
(* gorilla is external: NextReader skips to the next message and blocks    *)
(* until there is one, a message's reader gives its bytes in pieces and    *)
(* io.EOF with the last piece or after it, and an error of the connection  *)
(* stays.  What the host has received may still be read, or not, once the  *)
(* socket is closed on this side.                                          *)
(*                                                                         *)
(* Payload bytes of binary messages are numbered in the order of arrival.  *)
(***************************************************************************)
EXTENDS Integers, Sequences

CONSTANTS
    MessageSizes,   \* payload sizes the peer sends
    ReadSizes,      \* lengths of the buffers Read is called with
    MaxMessages     \* bound: messages the peer sends

ASSUME SizeAssumption ==
    /\ MessageSizes \subseteq Nat
    /\ ReadSizes \subseteq Nat \ {0}
    /\ MaxMessages \in Nat

Packages == {"grpctunnel", "bridge"}

VARIABLES
    pkg,        \* whose adapter this is
    isClosed,
    sock,       \* "open", "lost" (no more will come), "closed" on this side
    inbox,      \* messages received and not yet opened
    frame,      \* the reader field: the message under way, or NoReader
    readErr,    \* gorilla remembers a failed read
    reading,    \* Read: "idle", "next" (in NextReader), "chunk" (in reader.Read)
    want,       \* len(p) of the Read under way
    messages,   \* messages sent so far
    arrived,    \* history: payload bytes of binary messages so far
    got,        \* history: bytes Read returned
    result,     \* history: how the last Read ended
    told        \* history: a Read has met Close, or taken a failure for it

connVars == <<pkg, isClosed, sock, messages, arrived>>
readVars == <<inbox, frame, readErr, reading, want, got, result, told>>
vars == <<connVars, readVars>>

Bytes(from, to) == [i \in 1 .. (to - from + 1) |-> from + i - 1]

\* A message: its type, what is left of its payload, and whether the
\* connection broke before the end of it.
Message(type, payload, cut) == [type |-> type, left |-> payload, cut |-> cut]
NoReader == Message("none", <<>>, FALSE)

Init ==
    /\ pkg \in Packages
    /\ isClosed = FALSE
    /\ sock = "open"
    /\ inbox = <<>>
    /\ frame = NoReader
    /\ readErr = FALSE
    /\ reading = "idle" /\ want = 0
    /\ messages = 0 /\ arrived = 0
    /\ got = <<>> /\ result = "none" /\ told = FALSE

-----------------------------------------------------------------------------
(***************************************************************************)
(* The peer (external) and Close.                                          *)
(***************************************************************************)
PeerSends ==
    /\ sock = "open" /\ messages < MaxMessages
    /\ messages' = messages + 1
    /\ \E size \in MessageSizes, cut \in BOOLEAN :
        /\ sock' = IF cut THEN "lost" ELSE sock
        /\ \/ /\ inbox' = Append(inbox, Message("binary", Bytes(arrived + 1, arrived + size), cut))
              /\ arrived' = arrived + size
           \/ /\ inbox' = Append(inbox, Message("text", <<>>, cut))
              /\ UNCHANGED arrived
    /\ UNCHANGED <<pkg, isClosed, frame, readErr, reading, want, got, result, told>>

\* A close frame, a reset, a message over the read limit, the read deadline.
ConnectionLost ==
    /\ sock = "open"
    /\ sock' = "lost"
    /\ UNCHANGED <<pkg, isClosed, messages, arrived, readVars>>

\* Close: the flag, and then the socket, while a Read may be anywhere.
CloseFlag ==
    /\ ~isClosed
    /\ isClosed' = TRUE
    /\ UNCHANGED <<pkg, sock, messages, arrived, readVars>>

CloseSocket ==
    /\ isClosed /\ sock # "closed"
    /\ sock' = "closed"
    /\ UNCHANGED <<pkg, isClosed, messages, arrived, readVars>>

-----------------------------------------------------------------------------
(***************************************************************************)
(* Read, under readMu.                                                     *)
(***************************************************************************)
Returns(how) == reading' = "idle" /\ result' = how

\* The closed check: io.EOF (net.ErrClosed in pkg/bridge), or on.
ReadRefused ==
    /\ reading = "idle" /\ isClosed
    /\ Returns("closed")
    /\ told' = TRUE
    /\ UNCHANGED <<connVars, inbox, frame, readErr, want, got>>

\* The message that a Read before has not finished, or the next one.
ReadEnters ==
    /\ reading = "idle" /\ ~isClosed
    /\ reading' = IF frame = NoReader THEN "next" ELSE "chunk"
    /\ want' \in ReadSizes
    /\ UNCHANGED <<connVars, inbox, frame, readErr, got, result, told>>

NextReader ==
    /\ reading = "next" /\ ~readErr
    /\ inbox # <<>> /\ Head(inbox).type = "binary"
    /\ frame' = Head(inbox)
    /\ inbox' = Tail(inbox)
    /\ reading' = "chunk"
    /\ UNCHANGED <<connVars, readErr, want, got, result, told>>

\* A message that is not binary is an error (net.ErrClosed in pkg/bridge, as
\* after Close), and skipped by the next Read.
NextIsText ==
    /\ reading = "next" /\ ~readErr
    /\ inbox # <<>> /\ Head(inbox).type = "text"
    /\ inbox' = Tail(inbox)
    /\ Returns(IF pkg = "bridge" THEN "closed" ELSE "error")
    /\ UNCHANGED <<connVars, frame, readErr, want, got, told>>

NextFailsRetries ==
    /\ reading = "next"
    /\ readErr \/ sock = "closed" \/ (sock = "lost" /\ inbox = <<>>)
    /\ readErr' = TRUE
    /\ UNCHANGED <<connVars, inbox, frame, reading, want, got, result, told>>
NextFails ==
    /\ reading = "next"
    /\ readErr \/ sock = "closed" \/ (sock = "lost" /\ inbox = <<>>)
    /\ readErr' = TRUE
    /\ Returns("error")
    /\ UNCHANGED <<connVars, inbox, frame, want, got, told>>

\* A piece of the message; io.EOF may come with its last bytes.
ChunkLosesTail ==
    /\ reading = "chunk" /\ ~readErr
    /\ \E n \in 1 .. Len(frame.left) :
        /\ n <= want
        /\ got' = got \o SubSeq(frame.left, 1, n)
        /\ frame' = NoReader
    /\ Returns("data")
    /\ UNCHANGED <<connVars, inbox, readErr, want, told>>
Chunk ==
    /\ reading = "chunk" /\ ~readErr
    /\ \E n \in 1 .. Len(frame.left), withEOF \in BOOLEAN :
        /\ n <= want
        /\ withEOF => n = Len(frame.left) /\ ~frame.cut
        /\ got' = got \o SubSeq(frame.left, 1, n)
        /\ frame' = IF withEOF THEN NoReader
                    ELSE [frame EXCEPT !.left = SubSeq(@, n + 1, Len(@))]
    /\ Returns("data")
    /\ UNCHANGED <<connVars, inbox, readErr, want, told>>

\* io.EOF and no bytes: on to the next message.
ChunkEndStays ==
    /\ reading = "chunk" /\ ~readErr
    /\ frame.left = <<>> /\ ~frame.cut
    /\ reading' = "chunk"
    /\ UNCHANGED <<connVars, inbox, frame, readErr, want, got, result, told>>
ChunkEnd ==
    /\ reading = "chunk" /\ ~readErr
    /\ frame.left = <<>> /\ ~frame.cut
    /\ frame' = NoReader
    /\ reading' = "next"
    /\ UNCHANGED <<connVars, inbox, readErr, want, got, result, told>>

\* The connection broke inside the message, or is closed: an error, never io.EOF.
ChunkFailsAsEnd ==
    /\ reading = "chunk"
    /\ readErr \/ sock = "closed" \/ (frame.left = <<>> /\ frame.cut)
    /\ Returns("closed")
    /\ told' = TRUE
    /\ UNCHANGED <<connVars, inbox, frame, readErr, want, got>>
ChunkFails ==
    /\ reading = "chunk"
    /\ readErr \/ sock = "closed" \/ (frame.left = <<>> /\ frame.cut)
    /\ readErr' = TRUE
    /\ Returns("error")
    /\ UNCHANGED <<connVars, inbox, frame, want, got, told>>

Read ==
    \/ ReadRefused \/ ReadEnters \/ NextReader \/ NextIsText \/ NextFails
    \/ Chunk \/ ChunkEnd \/ ChunkFails

Next == PeerSends \/ ConnectionLost \/ CloseFlag \/ CloseSocket \/ Read

\* The transport keeps reading and a Close finishes; the peer owes nothing.
Spec == Init /\ [][Next]_vars /\ WF_vars(Read) /\ WF_vars(CloseSocket)

-----------------------------------------------------------------------------
(***************************************************************************)
(* Properties.                                                             *)
(***************************************************************************)
Messages(types) == [type : types, left : Seq(Nat), cut : BOOLEAN]

\* Every variable has its type; the reader field only ever holds the reader of a
\* binary message.
TypeOK ==
    /\ pkg \in Packages
    /\ isClosed \in BOOLEAN /\ readErr \in BOOLEAN /\ told \in BOOLEAN
    /\ sock \in {"open", "lost", "closed"}
    /\ inbox \in Seq(Messages({"binary", "text"}))
    /\ frame \in Messages({"binary", "none"})
    /\ reading \in {"idle", "next", "chunk"}
    /\ want \in ReadSizes \cup {0}
    /\ messages \in 0 .. MaxMessages
    /\ arrived \in Nat
    /\ got \in Seq(Nat)
    /\ result \in {"none", "data", "error", "closed"}

Stream == INSTANCE ByteStream WITH closed <- told

\* To its reader the websocket is a byte stream until a Read reports the end:
\* every payload byte once, in order, over empty messages, short reads, text
\* messages and a Close at any point of a Read under way.
IsByteStream == Stream!Spec

\* The end of the stream is reported only after Close on this side: a text
\* message "is a protocol violation, not a clean end of stream" (conn.go:51-52),
\* and so is a connection that breaks inside a message.  Only pkg/bridge reports
\* a text message like a Close.
EndMeansClosed == told \/ (result = "closed" /\ pkg = "grpctunnel") => isClosed

\* What arrived is read in the end, unless this side closes or a read fails
\* after the connection was lost.
EverythingIsRead ==
    \A n \in 1 .. MaxMessages : arrived >= n ~> Len(got) >= n \/ isClosed \/ readErr

\* A Read blocked in NextReader comes back when the connection is lost or closed.
LossEndsRead == sock # "open" ~> reading = "idle" /\ result \in {"error", "closed"}
=============================================================================
