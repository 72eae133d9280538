------------------------- MODULE FrameReaderProofs -------------------------
(***************************************************************************)
(* Theorems about the read side of the websocket adapters, for any number  *)
(* and any sizes of messages and reads, in both packages.                  *)
(***************************************************************************)
EXTENDS FrameReader, SequenceTheorems, TLAPS

(***************************************************************************)
(* Runs of consecutive bytes.                                              *)
(***************************************************************************)
\* s is the run of bytes behind byte a.
Run(s, a) == s \in Seq(Nat) /\ \A i \in 1 .. Len(s) : s[i] = a + i

LEMMA EmptyRun == ASSUME NEW a \in Nat PROVE Run(<<>>, a) /\ Len(<<>>) = 0
  BY DEF Run

LEMMA RunOfBytes ==
    ASSUME NEW a \in Nat, NEW n \in Nat
    PROVE  Run(Bytes(a + 1, a + n), a) /\ Len(Bytes(a + 1, a + n)) = n
  <1>1. Bytes(a + 1, a + n) = [i \in 1 .. n |-> a + i]
    BY DEF Bytes
  <1>2. [i \in 1 .. n |-> a + i] \in [1 .. n -> Nat]
    OBVIOUS
  <1>. QED
    BY <1>1, <1>2, SeqDef DEF Run

LEMMA RunIsBytes ==
    ASSUME NEW s, Run(s, 0)
    PROVE  s = Stream!Bytes(1, Len(s))
  <1>1. Len(s) \in Nat /\ s = [i \in 1 .. Len(s) |-> i]
    BY DEF Run
  <1>. QED
    BY <1>1 DEF Stream!Bytes

LEMMA RunConcat ==
    ASSUME NEW a \in Nat, NEW s, NEW t, Run(s, a), Run(t, a + Len(s))
    PROVE  Run(s \o t, a) /\ Len(s \o t) = Len(s) + Len(t)
  <1>1. s \in Seq(Nat) /\ t \in Seq(Nat) /\ Len(s) \in Nat /\ Len(t) \in Nat
    BY DEF Run
  <1>2. /\ s \o t \in Seq(Nat)
        /\ Len(s \o t) = Len(s) + Len(t)
        /\ \A i \in 1 .. Len(s) + Len(t) :
              (s \o t)[i] = IF i <= Len(s) THEN s[i] ELSE t[i - Len(s)]
    BY <1>1, ConcatProperties
  <1>. QED
    BY <1>1, <1>2 DEF Run

LEMMA RunSplit ==
    ASSUME NEW a \in Nat, NEW s, Run(s, a), NEW n \in 0 .. Len(s)
    PROVE  /\ Run(SubSeq(s, 1, n), a) /\ Len(SubSeq(s, 1, n)) = n
           /\ Run(SubSeq(s, n + 1, Len(s)), a + n)
           /\ Len(SubSeq(s, n + 1, Len(s))) = Len(s) - n
  <1>1. s \in Seq(Nat) /\ Len(s) \in Nat /\ \A i \in 1 .. Len(s) : s[i] = a + i /\ s[i] \in Nat
    BY DEF Run
  <1> DEFINE f == SubSeq(s, 1, n)
             r == SubSeq(s, n + 1, Len(s))
  <1>2. f \in Seq(Nat) /\ Len(f) = n /\ \A i \in 1 .. n : f[i] = s[i]
    <2>1. \A i \in 1 .. n : s[i] \in Nat
      BY <1>1
    <2>. QED
      BY <1>1, <2>1, SubSeqProperties
  <1>3. r \in Seq(Nat) /\ Len(r) = Len(s) - n /\ \A i \in 1 .. Len(s) - n : r[i] = s[n + i]
    <2>1. \A i \in n + 1 .. Len(s) : s[i] \in Nat
      BY <1>1
    <2>. QED
      BY <1>1, <2>1, SubSeqProperties
  <1> HIDE DEF f, r
  <1>4. Run(f, a)
    <2>1. \A i \in 1 .. n : i \in 1 .. Len(s)
      BY <1>1
    <2>2. \A i \in 1 .. n : f[i] = a + i
      BY <1>1, <1>2, <2>1
    <2>. QED
      BY <1>2, <2>2 DEF Run
  <1>5. Run(r, a + n)
    BY <1>1, <1>3 DEF Run
  <1>. QED
    BY <1>2, <1>3, <1>4, <1>5 DEF f, r

(***************************************************************************)
(* The messages that are not opened yet hold consecutive runs of bytes,    *)
(* those of text and empty messages empty: off says where each one ends.   *)
(***************************************************************************)
Inbox == Seq(Messages({"binary", "text"}))

TextIsEmpty(m) == m.type = "text" => m.left = <<>>

Cuts(off, box, from, to) ==
    /\ off \in [0 .. Len(box) -> 0 .. to]
    /\ off[0] = from /\ off[Len(box)] = to
    /\ \A i \in 1 .. Len(box) : /\ Run(box[i].left, off[i - 1])
                                /\ off[i] = off[i - 1] + Len(box[i].left)
                                /\ TextIsEmpty(box[i])

Lined(box, from, to) == \E off : Cuts(off, box, from, to)

LEMMA LinedAppend ==
    ASSUME NEW box \in Inbox, NEW from, NEW to \in Nat, Lined(box, from, to),
           NEW m \in Messages({"binary", "text"}), Run(m.left, to), TextIsEmpty(m),
           NEW end \in Nat, end = to + Len(m.left)
    PROVE  Append(box, m) \in Inbox /\ Lined(Append(box, m), from, end)
  <1> DEFINE a == Append(box, m)
  <1>1. /\ a \in Inbox /\ Len(box) \in Nat /\ Len(a) = Len(box) + 1
        /\ \A i \in 1 .. Len(box) : a[i] = box[i]
        /\ a[Len(box) + 1] = m
    BY AppendProperties DEF Inbox
  <1> HIDE DEF a
  <1>2. PICK off : Cuts(off, box, from, to)
    BY DEF Lined
  <1>3. Len(m.left) \in Nat
    BY DEF Run
  <1> DEFINE new == [i \in 0 .. Len(box) + 1 |-> IF i <= Len(box) THEN off[i] ELSE end]
  <1>4. new \in [0 .. Len(a) -> 0 .. end]
    BY <1>1, <1>2, <1>3 DEF Cuts
  <1>5. new[0] = from /\ new[Len(a)] = end
    BY <1>1, <1>2 DEF Cuts
  <1>6. ASSUME NEW j \in 1 .. Len(a)
        PROVE  Run(a[j].left, new[j - 1]) /\ new[j] = new[j - 1] + Len(a[j].left) /\ TextIsEmpty(a[j])
    <2>1. CASE j <= Len(box)
      <3>1. j \in 1 .. Len(box) /\ a[j] = box[j]
        BY <1>1, <2>1
      <3>2. new[j] = off[j] /\ new[j - 1] = off[j - 1]
        BY <1>1, <3>1
      <3>. QED
        BY <1>2, <3>1, <3>2 DEF Cuts
    <2>2. CASE j = Len(box) + 1
      <3>1. new[j - 1] = to /\ new[j] = end
        BY <1>1, <1>2, <2>2 DEF Cuts
      <3>. QED
        BY <1>1, <2>2, <3>1
    <2>. QED
      BY <1>1, <2>1, <2>2
  <1>7. Cuts(new, a, from, end)
    BY <1>4, <1>5, <1>6 DEF Cuts
  <1>. QED
    BY <1>1, <1>7 DEF Lined, a

\* Opening the first message.
LEMMA LinedTail ==
    ASSUME NEW box \in Inbox, box # <<>>, NEW from, NEW to \in Nat, Lined(box, from, to)
    PROVE  /\ Head(box) \in Messages({"binary", "text"}) /\ Tail(box) \in Inbox
           /\ from \in Nat /\ Run(Head(box).left, from) /\ TextIsEmpty(Head(box))
           /\ Lined(Tail(box), from + Len(Head(box).left), to)
  <1> DEFINE t == Tail(box)
  <1>1. /\ Head(box) = box[1] /\ Head(box) \in Messages({"binary", "text"})
        /\ t \in Inbox /\ Len(box) \in Nat \ {0} /\ Len(t) = Len(box) - 1
        /\ \A i \in 1 .. Len(t) : t[i] = box[i + 1]
    BY HeadTailProperties, EmptySeq DEF Inbox
  <1> HIDE DEF t
  <1>2. PICK off : Cuts(off, box, from, to)
    BY DEF Lined
  <1>3. /\ from \in Nat /\ off[1] \in 0 .. to
        /\ Run(box[1].left, from) /\ off[1] = from + Len(box[1].left) /\ TextIsEmpty(box[1])
    <2>1. 0 \in 0 .. Len(box) /\ 1 \in 1 .. Len(box) /\ 1 \in 0 .. Len(box)
      BY <1>1
    <2>2. Run(box[1].left, off[1 - 1]) /\ off[1] = off[1 - 1] + Len(box[1].left) /\ TextIsEmpty(box[1])
      BY <1>2, <2>1 DEF Cuts
    <2>. QED
      BY <1>2, <2>1, <2>2, SMTT(30) DEF Cuts
  <1> DEFINE new == [i \in 0 .. Len(t) |-> off[i + 1]]
  <1>4. new \in [0 .. Len(t) -> 0 .. to]
    BY <1>1, <1>2 DEF Cuts
  <1>5. new[0] = off[1] /\ new[Len(t)] = to
    BY <1>1, <1>2 DEF Cuts
  <1>6. ASSUME NEW j \in 1 .. Len(t)
        PROVE  Run(t[j].left, new[j - 1]) /\ new[j] = new[j - 1] + Len(t[j].left) /\ TextIsEmpty(t[j])
    <2>1. PICK k \in 1 .. Len(box) : k = j + 1
      BY <1>1
    <2>2. t[j] = box[k] /\ new[j] = off[k] /\ new[j - 1] = off[k - 1]
      BY <1>1, <2>1
    <2>3. Run(box[k].left, off[k - 1]) /\ off[k] = off[k - 1] + Len(box[k].left) /\ TextIsEmpty(box[k])
      BY <1>2 DEF Cuts
    <2>. QED
      BY <2>2, <2>3
  <1>7. Cuts(new, t, off[1], to)
    BY <1>4, <1>5, <1>6 DEF Cuts
  <1>. QED
    BY <1>1, <1>3, <1>7 DEF Lined, t

-----------------------------------------------------------------------------
(***************************************************************************)
(* The inductive invariant: what Read returned, what is left of the        *)
(* message under way and the messages not opened yet are consecutive runs  *)
(* that end with the last byte that came, and the reader field is empty    *)
(* when the next message is opened.  Once a Read was told of Close, none   *)
(* gets past its closed check again.                                       *)
(***************************************************************************)
Taken == Len(got) + Len(frame.left)

ReaderType ==
    /\ pkg \in Packages
    /\ inbox \in Inbox
    /\ frame \in Messages({"binary", "none"})
    /\ arrived \in Nat

InOrder ==
    /\ Run(got, 0)
    /\ Run(frame.left, Len(got))
    /\ Lined(inbox, Taken, arrived)
    /\ reading = "next" => frame = NoReader

ToldIsIdle == told => reading = "idle" /\ isClosed

ReaderInv == ReaderType /\ InOrder /\ ToldIsIdle /\ EndMeansClosed

LEMMA NoReaderIsEmpty ==
    /\ NoReader \in Messages({"binary", "none"})
    /\ NoReader.left = <<>>
  BY DEF NoReader, Message, Messages

LEMMA ReaderInit == Init => ReaderInv /\ Stream!Init
  <1> SUFFICES ASSUME Init PROVE ReaderInv /\ Stream!Init
    OBVIOUS
  <1>1. ReaderType
    BY NoReaderIsEmpty DEF Init, ReaderType, Inbox
  <1>2. Run(<<>>, 0) /\ Len(<<>>) = 0
    BY EmptyRun
  <1>3. Taken = 0
    BY <1>2, NoReaderIsEmpty DEF Init, Taken
  <1>4. Cuts([i \in 0 .. 0 |-> 0], <<>>, 0, 0)
    BY DEF Cuts
  <1>5. InOrder
    BY <1>2, <1>3, <1>4, NoReaderIsEmpty DEF Init, InOrder, Lined
  <1>6. ToldIsIdle /\ EndMeansClosed
    BY DEF Init, ToldIsIdle, EndMeansClosed
  <1>. QED
    BY <1>1, <1>5, <1>6 DEF ReaderInv, Init, Stream!Init

\* Steps that move no byte.
LEMMA QuietStep ==
    ASSUME ReaderInv, UNCHANGED <<pkg, inbox, arrived, got, frame>>,
           reading' = "next" => reading = "next" \/ frame = NoReader
    PROVE  ReaderType' /\ InOrder'
  BY DEF ReaderInv, ReaderType, InOrder, Taken

LEMMA SendStep == ReaderInv /\ PeerSends => ReaderType' /\ InOrder' /\ Stream!Arrive
  <1> SUFFICES ASSUME ReaderInv, PeerSends PROVE ReaderType' /\ InOrder' /\ Stream!Arrive
    OBVIOUS
  <1>1. UNCHANGED <<pkg, frame, got, reading, told>>
    BY DEF PeerSends
  <1>2. /\ arrived \in Nat /\ inbox \in Inbox /\ Lined(inbox, Taken, arrived)
        /\ Taken' = Taken
    BY <1>1 DEF ReaderInv, ReaderType, InOrder, Taken
  <1>3. inbox' \in Inbox /\ Lined(inbox', Taken, arrived') /\ arrived' \in Nat /\ arrived' >= arrived
    <2>1. PICK size \in MessageSizes, cut \in BOOLEAN :
            \/ /\ inbox' = Append(inbox, Message("binary", Bytes(arrived + 1, arrived + size), cut))
               /\ arrived' = arrived + size
            \/ /\ inbox' = Append(inbox, Message("text", <<>>, cut))
               /\ arrived' = arrived
      BY DEF PeerSends
    <2>2. size \in Nat
      BY SizeAssumption
    <2>3. CASE /\ inbox' = Append(inbox, Message("binary", Bytes(arrived + 1, arrived + size), cut))
               /\ arrived' = arrived + size
      <3> DEFINE b == Bytes(arrived + 1, arrived + size)
                 m == Message("binary", b, cut)
      <3>1. Run(b, arrived) /\ Len(b) = size
        BY <1>2, <2>2, RunOfBytes
      <3> HIDE DEF b
      <3>2. m \in Messages({"binary", "text"}) /\ m.left = b /\ TextIsEmpty(m)
        BY <3>1 DEF Message, Messages, Run, TextIsEmpty
      <3> HIDE DEF m
      <3>3. arrived' \in Nat /\ arrived' = arrived + Len(m.left) /\ Run(m.left, arrived)
        BY <1>2, <2>2, <2>3, <3>1, <3>2
      <3>4. Append(inbox, m) \in Inbox /\ Lined(Append(inbox, m), Taken, arrived')
        BY <1>2, <3>2, <3>3, LinedAppend
      <3>. QED
        BY <1>2, <2>2, <2>3, <3>4 DEF m, b
    <2>4. CASE /\ inbox' = Append(inbox, Message("text", <<>>, cut))
               /\ arrived' = arrived
      <3> DEFINE m == Message("text", <<>>, cut)
      <3>1. m \in Messages({"binary", "text"}) /\ m.left = <<>> /\ TextIsEmpty(m)
        BY DEF Message, Messages, TextIsEmpty
      <3> HIDE DEF m
      <3>2. arrived' \in Nat /\ arrived' = arrived + Len(m.left) /\ Run(m.left, arrived)
        BY <1>2, <2>4, <3>1, EmptyRun
      <3>3. Append(inbox, m) \in Inbox /\ Lined(Append(inbox, m), Taken, arrived')
        BY <1>2, <3>1, <3>2, LinedAppend
      <3>. QED
        BY <1>2, <2>4, <3>3 DEF m
    <2>. QED
      BY <2>1, <2>3, <2>4
  <1>4. ReaderType' /\ InOrder'
    BY <1>1, <1>2, <1>3 DEF ReaderInv, ReaderType, InOrder
  <1>5. Stream!Arrive
    BY <1>1, <1>3 DEF Stream!Arrive
  <1>. QED
    BY <1>4, <1>5

\* A message is opened, or a text message skipped.
LEMMA OpenStep ==
    ASSUME ReaderInv, NextReader \/ NextIsText
    PROVE  ReaderType' /\ InOrder'
  <1> DEFINE m == Head(inbox)
  <1>1. /\ inbox # <<>> /\ inbox' = Tail(inbox) /\ reading = "next" /\ reading' # "next"
        /\ UNCHANGED <<pkg, got, arrived>>
    BY DEF NextReader, NextIsText, Returns, connVars
  <1>2. /\ inbox \in Inbox /\ arrived \in Nat /\ Run(got, 0) /\ Len(got) \in Nat
        /\ frame.left = <<>> /\ Taken = Len(got) /\ Lined(inbox, Len(got), arrived)
    <2>1. /\ inbox \in Inbox /\ arrived \in Nat /\ Run(got, 0) /\ Len(got) \in Nat
          /\ frame.left = <<>> /\ Lined(inbox, Taken, arrived)
      BY <1>1, NoReaderIsEmpty DEF ReaderInv, ReaderType, InOrder, Run
    <2>2. Taken = Len(got)
      BY <2>1 DEF Taken
    <2>. QED
      BY <2>1, <2>2
  <1>3. /\ m \in Messages({"binary", "text"}) /\ Tail(inbox) \in Inbox
        /\ Run(m.left, Len(got)) /\ TextIsEmpty(m)
        /\ Lined(Tail(inbox), Len(got) + Len(m.left), arrived)
    BY <1>1, <1>2, LinedTail
  <1> HIDE DEF m
  <1>4. CASE NextReader
    <2>1. frame' = m /\ m.type = "binary"
      BY <1>4 DEF NextReader, m
    <2>2. m \in Messages({"binary", "none"})
      BY <1>3, <2>1 DEF Messages
    <2>. QED
      BY <1>1, <1>2, <1>3, <2>1, <2>2 DEF ReaderInv, ReaderType, InOrder, Taken
  <1>5. CASE NextIsText
    <2>1. frame' = frame /\ m.type = "text"
      BY <1>5 DEF NextIsText, m
    <2>2. Len(m.left) = 0
      BY <1>3, <2>1 DEF TextIsEmpty
    <2>. QED
      BY <1>1, <1>2, <1>3, <2>1, <2>2 DEF ReaderInv, ReaderType, InOrder, Taken
  <1>. QED
    BY <1>4, <1>5

LEMMA ChunkStep ==
    ASSUME ReaderInv, Chunk
    PROVE  ReaderType' /\ InOrder' /\ Stream!Take
  <1>1. PICK n \in 1 .. Len(frame.left), withEOF \in BOOLEAN :
            /\ withEOF => n = Len(frame.left)
            /\ got' = got \o SubSeq(frame.left, 1, n)
            /\ frame' = IF withEOF THEN NoReader
                        ELSE [frame EXCEPT !.left = SubSeq(@, n + 1, Len(@))]
    BY DEF Chunk
  <1>2. /\ reading = "chunk" /\ reading' = "idle"
        /\ UNCHANGED <<pkg, inbox, arrived, told>>
    BY DEF Chunk, Returns, connVars
  <1>3. /\ Run(got, 0) /\ Run(frame.left, Len(got)) /\ Lined(inbox, Taken, arrived)
        /\ Len(got) \in Nat /\ Len(frame.left) \in Nat /\ arrived \in Nat
        /\ inbox \in Inbox /\ frame \in Messages({"binary", "none"})
    BY DEF ReaderInv, ReaderType, InOrder, Run
  <1>4. n \in 0 .. Len(frame.left)
    BY <1>3
  <1> DEFINE first == SubSeq(frame.left, 1, n)
             rest == SubSeq(frame.left, n + 1, Len(frame.left))
  <1>5. /\ Run(first, Len(got)) /\ Len(first) = n
        /\ Run(rest, Len(got) + n) /\ Len(rest) = Len(frame.left) - n
    BY <1>3, <1>4, RunSplit
  <1>6. got' = got \o first /\ (~withEOF => frame' = [frame EXCEPT !.left = rest])
    BY <1>1
  <1> HIDE DEF first, rest
  <1>7. Run(got', 0) /\ Len(got') = Len(got) + n
    <2>1. 0 \in Nat /\ Run(got, 0) /\ Run(first, 0 + Len(got))
      BY <1>3, <1>5
    <2>2. Run(got \o first, 0) /\ Len(got \o first) = Len(got) + Len(first)
      BY <2>1, RunConcat, Zenon
    <2>. QED
      BY <1>5, <1>6, <2>2
  <1>8. /\ frame' \in Messages({"binary", "none"})
        /\ Run(frame'.left, Len(got) + n) /\ Len(frame'.left) = Len(frame.left) - n
    <2>1. CASE withEOF
      <3>1. frame'.left = <<>> /\ n = Len(frame.left) /\ frame' = NoReader
        BY <1>1, <2>1, NoReaderIsEmpty
      <3>2. Run(<<>>, Len(got) + n) /\ Len(<<>>) = 0
        BY <1>3, <1>4, EmptyRun
      <3>. QED
        BY <1>3, <3>1, <3>2, NoReaderIsEmpty
    <2>2. CASE ~withEOF
      <3>1. frame'.left = rest /\ frame' \in Messages({"binary", "none"})
        BY <1>3, <1>5, <1>6, <2>2 DEF Messages, Run
      <3>. QED
        BY <1>5, <3>1
    <2>. QED
      BY <2>1, <2>2
  <1>9. Taken' = Taken /\ Taken \in Nat
    <2>1. PICK x \in Nat, y \in Nat : x = Len(got) /\ y = Len(frame.left)
      BY <1>3
    <2>2. n \in 0 .. y
      BY <1>4, <2>1
    <2>3. (x + n) + (y - n) = x + y /\ x + y \in Nat
      BY <2>2
    <2>4. Taken = x + y
      BY <2>1 DEF Taken
    <2>5. Taken' = (x + n) + (y - n)
      BY <1>7, <1>8, <2>1 DEF Taken
    <2>. QED
      BY <2>3, <2>4, <2>5
  <1>10. ReaderType' /\ InOrder'
    BY <1>2, <1>3, <1>7, <1>8, <1>9 DEF ReaderInv, ReaderType, InOrder
  <1>11. Stream!Take
    <2>1. Taken <= arrived
      <3>1. PICK off : Cuts(off, inbox, Taken, arrived)
        BY <1>3 DEF Lined
      <3>2. 0 \in 0 .. Len(inbox)
        BY <1>3 DEF Inbox
      <3>. QED
        BY <1>3, <3>1, <3>2 DEF Cuts
    <2>2. Len(got') \in Len(got) + 1 .. arrived
      BY <1>3, <1>7, <1>9, <2>1 DEF Taken
    <2>3. got' = Stream!Bytes(1, Len(got'))
      BY <1>7, RunIsBytes
    <2>4. ~told
      BY <1>2 DEF ReaderInv, ToldIsIdle
    <2>. QED
      BY <1>2, <2>2, <2>3, <2>4 DEF Stream!Take
  <1>. QED
    BY <1>10, <1>11

LEMMA ReaderStep ==
    ReaderInv /\ [Next]_vars => ReaderInv' /\ [Stream!Next]_(Stream!vars)
  <1> SUFFICES ASSUME ReaderInv, [Next]_vars
               PROVE  ReaderInv' /\ [Stream!Next]_(Stream!vars)
    OBVIOUS
  <1> USE DEF Stream!Next, Stream!vars
  <1>1. ToldIsIdle' /\ EndMeansClosed'
    <2>1. ToldIsIdle /\ EndMeansClosed
      BY DEF ReaderInv
    <2>. QED
      BY <2>1 DEF ToldIsIdle, EndMeansClosed, Next, PeerSends, ConnectionLost, CloseFlag, CloseSocket,
                  Read, ReadRefused, ReadEnters, NextReader, NextIsText, NextFails, Chunk, ChunkEnd,
                  ChunkFails, Returns, vars, connVars, readVars
  <1>2. CASE PeerSends
    BY <1>1, <1>2, SendStep DEF ReaderInv
  <1>3. CASE NextReader \/ NextIsText
    <2>1. UNCHANGED <<arrived, got, told>>
      BY <1>3 DEF NextReader, NextIsText, connVars
    <2>. QED
      BY <1>1, <1>3, <2>1, OpenStep DEF ReaderInv
  <1>4. CASE Chunk
    BY <1>1, <1>4, ChunkStep DEF ReaderInv
  <1>5. CASE ChunkEnd
    <2>1. /\ frame' = NoReader /\ frame.left = <<>> /\ reading' = "next"
          /\ UNCHANGED <<pkg, inbox, arrived, got, told>>
      BY <1>5 DEF ChunkEnd, connVars
    <2>2. ReaderType' /\ InOrder'
      BY <2>1, NoReaderIsEmpty DEF ReaderInv, ReaderType, InOrder, Taken
    <2>. QED
      BY <1>1, <2>1, <2>2 DEF ReaderInv
  <1>6. CASE ReadRefused
    <2>1. UNCHANGED <<pkg, inbox, arrived, got, frame>> /\ reading' = "idle" /\ told' = TRUE
      BY <1>6 DEF ReadRefused, Returns, connVars
    <2>2. Stream!Close
      BY <2>1 DEF Stream!Close
    <2>. QED
      BY <1>1, <2>1, <2>2, QuietStep DEF ReaderInv
  <1>7. CASE ConnectionLost \/ CloseFlag \/ CloseSocket \/ ReadEnters \/ NextFails \/ ChunkFails
             \/ UNCHANGED vars
    <2>1. /\ UNCHANGED <<pkg, inbox, arrived, got, frame, told>>
          /\ reading' = "next" => reading = "next" \/ frame = NoReader
      BY <1>7 DEF ConnectionLost, CloseFlag, CloseSocket, ReadEnters, NextFails, ChunkFails, Returns,
                  vars, connVars, readVars
    <2>. QED
      BY <1>1, <2>1, QuietStep DEF ReaderInv
  <1>. QED
    BY <1>2, <1>3, <1>4, <1>5, <1>6, <1>7 DEF Next, Read

\* A Read reports the end of the stream only after Close on this side, however
\* messages, losses and Close interleave; in pkg/bridge a text message is the
\* exception that the property names (grpctunnel/conn.go:33-69).
THEOREM EndOnlyAfterClose == Spec => []EndMeansClosed
  <1>1. ReaderInv => EndMeansClosed
    BY DEF ReaderInv
  <1>. QED
    BY <1>1, ReaderInit, ReaderStep, PTL DEF Spec

\* Both adapters implement a byte stream: Read returns every payload byte once
\* and in order over empty messages, short reads, text messages and losses
\* (grpctunnel/conn.go:33-69, bridge/conn.go:106-146).
THEOREM ReaderIsByteStream == Spec => IsByteStream
  BY ReaderInit, ReaderStep, PTL DEF Spec, IsByteStream, Stream!Spec

-----------------------------------------------------------------------------
(***************************************************************************)
(* Failures.  Gorilla's error stays, so one that came too early would      *)
(* cost the messages that are still in the host.                           *)
(***************************************************************************)
\* A Read fails only on a connection that is gone, and on one that was lost, not
\* closed, only when everything that arrived has been read.
FailureComesLast ==
    readErr => sock # "open" /\ (sock = "lost" => Len(got) = arrived)

\* Only the last message can be cut, and then nothing follows it; after a failure
\* on a lost connection there is nothing left.
LossInv ==
    /\ sock \in {"open", "lost", "closed"}
    /\ \A i \in DOMAIN inbox : inbox[i].cut => sock # "open" /\ i = Len(inbox)
    /\ frame.cut => sock # "open" /\ inbox = <<>>
    /\ readErr => sock # "open" /\ (sock = "lost" => inbox = <<>> /\ frame.left = <<>>)

LEMMA LossInductive == ReaderInv /\ LossInv /\ [Next]_vars => LossInv'
  <1> SUFFICES ASSUME ReaderInv, LossInv, [Next]_vars
               PROVE  LossInv'
    OBVIOUS
  <1> USE DEF LossInv
  <1>0. inbox \in Inbox /\ frame \in Messages({"binary", "none"})
    BY DEF ReaderInv, ReaderType
  <1>1. CASE PeerSends
    <2>1. PICK m : inbox' = Append(inbox, m) /\ (m.cut => sock' = "lost") /\ sock' \in {"lost", sock}
      <3>1. PICK size \in MessageSizes, cut \in BOOLEAN :
               /\ sock' = IF cut THEN "lost" ELSE sock
               /\ \/ inbox' = Append(inbox, Message("binary", Bytes(arrived + 1, arrived + size), cut))
                  \/ inbox' = Append(inbox, Message("text", <<>>, cut))
        BY <1>1 DEF PeerSends
      <3>2. \A type, payload : Message(type, payload, cut).cut = cut
        BY DEF Message
      <3>. QED
        BY <3>1, <3>2
    <2>2. sock = "open" /\ UNCHANGED <<frame, readErr>>
      BY <1>1 DEF PeerSends
    <2>3. /\ Len(inbox') = Len(inbox) + 1 /\ Len(inbox) \in Nat
          /\ DOMAIN inbox' = 1 .. (Len(inbox) + 1)
          /\ \A i \in 1 .. Len(inbox) : inbox'[i] = inbox[i]
          /\ inbox'[Len(inbox) + 1] = m
      BY <1>0, <2>1 DEF Inbox
    <2>4. ASSUME NEW i \in DOMAIN inbox', inbox'[i].cut
          PROVE  sock' # "open" /\ i = Len(inbox')
      <3>1. i \notin 1 .. Len(inbox)
        BY <1>0, <2>2, <2>3, <2>4 DEF Inbox
      <3>. QED
        BY <2>1, <2>3, <2>4, <3>1
    <2>. QED
      BY <2>1, <2>2, <2>4
  <1>2. CASE ConnectionLost \/ CloseFlag \/ CloseSocket
    BY <1>2 DEF ConnectionLost, CloseFlag, CloseSocket, readVars
  <1>3. CASE ReadRefused \/ ReadEnters
    BY <1>3 DEF ReadRefused, ReadEnters, connVars
  <1>4. CASE NextReader \/ NextIsText
    <2>1. /\ inbox # <<>> /\ inbox' = Tail(inbox) /\ ~readErr /\ UNCHANGED <<sock, readErr>>
          /\ frame' = frame \/ frame' = Head(inbox)
      BY <1>4 DEF NextReader, NextIsText, connVars
    <2>2. /\ Len(inbox) \in Nat \ {0} /\ Len(inbox') = Len(inbox) - 1 /\ inbox' \in Inbox
          /\ DOMAIN inbox' = 1 .. (Len(inbox) - 1)
          /\ \A i \in 1 .. (Len(inbox) - 1) : inbox'[i] = inbox[i + 1]
          /\ Head(inbox) = inbox[1] /\ DOMAIN inbox = 1 .. Len(inbox)
      BY <1>0, <2>1 DEF Inbox
    <2>3. ASSUME NEW i \in DOMAIN inbox', inbox'[i].cut
          PROVE  sock' # "open" /\ i = Len(inbox')
      <3>1. i + 1 \in DOMAIN inbox /\ inbox[i + 1].cut
        BY <2>2, <2>3
      <3>. QED
        BY <2>1, <2>2, <3>1
    <2>4. frame'.cut => sock' # "open" /\ inbox' = <<>>
      <3>1. ~frame.cut
        BY <2>1
      <3>2. Head(inbox).cut => sock # "open" /\ Len(inbox) = 1
        BY <2>2
      <3>3. Len(inbox) = 1 => inbox' = <<>>
        BY <2>2 DEF Inbox
      <3>. QED
        BY <2>1, <3>1, <3>2, <3>3
    <2>. QED
      BY <2>1, <2>3, <2>4
  <1>5. CASE NextFails
    <2>1. reading = "next" /\ UNCHANGED <<sock, inbox, frame>>
      BY <1>5 DEF NextFails, connVars
    <2>2. frame.left = <<>>
      BY <2>1, NoReaderIsEmpty DEF ReaderInv, InOrder
    <2>. QED
      BY <1>5, <2>1, <2>2 DEF NextFails
  <1>6. CASE Chunk
    <2>1. ~readErr /\ UNCHANGED <<sock, inbox, readErr>>
      BY <1>6 DEF Chunk, connVars
    <2>2. frame'.cut => frame.cut
      <3>1. \/ frame' = NoReader
            \/ \E rest : frame' = [frame EXCEPT !.left = rest]
        BY <1>6 DEF Chunk
      <3>. QED
        BY <1>0, <3>1 DEF NoReader, Message, Messages
    <2>. QED
      BY <2>1, <2>2
  <1>7. CASE ChunkEnd
    BY <1>7 DEF ChunkEnd, connVars, NoReader, Message
  <1>8. CASE ChunkFails
    BY <1>8 DEF ChunkFails, connVars
  <1>9. CASE UNCHANGED vars
    BY <1>9 DEF vars, connVars, readVars
  <1>. QED
    BY <1>1, <1>2, <1>3, <1>4, <1>5, <1>6, <1>7, <1>8, <1>9 DEF Next, Read

\* A connection that breaks costs nothing that had arrived: the error that ends
\* the stream comes after the last byte, with messages of any size before it,
\* cut or whole (grpctunnel/conn.go:33-69, bridge/conn.go:106-146).
THEOREM FailuresComeLast == Spec => []FailureComesLast
  <1>1. Init => LossInv
    BY DEF Init, LossInv, NoReader, Message
  <1>2. ReaderInv /\ LossInv => FailureComesLast
    <2> SUFFICES ASSUME ReaderInv, LossInv, readErr
                 PROVE  sock # "open" /\ (sock = "lost" => Len(got) = arrived)
      BY DEF FailureComesLast
    <2>1. sock # "open"
      BY DEF LossInv
    <2>2. ASSUME sock = "lost"
          PROVE  Len(got) = arrived
      <3>1. inbox = <<>> /\ frame.left = <<>>
        BY <2>2 DEF LossInv
      <3>2. Len(<<>>) = 0 /\ Len(got) \in Nat
        BY EmptyRun DEF ReaderInv, InOrder, Run
      <3>3. Taken = Len(got) /\ Lined(<<>>, Taken, arrived)
        BY <3>1, <3>2 DEF ReaderInv, InOrder, Taken
      <3>. QED
        BY <3>2, <3>3 DEF Lined, Cuts
    <2>. QED
      BY <2>1, <2>2
  <1>. QED
    BY <1>1, <1>2, ReaderInit, ReaderStep, LossInductive, PTL DEF Spec
=============================================================================
