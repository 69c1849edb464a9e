---------------------- MODULE SeekableZipMemberProofs ----------------------
(***************************************************************************)
(* SeekableZipMember keeps its window in step with the stream beneath it,  *)
(* and so is a seekable file, for every length, window, chunk and request. *)
(***************************************************************************)
EXTENDS SeekableZipMember, TLAPS

----------------------------------------------------------------------------
(* Runs of bytes.                                                          *)

\* A run of n bytes is a sequence of length n.
LEMMA RunIsSeq ==
  ASSUME NEW a \in Nat, NEW n \in Nat
  PROVE  Run(a, n) \in Seq(Nat) /\ Len(Run(a, n)) = n
  BY DEF Run

\* Two adjacent runs make one.
LEMMA RunConcat ==
  ASSUME NEW a \in Nat, NEW m \in Nat, NEW n \in Nat
  PROVE  Run(a, m) \o Run(a + m, n) = Run(a, m + n)
  BY DEF Run

\* A slice of a run is a run.
LEMMA RunSlice ==
  ASSUME NEW a \in Nat, NEW n \in Nat, NEW i \in 1..(n + 1), NEW j \in 0..n, i <= j + 1
  PROVE  SubSeq(Run(a, n), i, j) = Run(a + i - 1, j - i + 1)
  BY DEF Run
----------------------------------------------------------------------------
(* The inductive invariant.                                                *)

\* What the window holds is the run of bytes it claims to hold, unless a read
\* has raised since the member was opened.
WindowHolds == lost = 0 => window = Run(windowStart, Len(window))

\* The last reply of a seek under way is the seek's.
SkipIsASeek == pc = "skip" => reply.kind = "sought"

\* Only a raising read loses bytes.
NothingLost == ~FlakyReads => lost = 0

Inv ==
  /\ TypeOK
  /\ WindowTracksStream
  /\ WindowHolds
  /\ SkipIsASeek
  /\ NothingLost
  /\ SoundUntilAReadRaises

\* What a read of the stream hands over is a run of the member's bytes.
LEMMA StreamBytesIsRun ==
  ASSUME MemberAssumption, TypeOK, NEW wanted \in Nat
  PROVE  /\ Least(wanted, Length - streamPos) \in Nat
         /\ Len(StreamBytes(wanted)) = Least(wanted, Length - streamPos)
         /\ StreamBytes(wanted) = Run(streamPos, Len(StreamBytes(wanted)))
         /\ StreamBytes(wanted) \in Seq(Nat)
         /\ streamPos + Len(StreamBytes(wanted)) \in 0..Length
  <1>1. Least(wanted, Length - streamPos) \in Nat /\ Least(wanted, Length - streamPos) <= Length - streamPos
    BY DEF MemberAssumption, TypeOK, Least
  <1>2. streamPos \in Nat /\ Length \in Nat
    BY DEF MemberAssumption, TypeOK
  <1> DEFINE n == Least(wanted, Length - streamPos)
  <1>3. StreamBytes(wanted) = Run(streamPos, n)
    BY DEF StreamBytes
  <1>4. n \in Nat /\ n <= Length - streamPos
    BY <1>1
  <1> HIDE DEF n
  <1>5. Run(streamPos, n) \in Seq(Nat) /\ Len(Run(streamPos, n)) = n
    BY <1>2, <1>4, RunIsSeq
  <1>6. streamPos + n \in 0..Length
    BY <1>2, <1>4
  <1> QED
    BY <1>3, <1>4, <1>5, <1>6 DEF n

\* Remember appends the bytes and drops the oldest ones past WindowBytes.
LEMMA RememberKeeps ==
  ASSUME MemberAssumption, TypeOK, WindowTracksStream, WindowHolds,
         NEW n \in Nat, Remember(Run(streamPos, n))
  PROVE  /\ windowStart' \in Nat /\ window' \in Seq(Nat)
         /\ Len(window') <= WindowBytes
         /\ IF WindowBytes = 0
              THEN windowStart' = 0
              ELSE windowStart' + Len(window') = WindowEnd + n /\ windowStart' <= WindowEnd + n
         /\ lost = 0 => window' = Run(windowStart', Len(window'))
  <1> DEFINE data == Run(streamPos, n)
             grown == window \o data
  <1>1. /\ streamPos \in Nat /\ windowStart \in Nat /\ window \in Seq(Nat)
        /\ Len(window) \in Nat /\ WindowBytes \in Nat /\ lost \in Nat
    BY DEF TypeOK, MemberAssumption
  <1>2. data \in Seq(Nat) /\ Len(data) = n
    BY <1>1, RunIsSeq
  <1>3. CASE WindowBytes = 0 \/ data = <<>>
    <2>1. UNCHANGED <<window, windowStart>>
      BY <1>3 DEF Remember
    <2>2. WindowBytes = 0 \/ n = 0
      BY <1>2, <1>3
    <2> QED
      BY <1>1, <2>1, <2>2 DEF WindowTracksStream, WindowHolds, WindowEnd
  <1>4. CASE ~(WindowBytes = 0 \/ data = <<>>)
    <2>1. streamPos = windowStart + Len(window) + lost
      BY <1>4 DEF WindowTracksStream, WindowEnd
    <2>2. grown \in Seq(Nat) /\ Len(grown) = Len(window) + n
      BY <1>1, <1>2
    <2>3. lost = 0 => grown = Run(windowStart, Len(window) + n)
      <3> SUFFICES ASSUME lost = 0 PROVE grown = Run(windowStart, Len(window) + n)
        OBVIOUS
      <3> DEFINE m == Len(window)
      <3>1. streamPos = windowStart + m /\ window = Run(windowStart, m)
        BY <1>1, <2>1 DEF WindowHolds
      <3>2. m \in Nat /\ windowStart \in Nat
        BY <1>1
      <3> HIDE DEF m
      <3>3. Run(windowStart, m) \o Run(windowStart + m, n) = Run(windowStart, m + n)
        BY <3>2, RunConcat, Zenon
      <3> QED
        BY <3>1, <3>3 DEF m
    <2>4. CASE Excess(data) > 0
      <3> DEFINE excess == Len(window) + n - WindowBytes
      <3>1. /\ window' = SubSeq(grown, excess + 1, Len(window) + n)
            /\ windowStart' = windowStart + excess
        BY <1>2, <1>4, <2>4 DEF Remember, Excess
      <3>2. excess \in Nat /\ excess + 1 \in 1..(Len(window) + n)
        BY <1>1, <1>2, <1>4, <2>4 DEF Excess
      <3>3. window' \in Seq(Nat) /\ Len(window') = WindowBytes
        <4> DEFINE m == Len(window) + n
        <4>1. /\ m \in Nat /\ excess + 1 \in 1..m /\ m - (excess + 1) + 1 = WindowBytes
              /\ grown \in Seq(Nat) /\ Len(grown) = m /\ window' = SubSeq(grown, excess + 1, m)
          BY <1>1, <2>2, <3>1, <3>2
        <4> HIDE DEF m, grown, excess
        <4> QED
          BY <4>1
      <3>4. lost = 0 => window' = Run(windowStart', WindowBytes)
        <4>1. SubSeq(Run(windowStart, Len(window) + n), excess + 1, Len(window) + n)
                = Run(windowStart + (excess + 1) - 1, (Len(window) + n) - (excess + 1) + 1)
          <5> DEFINE m == Len(window) + n
                     i == excess + 1
          <5>1. windowStart \in Nat /\ m \in Nat /\ i \in 1..(m + 1) /\ m \in 0..m /\ i <= m + 1
            BY <1>1, <3>2
          <5> HIDE DEF m, i
          <5>2. SubSeq(Run(windowStart, m), i, m) = Run(windowStart + i - 1, m - i + 1)
            BY <5>1, RunSlice, Zenon
          <5> QED
            BY <5>2 DEF m, i
        <4>2. windowStart + (excess + 1) - 1 = windowStart + excess
              /\ (Len(window) + n) - (excess + 1) + 1 = WindowBytes
          BY <1>1, <3>2
        <4> QED
          BY <2>3, <3>1, <4>1, <4>2
      <3>5. lost = 0 => window' = Run(windowStart', Len(window'))
        BY <3>3, <3>4, Zenon
      <3>6. /\ windowStart' \in Nat
            /\ windowStart' + WindowBytes = windowStart + Len(window) + n
            /\ windowStart' <= windowStart + Len(window) + n
        BY <1>1, <3>1, <3>2
      <3>7. windowStart' + Len(window') = WindowEnd + n /\ windowStart' <= WindowEnd + n
        BY <3>3, <3>6, Zenon DEF WindowEnd
      <3>8. Len(window') <= WindowBytes
        BY <1>1, <3>3
      <3> HIDE DEF data, grown
      <3> QED
        BY <1>4, <3>3, <3>5, <3>6, <3>7, <3>8
    <2>5. CASE ~(Excess(data) > 0)
      <3>1. window' = grown /\ windowStart' = windowStart
        BY <1>4, <2>5 DEF Remember
      <3>2. Len(window) + n <= WindowBytes
        BY <1>1, <1>2, <2>5 DEF Excess
      <3>3. window' \in Seq(Nat) /\ Len(window') = Len(window) + n
        BY <2>2, <3>1, Zenon
      <3>4. lost = 0 => window' = Run(windowStart', Len(window'))
        BY <2>3, <3>1, <3>3, Zenon
      <3>5. /\ windowStart' \in Nat
            /\ windowStart' + (Len(window) + n) = windowStart + Len(window) + n
            /\ windowStart' <= windowStart + Len(window) + n
        BY <1>1, <3>1
      <3>6. windowStart' + Len(window') = WindowEnd + n /\ windowStart' <= WindowEnd + n
        BY <3>3, <3>5, Zenon DEF WindowEnd
      <3>7. Len(window') <= WindowBytes
        BY <3>2, <3>3, Zenon
      <3> HIDE DEF data, grown
      <3> QED
        BY <1>4, <3>3, <3>4, <3>5, <3>6, <3>7
    <2> QED
      BY <2>4, <2>5
  <1> QED
    BY <1>3, <1>4

\* A position outside the window is where the stream's next byte belongs.
LEMMA OutsideWindow ==
  ASSUME MemberAssumption, TypeOK, WindowTracksStream, ~InWindow(position)
  PROVE  /\ streamPos = position + lost
         /\ WindowBytes # 0 => position = WindowEnd
  <1>1. /\ position \in Nat /\ windowStart \in Nat /\ Len(window) \in Nat
        /\ WindowBytes \in Nat /\ lost \in Nat
    BY DEF TypeOK, MemberAssumption
  <1> QED
    BY <1>1 DEF WindowTracksStream, InWindow, WindowEnd

\* Reading on from the stream keeps window, stream and position in step.
LEMMA ConsumeKeeps ==
  ASSUME MemberAssumption, Inv, NEW wanted \in Nat, ~InWindow(position), Consume(wanted)
  PROVE  /\ position' \in 0..Length /\ streamPos' \in 0..Length /\ lost' \in Nat
         /\ windowStart' \in Nat /\ window' \in Seq(Nat)
         /\ WindowTracksStream' /\ WindowHolds'
  <1> DEFINE n == Len(StreamBytes(wanted))
  <1>1. n \in Nat /\ StreamBytes(wanted) = Run(streamPos, n) /\ streamPos + n \in 0..Length
    BY StreamBytesIsRun DEF Inv
  <1>2. /\ streamPos' = streamPos + n /\ position' = position + n /\ lost' = lost
        /\ Remember(Run(streamPos, n))
    BY <1>1 DEF Consume
  <1>3. /\ windowStart' \in Nat /\ window' \in Seq(Nat)
        /\ Len(window') <= WindowBytes
        /\ IF WindowBytes = 0
              THEN windowStart' = 0
              ELSE windowStart' + Len(window') = WindowEnd + n /\ windowStart' <= WindowEnd + n
        /\ lost = 0 => window' = Run(windowStart', Len(window'))
    BY <1>1, <1>2, RememberKeeps DEF Inv
  <1>4. streamPos = position + lost /\ (WindowBytes # 0 => position = WindowEnd)
    BY OutsideWindow DEF Inv
  <1>5. /\ position \in Nat /\ lost \in Nat /\ Length \in Nat /\ WindowBytes \in Nat
        /\ WindowEnd \in Nat
    BY DEF Inv, TypeOK, MemberAssumption, WindowEnd
  <1>6. position' \in 0..Length /\ streamPos' \in 0..Length /\ lost' \in Nat
    BY <1>1, <1>2, <1>4, <1>5
  <1>7. WindowTracksStream'
    <2> HIDE DEF n
    <2>1. Len(window') \in Nat
      BY <1>3
    <2>2. CASE WindowBytes = 0
      <3>1. windowStart' = 0 /\ streamPos' = position' + lost' /\ position' >= windowStart'
        BY <1>1, <1>2, <1>3, <1>4, <1>5, <2>2
      <3> QED
        BY <1>3, <2>2, <3>1 DEF WindowTracksStream
    <2>3. CASE WindowBytes # 0
      <3> DEFINE end == windowStart' + Len(window')
      <3>1. end = WindowEnd + n /\ position' = end /\ windowStart' <= end
        BY <1>2, <1>3, <1>4, <2>3
      <3>2. streamPos' = end + lost'
        BY <1>1, <1>2, <1>4, <1>5, <3>1
      <3> HIDE DEF end
      <3>3. position' >= windowStart' /\ position' <= end /\ end \in Nat
        BY <1>1, <1>3, <1>5, <3>1
      <3> QED
        BY <1>3, <2>3, <3>2, <3>3 DEF WindowTracksStream, WindowEnd, end
    <2> QED
      BY <2>2, <2>3
  <1>8. WindowHolds'
    BY <1>2, <1>3 DEF WindowHolds
  <1> QED
    BY <1>3, <1>6, <1>7, <1>8
\* A window that holds the position is a window the stream has passed.
LEMMA InsideWindow ==
  ASSUME MemberAssumption, TypeOK, WindowTracksStream, NEW p \in Nat, InWindow(p)
  PROVE  WindowBytes # 0 /\ WindowEnd \in Nat /\ WindowEnd <= Length /\ p < WindowEnd
  <1>1. /\ position \in Nat /\ windowStart \in Nat /\ Len(window) \in Nat
        /\ WindowBytes \in Nat /\ lost \in Nat /\ streamPos \in 0..Length /\ Length \in Nat
    BY DEF TypeOK, MemberAssumption
  <1>2. Len(window) # 0
    BY <1>1 DEF InWindow, WindowEnd
  <1> QED
    BY <1>1, <1>2 DEF WindowTracksStream, InWindow, WindowEnd

\* Moving within the window disturbs neither window nor stream.
LEMMA MoveKeeps ==
  ASSUME MemberAssumption, Inv, UNCHANGED <<window, windowStart, streamPos, lost>>,
         \/ position' = position
         \/ /\ WindowBytes # 0 /\ position' \in Nat
            /\ windowStart <= position' /\ position' <= WindowEnd
  PROVE  position' \in 0..Length /\ WindowTracksStream' /\ WindowHolds'
  <1>1. /\ position \in 0..Length /\ windowStart \in Nat /\ Len(window) \in Nat
        /\ WindowBytes \in Nat /\ lost \in Nat /\ streamPos \in 0..Length /\ Length \in Nat
        /\ WindowTracksStream
    BY DEF Inv, TypeOK, MemberAssumption
  <1>2. WindowHolds'
    BY DEF Inv, WindowHolds
  <1>3. CASE position' = position
    BY <1>1, <1>2, <1>3 DEF WindowTracksStream, WindowEnd
  <1>4. CASE /\ WindowBytes # 0 /\ position' \in Nat
             /\ windowStart <= position' /\ position' <= WindowEnd
    BY <1>1, <1>2, <1>4 DEF WindowTracksStream, WindowEnd
  <1> QED
    BY <1>3, <1>4

\* A read served by the window moves forward inside it.
LEMMA FromWindowMoves ==
  ASSUME MemberAssumption, Inv, NEW wanted \in Nat \ {0}, InWindow(position)
  PROVE  /\ FromWindow(wanted) \in 1..wanted
         /\ WindowBytes # 0 /\ position + FromWindow(wanted) \in Nat
         /\ windowStart <= position + FromWindow(wanted)
         /\ position + FromWindow(wanted) <= WindowEnd
  <1>1. /\ position \in Nat /\ windowStart \in Nat /\ WindowBytes # 0
        /\ WindowEnd \in Nat /\ windowStart <= position /\ position < WindowEnd
    BY InsideWindow DEF Inv, TypeOK, MemberAssumption, InWindow
  <1> HIDE DEF WindowEnd
  <1> QED
    BY <1>1 DEF FromWindow, Least

\* Bytes served from the window are the member's.
LEMMA ServedFromWindow ==
  ASSUME MemberAssumption, Inv, NEW wanted \in Nat \ {0}, ReadFromWindow(wanted)
  PROVE  /\ reply' = Reply("data", reply'.bytes, 0)
         /\ reply'.bytes \in Seq(Nat) /\ reply'.bytes # <<>>
         /\ Len(reply'.bytes) = FromWindow(wanted)
         /\ lost = 0 => reply'.bytes = Run(position, FromWindow(wanted))
  <1> DEFINE k == FromWindow(wanted)
             o == position - windowStart
             m == Len(window)
  <1>1. InWindow(position) /\ reply' = Reply("data", SubSeq(window, o + 1, o + k), 0)
    BY DEF ReadFromWindow
  <1>2. reply'.bytes = SubSeq(window, o + 1, o + k) /\ reply' = Reply("data", reply'.bytes, 0)
    BY <1>1 DEF Reply
  <1>3. k \in 1..wanted /\ windowStart <= position + k /\ position + k <= windowStart + m
    BY <1>1, FromWindowMoves DEF WindowEnd
  <1>4. /\ windowStart \in Nat /\ position \in Nat /\ m \in Nat /\ window \in Seq(Nat)
        /\ windowStart <= position
    BY DEF Inv, TypeOK, MemberAssumption, WindowTracksStream
  <1> HIDE DEF k
  <1>5. /\ o \in Nat /\ o + 1 \in 1..m /\ o + k \in 1..m /\ o + 1 <= o + k /\ k \in Nat
        /\ (o + k) - (o + 1) + 1 = k /\ windowStart + (o + 1) - 1 = position
    BY <1>3, <1>4
  <1> HIDE DEF o
  <1>6. SubSeq(window, o + 1, o + k) \in Seq(Nat) /\ Len(SubSeq(window, o + 1, o + k)) = k
    BY <1>4, <1>5
  <1>7. lost = 0 => SubSeq(window, o + 1, o + k) = Run(position, k)
    <2> SUFFICES ASSUME lost = 0 PROVE SubSeq(window, o + 1, o + k) = Run(position, k)
      OBVIOUS
    <2>1. window = Run(windowStart, m)
      BY DEF Inv, WindowHolds
    <2> HIDE DEF m
    <2>2. o + 1 \in 1..(m + 1) /\ o + k \in 0..m /\ o + 1 <= (o + k) + 1
      BY <1>4, <1>5
    <2>3. SubSeq(Run(windowStart, m), o + 1, o + k)
            = Run(windowStart + (o + 1) - 1, (o + k) - (o + 1) + 1)
      BY <1>4, <2>2, RunSlice, Zenon
    <2> QED
      BY <1>5, <2>1, <2>3, Zenon
  <1>8. reply'.bytes \in Seq(Nat) /\ Len(reply'.bytes) = k
    BY <1>2, <1>6
  <1>9. reply'.bytes # <<>>
    BY <1>3, <1>8
  <1> QED
    BY <1>2, <1>7, <1>8, <1>9 DEF k

\* Bytes served from the stream are the member's, and it says end of file at
\* the end of the member.
LEMMA ServedFromStream ==
  ASSUME MemberAssumption, Inv, NEW wanted \in Nat \ {0}, ReadFromStream(wanted)
  PROVE  /\ Len(StreamBytes(wanted)) \in 0..wanted
         /\ position' = position + Len(StreamBytes(wanted))
         /\ reply' = Reply(IF Len(StreamBytes(wanted)) = 0 THEN "eof" ELSE "data",
                           StreamBytes(wanted), 0)
         /\ reply'.bytes \in Seq(Nat)
         /\ lost = 0 => /\ reply'.bytes = Run(position, Len(StreamBytes(wanted)))
                        /\ reply'.kind = "eof" => position = Length
  <1> DEFINE data == StreamBytes(wanted)
             n == Len(data)
  <1>1. /\ n \in Nat /\ n = Least(wanted, Length - streamPos)
        /\ data = Run(streamPos, n) /\ data \in Seq(Nat)
    BY StreamBytesIsRun DEF Inv
  <1>2. /\ position' = position + n
        /\ reply' = Reply(IF data = <<>> THEN "eof" ELSE "data", data, 0)
    BY DEF ReadFromStream, Consume
  <1> HIDE DEF data
  <1>3. data = <<>> <=> n = 0
    BY <1>1
  <1>4. reply'.bytes = data /\ reply'.kind = (IF n = 0 THEN "eof" ELSE "data")
    BY <1>2, <1>3 DEF Reply
  <1>5. streamPos = position + lost
    BY OutsideWindow DEF Inv, ReadFromStream
  <1>6. /\ position \in Nat /\ lost \in Nat /\ Length \in Nat /\ streamPos \in 0..Length
    BY DEF Inv, TypeOK, MemberAssumption
  <1>7. n \in 0..wanted /\ (n = 0 => streamPos = Length)
    BY <1>1, <1>6 DEF Least
  <1>8. lost = 0 => data = Run(position, n) /\ (reply'.kind = "eof" => position = Length)
    BY <1>1, <1>4, <1>5, <1>6, <1>7
  <1>9. reply' = Reply(IF n = 0 THEN "eof" ELSE "data", data, 0)
    BY <1>2, <1>3
  <1> QED
    BY <1>1, <1>2, <1>4, <1>7, <1>8, <1>9 DEF data

\* A reply that carries no bytes and does not say end of file is honest.
LEMMA EmptyReplyIsSound ==
  ASSUME reply'.kind \notin {"data", "eof"}
  PROVE  SoundUntilAReadRaises'
  BY DEF SoundUntilAReadRaises, HonestReply

\* A reply is made of a kind, bytes and a target.
LEMMA ReplyType ==
  ASSUME NEW kind \in {"none", "data", "eof", "sought", "refused", "raised"},
         NEW bytes \in Seq(Nat), NEW target \in Nat
  PROVE  Reply(kind, bytes, target) \in Replies
  BY DEF Reply, Replies

\* The member is opened in step with its stream.
LEMMA InitInv ==
  ASSUME MemberAssumption, Init
  PROVE  Inv
  <1>1. window = Run(windowStart, Len(window)) /\ window \in Seq(Nat) /\ Len(window) = 0
    BY DEF Init, Run
  <1>2. <<>> \in Seq(Nat)
    OBVIOUS
  <1>3. reply \in Replies /\ reply.kind = "none"
    <2> DEFINE none == <<>>
    <2>1. none \in Seq(Nat)
      BY <1>2
    <2>2. reply = Reply("none", none, 0)
      BY DEF Init
    <2> HIDE DEF none
    <2> QED
      BY <2>1, <2>2 DEF Reply, Replies
  <1>4. closed \in BOOLEAN
    BY Zenon DEF Init
  <1>5. TypeOK
    BY <1>1, <1>3, <1>4 DEF TypeOK, Init, MemberAssumption
  <1>6. WindowTracksStream /\ WindowHolds
    BY <1>1 DEF Init, WindowTracksStream, WindowHolds, WindowEnd, MemberAssumption
  <1>7. SkipIsASeek /\ NothingLost /\ SoundUntilAReadRaises
    BY <1>3 DEF Init, SkipIsASeek, NothingLost, SoundUntilAReadRaises, HonestReply
  <1> QED
    BY <1>5, <1>6, <1>7 DEF Inv

\* A reply without bytes is typed by its kind and target alone.
LEMMA EmptyReply ==
  ASSUME NEW kind \in {"sought", "refused", "raised"}, NEW target \in Nat
  PROVE  Reply(kind, <<>>, target) \in Replies /\ Reply(kind, <<>>, target).kind = kind
  <1>1. <<>> \in Seq(Nat)
    OBVIOUS
  <1> DEFINE none == <<>>
  <1> HIDE DEF none
  <1>2. none \in Seq(Nat)
    BY <1>1 DEF none
  <1>3. Reply(kind, none, target) \in Replies
    BY <1>2, ReplyType
  <1>4. Reply(kind, none, target).kind = kind
    BY DEF Reply
  <1> QED
    BY <1>3, <1>4 DEF none

\* A raising read leaves the window a faithful record of the stream, once the
\* bytes it threw away are counted.
LEMMA RaiseKeepsInv ==
  ASSUME MemberAssumption, Inv, NEW wanted \in Nat, Raise(wanted)
  PROVE  Inv'
  <1>0. Least(wanted, Length - streamPos) \in Nat
    BY StreamBytesIsRun DEF Inv
  <1>1. PICK k \in 0..Least(wanted, Length - streamPos) :
          streamPos' = streamPos + k /\ lost' = lost + k
    BY <1>0 DEF Raise
  <1>2. /\ FlakyReads /\ reply' = Reply("raised", <<>>, 0) /\ pc' = "idle" /\ count' = 0
        /\ UNCHANGED <<position, window, windowStart, closed>>
    BY DEF Raise
  <1>3. TypeOK /\ WindowTracksStream /\ WindowHolds
    BY DEF Inv
  <1>4. /\ Least(wanted, Length - streamPos) \in Nat
        /\ Least(wanted, Length - streamPos) <= Length - streamPos
        /\ streamPos \in 0..Length /\ lost \in Nat /\ position \in 0..Length /\ Length \in Nat
        /\ windowStart \in Nat /\ Len(window) \in Nat
    BY <1>3 DEF TypeOK, MemberAssumption, Least
  <1>5. k \in Nat /\ streamPos' \in 0..Length /\ lost' \in Nat /\ (lost' = 0 => lost = 0)
    BY <1>1, <1>4
  <1>6. reply' = [kind |-> "raised", bytes |-> <<>>, target |-> 0]
    BY <1>2 DEF Reply
  <1>7. TypeOK'
    <2>1. reply' \in Replies
      BY <1>2, EmptyReply
    <2> QED
      BY <1>2, <1>3, <1>5, <2>1 DEF TypeOK
  <1>8. WindowTracksStream'
    BY <1>1, <1>2, <1>3, <1>4, <1>5 DEF WindowTracksStream, WindowEnd
  <1>9. WindowHolds'
    BY <1>2, <1>3, <1>5 DEF WindowHolds
  <1>10. SoundUntilAReadRaises'
    BY <1>6, EmptyReplyIsSound
  <1> QED
    BY <1>2, <1>7, <1>8, <1>9, <1>10 DEF Inv, SkipIsASeek, NothingLost

\* readinto keeps the invariant, whichever way it is served.
LEMMA ReadKeepsInv ==
  ASSUME MemberAssumption, Inv, Read
  PROVE  Inv'
  <1>1. PICK wanted \in 1..MaxRequest :
          ReadFromWindow(wanted) \/ ReadFromStream(wanted) \/ ReadRaises(wanted)
    BY DEF Read
  <1>2. wanted \in Nat \ {0} /\ wanted \in Nat
    BY <1>1 DEF MemberAssumption
  <1>t. TypeOK /\ NothingLost /\ WindowTracksStream /\ WindowHolds
    BY DEF Inv
  <1>3. CASE ReadFromWindow(wanted)
    <2>1. /\ position' \in 0..Length /\ WindowTracksStream' /\ WindowHolds'
          /\ position' = position + FromWindow(wanted) /\ FromWindow(wanted) \in Nat
      <3>1. InWindow(position) /\ position' = position + FromWindow(wanted)
            /\ UNCHANGED <<window, windowStart, streamPos, lost>>
        BY <1>3 DEF ReadFromWindow
      <3>2. FromWindow(wanted) \in Nat /\ WindowBytes # 0 /\ position' \in Nat
            /\ windowStart <= position' /\ position' <= WindowEnd
        BY <1>2, <3>1, FromWindowMoves
      <3> QED
        BY <3>1, <3>2, MoveKeeps
    <2>2. /\ reply' = Reply("data", reply'.bytes, 0)
          /\ reply'.bytes \in Seq(Nat) /\ reply'.bytes # <<>>
          /\ Len(reply'.bytes) = FromWindow(wanted)
          /\ lost = 0 => reply'.bytes = Run(position, FromWindow(wanted))
      BY <1>2, <1>3, ServedFromWindow
    <2>3. UNCHANGED <<window, windowStart, streamPos, closed, pc, count, lost>> /\ pc = "idle"
      BY <1>3 DEF ReadFromWindow
    <2>4. reply'.kind = "data" /\ reply'.target = 0
      BY <2>2 DEF Reply
    <2>5. TypeOK'
      <3> DEFINE b == reply'.bytes
      <3>1. reply' = Reply("data", b, 0) /\ b \in Seq(Nat)
        BY <2>2
      <3> HIDE DEF b
      <3>2. Reply("data", b, 0) \in Replies
        BY <3>1, ReplyType
      <3>3. reply' \in Replies
        BY <3>1, <3>2, Zenon
      <3> QED
        BY <1>t, <2>1, <2>3, <3>3 DEF TypeOK
    <2>6. position' - Len(reply'.bytes) = position
      BY <1>t, <2>1, <2>2 DEF TypeOK
    <2>7. SoundUntilAReadRaises'
      BY <2>2, <2>3, <2>4, <2>6 DEF SoundUntilAReadRaises, HonestReply
    <2> QED
      BY <1>t, <2>1, <2>3, <2>5, <2>7 DEF Inv, SkipIsASeek, NothingLost
  <1>4. CASE ReadFromStream(wanted)
    <2> DEFINE n == Len(StreamBytes(wanted))
    <2>1. /\ position' \in 0..Length /\ streamPos' \in 0..Length /\ lost' \in Nat
          /\ windowStart' \in Nat /\ window' \in Seq(Nat)
          /\ WindowTracksStream' /\ WindowHolds'
      BY <1>2, <1>4, ConsumeKeeps DEF ReadFromStream
    <2>2. /\ n \in 0..wanted /\ position' = position + n
          /\ reply' = Reply(IF n = 0 THEN "eof" ELSE "data", StreamBytes(wanted), 0)
          /\ reply'.bytes \in Seq(Nat)
          /\ lost = 0 => /\ reply'.bytes = Run(position, n)
                         /\ reply'.kind = "eof" => position = Length
      BY <1>2, <1>4, ServedFromStream
    <2>3. UNCHANGED <<closed, pc, count, lost>> /\ pc = "idle"
      BY <1>4 DEF ReadFromStream, Consume
    <2>4. /\ reply'.bytes = StreamBytes(wanted) /\ reply'.target = 0
          /\ reply'.kind = (IF n = 0 THEN "eof" ELSE "data")
          /\ reply' = Reply(reply'.kind, reply'.bytes, 0)
      BY <2>2 DEF Reply
    <2>5. TypeOK'
      <3>1. reply'.kind \in {"none", "data", "eof", "sought", "refused", "raised"}
        BY <2>4
      <3> DEFINE b == reply'.bytes
                 k == reply'.kind
      <3>2. reply' = Reply(k, b, 0) /\ b \in Seq(Nat)
        BY <2>2, <2>4
      <3> HIDE DEF b, k
      <3>3. Reply(k, b, 0) \in Replies
        BY <3>1, <3>2, ReplyType DEF k
      <3>4. reply' \in Replies
        BY <3>2, <3>3, Zenon
      <3> QED
        BY <1>t, <2>1, <2>3, <3>4 DEF TypeOK
    <2>6. /\ position' - Len(reply'.bytes) = position /\ Len(reply'.bytes) = n
          /\ reply'.kind = "data" => reply'.bytes # <<>>
          /\ reply'.kind = "eof" => position' = position
      <3>1. n \in Nat /\ position \in Nat
        BY <1>t, <1>2, <2>2 DEF TypeOK, MemberAssumption
      <3>2. reply'.kind = "data" => n # 0
        BY <2>4
      <3>3. n # 0 => StreamBytes(wanted) # <<>>
        OBVIOUS
      <3>4. reply'.kind = "eof" => n = 0
        BY <2>4
      <3> QED
        BY <2>2, <2>4, <3>1, <3>2, <3>3, <3>4
    <2>7. SoundUntilAReadRaises'
      BY <2>2, <2>3, <2>6 DEF SoundUntilAReadRaises, HonestReply
    <2> QED
      BY <1>t, <2>1, <2>3, <2>5, <2>7 DEF Inv, SkipIsASeek, NothingLost
  <1>5. CASE ReadRaises(wanted)
    BY <1>2, <1>5, RaiseKeepsInv DEF ReadRaises
  <1> QED
    BY <1>1, <1>3, <1>4, <1>5

\* seek keeps the invariant; where it re-opens, window and stream start afresh.
LEMMA SeekKeepsInv ==
  ASSUME MemberAssumption, Inv, Seek
  PROVE  Inv'
  <1> DEFINE Places(target) == \/ SeekNegative(target)
                               \/ SeekInWindow(target)
                               \/ SeekReopening(target)
                               \/ SeekReopenRaises(target)
                               \/ SeekForward(target)
  <1>1. PICK offset \in Offsets, whence \in {"SEEK_SET", "SEEK_CUR", "SEEK_END"} :
          Places(Target(offset, whence))
    BY DEF Seek
  <1>2. Target(offset, whence) \in Int
    BY DEF Target, MemberAssumption, Inv, TypeOK
  <1>3. PICK target \in Int : Places(target)
    BY <1>1, <1>2
  <1>t. /\ TypeOK /\ NothingLost /\ WindowTracksStream /\ WindowHolds
        /\ position \in 0..Length /\ Length \in Nat
    BY DEF Inv, TypeOK, MemberAssumption
  <1>4. CASE SeekNegative(target)
    <2>1. /\ UNCHANGED <<position, window, windowStart, streamPos, closed, pc, count, lost>>
          /\ pc = "idle" /\ reply' = Reply("refused", <<>>, 0)
      BY <1>4 DEF SeekNegative
    <2>2. reply' \in Replies /\ reply'.kind = "refused"
      BY <2>1, EmptyReply
    <2>3. position' \in 0..Length /\ WindowTracksStream' /\ WindowHolds'
      BY <2>1, MoveKeeps
    <2> QED
      BY <1>t, <2>1, <2>2, <2>3, EmptyReplyIsSound DEF Inv, TypeOK, SkipIsASeek, NothingLost
  <1>5. CASE SeekInWindow(target)
    <2>1. /\ position' = target /\ pc = "idle" /\ reply' = Reply("sought", <<>>, target)
          /\ UNCHANGED <<window, windowStart, streamPos, closed, pc, count, lost>>
          /\ InWindow(target) /\ target \in Nat
      BY <1>5 DEF SeekInWindow
    <2>2. reply' \in Replies /\ reply'.kind = "sought"
      BY <2>1, EmptyReply
    <2>3. WindowBytes # 0 /\ windowStart <= position' /\ position' <= WindowEnd
      BY <1>t, <2>1, InsideWindow DEF InWindow
    <2>4. position' \in 0..Length /\ WindowTracksStream' /\ WindowHolds'
      BY <2>1, <2>3, MoveKeeps
    <2> QED
      BY <1>t, <2>1, <2>2, <2>4, EmptyReplyIsSound DEF Inv, TypeOK, SkipIsASeek, NothingLost
  <1>6. CASE SeekReopening(target)
    <2>1. /\ position' = 0 /\ window' = <<>> /\ windowStart' = 0 /\ streamPos' = 0 /\ lost' = 0
          /\ closed' = FALSE /\ pc' = "skip" /\ count' = target /\ reply' = Reply("sought", <<>>, target)
          /\ target \in Nat
      BY <1>6 DEF SeekReopening
    <2>2. reply' \in Replies /\ reply'.kind = "sought"
      BY <2>1, EmptyReply
    <2>3. window' = Run(windowStart', Len(window')) /\ window' \in Seq(Nat) /\ Len(window') = 0
      BY <2>1 DEF Run
    <2>b. closed' \in BOOLEAN
      BY <2>1, Zenon
    <2>4. TypeOK'
      BY <1>t, <2>1, <2>2, <2>3, <2>b DEF TypeOK, MemberAssumption
    <2>5. WindowTracksStream'
      BY <2>1, <2>3 DEF WindowTracksStream, WindowEnd, MemberAssumption
    <2> QED
      BY <1>t, <2>1, <2>2, <2>3, <2>4, <2>5, EmptyReplyIsSound
         DEF Inv, WindowHolds, SkipIsASeek, NothingLost
  <1>7. CASE SeekForward(target)
    <2>1. /\ pc' = "skip" /\ count' = target - position /\ reply' = Reply("sought", <<>>, target)
          /\ UNCHANGED <<position, window, windowStart, streamPos, closed, lost>>
          /\ target \in Nat /\ target - position \in Nat
      BY <1>t, <1>7 DEF SeekForward
    <2>2. reply' \in Replies /\ reply'.kind = "sought"
      BY <2>1, EmptyReply
    <2>3. position' \in 0..Length /\ WindowTracksStream' /\ WindowHolds'
      BY <2>1, MoveKeeps
    <2> QED
      BY <1>t, <2>1, <2>2, <2>3, EmptyReplyIsSound DEF Inv, TypeOK, SkipIsASeek, NothingLost
  <1>8. CASE SeekReopenRaises(target)
    <2>1. /\ UNCHANGED <<position, window, windowStart, streamPos, pc, count, lost>>
          /\ closed' = TRUE /\ pc = "idle" /\ reply' = Reply("raised", <<>>, 0)
      BY <1>8 DEF SeekReopenRaises
    <2>2. reply' \in Replies /\ reply'.kind = "raised"
      BY <2>1, EmptyReply
    <2>3. position' \in 0..Length /\ WindowTracksStream' /\ WindowHolds'
      BY <2>1, MoveKeeps
    <2> QED
      BY <1>t, <2>1, <2>2, <2>3, EmptyReplyIsSound DEF Inv, TypeOK, SkipIsASeek, NothingLost
  <1> QED
    BY <1>3, <1>4, <1>5, <1>6, <1>7, <1>8

\* Every turn of _skip_forward's loop keeps the invariant.
LEMMA SkipKeepsInv ==
  ASSUME MemberAssumption, Inv, Skip
  PROVE  Inv'
  <1>t. /\ TypeOK /\ NothingLost /\ WindowTracksStream /\ WindowHolds
        /\ count \in Nat /\ SkipChunk \in Nat \ {0} /\ reply \in Replies
    BY DEF Inv, TypeOK, MemberAssumption
  <1>w. count > 0 => SkipWanted \in Nat \ {0} /\ SkipWanted <= count
    BY <1>t DEF SkipWanted, Least
  <1>s. pc = "skip" => reply.kind = "sought"
    BY DEF Inv, SkipIsASeek
  <1>1. CASE SkipInWindow
    <2>1. /\ position' = position + FromWindow(SkipWanted)
          /\ count' = count - FromWindow(SkipWanted)
          /\ UNCHANGED <<window, windowStart, streamPos, closed, pc, reply, lost>>
          /\ InWindow(position) /\ pc = "skip" /\ SkipWanted \in Nat \ {0} /\ SkipWanted <= count
      BY <1>1, <1>t, <1>w DEF SkipInWindow
    <2>2. /\ FromWindow(SkipWanted) \in 1..SkipWanted /\ WindowBytes # 0 /\ position' \in Nat
          /\ windowStart <= position' /\ position' <= WindowEnd
      BY <2>1, FromWindowMoves
    <2>3. position' \in 0..Length /\ WindowTracksStream' /\ WindowHolds'
      BY <2>1, <2>2, MoveKeeps
    <2>4. count' \in Nat
      BY <1>t, <2>1, <2>2
    <2>5. reply'.kind = "sought" /\ pc' = "skip"
      BY <1>s, <2>1
    <2> QED
      BY <1>t, <2>1, <2>3, <2>4, <2>5, EmptyReplyIsSound
         DEF Inv, TypeOK, SkipIsASeek, NothingLost
  <1>2. CASE SkipInStream
    <2>1. /\ ~InWindow(position) /\ Consume(SkipWanted) /\ pc = "skip"
          /\ count' = count - Len(StreamBytes(SkipWanted)) /\ UNCHANGED <<closed, pc, reply, lost>>
          /\ SkipWanted \in Nat \ {0} /\ SkipWanted <= count
      BY <1>2, <1>t, <1>w DEF SkipInStream, Consume
    <2>2. /\ position' \in 0..Length /\ streamPos' \in 0..Length /\ lost' \in Nat
          /\ windowStart' \in Nat /\ window' \in Seq(Nat)
          /\ WindowTracksStream' /\ WindowHolds'
      BY <2>1, ConsumeKeeps
    <2>3. /\ Len(StreamBytes(SkipWanted)) = Least(SkipWanted, Length - streamPos)
          /\ Len(StreamBytes(SkipWanted)) \in Nat
      BY <1>t, <2>1, StreamBytesIsRun
    <2>4. count' \in Nat
      BY <1>t, <2>1, <2>3 DEF Least, TypeOK, MemberAssumption
    <2>5. reply'.kind = "sought" /\ pc' = "skip"
      BY <1>s, <2>1
    <2> QED
      BY <1>t, <2>1, <2>2, <2>4, <2>5, EmptyReplyIsSound
         DEF Inv, TypeOK, SkipIsASeek, NothingLost
  <1>3. CASE SkipRaises
    BY <1>3, <1>w, RaiseKeepsInv DEF SkipRaises
  <1>4. CASE SkipEnds
    <2>1. /\ pc = "skip" /\ pc' = "idle" /\ count' = 0
          /\ UNCHANGED <<position, window, windowStart, streamPos, closed, reply, lost>>
      BY <1>4 DEF SkipEnds
    <2>2. position' \in 0..Length /\ WindowTracksStream' /\ WindowHolds'
      BY <2>1, MoveKeeps
    <2>3. reply'.kind = "sought"
      BY <1>s, <2>1
    <2> QED
      BY <1>t, <2>1, <2>2, <2>3, EmptyReplyIsSound
         DEF Inv, TypeOK, SkipIsASeek, NothingLost
  <1> QED
    BY <1>1, <1>2, <1>3, <1>4 DEF Skip

----------------------------------------------------------------------------
(* The theorems.                                                           *)

\* Inv holds in every state: at the start, and across every step.
THEOREM Invariance == Spec => []Inv
  <1>1. Init => Inv
    BY InitInv, MemberAssumption
  <1>2. Inv /\ [Next]_vars => Inv'
    <2> SUFFICES ASSUME Inv, [Next]_vars PROVE Inv'
      OBVIOUS
    <2>1. CASE Read
      BY <2>1, ReadKeepsInv, MemberAssumption
    <2>2. CASE Seek
      BY <2>2, SeekKeepsInv, MemberAssumption
    <2>3. CASE Skip
      BY <2>3, SkipKeepsInv, MemberAssumption
    <2>4. CASE UNCHANGED vars
      BY <2>4 DEF vars, Inv, TypeOK, WindowTracksStream, WindowEnd, WindowHolds, SkipIsASeek,
         NothingLost, SoundUntilAReadRaises, HonestReply
    <2> QED
      BY <2>1, <2>2, <2>3, <2>4 DEF Next
  <1> QED
    BY <1>1, <1>2, PTL DEF Spec

\* Every variable of a streamed member keeps its type.
THEOREM TypeCorrect == Spec => []TypeOK
  <1>1. Inv => TypeOK
    BY DEF Inv
  <1> QED
    BY <1>1, Invariance, PTL

\* The retained window stays bounded and in step with the stream, so a
\* position outside it is where the stream's next byte belongs.
THEOREM WindowInStep == Spec => []WindowTracksStream
  <1>1. Inv => WindowTracksStream
    BY DEF Inv
  <1> QED
    BY <1>1, Invariance, PTL

\* Until a read of the stream raises, every byte handed to a reader is the
\* member's byte at that position and end of file is said at its end.
THEOREM BytesAreTheMembers == Spec => []SoundUntilAReadRaises
  <1>1. Inv => SoundUntilAReadRaises
    BY DEF Inv
  <1> QED
    BY <1>1, Invariance, PTL

\* Where a seek under way is going to stop, which is the position a reader of
\* the file would see.
Destination == IF pc = "skip" THEN Least(position + count, Length) ELSE position

\* A freshly opened member is a freshly opened file.
LEMMA InitRefines ==
  ASSUME Init
  PROVE  File!FileInit
  BY DEF Init, File!FileInit, File!Reply, Reply

\* A position short of the end, moved on, is cut back to the end.
LEMMA LeastInFile ==
  ASSUME NEW l \in Nat, NEW p \in 0..l, NEW c \in Nat
  PROVE  Least(p + c, l) \in 0..l
  BY DEF Least

\* A reader of the file is never past its end.
LEMMA DestinationInFile ==
  ASSUME MemberAssumption, Inv'
  PROVE  Destination' \in 0..Length
  <1>1. position' \in 0..Length /\ count' \in Nat /\ Length \in Nat
    BY DEF Inv, TypeOK, MemberAssumption
  <1>2. Least(position' + count', Length) \in 0..Length
    BY <1>1, LeastInFile
  <1> QED
    BY <1>1, <1>2 DEF Destination

\* A read that raises is a call that fails.
LEMMA RaiseFails ==
  ASSUME MemberAssumption, Inv, NEW wanted \in Nat, Raise(wanted)
  PROVE  File!FileNext
  <1>1. position' = position /\ pc' = "idle" /\ reply' = Reply("raised", <<>>, 0)
    BY DEF Raise
  <1>2. position \in 0..Length
    BY DEF Inv, TypeOK
  <1>3. File!Fail
    BY <1>1, <1>2 DEF File!Fail, File!Reply, Reply
  <1> QED
    BY <1>3 DEF File!FileNext

\* A read of the member is a read of the file.
LEMMA ReadRefines ==
  ASSUME MemberAssumption, lost = 0, Inv, Read
  PROVE  File!FileNext
  <1>1. PICK wanted \in 1..MaxRequest :
          ReadFromWindow(wanted) \/ ReadFromStream(wanted) \/ ReadRaises(wanted)
    BY DEF Read
  <1>2. wanted \in Nat \ {0} /\ wanted <= MaxRequest /\ MaxRequest \in Nat
    BY <1>1 DEF MemberAssumption
  <1>3. /\ lost = 0 /\ position \in 0..Length /\ Length \in Nat
    BY DEF Inv, TypeOK, MemberAssumption
  <1>4. CASE ReadFromWindow(wanted)
    <2> DEFINE n == FromWindow(wanted)
    <2>1. /\ pc = "idle" /\ pc' = "idle" /\ position' = position + n /\ InWindow(position)
          /\ UNCHANGED <<window, windowStart, streamPos, lost>>
      BY <1>4 DEF ReadFromWindow
    <2>2. n \in 1..wanted /\ position + n <= WindowEnd /\ WindowEnd \in Nat /\ WindowEnd <= Length
      BY <1>2, <1>3, <2>1, FromWindowMoves, InsideWindow DEF Inv
    <2>3. /\ reply' = Reply("data", reply'.bytes, 0) /\ reply'.bytes = Run(position, n)
      BY <1>2, <1>3, <1>4, ServedFromWindow
    <2> HIDE DEF n, WindowEnd
    <2>4. n \in 1..MaxRequest /\ position + n <= Length
      BY <1>2, <1>3, <2>2
    <2>5. reply' = File!Reply("data", File!Run(position, n), 0)
      BY <2>3 DEF Reply, Run, File!Reply, File!Run
    <2>6. File!ReadSome
      BY <2>1, <2>4, <2>5 DEF File!ReadSome
    <2> QED
      BY <2>6 DEF File!FileNext
  <1>5. CASE ReadFromStream(wanted)
    <2> DEFINE n == Len(StreamBytes(wanted))
    <2>1. pc = "idle" /\ pc' = "idle" /\ lost' = lost
      BY <1>5 DEF ReadFromStream, Consume
    <2>2. /\ n \in 0..wanted /\ position' = position + n
          /\ reply' = Reply(IF n = 0 THEN "eof" ELSE "data", StreamBytes(wanted), 0)
          /\ reply'.bytes = Run(position, n)
          /\ reply'.kind = "eof" => position = Length
      BY <1>2, <1>3, <1>5, ServedFromStream
    <2>3. position' \in 0..Length
      BY <1>2, <1>5, ConsumeKeeps DEF ReadFromStream
    <2>4. /\ reply'.bytes = StreamBytes(wanted)
          /\ reply'.kind = (IF n = 0 THEN "eof" ELSE "data")
      BY <2>2 DEF Reply
    <2> DEFINE data == StreamBytes(wanted)
    <2> HIDE DEF n, data
    <2>5. CASE n = 0
      <3>1. reply' = Reply("eof", <<>>, 0)
        <4>1. Run(position, 0) = <<>>
          BY DEF Run
        <4>2. data = <<>>
          BY <2>2, <2>4, <2>5, <4>1 DEF data
        <4> QED
          BY <2>2, <2>5, <4>2 DEF data
      <3>2. position = Length /\ position' = position
        BY <1>3, <2>2, <2>4, <2>5
      <3>3. File!ReadNothing
        BY <1>3, <2>1, <3>1, <3>2 DEF File!ReadNothing, File!Reply, Reply
      <3> QED
        BY <3>3 DEF File!FileNext
    <2>6. CASE n # 0
      <3>1. n \in 1..MaxRequest /\ position + n <= Length
        BY <1>2, <1>3, <2>2, <2>3, <2>6
      <3>2. reply' = File!Reply("data", File!Run(position, n), 0)
        BY <2>2, <2>4, <2>6 DEF Reply, Run, File!Reply, File!Run
      <3>3. File!ReadSome
        BY <2>1, <2>2, <3>1, <3>2 DEF File!ReadSome
      <3> QED
        BY <3>3 DEF File!FileNext
    <2> QED
      BY <2>5, <2>6
  <1>6. CASE ReadRaises(wanted)
    BY <1>3, <1>6, RaiseFails DEF ReadRaises
  <1> QED
    BY <1>1, <1>4, <1>5, <1>6

\* A seek of the member is a seek of the file, done where it begins.
LEMMA SeekRefines ==
  ASSUME MemberAssumption, Inv, Seek
  PROVE  File!FileNext
  <1> DEFINE Places(target) == \/ SeekNegative(target)
                               \/ SeekInWindow(target)
                               \/ SeekReopening(target)
                               \/ SeekReopenRaises(target)
                               \/ SeekForward(target)
  <1>1. PICK offset \in Offsets, whence \in {"SEEK_SET", "SEEK_CUR", "SEEK_END"} :
          Places(Target(offset, whence))
    BY DEF Seek
  <1>2. Target(offset, whence) \in Int
    BY DEF Target, MemberAssumption, Inv, TypeOK
  <1>3. PICK target \in Int : Places(target)
    BY <1>1, <1>2
  <1>4. position \in 0..Length /\ Length \in Nat
    BY DEF Inv, TypeOK, MemberAssumption
  <1>5. CASE SeekNegative(target)
    BY <1>5 DEF SeekNegative, File!FileNext, File!SeekRefused, File!Reply, Reply
  <1>6. ASSUME target \in Nat, reply' = Reply("sought", <<>>, target),
               Destination' = Least(target, Length), lost' \in {lost, 0}
        PROVE  File!FileNext
    <2>1. reply'.target = target
      BY <1>6 DEF Reply
    <2>2. File!SeekTo
      BY <1>6, <2>1 DEF File!SeekTo, File!Reply, Reply, File!Least, Least, Destination
    <2> QED
      BY <2>2 DEF File!FileNext
  <1>7. CASE SeekInWindow(target)
    <2>1. /\ target \in Nat /\ reply' = Reply("sought", <<>>, target) /\ target < position
          /\ position' = target /\ pc' = "idle" /\ lost' = lost
      BY <1>7 DEF SeekInWindow
    <2>2. Destination' = Least(target, Length)
      BY <1>4, <2>1 DEF Destination, Least
    <2> QED
      BY <1>6, <2>1, <2>2
  <1>8. CASE SeekReopening(target)
    <2>1. /\ target \in Nat /\ reply' = Reply("sought", <<>>, target)
          /\ position' = 0 /\ count' = target /\ pc' = "skip" /\ lost' = 0
      BY <1>8 DEF SeekReopening
    <2>2. Destination' = Least(target, Length)
      BY <2>1 DEF Destination, Least
    <2> QED
      BY <1>6, <2>1, <2>2
  <1>9. CASE SeekForward(target)
    <2>1. /\ target \in Nat /\ reply' = Reply("sought", <<>>, target)
          /\ position' = position /\ count' = target - position /\ pc' = "skip"
          /\ lost' = lost
      BY <1>4, <1>9 DEF SeekForward
    <2>2. Destination' = Least(target, Length)
      BY <1>4, <2>1 DEF Destination, Least
    <2> QED
      BY <1>6, <2>1, <2>2
  <1>10. CASE SeekReopenRaises(target)
    <2>1. position' = position /\ pc' = "idle" /\ reply' = Reply("raised", <<>>, 0)
      BY <1>10 DEF SeekReopenRaises
    <2>2. File!Fail
      BY <1>4, <2>1 DEF File!Fail, File!Reply, Reply
    <2> QED
      BY <2>2 DEF File!FileNext
  <1> QED
    BY <1>3, <1>5, <1>7, <1>8, <1>9, <1>10

\* No turn of _skip_forward's loop moves the point the seek is going to.
LEMMA SkipStutters ==
  ASSUME MemberAssumption, lost = 0, Inv, Skip, ~SkipRaises
  PROVE  Destination' = Destination /\ reply' = reply /\ lost' = lost
  <1>1. /\ position \in 0..Length /\ Length \in Nat /\ count \in Nat /\ lost = 0
        /\ SkipChunk \in Nat \ {0} /\ streamPos \in 0..Length
    BY DEF Inv, TypeOK, MemberAssumption
  <1>2. count > 0 => SkipWanted \in Nat \ {0} /\ SkipWanted <= count
    BY <1>1 DEF SkipWanted, Least
  <1>3. CASE SkipInWindow
    <2>1. FromWindow(SkipWanted) \in Nat
      BY <1>2, <1>3, FromWindowMoves DEF SkipInWindow
    <2>2. position' + count' = position + count
      BY <1>1, <1>3, <2>1 DEF SkipInWindow
    <2> QED
      BY <1>3, <2>2 DEF SkipInWindow, Destination
  <1>4. CASE SkipInStream
    <2>1. Len(StreamBytes(SkipWanted)) \in Nat
      BY <1>2, <1>4, StreamBytesIsRun DEF SkipInStream, Inv
    <2>2. position' + count' = position + count
      BY <1>1, <1>4, <2>1 DEF SkipInStream, Consume
    <2> QED
      BY <1>4, <2>2 DEF SkipInStream, Destination, Consume
  <1>6. CASE SkipEnds
    <2>1. pc = "skip" /\ pc' = "idle" /\ position' = position /\ reply' = reply /\ lost' = lost
      BY <1>6 DEF SkipEnds
    <2>2. CASE count = 0
      BY <1>1, <2>1, <2>2 DEF Destination, Least
    <2>3. CASE count # 0
      <3>1. ~InWindow(position) /\ StreamBytes(SkipWanted) = <<>>
        BY <1>6, <2>3 DEF SkipEnds
      <3>2. SkipWanted \in Nat \ {0}
        BY <1>1, <1>2, <2>3
      <3>3. Least(SkipWanted, Length - streamPos) = 0
        <4>1. Len(StreamBytes(SkipWanted)) = Least(SkipWanted, Length - streamPos)
          BY <3>2, StreamBytesIsRun DEF Inv
        <4> QED
          BY <3>1, <4>1
      <3>4. streamPos = Length
        BY <1>1, <3>2, <3>3 DEF Least
      <3>5. position = Length
        BY <1>1, <3>1, <3>4, OutsideWindow DEF Inv
      <3> QED
        BY <1>1, <2>1, <3>5 DEF Destination, Least
    <2> QED
      BY <2>2, <2>3
  <1> QED
    BY <1>3, <1>4, <1>6 DEF Skip

\* Once a read has raised the file is astray, until it is opened again.
LEMMA LostIsAstray ==
  ASSUME MemberAssumption, Inv, Inv', lost # 0, Read \/ Skip
  PROVE  File!FileNext
  <1>1. Destination' \in 0..Length
    BY DestinationInFile
  <1>2. CASE \E wanted \in Nat : Raise(wanted)
    BY <1>2, RaiseFails
  <1>3. CASE ~\E wanted \in Nat : Raise(wanted)
    <2>1. lost' = lost
      <3>1. CASE Read
        <4>1. PICK wanted \in 1..MaxRequest :
                ReadFromWindow(wanted) \/ ReadFromStream(wanted) \/ ReadRaises(wanted)
          BY <3>1 DEF Read
        <4>2. wanted \in Nat
          BY <4>1 DEF MemberAssumption
        <4> QED
          BY <1>3, <4>1, <4>2 DEF ReadFromWindow, ReadFromStream, ReadRaises, Consume
      <3>2. CASE Skip
        <4>1. count \in Nat /\ SkipChunk \in Nat
          BY DEF Inv, TypeOK, MemberAssumption
        <4>2. SkipWanted \in Nat
          BY <4>1 DEF SkipWanted, Least
        <4> QED
          BY <1>3, <3>2, <4>2 DEF Skip, SkipInWindow, SkipInStream, SkipRaises, SkipEnds, Consume
      <3> QED
        BY <3>1, <3>2
    <2>2. File!Stray
      BY <1>1, <2>1 DEF File!Stray, Destination
    <2> QED
      BY <2>2 DEF File!FileNext
  <1> QED
    BY <1>2, <1>3

\* A streamed member is a seekable file of its bytes, which only a call that
\* fails may leave astray: windows, re-openings and skips are never seen.
THEOREM Refines == Spec => FileSpec
  <1>1. Init => File!FileInit
    BY InitRefines
  <1>2. Inv /\ Inv' /\ [Next]_vars => [File!FileNext]_File!fileVars
    <2> SUFFICES ASSUME Inv, Inv', [Next]_vars PROVE [File!FileNext]_File!fileVars
      OBVIOUS
    <2>1. CASE Seek
      BY <2>1, SeekRefines, MemberAssumption
    <2>2. CASE (Read \/ Skip) /\ lost # 0
      BY <2>2, LostIsAstray, MemberAssumption
    <2>3. CASE Read /\ lost = 0
      BY <2>3, ReadRefines, MemberAssumption
    <2>4. CASE Skip /\ ~SkipRaises /\ lost = 0
      BY <2>4, SkipStutters, MemberAssumption DEF Destination, File!fileVars
    <2>5. CASE SkipRaises
      <3>1. count \in Nat /\ SkipChunk \in Nat
        BY MemberAssumption DEF Inv, TypeOK, MemberAssumption
      <3>2. SkipWanted \in Nat
        BY <3>1 DEF SkipWanted, Least
      <3> QED
        BY <2>5, <3>2, RaiseFails, MemberAssumption DEF SkipRaises
    <2>6. CASE UNCHANGED vars
      BY <2>6 DEF vars, File!fileVars
    <2> QED
      BY <2>1, <2>2, <2>3, <2>4, <2>5, <2>6 DEF Next
  <1> QED
    BY <1>1, <1>2, Invariance, PTL DEF Spec, FileSpec, File!FileSpec
=============================================================================
