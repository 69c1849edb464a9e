-------------------------- MODULE SeekableZipMember --------------------------
(***************************************************************************)
(* wheelfile.SeekableZipMember: one zip member read in place.  The stream  *)
(* zipfile hands out only moves forward; a backward seek is served from a  *)
(* window of the bytes read last, or by re-opening the member and skipping *)
(* forward again.                                                          *)
(*                                                                         *)
(* One seek is several steps here (pc = "skip"), because each turn of      *)
(* _skip_forward's loop calls the stream again and that call can raise     *)
(* half way.                                                               *)
(***************************************************************************)
EXTENDS Integers, Sequences, ByteRuns

CONSTANTS Length,        \* bytes the member really decompresses to
          Size,          \* bytes its central-directory entry declares
          WindowBytes,   \* read_back_window_bytes
          SkipChunk,     \* _SKIP_CHUNK
          MaxRequest,    \* largest read a caller makes
          Offsets,       \* the offsets callers pass to seek
          FlakyReads     \* may reading the stream, or opening it again, raise?

ASSUME MemberAssumption ==
  /\ Length \in Nat /\ Size \in Nat /\ Length <= Size
  /\ WindowBytes \in Nat
  /\ SkipChunk \in Nat \ {0}
  /\ MaxRequest \in Nat \ {0}
  /\ Offsets \subseteq Int
  /\ FlakyReads \in BOOLEAN

VARIABLES position,      \* _position
          window,        \* _window
          windowStart,   \* _window_start
          streamPos,     \* where _stream's next byte comes from
          closed,        \* is _stream closed, its successor never opened?
          pc,            \* "idle", or "skip" inside _skip_forward
          count,         \* _skip_forward's count
          reply,         \* the last call, and what it handed back
          lost           \* bytes the stream gave up to reads that raised (history)

vars == <<position, window, windowStart, streamPos, closed, pc, count, reply, lost>>

Reply(kind, bytes, target) == [kind |-> kind, bytes |-> bytes, target |-> target]

Replies == [kind : {"none", "data", "eof", "sought", "refused", "raised"},
            bytes : Seq(Nat), target : Nat]

WindowEnd == windowStart + Len(window)

Init ==
  /\ position = 0 /\ window = <<>> /\ windowStart = 0
  /\ streamPos = 0 /\ closed = FALSE /\ lost = 0
  /\ pc = "idle" /\ count = 0
  /\ reply = Reply("none", <<>>, 0)

----------------------------------------------------------------------------
(* The window and the stream beneath it.                                   *)

\* Mutant: the upper bound that seek's comment warns about is missing.
InWindowUnbounded(p) == windowStart <= p
InWindow(p) == windowStart <= p /\ p < WindowEnd

\* Mutant: the slice stops one byte short of the window's end.
FromWindowShort(wanted) == Least(wanted, WindowEnd - position - 1)
\* How many bytes _read_from_window returns for a request of wanted > 0.
FromWindow(wanted) == Least(wanted, WindowEnd - position)

\* Mutant: a read past the member's end is padded.
StreamBytesPadded(wanted) == Run(streamPos, wanted)
\* The bytes a call _stream.read(wanted) returns: all that were asked for, or
\* what the member has left.
StreamBytes(wanted) == Run(streamPos, Least(wanted, Length - streamPos))

Excess(data) == Len(window) + Len(data) - WindowBytes

\* Mutant: the bytes dropped from the window are not counted.
RememberFromTheStart(data) ==
  IF WindowBytes = 0 \/ data = <<>>
    THEN UNCHANGED <<window, windowStart>>
    ELSE /\ window' = IF Excess(data) > 0
                        THEN SubSeq(window \o data, Excess(data) + 1, Len(window) + Len(data))
                        ELSE window \o data
         /\ UNCHANGED windowStart

Remember(data) ==
  IF WindowBytes = 0 \/ data = <<>>
    THEN UNCHANGED <<window, windowStart>>
    ELSE IF Excess(data) > 0
      THEN /\ window' = SubSeq(window \o data, Excess(data) + 1, Len(window) + Len(data))
           /\ windowStart' = windowStart + Excess(data)
      ELSE /\ window' = window \o data
           /\ UNCHANGED windowStart

\* _stream.read(wanted) returned: the stream, the window and the position
\* all move past the bytes.
Consume(wanted) ==
  /\ streamPos' = streamPos + Len(StreamBytes(wanted))
  /\ Remember(StreamBytes(wanted))
  /\ position' = position + Len(StreamBytes(wanted))
  /\ UNCHANGED <<closed, lost>>

\* _stream.read(wanted) raised: what it had decompressed is gone, and the
\* exception leaves the call before position or window are touched.  A closed
\* stream always raises, and has decompressed nothing.
Raise(wanted) ==
  /\ FlakyReads
  /\ \E k \in IF closed THEN {0} ELSE 0..Least(wanted, Length - streamPos) :
       streamPos' = streamPos + k /\ lost' = lost + k
  /\ reply' = Reply("raised", <<>>, 0)
  /\ pc' = "idle" /\ count' = 0
  /\ UNCHANGED <<position, window, windowStart, closed>>

----------------------------------------------------------------------------
(* readinto.                                                               *)

ReadFromWindow(wanted) ==
  /\ pc = "idle" /\ InWindow(position)
  /\ position' = position + FromWindow(wanted)
  /\ reply' = Reply("data",
                    SubSeq(window, position - windowStart + 1,
                           position - windowStart + FromWindow(wanted)), 0)
  /\ UNCHANGED <<window, windowStart, streamPos, closed, pc, count, lost>>

ReadFromStream(wanted) ==
  /\ pc = "idle" /\ ~InWindow(position) /\ ~closed
  /\ Consume(wanted)
  /\ reply' = Reply(IF StreamBytes(wanted) = <<>> THEN "eof" ELSE "data",
                    StreamBytes(wanted), 0)
  /\ UNCHANGED <<pc, count>>

ReadRaises(wanted) == pc = "idle" /\ ~InWindow(position) /\ Raise(wanted)

----------------------------------------------------------------------------
(* seek.                                                                   *)

Target(offset, whence) ==
  offset + (CASE whence = "SEEK_SET" -> 0
              [] whence = "SEEK_CUR" -> position
              [] whence = "SEEK_END" -> Size)

SeekNegative(target) ==
  /\ pc = "idle" /\ target < 0
  /\ reply' = Reply("refused", <<>>, 0)
  /\ UNCHANGED <<position, window, windowStart, streamPos, closed, pc, count, lost>>

SeekInWindow(target) ==
  /\ pc = "idle" /\ 0 <= target /\ target < position /\ InWindow(target)
  /\ position' = target
  /\ reply' = Reply("sought", <<>>, target)
  /\ UNCHANGED <<window, windowStart, streamPos, closed, pc, count, lost>>

\* Mutant: _reopen forgets to clear the window.
SeekReopeningKeepingWindow(target) ==
  /\ pc = "idle" /\ 0 <= target /\ target < position /\ ~InWindow(target)
  /\ position' = 0 /\ windowStart' = 0 /\ UNCHANGED window
  /\ streamPos' = 0 /\ closed' = FALSE /\ lost' = 0
  /\ pc' = "skip" /\ count' = target
  /\ reply' = Reply("sought", <<>>, target)

\* _reopen, then _skip_forward(target - 0).
SeekReopening(target) ==
  /\ pc = "idle" /\ 0 <= target /\ target < position /\ ~InWindow(target)
  /\ position' = 0 /\ window' = <<>> /\ windowStart' = 0
  /\ streamPos' = 0 /\ closed' = FALSE /\ lost' = 0
  /\ pc' = "skip" /\ count' = target
  /\ reply' = Reply("sought", <<>>, target)

\* _reopen has closed the old stream, and archive.open raises: position and
\* window stay, over a stream that cannot be read any more.
SeekReopenRaises(target) ==
  /\ pc = "idle" /\ 0 <= target /\ target < position /\ ~InWindow(target)
  /\ FlakyReads /\ closed' = TRUE
  /\ reply' = Reply("raised", <<>>, 0)
  /\ UNCHANGED <<position, window, windowStart, streamPos, pc, count, lost>>

SeekForward(target) ==
  /\ pc = "idle" /\ position <= target
  /\ pc' = "skip" /\ count' = target - position
  /\ reply' = Reply("sought", <<>>, target)
  /\ UNCHANGED <<position, window, windowStart, streamPos, closed, lost>>

----------------------------------------------------------------------------
(* _skip_forward, one turn of its loop at a time.                          *)

SkipWanted == Least(count, SkipChunk)

SkipInWindow ==
  /\ pc = "skip" /\ count > 0 /\ InWindow(position)
  /\ position' = position + FromWindow(SkipWanted)
  /\ count' = count - FromWindow(SkipWanted)
  /\ UNCHANGED <<window, windowStart, streamPos, closed, pc, reply, lost>>

SkipInStream ==
  /\ pc = "skip" /\ count > 0 /\ ~InWindow(position) /\ ~closed
  /\ StreamBytes(SkipWanted) # <<>>
  /\ Consume(SkipWanted)
  /\ count' = count - Len(StreamBytes(SkipWanted))
  /\ UNCHANGED <<pc, reply>>

SkipRaises == pc = "skip" /\ count > 0 /\ ~InWindow(position) /\ Raise(SkipWanted)

\* Nothing left to skip, or nothing left to skip over.
SkipEnds ==
  /\ pc = "skip"
  /\ count = 0 \/ (~InWindow(position) /\ ~closed /\ StreamBytes(SkipWanted) = <<>>)
  /\ pc' = "idle" /\ count' = 0
  /\ UNCHANGED <<position, window, windowStart, streamPos, closed, reply, lost>>

----------------------------------------------------------------------------
Read ==
  \E wanted \in 1..MaxRequest :
    ReadFromWindow(wanted) \/ ReadFromStream(wanted) \/ ReadRaises(wanted)

Seek ==
  \E offset \in Offsets, whence \in {"SEEK_SET", "SEEK_CUR", "SEEK_END"} :
    LET target == Target(offset, whence) IN
      \/ SeekNegative(target)
      \/ SeekInWindow(target)
      \/ SeekReopening(target)
      \/ SeekReopenRaises(target)
      \/ SeekForward(target)

Skip == SkipInWindow \/ SkipInStream \/ SkipRaises \/ SkipEnds

Next == Read \/ Seek \/ Skip

\* The loop of _skip_forward runs on: nothing else can happen on this stream
\* before it returns.
Spec == Init /\ [][Next]_vars /\ WF_vars(Skip)

----------------------------------------------------------------------------
(* Properties.                                                             *)

TypeOK ==
  /\ position \in 0..Length
  /\ windowStart \in Nat /\ window \in Seq(Nat)
  /\ streamPos \in 0..Length /\ closed \in BOOLEAN /\ lost \in Nat
  /\ pc \in {"idle", "skip"} /\ count \in Nat
  /\ reply \in Replies

\* The window never outgrows read_back_window_bytes and always ends where the
\* stream has got to, short only of what raising reads threw away: so a
\* position outside it is exactly where the stream's next byte belongs.
\* (wheelfile.py:105-111, 175-177)
WindowTracksStream ==
  /\ Len(window) <= WindowBytes
  /\ position >= windowStart
  /\ IF WindowBytes = 0
       THEN windowStart = 0 /\ streamPos = position + lost
       ELSE streamPos = WindowEnd + lost /\ position <= WindowEnd

\* While no read has raised since the member was last opened, a byte handed to
\* a reader is the byte of the member at that position, and end of file is
\* said only at the end of the member, however reads and seeks alternate.
HonestReply ==
  /\ reply.kind = "data" =>
       /\ reply.bytes # <<>>
       /\ reply.bytes = Run(position - Len(reply.bytes), Len(reply.bytes))
  /\ reply.kind = "eof" => position = Length

SoundUntilAReadRaises == lost = 0 => HonestReply

\* Every seek returns (or raises): _skip_forward's loop cannot spin on bytes
\* the window has already given it.
SeekReturns == (pc = "skip") ~> (pc = "idle")

\* The member is a seekable file, that no call leaves astray but one that says
\* it failed.  A seek under way is already where it is going to stop.
File == INSTANCE SeekableFile
          WITH position <- IF pc = "skip" THEN Least(position + count, Length) ELSE position,
               astray <- lost # 0
FileSpec == File!FileSpec
=============================================================================
