---------------------------- MODULE SeekableFile ----------------------------
(***************************************************************************)
(* What the readers of a native object rely on when they are handed a      *)
(* stream: a seekable, read-only file of Length bytes.  Nothing about zip  *)
(* members, windows or re-opening is visible here.  A call may fail, and   *)
(* then the file may be astray until it is opened again.                   *)
(***************************************************************************)
EXTENDS Integers, Sequences, ByteRuns

CONSTANTS Length,       \* bytes the file really holds
          MaxRequest    \* largest single read

VARIABLES position,     \* where the next read starts
          reply,        \* the last call, and what it handed back
          astray        \* a call has failed and left it so

fileVars == <<position, reply, astray>>

Reply(kind, bytes, target) == [kind |-> kind, bytes |-> bytes, target |-> target]

FileInit == position = 0 /\ reply = Reply("none", <<>>, 0) /\ astray = FALSE

\* A read returns at least one of the bytes at the position, in order.
ReadSome ==
  \E n \in 1..MaxRequest :
    /\ position + n <= Length
    /\ position' = position + n
    /\ reply' = Reply("data", Run(position, n), 0)
    /\ UNCHANGED astray

\* End of file is reported only at the end of the file.
ReadNothing ==
  /\ position >= Length
  /\ reply' = Reply("eof", <<>>, 0)
  /\ UNCHANGED <<position, astray>>

\* A seek goes where it was asked to, or to the end when that is nearer; one
\* that opens the file again brings it back.
SeekTo ==
  /\ reply'.target \in Nat
  /\ reply' = Reply("sought", <<>>, reply'.target)
  /\ position' = Least(reply'.target, Length)
  /\ astray' \in {astray, FALSE}

\* A seek to before the start changes nothing.
SeekRefused ==
  /\ reply' = Reply("refused", <<>>, 0)
  /\ UNCHANGED <<position, astray>>

\* A call fails, and says so.
Fail ==
  /\ reply' = Reply("raised", <<>>, 0)
  /\ position' \in 0..Length /\ astray' \in BOOLEAN

\* What an astray file hands out, and where it goes, is anything.
Stray == astray /\ UNCHANGED astray /\ position' \in 0..Length

FileNext == ReadSome \/ ReadNothing \/ SeekTo \/ SeekRefused \/ Fail \/ Stray

FileSpec == FileInit /\ [][FileNext]_fileVars
=============================================================================
