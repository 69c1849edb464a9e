---------------------------- MODULE ProgressView ----------------------------
(***************************************************************************)
(* progress.Progress drawing live: the main thread tallies records and, at *)
(* the end, closes the view; a ticker thread redraws a block of rows in    *)
(* place.  They share _lock (the tallies) and _output (the stream), always *)
(* taken in that order.  The terminal can be paused, which blocks whoever  *)
(* writes to it half way through its text.                                 *)
(*                                                                         *)
(* What a row says is abstracted to the frame it belongs to and its place  *)
(* in the frame; how many rows a frame takes is kept, because the next     *)
(* redraw moves the cursor up by it.                                       *)
(***************************************************************************)
EXTENDS Integers, Sequences

CONSTANTS Records,     \* how many records the scan will emit (total)
          Heights,     \* how many rows a frame may take
          MaxFrames,   \* how often the ticker redraws (a bound)
          MaxPauses    \* how often the terminal is paused (a bound)

ASSUME ViewAssumption ==
  /\ Records \in Nat \ {0}
  /\ Heights \subseteq Nat \ {0} /\ Heights # {}
  /\ MaxFrames \in Nat /\ MaxPauses \in Nat

VARIABLES
  done,      \* _done
  frame,     \* _frame, and one more for the summary
  drawn,     \* _drawn, the rows of the frame built last
  closed,    \* _closed
  stop,      \* _stop is set
  lock,      \* who holds _lock
  output,    \* who holds _output
  main,      \* where the main thread is
  ticker,    \* where the ticker thread is
  text,      \* what each thread has still to write
  why,       \* how the scan ended, as far as it has
  screen,    \* the rows of the terminal
  cursor,    \* the row the cursor is on
  paused,    \* is the terminal paused?
  pauses     \* how often it has been (bounds the model)

lockVars == <<lock, output>>
terminalVars == <<screen, cursor, paused, pauses>>
vars == <<done, frame, drawn, closed, stop, lockVars, main, ticker, text, why, terminalVars>>

Threads == {"main", "ticker"}

----------------------------------------------------------------------------
(* What is written, and what the terminal makes of it.                     *)

Row(kind, number, place) == <<kind, number, place>>
Prompt == Row("prompt", 0, 1)
Blank == Row("blank", 0, 0)
Message == Row("message", 0, 1)

Up(n) == [op |-> "up", by |-> n, row |-> Blank]
Down == [op |-> "down", by |-> 1, row |-> Blank]
Draw(row) == [op |-> "draw", by |-> 0, row |-> row]

Lines(kind, number, height) == [i \in 1..height |-> Row(kind, number, i)]

\* One row under the other.
Stacked(rows) ==
  [i \in 1..(2 * Len(rows) - 1) |-> IF i % 2 = 1 THEN Draw(rows[(i + 1) \div 2]) ELSE Down]

\* _frame_text: back to the first row of the last frame, draw over it, and
\* blank what a taller one left below.
FrameText(rows) ==
  LET stale == drawn - Len(rows) IN
  (IF drawn > 1 THEN <<Up(drawn - 1)>> ELSE <<>>)
  \o Stacked(rows)
  \o (IF stale > 0 THEN [i \in 1..(2 * stale) |-> IF i % 2 = 1 THEN Down ELSE Draw(Blank)]
                        \o <<Up(stale)>>
      ELSE <<>>)

\* The terminal does one thing of a thread's text.
Write(thread) ==
  LET head == Head(text[thread]) IN
  /\ ~paused /\ text[thread] # <<>>
  /\ text' = [text EXCEPT ![thread] = Tail(@)]
  /\ CASE head.op = "up" -> cursor' = (IF cursor > head.by THEN cursor - head.by ELSE 1)
                            /\ UNCHANGED screen
       [] head.op = "down" -> /\ cursor' = cursor + 1
                              /\ screen' = IF cursor < Len(screen) THEN screen
                                           ELSE Append(screen, Blank)
       [] head.op = "draw" -> screen' = [screen EXCEPT ![cursor] = head.row] /\ UNCHANGED cursor
  /\ UNCHANGED <<paused, pauses>>

Init ==
  /\ done = 0 /\ frame = 0 /\ drawn = 0 /\ closed = FALSE /\ stop = FALSE
  /\ lock = "free" /\ output = "free"
  /\ main = "consume" /\ ticker = "wait" /\ text = [t \in Threads |-> <<>>] /\ why = "running"
  /\ screen = <<Prompt, Blank>> /\ cursor = 2 /\ paused = FALSE /\ pauses = 0

----------------------------------------------------------------------------
(* The ticker thread: _tick.                                               *)

TickerFrame == UNCHANGED <<done, closed, stop, main, why>>

\* _stop.wait returned: it was set, or a tenth of a second has passed.
Tick ==
  /\ ticker = "wait"
  /\ \/ stop /\ ticker' = "gone"
     \/ ~stop /\ frame < MaxFrames /\ ticker' = "lock"
  /\ UNCHANGED <<frame, drawn, text, lockVars, terminalVars>> /\ TickerFrame

\* Mutant: the flag that close sets under the lock is not looked at.
BuildFrameAnyway ==
  /\ ticker = "lock" /\ lock = "free"
  /\ \E height \in Heights :
       /\ frame' = frame + 1 /\ drawn' = height
       /\ text' = [text EXCEPT !["ticker"] = FrameText(Lines("frame", frame + 1, height))]
  /\ ticker' = "output" /\ lock' = "ticker"
  /\ UNCHANGED <<output, terminalVars>> /\ TickerFrame

\* Mutant: _lock is let go before _output is asked for.
BuildFrameLettingGo ==
  /\ ticker = "lock" /\ lock = "free"
  /\ \/ closed /\ ticker' = "gone" /\ UNCHANGED <<frame, drawn, text>>
     \/ /\ ~closed /\ ticker' = "output"
        /\ \E height \in Heights :
             /\ frame' = frame + 1 /\ drawn' = height
             /\ text' = [text EXCEPT !["ticker"] = FrameText(Lines("frame", frame + 1, height))]
  /\ UNCHANGED <<lock, output, terminalVars>> /\ TickerFrame

BuildFrame ==
  /\ ticker = "lock" /\ lock = "free"
  /\ \/ closed /\ ticker' = "gone" /\ UNCHANGED <<frame, drawn, text, lock>>
     \/ /\ ~closed /\ ticker' = "output" /\ lock' = "ticker"
        /\ \E height \in Heights :
             /\ frame' = frame + 1 /\ drawn' = height
             /\ text' = [text EXCEPT !["ticker"] = FrameText(Lines("frame", frame + 1, height))]
  /\ UNCHANGED <<output, terminalVars>> /\ TickerFrame

\* Mutant: the tallies stay locked until the terminal takes the frame.
TakeOutputUnderLock ==
  /\ ticker = "output" /\ output = "free" /\ ~paused
  /\ output' = "ticker" /\ lock' = "free"
  /\ ticker' = "write"
  /\ UNCHANGED <<frame, drawn, text, terminalVars>> /\ TickerFrame

\* _output is taken before _lock is let go.
TakeOutput ==
  /\ ticker = "output" /\ output = "free"
  /\ output' = "ticker" /\ lock' = "free"
  /\ ticker' = "write"
  /\ UNCHANGED <<frame, drawn, text, terminalVars>> /\ TickerFrame

WriteFrame ==
  /\ ticker = "write" /\ Write("ticker")
  /\ UNCHANGED <<frame, drawn, ticker, lockVars>> /\ TickerFrame

\* Mutant: _output is not released.
FrameWrittenKeepingOutput ==
  /\ ticker = "write" /\ text["ticker"] = <<>>
  /\ ticker' = "wait"
  /\ UNCHANGED <<frame, drawn, text, lockVars, terminalVars>> /\ TickerFrame

FrameWritten ==
  /\ ticker = "write" /\ text["ticker"] = <<>>
  /\ output' = "free" /\ ticker' = "wait"
  /\ UNCHANGED <<frame, drawn, text, lock, terminalVars>> /\ TickerFrame

TickerStep == Tick \/ BuildFrame \/ TakeOutput \/ WriteFrame \/ FrameWritten

----------------------------------------------------------------------------
(* The main thread: feed, update, close, and the message after it.         *)

MainFrame == UNCHANGED ticker

\* feed has the next line.
Receive ==
  /\ main = "consume" /\ done < Records
  /\ main' = "update"
  /\ UNCHANGED <<done, frame, drawn, closed, stop, lockVars, text, why, terminalVars>> /\ MainFrame

Update ==
  /\ main = "update" /\ lock = "free"
  /\ done' = done + 1 /\ main' = "consume"
  /\ UNCHANGED <<frame, drawn, closed, stop, lockVars, text, why, terminalVars>> /\ MainFrame

\* The records are all written, writing them failed (before_error), or the
\* scan raised (__exit__): close is called, and sets _stop first.
CallClose ==
  /\ main = "consume"
  /\ \/ done = Records /\ why' = "complete"
     \/ why' \in {"write error", "exception"}
  /\ stop' = TRUE /\ main' = "join"
  /\ UNCHANGED <<done, frame, drawn, closed, lockVars, text, terminalVars>> /\ MainFrame

\* The ticker is gone, or _JOIN_SECONDS are over.
Join ==
  /\ main = "join"
  /\ main' = "lock"
  /\ UNCHANGED <<done, frame, drawn, closed, stop, lockVars, text, why, terminalVars>> /\ MainFrame

\* Mutant: every call of close draws a summary.
BuildSummaryAgain ==
  /\ main = "lock" /\ lock = "free"
  /\ closed' = TRUE /\ main' = "output" /\ lock' = "main"
  /\ \E height \in Heights :
       /\ frame' = frame + 1 /\ drawn' = height
       /\ text' = [text EXCEPT !["main"] =
                     Append(FrameText(Lines("summary", frame + 1, height)), Down)]
  /\ UNCHANGED <<done, stop, output, why, terminalVars>> /\ MainFrame

\* Only the first call goes past the lock.
BuildSummary ==
  /\ main = "lock" /\ lock = "free"
  /\ \/ closed /\ main' = "end" /\ UNCHANGED <<frame, drawn, closed, text, lock>>
     \/ /\ ~closed /\ closed' = TRUE /\ main' = "output" /\ lock' = "main"
        /\ \E height \in Heights :
             /\ frame' = frame + 1 /\ drawn' = height
             /\ text' = [text EXCEPT !["main"] =
                           Append(FrameText(Lines("summary", frame + 1, height)), Down)]
  /\ UNCHANGED <<done, stop, output, why, terminalVars>> /\ MainFrame

TakeOutputToClose ==
  /\ main = "output" /\ output = "free"
  /\ output' = "main" /\ main' = "write"
  /\ UNCHANGED <<done, frame, drawn, closed, stop, lock, text, why, terminalVars>> /\ MainFrame

WriteSummary ==
  /\ main = "write" /\ Write("main")
  /\ UNCHANGED <<done, frame, drawn, closed, stop, main, lockVars, why>> /\ MainFrame

SummaryWritten ==
  /\ main = "write" /\ text["main"] = <<>>
  /\ output' = "free" /\ lock' = "free"
  /\ main' = IF why = "complete" THEN "end" ELSE "print"
  /\ UNCHANGED <<done, frame, drawn, closed, stop, text, why, terminalVars>> /\ MainFrame

\* The message of the write error, or the traceback: print knows no locks.
\* After a write error, leaving the with block calls close again.
PrintMessage ==
  /\ main = "print" /\ ~paused
  /\ screen' = [screen EXCEPT ![cursor] = Message]
  /\ main' = IF why = "write error" THEN "join" ELSE "end"
  /\ UNCHANGED <<done, frame, drawn, closed, stop, lockVars, text, why, cursor, paused, pauses>>
  /\ MainFrame

MainStep ==
  \/ Receive \/ Update \/ CallClose \/ Join \/ BuildSummary
  \/ TakeOutputToClose \/ WriteSummary \/ SummaryWritten \/ PrintMessage

----------------------------------------------------------------------------
(* The user, and the end.                                                  *)

Pause ==
  /\ ~paused /\ pauses < MaxPauses
  /\ paused' = TRUE /\ pauses' = pauses + 1
  /\ UNCHANGED <<done, frame, drawn, closed, stop, lockVars, main, ticker, text, why, screen, cursor>>

Resume ==
  /\ paused /\ paused' = FALSE
  /\ UNCHANGED <<done, frame, drawn, closed, stop, lockVars, main, ticker, text, why, screen, cursor,
                 pauses>>

\* The process is over; a ticker still there was a daemon.
Ended == main = "end" /\ ticker = "gone" /\ UNCHANGED vars

Next == MainStep \/ TickerStep \/ Pause \/ Resume \/ Ended

\* Threads run on; nobody has to resume the terminal.
Spec == Init /\ [][Next]_vars /\ WF_vars(MainStep) /\ WF_vars(TickerStep)

----------------------------------------------------------------------------
(* Properties.                                                             *)

TypeOK ==
  /\ done \in 0..Records /\ frame \in 0..(MaxFrames + 1) /\ drawn \in Heights \cup {0}
  /\ closed \in BOOLEAN /\ stop \in BOOLEAN /\ paused \in BOOLEAN /\ pauses \in 0..MaxPauses
  /\ lock \in {"free", "main", "ticker"} /\ output \in {"free", "main", "ticker"}
  /\ main \in {"consume", "update", "join", "lock", "output", "write", "print", "end"}
  /\ ticker \in {"wait", "lock", "output", "write", "gone"}
  /\ why \in {"running", "complete", "write error", "exception"}
  /\ cursor \in 1..Len(screen)

\* Is there a text built and not yet all written?
Unwritten == \E t \in Threads : text[t] # <<>>

\* Whenever nothing is waiting to be written, the terminal shows the frame
\* built last, whole, under what was there before the scan, and nothing of an
\* older or taller frame; the cursor is where the next redraw expects it.
\* However the threads race and wherever a write is paused.
\* (progress.py:25-31, 173-174)
WholeFrames ==
  ~Unwritten /\ drawn > 0 =>
    LET below == {i \in DOMAIN screen : i > drawn + 1} IN
    /\ SubSeq(screen, 1, drawn + 1) =
         <<Prompt>> \o Lines(IF closed THEN "summary" ELSE "frame", frame, drawn)
    /\ \A i \in below : screen[i] \in {Blank, Message}
    /\ cursor = IF closed THEN drawn + 2 ELSE drawn + 1

\* Once the summary is out nothing is drawn any more, so the message of an
\* error, or the traceback, stays on the terminal under a whole summary.
\* (progress.py:147-149)
Printed == \E i \in DOMAIN screen : screen[i] = Message
MessageStands == [][Printed => UNCHANGED screen]_vars

\* A terminal paused for good stalls the redraw, never the scan
\* (progress.py:107-109).
NeverStalled == (main = "update") ~> (main # "update")

\* On a terminal that is resumed whenever it was paused, close gets its
\* summary out and returns.
CloseReturns == []<>~paused => (main = "join") ~> (main = "end")
=============================================================================
