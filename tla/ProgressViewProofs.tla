------------------------- MODULE ProgressViewProofs -------------------------
(***************************************************************************)
(* The live view, for any number of records, heights of a frame, redraws   *)
(* and pauses: its state keeps its type, once the summary is out nothing   *)
(* is drawn any more, and what stands is a whole frame.                    *)
(***************************************************************************)
EXTENDS ProgressView, TLAPS

----------------------------------------------------------------------------
(* Types.                                                                  *)

\* Rows that the view itself draws, and what it has the terminal do.
Rows == {"prompt", "blank", "frame", "summary"} \X Nat \X Nat
Ops == [op : {"up", "down", "draw"}, by : Nat, row : Rows]

TextType == text \in [Threads -> Seq(Ops)]
ScreenType == screen \in Seq(Rows \cup {Message})

\* A frame is only begun while there are redraws left, and the summary is one more.
FrameBound ==
  /\ ~closed => frame <= MaxFrames
  /\ ~closed /\ ticker = "lock" => frame < MaxFrames

\* The parts of TypeOK; a record that is there to be tallied is not past the last.
FlagType == closed \in BOOLEAN /\ stop \in BOOLEAN /\ paused \in BOOLEAN
TallyType == done \in 0..Records /\ (main = "update" => done < Records)
PlaceType ==
  /\ lock \in {"free", "main", "ticker"} /\ output \in {"free", "main", "ticker"}
  /\ main \in {"consume", "update", "join", "lock", "output", "write", "print", "end"}
  /\ ticker \in {"wait", "lock", "output", "write", "gone"}
  /\ why \in {"running", "complete", "write error", "exception"}
StateType == FlagType /\ TallyType /\ PlaceType
FrameType == frame \in 0..(MaxFrames + 1) /\ drawn \in Heights \cup {0}
TerminalType == pauses \in 0..MaxPauses /\ cursor \in 1..Len(screen)

TypeInv == StateType /\ FrameType /\ TerminalType /\ TextType /\ ScreenType /\ FrameBound

LEMMA TypeParts == StateType /\ FrameType /\ TerminalType => TypeOK
  BY DEF TypeOK, StateType, FlagType, TallyType, PlaceType, FrameType, TerminalType

LEMMA OpsType ==
  /\ \A n \in Nat : Up(n) \in Ops
  /\ Down \in Ops /\ Draw(Blank) \in Ops
  /\ \A row \in Rows : Draw(row) \in Ops
  BY DEF Up, Down, Draw, Blank, Row, Rows, Ops

LEMMA LinesType ==
  ASSUME NEW kind \in {"frame", "summary"}, NEW number \in Nat, NEW height \in Nat \ {0}
  PROVE  Lines(kind, number, height) \in Seq(Rows) /\ Len(Lines(kind, number, height)) = height
  BY DEF Lines, Row, Rows

\* One row under the other.
LEMMA StackedType ==
  ASSUME NEW rows \in Seq(Rows), Len(rows) >= 1
  PROVE  Stacked(rows) \in Seq(Ops)
  <1> DEFINE n == 2 * Len(rows) - 1
  <1>1. n \in Nat
    OBVIOUS
  <1>2. ASSUME NEW i \in 1..n
        PROVE  (IF i % 2 = 1 THEN Draw(rows[(i + 1) \div 2]) ELSE Down) \in Ops
    <2>1. ASSUME i % 2 = 1 PROVE (i + 1) \div 2 \in 1..Len(rows)
      BY <2>1
    <2>2. ASSUME i % 2 = 1 PROVE rows[(i + 1) \div 2] \in Rows
      BY <2>1, <2>2
    <2> QED
      BY <2>2, OpsType
  <1>3. Stacked(rows) = [i \in 1..n |-> IF i % 2 = 1 THEN Draw(rows[(i + 1) \div 2]) ELSE Down]
    BY DEF Stacked
  <1> HIDE DEF n
  <1> QED
    BY <1>1, <1>2, <1>3

\* A frame's text is made of rows of the view's own.
LEMMA FrameTextType ==
  ASSUME drawn \in Nat, NEW rows \in Seq(Rows), Len(rows) >= 1
  PROVE  FrameText(rows) \in Seq(Ops)
  <1> DEFINE stale == drawn - Len(rows)
             back == IF drawn > 1 THEN <<Up(drawn - 1)>> ELSE <<>>
             blanks == [i \in 1..(2 * stale) |-> IF i % 2 = 1 THEN Down ELSE Draw(Blank)]
             rest == IF stale > 0 THEN blanks \o <<Up(stale)>> ELSE <<>>
             stacked == Stacked(rows)
  <1>1. back \in Seq(Ops)
    <2>1. drawn > 1 => Up(drawn - 1) \in Ops
      BY OpsType
    <2> QED
      BY <2>1
  <1>2. ASSUME stale > 0 PROVE blanks \o <<Up(stale)>> \in Seq(Ops)
    <2>1. stale \in Nat /\ 2 * stale \in Nat
      BY <1>2
    <2>2. Up(stale) \in Ops
      BY <2>1, OpsType
    <2>3. \A i \in 1..(2 * stale) : (IF i % 2 = 1 THEN Down ELSE Draw(Blank)) \in Ops
      BY OpsType
    <2> HIDE DEF stale
    <2>4. blanks \in Seq(Ops)
      BY <2>1, <2>3
    <2> HIDE DEF blanks
    <2> QED
      BY <2>2, <2>4
  <1>3. rest \in Seq(Ops)
    BY <1>2
  <1>4. stacked \in Seq(Ops)
    BY StackedType
  <1>5. FrameText(rows) = back \o stacked \o rest
    BY DEF FrameText
  <1> HIDE DEF back, stacked, rest
  <1> QED
    BY <1>1, <1>3, <1>4, <1>5

\* The terminal stays on its rows.
LEMMA WriteType ==
  ASSUME TypeInv, NEW thread \in Threads, Write(thread)
  PROVE  TextType' /\ ScreenType' /\ cursor' \in 1..Len(screen') /\ UNCHANGED <<paused, pauses>>
  <1>t. /\ text[thread] \in Seq(Ops) /\ text[thread] # <<>> /\ text \in [Threads -> Seq(Ops)]
        /\ screen \in Seq(Rows \cup {Message}) /\ cursor \in 1..Len(screen)
    BY DEF TypeInv, TerminalType, TextType, ScreenType, Write
  <1> DEFINE head == Head(text[thread])
  <1>h. head \in Ops
    BY <1>t
  <1>1. TextType'
    <2>1. Tail(text[thread]) \in Seq(Ops)
      BY <1>t
    <2>2. text' = [text EXCEPT ![thread] = Tail(text[thread])]
      BY DEF Write
    <2> QED
      BY <1>t, <2>1, <2>2 DEF TextType
  <1>o. head.op \in {"up", "down", "draw"} /\ head.by \in Nat /\ head.row \in Rows
    BY <1>h DEF Ops
  <1>w. /\ head.op = "up" => /\ cursor' = (IF cursor > head.by THEN cursor - head.by ELSE 1)
                             /\ screen' = screen
        /\ head.op = "down" => /\ cursor' = cursor + 1
                               /\ screen' = IF cursor < Len(screen) THEN screen ELSE Append(screen, Blank)
        /\ head.op = "draw" => screen' = [screen EXCEPT ![cursor] = head.row] /\ cursor' = cursor
        /\ paused' = paused /\ pauses' = pauses
    BY <1>o DEF Write
  <1> HIDE DEF head
  <1>2. CASE head.op = "up"
    BY <1>1, <1>2, <1>o, <1>t, <1>w DEF ScreenType
  <1>3. CASE head.op = "down"
    <2>1. Blank \in Rows \cup {Message}
      BY DEF Blank, Row, Rows
    <2>2. Append(screen, Blank) \in Seq(Rows \cup {Message}) /\ Len(Append(screen, Blank)) = Len(screen) + 1
      BY <1>t, <2>1
    <2> QED
      BY <1>1, <1>3, <1>t, <1>w, <2>2 DEF ScreenType
  <1>4. CASE head.op = "draw"
    BY <1>1, <1>4, <1>o, <1>t, <1>w DEF ScreenType
  <1> QED
    BY <1>1, <1>2, <1>3, <1>4, <1>o, <1>w

\* A frame or a summary that was built.
LEMMA BuiltType ==
  ASSUME TypeInv, NEW kind \in {"frame", "summary"}, NEW height \in Heights
  PROVE  /\ FrameText(Lines(kind, frame + 1, height)) \in Seq(Ops)
         /\ Append(FrameText(Lines(kind, frame + 1, height)), Down) \in Seq(Ops)
  <1>1. height \in Nat \ {0} /\ frame + 1 \in Nat /\ drawn \in Nat
    BY ViewAssumption DEF TypeInv, FrameType
  <1> DEFINE rows == Lines(kind, frame + 1, height)
  <1>2. rows \in Seq(Rows) /\ Len(rows) >= 1
    BY <1>1, LinesType
  <1> HIDE DEF rows
  <1>3. FrameText(rows) \in Seq(Ops)
    BY <1>1, <1>2, FrameTextType
  <1>4. Append(FrameText(rows), Down) \in Seq(Ops)
    BY <1>3, OpsType
  <1> QED
    BY <1>3, <1>4 DEF rows

\* What a step leaves alone keeps its type.
LEMMA StillTyped ==
  /\ FlagType /\ UNCHANGED <<closed, stop, paused>> => FlagType'
  /\ TallyType /\ UNCHANGED done /\ (main' = "update" => main = "update") => TallyType'
  /\ PlaceType /\ UNCHANGED <<lockVars, main, ticker, why>> => PlaceType'
  /\ FrameType /\ UNCHANGED <<frame, drawn>> => FrameType'
  /\ TerminalType /\ UNCHANGED terminalVars => TerminalType'
  /\ TextType /\ UNCHANGED text => TextType'
  /\ ScreenType /\ UNCHANGED screen => ScreenType'
  /\ FrameBound /\ UNCHANGED <<frame, closed>> /\ (ticker' = "lock" => ticker = "lock") => FrameBound'
  <1>1. FlagType /\ UNCHANGED <<closed, stop, paused>> => FlagType'
    BY Zenon DEF FlagType
  <1>2. TallyType /\ UNCHANGED done /\ (main' = "update" => main = "update") => TallyType'
    BY DEF TallyType
  <1>3. PlaceType /\ UNCHANGED <<lockVars, main, ticker, why>> => PlaceType'
    BY DEF PlaceType, lockVars
  <1>4. TerminalType /\ UNCHANGED terminalVars => TerminalType'
    BY DEF TerminalType, terminalVars
  <1>5. FrameBound /\ UNCHANGED <<frame, closed>> /\ (ticker' = "lock" => ticker = "lock") => FrameBound'
    BY DEF FrameBound
  <1> QED
    BY <1>1, <1>2, <1>3, <1>4, <1>5 DEF FrameType, TextType, ScreenType

\* A step that builds nothing and writes nothing.
LEMMA QuietType ==
  ASSUME TypeInv, StateType', FrameBound', UNCHANGED <<frame, drawn, text, terminalVars>>
  PROVE  TypeInv'
  <1>1. screen' = screen
    BY DEF terminalVars
  <1> QED
    BY <1>1, StillTyped DEF TypeInv

\* A step that builds a text.
LEMMA BuildType ==
  ASSUME TypeInv, NEW kind \in {"frame", "summary"}, NEW height \in Heights, NEW thread \in Threads,
         NEW lines, lines = FrameText(Lines(kind, frame + 1, height)),
         text' = [text EXCEPT ![thread] = lines] \/ text' = [text EXCEPT ![thread] = Append(lines, Down)],
         frame' = frame + 1, drawn' = height, frame <= MaxFrames,
         StateType', FrameBound', UNCHANGED terminalVars
  PROVE  TypeInv'
  <1>1. lines \in Seq(Ops) /\ Append(lines, Down) \in Seq(Ops)
    BY BuiltType
  <1>2. TextType'
    BY <1>1 DEF TypeInv, TextType
  <1>3. frame \in 0..(MaxFrames + 1) /\ MaxFrames \in Nat
    BY ViewAssumption DEF TypeInv, FrameType
  <1>4. FrameType'
    BY <1>3 DEF FrameType
  <1>5. screen' = screen
    BY DEF terminalVars
  <1> QED
    BY <1>2, <1>4, <1>5, StillTyped DEF TypeInv

\* The record being tallied is one of those there are.
LEMMA TallyStep ==
  ASSUME TallyType,
         \/ done' = done /\ (main' = "update" => main = "update" \/ done < Records)
         \/ main = "update" /\ done' = done + 1 /\ main' = "consume"
  PROVE  TallyType'
  <1>1. Records \in Nat /\ done \in 0..Records /\ (main = "update" => done < Records)
    BY ViewAssumption DEF TallyType
  <1>2. CASE done' = done /\ (main' = "update" => main = "update" \/ done < Records)
    BY <1>1, <1>2 DEF TallyType
  <1>3. CASE main = "update" /\ done' = done + 1 /\ main' = "consume"
    BY <1>1, <1>3 DEF TallyType
  <1> QED
    BY <1>2, <1>3

\* Every step keeps the flags, the tally and where the threads are.
LEMMA NextState ==
  ASSUME StateType, Next
  PROVE  StateType'
  <1> USE DEF Next, MainStep, TickerStep, Tick, BuildFrame, TakeOutput, WriteFrame, FrameWritten, Receive,
              Update, CallClose, Join, BuildSummary, TakeOutputToClose, WriteSummary, SummaryWritten,
              PrintMessage, Pause, Resume, Ended, TickerFrame, MainFrame, vars, lockVars, terminalVars, Write
  <1>1. FlagType'
    BY Zenon DEF StateType, FlagType
  <1>2. TallyType'
    <2>1. \/ done' = done /\ (main' = "update" => main = "update" \/ done < Records)
          \/ main = "update" /\ done' = done + 1 /\ main' = "consume"
      OBVIOUS
    <2> QED
      BY <2>1, TallyStep DEF StateType
  <1>3. PlaceType'
    BY DEF StateType, PlaceType
  <1> QED
    BY <1>1, <1>2, <1>3 DEF StateType

LEMMA NextType ==
  ASSUME TypeInv, Next
  PROVE  TypeInv'
  <1>t. /\ StateType /\ FrameType /\ TerminalType /\ TextType /\ ScreenType /\ FrameBound
        /\ StateType' /\ "main" \in Threads /\ "ticker" \in Threads
    BY NextState DEF TypeInv, Threads
  <1>n. frame \in Nat /\ MaxFrames \in Nat /\ Records \in Nat
    BY <1>t, ViewAssumption DEF FrameType
  <1>1. CASE Tick
    <2>1. UNCHANGED <<frame, drawn, text, terminalVars, closed>> /\ (ticker' = "lock" => frame < MaxFrames)
      BY <1>1 DEF Tick, TickerFrame
    <2>2. FrameBound'
      BY <1>t, <2>1 DEF FrameBound
    <2> QED
      BY <1>t, <2>1, <2>2, QuietType
  <1>2. CASE BuildFrame
    <2>1. CASE closed
      <3>1. UNCHANGED <<frame, drawn, text, terminalVars, closed>> /\ ticker' = "gone"
        BY <1>2, <2>1 DEF BuildFrame, TickerFrame
      <3> QED
        BY <1>t, <3>1, StillTyped, QuietType
    <2>2. CASE ~closed
      <3>1. PICK height \in Heights :
              /\ frame' = frame + 1 /\ drawn' = height
              /\ text' = [text EXCEPT !["ticker"] = FrameText(Lines("frame", frame + 1, height))]
        BY <1>2, <2>2 DEF BuildFrame
      <3>2. /\ ticker = "lock" /\ ticker' = "output" /\ lock' = "ticker"
            /\ UNCHANGED <<output, terminalVars, done, closed, stop, main, why>>
        BY <1>2, <2>2 DEF BuildFrame, TickerFrame
      <3>3. frame < MaxFrames
        BY <1>t, <2>2, <3>2 DEF FrameBound
      <3>4. FrameBound'
        BY <1>n, <3>1, <3>2, <3>3 DEF FrameBound
      <3>5. frame <= MaxFrames /\ UNCHANGED terminalVars
        BY <1>n, <3>2, <3>3
      <3> QED
        BY <1>t, <3>1, <3>4, <3>5, BuildType
    <2> QED
      BY <1>t, <2>1, <2>2 DEF StateType, FlagType
  <1>3. CASE TakeOutput \/ FrameWritten
    <2>1. UNCHANGED <<frame, drawn, text, terminalVars, closed>> /\ ticker' # "lock"
      BY <1>3 DEF TakeOutput, FrameWritten, TickerFrame
    <2> QED
      BY <1>t, <2>1, StillTyped, QuietType
  <1>4. CASE WriteFrame \/ WriteSummary
    <2>1. /\ TextType' /\ ScreenType' /\ cursor' \in 1..Len(screen') /\ UNCHANGED <<paused, pauses>>
          /\ UNCHANGED <<frame, drawn, ticker, lockVars, done, closed, stop, main, why>>
      BY <1>4, <1>t, WriteType DEF WriteFrame, WriteSummary, TickerFrame, MainFrame
    <2>2. TerminalType'
      BY <1>t, <2>1 DEF TerminalType
    <2> QED
      BY <1>t, <2>1, <2>2, StillTyped DEF TypeInv
  <1>5. CASE Receive \/ Update \/ CallClose \/ Join \/ TakeOutputToClose \/ SummaryWritten
    <2>1. UNCHANGED <<frame, drawn, text, terminalVars, closed, ticker>>
      BY <1>5 DEF Receive, Update, CallClose, Join, TakeOutputToClose, SummaryWritten, MainFrame
    <2> QED
      BY <1>t, <2>1, StillTyped, QuietType
  <1>6. CASE BuildSummary
    <2>1. CASE closed
      <3>1. UNCHANGED <<frame, drawn, text, terminalVars, closed, ticker>>
        BY <1>6, <2>1 DEF BuildSummary, MainFrame
      <3> QED
        BY <1>t, <3>1, StillTyped, QuietType
    <2>2. CASE ~closed
      <3>1. PICK height \in Heights :
              /\ frame' = frame + 1 /\ drawn' = height
              /\ text' = [text EXCEPT !["main"] =
                            Append(FrameText(Lines("summary", frame + 1, height)), Down)]
        BY <1>6, <2>2 DEF BuildSummary
      <3>2. /\ closed' = TRUE /\ main' = "output" /\ lock' = "main"
            /\ UNCHANGED <<output, terminalVars, done, stop, why, ticker>>
        BY <1>6, <2>2 DEF BuildSummary, MainFrame
      <3>3. FrameBound' /\ frame <= MaxFrames /\ UNCHANGED terminalVars
        BY <1>t, <2>2, <3>2 DEF FrameBound
      <3> QED
        BY <1>t, <3>1, <3>3, BuildType
    <2> QED
      BY <1>t, <2>1, <2>2 DEF StateType, FlagType
  <1>7. CASE PrintMessage
    <2>1. /\ screen' = [screen EXCEPT ![cursor] = Message] /\ main' \in {"join", "end"}
          /\ UNCHANGED <<done, frame, drawn, closed, stop, lockVars, text, why, cursor, paused, pauses, ticker>>
      BY <1>7 DEF PrintMessage, MainFrame
    <2>2. ScreenType' /\ Len(screen') = Len(screen)
      BY <1>t, <2>1 DEF ScreenType, TerminalType
    <2>3. TerminalType'
      BY <1>t, <2>1, <2>2 DEF TerminalType
    <2> QED
      BY <1>t, <2>1, <2>2, <2>3, StillTyped DEF TypeInv
  <1>8. CASE Pause \/ Resume
    <2>1. /\ UNCHANGED <<done, frame, drawn, closed, stop, lockVars, main, ticker, text, why, screen, cursor>>
          /\ pauses' = pauses \/ (pauses < MaxPauses /\ pauses' = pauses + 1)
      BY <1>8 DEF Pause, Resume
    <2>2. MaxPauses \in Nat
      BY ViewAssumption
    <2>3. TerminalType'
      BY <1>t, <2>1, <2>2 DEF TerminalType
    <2> QED
      BY <1>t, <2>1, <2>3, StillTyped DEF TypeInv
  <1>9. CASE UNCHANGED vars
    BY <1>9, <1>t, StillTyped, QuietType DEF vars
  <1> QED
    BY <1>1, <1>2, <1>3, <1>4, <1>5, <1>6, <1>7, <1>8, <1>9 DEF Next, MainStep, TickerStep, Ended

LEMMA TypeInvariance == Spec => []TypeInv
  <1>1. Init => TypeInv
    <2> SUFFICES ASSUME Init PROVE TypeInv
      OBVIOUS
    <2>0. Records \in Nat /\ MaxFrames \in Nat /\ MaxPauses \in Nat
      BY ViewAssumption
    <2>1. StateType
      <3>1. /\ done = 0 /\ closed = FALSE /\ stop = FALSE /\ lock = "free" /\ output = "free"
            /\ main = "consume" /\ ticker = "wait" /\ why = "running" /\ paused = FALSE
        BY DEF Init
      <3>2. FlagType
        BY <3>1 DEF FlagType
      <3>3. TallyType /\ PlaceType
        BY <2>0, <3>1 DEF TallyType, PlaceType
      <3> QED
        BY <3>2, <3>3 DEF StateType
    <2>2. FrameType /\ FrameBound
      BY <2>0 DEF Init, FrameType, FrameBound
    <2>3. ScreenType /\ Len(screen) = 2
      BY DEF Init, ScreenType, Prompt, Blank, Row, Rows
    <2>4. TerminalType
      <3>1. cursor = 2 /\ pauses = 0
        BY DEF Init
      <3> QED
        BY <2>0, <2>3, <3>1 DEF TerminalType
    <2>5. TextType
      BY DEF Init, TextType
    <2> QED
      BY <2>1, <2>2, <2>3, <2>4, <2>5 DEF TypeInv
  <1>2. TypeInv /\ [Next]_vars => TypeInv'
    <2>1. TypeInv /\ Next => TypeInv'
      BY NextType
    <2>2. ASSUME TypeInv, UNCHANGED vars PROVE TypeInv'
      <3>1. StateType'
        BY <2>2, StillTyped DEF vars, terminalVars, TypeInv, StateType
      <3> QED
        BY <2>2, <3>1, StillTyped, QuietType DEF vars, TypeInv
    <2> QED
      BY <2>1, <2>2
  <1> QED
    BY <1>1, <1>2, PTL DEF Spec

\* Every variable of the view keeps its type: the cursor stays on the screen,
\* and no more frames are drawn than there are redraws, but for the summary.
THEOREM TypeCorrect == Spec => []TypeOK
  <1>1. TypeInv => TypeOK
    BY TypeParts DEF TypeInv
  <1> QED
    BY <1>1, TypeInvariance, PTL

----------------------------------------------------------------------------
(* Who may write.                                                          *)

\* A frame is carried from lock to lock, so the stream has one writer, and a text
\* left is one whose writer is still at it.
Handed ==
  /\ ticker = "output" => lock = "ticker"
  /\ ticker = "write" => output = "ticker"
  /\ main \in {"output", "write"} => lock = "main"
  /\ main = "write" => output = "main"
  /\ text["ticker"] # <<>> => ticker \in {"output", "write"}
  /\ text["main"] # <<>> => main \in {"output", "write"}

\* Once the view is closed no frame is begun, and once the summary has the
\* stream none is being written.
Quiet ==
  /\ main \in {"output", "write", "print"} => closed
  /\ closed => ticker # "output"
  /\ closed /\ main # "output" => ticker # "write"

\* A message comes after the summary, and nothing is written after it.
Last == Printed => closed /\ main \in {"join", "lock", "end"}

WriterInv == Handed /\ Quiet /\ Last

\* What the view draws is no message.
LEMMA WritePrints ==
  ASSUME TypeInv, ~Printed, NEW thread \in Threads, Write(thread)
  PROVE  ~Printed'
  <1>t. /\ text[thread] \in Seq(Ops) /\ text[thread] # <<>>
        /\ screen \in Seq(Rows \cup {Message}) /\ cursor \in 1..Len(screen)
    BY DEF TypeInv, TerminalType, TextType, ScreenType, Write
  <1> DEFINE head == Head(text[thread])
  <1>h. head \in Ops
    BY <1>t
  <1>o. head.op \in {"up", "down", "draw"} /\ head.row \in Rows
    BY <1>h DEF Ops
  <1>w. /\ head.op = "up" => screen' = screen
        /\ head.op = "down" => screen' = IF cursor < Len(screen) THEN screen ELSE Append(screen, Blank)
        /\ head.op = "draw" => screen' = [screen EXCEPT ![cursor] = head.row]
    BY <1>o DEF Write
  <1> HIDE DEF head
  <1>m. Message \notin Rows /\ Blank # Message
    BY DEF Message, Blank, Row, Rows
  <1>1. \A i \in DOMAIN screen' : screen'[i] \in Rows \cup {Blank} \/ (i \in DOMAIN screen /\ screen'[i] = screen[i])
    <2>1. CASE head.op = "up"
      BY <1>w, <2>1
    <2>2. CASE head.op = "down"
      BY <1>t, <1>w, <2>2
    <2>3. CASE head.op = "draw"
      BY <1>o, <1>t, <1>w, <2>3
    <2> QED
      BY <1>o, <2>1, <2>2, <2>3
  <1> QED
    BY <1>1, <1>m DEF Printed

\* Every step hands the locks over, and once the message is printed leaves the
\* screen as it is.
LEMMA NextWriter ==
  ASSUME TypeInv, WriterInv, Next
  PROVE  WriterInv' /\ (Printed => screen' = screen)
  <1>t. /\ Handed /\ Quiet /\ Last /\ text \in [Threads -> Seq(Ops)]
        /\ "main" \in Threads /\ "ticker" \in Threads
    BY DEF TypeInv, TextType, WriterInv, Threads
  <1>s. UNCHANGED screen => (Printed' <=> Printed)
    BY DEF Printed
  <1>1. CASE Tick \/ TakeOutput \/ FrameWritten
    <2>1. UNCHANGED <<screen, closed, main, text>>
      BY <1>1 DEF Tick, TakeOutput, FrameWritten, TickerFrame, terminalVars
    <2>2. Handed' /\ Quiet'
      BY <1>1, <1>t DEF Tick, TakeOutput, FrameWritten, TickerFrame, lockVars, Handed, Quiet
    <2> QED
      BY <1>s, <1>t, <2>1, <2>2 DEF WriterInv, Last
  <1>2. CASE BuildFrame
    <2>1. UNCHANGED <<screen, closed, main, output>> /\ ticker = "lock" /\ lock = "free"
          /\ \/ closed /\ ticker' = "gone" /\ text' = text /\ lock' = lock
             \/ ~closed /\ ticker' = "output" /\ lock' = "ticker" /\ text'["main"] = text["main"]
      <3>1. CASE closed
        BY <1>2, <3>1 DEF BuildFrame, TickerFrame, terminalVars
      <3>2. CASE ~closed
        BY <1>2, <1>t, <3>2 DEF BuildFrame, TickerFrame, terminalVars
      <3> QED
        BY <3>1, <3>2
    <2>2. Handed' /\ Quiet'
      BY <1>t, <2>1 DEF Handed, Quiet
    <2> QED
      BY <1>s, <1>t, <2>1, <2>2 DEF WriterInv, Last
  <1>3. CASE WriteFrame \/ WriteSummary
    <2>1. PICK thread \in Threads :
            /\ Write(thread) /\ (thread = "ticker" => ticker = "write") /\ (thread = "main" => main = "write")
            /\ UNCHANGED <<ticker, main, closed, lock, output>>
      BY <1>3, <1>t DEF WriteFrame, WriteSummary, TickerFrame, MainFrame, lockVars
    <2>2. ~Printed
      BY <1>t, <2>1 DEF Threads, Last, Quiet
    <2>3. ~Printed'
      BY <2>1, <2>2, WritePrints
    <2>4. /\ text[thread] # <<>> /\ \A t \in Threads : t # thread => text'[t] = text[t]
      BY <1>t, <2>1 DEF Write
    <2>5. Handed' /\ Quiet'
      BY <1>t, <2>1, <2>4 DEF Handed, Quiet, Threads
    <2> QED
      BY <2>2, <2>3, <2>5 DEF WriterInv, Last
  <1>4. CASE Receive \/ Update \/ CallClose \/ Join \/ TakeOutputToClose
    <2>1. UNCHANGED <<screen, closed, ticker, text, lock>>
      BY <1>4 DEF Receive, Update, CallClose, Join, TakeOutputToClose, MainFrame, terminalVars, lockVars
    <2>2. /\ main' \in {"update", "consume", "join", "lock", "write"}
          /\ main' = "write" => main = "output" /\ output = "free" /\ output' = "main"
          /\ main' # "write" => main \notin {"output", "write"} /\ output' = output
          /\ main' \in {"update", "consume"} => main \in {"update", "consume"}
          /\ main \in {"consume", "update", "join", "output"}
          /\ main = "join" => main' = "lock"
      BY <1>4 DEF Receive, Update, CallClose, Join, TakeOutputToClose, lockVars
    <2>3. Handed' /\ Quiet'
      BY <1>t, <2>1, <2>2 DEF Handed, Quiet
    <2>4. Last'
      BY <1>s, <1>t, <2>1, <2>2 DEF Last
    <2> QED
      BY <2>1, <2>3, <2>4 DEF WriterInv
  <1>5. CASE BuildSummary
    <2>1. UNCHANGED <<screen, ticker, output>> /\ main = "lock" /\ lock = "free"
          /\ \/ closed /\ closed' = closed /\ main' = "end" /\ text' = text /\ lock' = lock
             \/ ~closed /\ closed' /\ main' = "output" /\ lock' = "main" /\ text'["ticker"] = text["ticker"]
      <3>1. CASE closed
        BY <1>5, <3>1 DEF BuildSummary, MainFrame, terminalVars
      <3>2. CASE ~closed
        BY <1>5, <1>t, <3>2 DEF BuildSummary, MainFrame, terminalVars
      <3> QED
        BY <3>1, <3>2
    <2>2. Handed' /\ Quiet'
      BY <1>t, <2>1 DEF Handed, Quiet
    <2>3. Last'
      BY <1>s, <1>t, <2>1 DEF Last
    <2> QED
      BY <2>1, <2>2, <2>3 DEF WriterInv
  <1>6. CASE SummaryWritten
    <2>1. /\ UNCHANGED <<screen, ticker, closed, text>> /\ main = "write" /\ main' \in {"end", "print"}
          /\ text["main"] = <<>> /\ lock' = "free" /\ output' = "free"
      BY <1>6 DEF SummaryWritten, MainFrame, terminalVars
    <2>2. Handed' /\ Quiet'
      BY <1>t, <2>1 DEF Handed, Quiet
    <2>3. Last'
      BY <1>s, <1>t, <2>1 DEF Last
    <2> QED
      BY <2>1, <2>2, <2>3 DEF WriterInv
  <1>7. CASE PrintMessage
    <2>1. UNCHANGED <<ticker, closed, text, lock, output>> /\ main = "print" /\ main' \in {"join", "end"}
      BY <1>7 DEF PrintMessage, MainFrame, lockVars
    <2>2. ~Printed /\ Handed' /\ Quiet' /\ Last'
      BY <1>t, <2>1 DEF Handed, Quiet, Last
    <2> QED
      BY <2>2 DEF WriterInv
  <1>8. CASE Pause \/ Resume \/ UNCHANGED vars
    <2>1. UNCHANGED <<screen, ticker, main, closed, text, lock, output>>
      BY <1>8 DEF Pause, Resume, vars, lockVars, terminalVars
    <2> QED
      BY <1>s, <1>t, <2>1 DEF WriterInv, Handed, Quiet, Last
  <1> QED
    BY <1>1, <1>2, <1>3, <1>4, <1>5, <1>6, <1>7, <1>8 DEF Next, MainStep, TickerStep, Ended

LEMMA InitWriter == Init => WriterInv
  <1> SUFFICES ASSUME Init PROVE WriterInv
    OBVIOUS
  <1>1. Handed /\ Quiet
    BY DEF Init, Handed, Quiet, Threads
  <1>2. ~Printed
    <2>1. screen = <<Prompt, Blank>> /\ Prompt # Message /\ Blank # Message
      BY DEF Init, Prompt, Blank, Message, Row
    <2> QED
      BY <2>1 DEF Printed
  <1> QED
    BY <1>1, <1>2 DEF WriterInv, Last

LEMMA StillWriter == WriterInv /\ UNCHANGED vars => WriterInv'
  <1> SUFFICES ASSUME WriterInv, UNCHANGED vars PROVE WriterInv'
    OBVIOUS
  <1>1. UNCHANGED <<screen, ticker, main, closed, text, lock, output>>
    BY DEF vars, lockVars, terminalVars
  <1> QED
    BY <1>1 DEF WriterInv, Handed, Quiet, Last, Printed

\* Once the summary is out nothing is drawn any more, however the threads raced
\* and however often the view is closed: a message stands (progress.py:147-149).
THEOREM MessagesStand == Spec => MessageStands
  <1>1. TypeInv /\ WriterInv /\ [Next]_vars => WriterInv' /\ [Printed => UNCHANGED screen]_vars
    BY NextWriter, StillWriter
  <1> QED
    BY <1>1, InitWriter, TypeInvariance, PTL DEF Spec, MessageStands

----------------------------------------------------------------------------
(* What the terminal shows, half way through a frame and after it.  A text *)
(* goes back to the first row of the d rows that are there, lays its own   *)
(* rows and then blank ones over them, and goes back to its last row.      *)

\* How far down the text goes, and what each row it lays ends as.
Reach(rows, d) == IF Len(rows) > d THEN Len(rows) ELSE d
Laid(rows, i) == IF i <= Len(rows) THEN rows[i] ELSE Blank

\* Of how many steps the way back is, that and the rows, and the whole text.
Back(d) == IF d > 1 THEN 1 ELSE 0
Rowed(rows, d) == Back(d) + 2 * Reach(rows, d) - 1
Total(rows, d) == Rowed(rows, d) + (IF d > Len(rows) THEN 1 ELSE 0)

\* The step at a place of the text; a summary's last one follows the frame's.
StepAt(rows, d, j) ==
  IF j <= Back(d) THEN Up(d - 1)
  ELSE IF j <= Rowed(rows, d)
    THEN IF (j - Back(d)) % 2 = 1 THEN Draw(Laid(rows, (j - Back(d) + 1) \div 2)) ELSE Down
  ELSE IF j <= Total(rows, d) THEN Up(d - Len(rows)) ELSE Down

\* Some thread has k steps of its text behind it, and this is what is left.
LeftOf(steps, rows, d, end, k) ==
  /\ Len(steps) = Total(rows, d) + end - k
  /\ \A j \in 1..Len(steps) : steps[j] = StepAt(rows, d, k + j)

\* Where the cursor is, and the terminal as a whole, after k steps of that text.
CursorAt(rows, d, k) ==
  IF k < Back(d) THEN d + 1
  ELSE IF k <= Rowed(rows, d) THEN 2 + (k - Back(d)) \div 2
  ELSE IF k <= Total(rows, d) THEN Len(rows) + 1 ELSE Len(rows) + 2

Painted(shown, place, rows, d, k) ==
  /\ shown[1] = Prompt
  /\ \A i \in DOMAIN shown : i > Reach(rows, d) + 1 => shown[i] = Blank
  /\ \A i \in 1..Reach(rows, d) : 2 * i - 1 <= k - Back(d) =>
       i + 1 \in DOMAIN shown /\ shown[i + 1] = Laid(rows, i)
  /\ place = CursorAt(rows, d, k)

\* A thread is so far into the text of these rows, and the terminal is there too.
Drawing(steps, shown, place, rows, d, end) ==
  \E k \in 0..(Total(rows, d) + end) :
    LeftOf(steps, rows, d, end, k) /\ Painted(shown, place, rows, d, k)

\* The terminal shows these rows under what was there before, and below them
\* nothing but what may be.
Shows(shown, rows, below) ==
  /\ shown[1] = Prompt
  /\ \A i \in 1..Len(rows) : i + 1 \in DOMAIN shown /\ shown[i + 1] = rows[i]
  /\ \A i \in DOMAIN shown : i > Len(rows) + 1 => shown[i] \in below

\* Where the view is: nothing drawn yet; redrawing; a summary waiting for the
\* frame before it, which it will go back over; drawing that; and done.
Fresh == /\ ~closed /\ drawn = 0 /\ ~Unwritten
         /\ screen = <<Prompt, Blank>> /\ cursor = 2

Redrawing ==
  /\ ~closed /\ drawn > 0 /\ text["main"] = <<>>
  /\ \E d \in Heights \cup {0} : Drawing(text["ticker"], screen, cursor, Lines("frame", frame, drawn), d, 0)

Waiting ==
  /\ closed /\ drawn > 0 /\ text["ticker"] # <<>> /\ text["main"] # <<>>
  /\ \E number \in 0..frame, n \in Heights, d \in Heights \cup {0} :
       /\ Drawing(text["ticker"], screen, cursor, Lines("frame", number, n), d, 0)
       /\ LeftOf(text["main"], Lines("summary", frame, drawn), n, 1, 0)

Closing ==
  /\ closed /\ drawn > 0 /\ text["ticker"] = <<>> /\ text["main"] # <<>>
  /\ \E d \in Heights \cup {0} : Drawing(text["main"], screen, cursor, Lines("summary", frame, drawn), d, 1)

Over ==
  /\ closed /\ drawn > 0 /\ ~Unwritten
  /\ Shows(screen, Lines("summary", frame, drawn), {Blank, Message}) /\ cursor = drawn + 2

FrameInv == Fresh \/ Redrawing \/ Waiting \/ Closing \/ Over

LEMMA Sizes ==
  ASSUME NEW rows \in Seq(Rows), Len(rows) >= 1, NEW d \in Nat
  PROVE  /\ Len(rows) \in Nat /\ Reach(rows, d) \in Nat /\ Reach(rows, d) >= Len(rows) /\ Reach(rows, d) >= d
         /\ Back(d) = (IF d > 1 THEN 1 ELSE 0)
         /\ Rowed(rows, d) = Back(d) + 2 * Reach(rows, d) - 1
         /\ d > Len(rows) => Reach(rows, d) = d /\ Total(rows, d) = Rowed(rows, d) + 1
         /\ d <= Len(rows) => Reach(rows, d) = Len(rows) /\ Total(rows, d) = Rowed(rows, d)
  <1>1. Len(rows) \in Nat
    OBVIOUS
  <1>2. Reach(rows, d) \in Nat /\ Reach(rows, d) >= Len(rows) /\ Reach(rows, d) >= d
    BY <1>1 DEF Reach
  <1>3. Back(d) = (IF d > 1 THEN 1 ELSE 0) /\ Rowed(rows, d) = Back(d) + 2 * Reach(rows, d) - 1
    BY DEF Back, Rowed
  <1>4. Rowed(rows, d) \in Int
    BY <1>2, <1>3
  <1>5. d > Len(rows) => Reach(rows, d) = d /\ Total(rows, d) = Rowed(rows, d) + 1
    BY <1>1, <1>4 DEF Reach, Total
  <1>6. d <= Len(rows) => Reach(rows, d) = Len(rows) /\ Total(rows, d) = Rowed(rows, d)
    BY <1>1, <1>4 DEF Reach, Total
  <1> QED
    BY <1>1, <1>2, <1>3, <1>5, <1>6

\* One text after another.
LEMMA Joined ==
  ASSUME NEW s \in Seq(Ops), NEW t \in Seq(Ops)
  PROVE  /\ s \o t \in Seq(Ops) /\ Len(s \o t) = Len(s) + Len(t) /\ Len(s) \in Nat /\ Len(t) \in Nat
         /\ \A i \in 1..(Len(s) + Len(t)) : (s \o t)[i] = IF i <= Len(s) THEN s[i] ELSE t[i - Len(s)]
  OBVIOUS

\* What _frame_text builds is that text.
LEMMA FrameTextSteps ==
  ASSUME drawn \in Nat, NEW rows \in Seq(Rows), Len(rows) >= 1
  PROVE  /\ LeftOf(FrameText(rows), rows, drawn, 0, 0)
         /\ LeftOf(Append(FrameText(rows), Down), rows, drawn, 1, 0)
  <1> DEFINE n == Len(rows)
             stale == drawn - n
             back == IF drawn > 1 THEN <<Up(drawn - 1)>> ELSE <<>>
             blanks == [i \in 1..(2 * stale) |-> IF i % 2 = 1 THEN Down ELSE Draw(Blank)]
             rest == IF stale > 0 THEN blanks \o <<Up(stale)>> ELSE <<>>
             stacked == Stacked(rows)
             whole == FrameText(rows)
             total == Total(rows, drawn)
  <1>s. /\ n \in Nat /\ n >= 1 /\ stale \in Int /\ (stale > 0 <=> drawn > n)
        /\ Reach(rows, drawn) \in Nat /\ Reach(rows, drawn) >= n /\ Reach(rows, drawn) >= drawn
        /\ Back(drawn) = (IF drawn > 1 THEN 1 ELSE 0)
        /\ Rowed(rows, drawn) = Back(drawn) + 2 * Reach(rows, drawn) - 1
        /\ drawn > n => Reach(rows, drawn) = drawn /\ total = Rowed(rows, drawn) + 1
        /\ drawn <= n => Reach(rows, drawn) = n /\ total = Rowed(rows, drawn)
    <2>1. n \in Nat /\ n >= 1
      OBVIOUS
    <2>2. stale \in Int /\ (stale > 0 <=> drawn > n)
      BY <2>1
    <2> QED
      BY <2>1, <2>2, Sizes
  <1>0. whole = back \o stacked \o rest
    BY DEF FrameText
  <1>1. /\ back \in Seq(Ops) /\ Len(back) = Back(drawn)
        /\ drawn > 1 => back[1] = Up(drawn - 1)
    <2>1. drawn > 1 => Up(drawn - 1) \in Ops
      BY OpsType
    <2> QED
      BY <1>s, <2>1
  <1>2. /\ stacked \in Seq(Ops) /\ Len(stacked) = 2 * n - 1
        /\ \A i \in 1..(2 * n - 1) : stacked[i] = IF i % 2 = 1 THEN Draw(rows[(i + 1) \div 2]) ELSE Down
    <2>1. stacked = [i \in 1..(2 * n - 1) |-> IF i % 2 = 1 THEN Draw(rows[(i + 1) \div 2]) ELSE Down]
      BY DEF Stacked
    <2>2. 2 * n - 1 \in Nat
      BY <1>s
    <2> HIDE DEF n
    <2>3. stacked \in Seq(Ops)
      BY StackedType DEF n
    <2> HIDE DEF stacked
    <2> QED
      BY <2>1, <2>2, <2>3
  <1>3. ASSUME stale > 0
        PROVE  /\ rest \in Seq(Ops) /\ Len(rest) = 2 * stale + 1 /\ rest[2 * stale + 1] = Up(stale)
               /\ \A i \in 1..(2 * stale) : rest[i] = IF i % 2 = 1 THEN Down ELSE Draw(Blank)
    <2>1. stale \in Nat /\ 2 * stale \in Nat
      <3> HIDE DEF stale
      <3> QED
        BY <1>3, <1>s
    <2>6. rest = blanks \o <<Up(stale)>>
      BY <1>3
    <2>2. Up(stale) \in Ops
      BY <2>1, OpsType
    <2>3. \A i \in 1..(2 * stale) : (IF i % 2 = 1 THEN Down ELSE Draw(Blank)) \in Ops
      BY OpsType
    <2> HIDE DEF stale, rest
    <2>4. blanks \in Seq(Ops) /\ Len(blanks) = 2 * stale
      BY <2>1, <2>3
    <2>5. \A i \in 1..(2 * stale) : blanks[i] = IF i % 2 = 1 THEN Down ELSE Draw(Blank)
      OBVIOUS
    <2> HIDE DEF blanks
    <2> QED
      BY <2>1, <2>2, <2>4, <2>5, <2>6
  <1>4. stale <= 0 => rest = <<>>
    BY <1>s
  <1>5. Len(rest) = (IF stale > 0 THEN 2 * stale + 1 ELSE 0) /\ rest \in Seq(Ops)
    BY <1>3, <1>4, <1>s
  <1>u. stale = drawn - n
    OBVIOUS
  <1> HIDE DEF n, stale, back, rest, stacked, whole, total
  <1>6. whole \in Seq(Ops) /\ Len(whole) = Len(back) + Len(stacked) + Len(rest) /\ Len(whole) = total
    <2> DEFINE half == back \o stacked
    <2>1. half \in Seq(Ops) /\ Len(half) = Len(back) + Len(stacked)
      BY <1>1, <1>2, Joined
    <2>2. whole = half \o rest
      BY <1>0
    <2> HIDE DEF half
    <2>3. whole \in Seq(Ops) /\ Len(whole) = Len(half) + Len(rest)
      BY <1>5, <2>1, <2>2, Joined
    <2>4. Len(back) + Len(stacked) + Len(rest) = total
      <3>1. Len(back) = Back(drawn) /\ Len(stacked) = 2 * n - 1
        BY <1>1, <1>2
      <3>2. CASE stale > 0
        BY <1>5, <1>s, <1>u, <3>1, <3>2
      <3>3. CASE ~(stale > 0)
        BY <1>5, <1>s, <1>u, <3>1, <3>3
      <3> QED
        BY <3>2, <3>3
    <2> QED
      BY <2>1, <2>3, <2>4
  <1>7. ASSUME NEW j \in 1..Len(whole)
        PROVE  whole[j] = IF j <= Len(back) THEN back[j]
                          ELSE IF j <= Len(back) + Len(stacked) THEN stacked[j - Len(back)]
                          ELSE rest[j - Len(back) - Len(stacked)]
    <2> DEFINE half == back \o stacked
    <2>1. /\ half \in Seq(Ops) /\ Len(half) = Len(back) + Len(stacked)
          /\ Len(back) \in Nat /\ Len(stacked) \in Nat
          /\ \A i \in 1..Len(half) : half[i] = IF i <= Len(back) THEN back[i] ELSE stacked[i - Len(back)]
      <3>1. back \in Seq(Ops) /\ stacked \in Seq(Ops)
        BY <1>1, <1>2
      <3>2. /\ half \in Seq(Ops) /\ Len(half) = Len(back) + Len(stacked)
            /\ Len(back) \in Nat /\ Len(stacked) \in Nat
            /\ \A i \in 1..(Len(back) + Len(stacked)) :
                 half[i] = IF i <= Len(back) THEN back[i] ELSE stacked[i - Len(back)]
        BY <3>1, Joined, Zenon
      <3> QED
        BY <3>2
    <2>2. whole = half \o rest
      BY <1>0
    <2> HIDE DEF half
    <2>3. whole[j] = IF j <= Len(half) THEN half[j] ELSE rest[j - Len(half)]
      BY <1>5, <2>1, <2>2
    <2>4. j <= Len(half) => j \in 1..Len(half)
      BY <2>1
    <2>5. j - Len(half) = j - Len(back) - Len(stacked) /\ (j <= Len(back) => j <= Len(half))
      BY <2>1
    <2> QED
      BY <2>1, <2>3, <2>4, <2>5
  <1>8. ASSUME NEW j \in 1..Len(whole)
        PROVE  whole[j] = StepAt(rows, drawn, j)
    <2> DEFINE q == j - Back(drawn)
    <2>1. CASE j <= Back(drawn)
      BY <1>1, <1>7, <1>s, <2>1 DEF StepAt
    <2>2. CASE j > Back(drawn) /\ q <= 2 * n - 1
      <3>1. whole[j] = IF q % 2 = 1 THEN Draw(rows[(q + 1) \div 2]) ELSE Down
        <4>1. q \in 1..(2 * n - 1) /\ whole[j] = stacked[q]
          BY <1>1, <1>2, <1>7, <1>s, <2>2
        <4> QED
          BY <1>2, <4>1
      <3>2. q % 2 = 1 => (q + 1) \div 2 <= n
        BY <1>s, <2>2
      <3>3. j <= Rowed(rows, drawn) /\ ~(j <= Back(drawn))
        BY <1>s, <2>2
      <3> QED
        BY <3>1, <3>2, <3>3 DEF StepAt, Laid, n
    <2>3. CASE q > 2 * n - 1 /\ stale > 0 /\ q <= 2 * drawn - 1
      <3>q. q \in Int
        BY <1>s
      <3> DEFINE i == q - (2 * n - 1)
      <3>1. i \in 1..(2 * stale) /\ whole[j] = rest[i]
        BY <1>1, <1>2, <1>7, <1>s, <1>u, <2>3
      <3>2. whole[j] = IF i % 2 = 1 THEN Down ELSE Draw(Blank)
        BY <1>3, <2>3, <3>1
      <3>3. (i % 2 = 1 <=> q % 2 # 1) /\ (q % 2 = 1 => (q + 1) \div 2 > n)
        BY <1>s, <2>3
      <3>4. j <= Rowed(rows, drawn) /\ ~(j <= Back(drawn))
        BY <1>s, <2>3
      <3>5. q % 2 = 1 => Laid(rows, (q + 1) \div 2) = Blank
        BY <1>s, <3>3, <3>q DEF Laid, n
      <3>6. StepAt(rows, drawn, j) = IF q % 2 = 1 THEN Draw(Laid(rows, (q + 1) \div 2)) ELSE Down
        BY <3>4 DEF StepAt
      <3> HIDE DEF i, q
      <3> QED
        BY <3>2, <3>3, <3>5, <3>6
    <2>4. CASE q > 2 * n - 1 /\ stale > 0 /\ q > 2 * drawn - 1
      <3>1. /\ j - Len(back) - Len(stacked) = 2 * stale + 1
            /\ ~(j <= Len(back)) /\ ~(j <= Len(back) + Len(stacked))
        <4>1. j \in Nat /\ j <= total /\ Len(back) = Back(drawn) /\ Len(stacked) = 2 * n - 1
          BY <1>1, <1>2, <1>6
        <4>2. drawn > n /\ total = Back(drawn) + 2 * drawn
          BY <1>s, <2>4
        <4> QED
          BY <1>s, <1>u, <2>4, <4>1, <4>2
      <3>2. whole[j] = Up(stale)
        BY <1>3, <1>7, <2>4, <3>1
      <3>3. ~(j <= Back(drawn)) /\ ~(j <= Rowed(rows, drawn)) /\ j <= Total(rows, drawn)
        BY <1>6, <1>s, <2>4 DEF total
      <3> QED
        BY <3>2, <3>3 DEF StepAt, n, stale
    <2>5. q > 2 * n - 1 => stale > 0
      BY <1>6, <1>s, <1>u
    <2> QED
      BY <1>s, <2>1, <2>2, <2>3, <2>4, <2>5
  <1>9. LeftOf(whole, rows, drawn, 0, 0)
    <2>1. total \in Nat
      BY <1>s
    <2> QED
      BY <1>6, <1>8, <2>1 DEF LeftOf, total
  <1>10. LeftOf(Append(whole, Down), rows, drawn, 1, 0)
    <2> DEFINE longer == Append(whole, Down)
    <2>0. total \in Nat /\ total >= Rowed(rows, drawn) /\ total >= Back(drawn)
      BY <1>s
    <2>1. /\ Len(longer) = total + 1 /\ longer[total + 1] = Down
          /\ \A j \in 1..total : longer[j] = whole[j]
      BY <1>6, <2>0, OpsType
    <2> HIDE DEF longer
    <2>2. StepAt(rows, drawn, total + 1) = Down
      BY <1>s, <2>0 DEF StepAt, total
    <2>3. \A j \in 1..Len(longer) : longer[j] = StepAt(rows, drawn, j)
      BY <1>6, <1>8, <2>0, <2>1, <2>2
    <2> QED
      BY <2>0, <2>1, <2>3 DEF LeftOf, total, longer
  <1> QED
    BY <1>9, <1>10 DEF whole

\* The terminal does the next step of a text, and shows what it should.
LEMMA DrawStep ==
  ASSUME TypeInv, NEW thread \in Threads, Write(thread), NEW rows \in Seq(Rows), Len(rows) >= 1,
         NEW d \in Nat, NEW end \in {0, 1}, NEW k \in 0..(Total(rows, d) + end),
         LeftOf(text[thread], rows, d, end, k), Painted(screen, cursor, rows, d, k)
  PROVE  /\ k + 1 \in 0..(Total(rows, d) + end)
         /\ LeftOf(text'[thread], rows, d, end, k + 1)
         /\ Painted(screen', cursor', rows, d, k + 1)
  <1> DEFINE steps == text[thread]
             n == Len(rows)
             m == Reach(rows, d)
             b == Back(d)
             total == Total(rows, d)
             q == k - b
             head == StepAt(rows, d, k + 1)
  <1>t. /\ steps \in Seq(Ops) /\ steps # <<>> /\ text \in [Threads -> Seq(Ops)]
        /\ screen \in Seq(Rows \cup {Message}) /\ cursor \in 1..Len(screen)
    BY DEF TypeInv, TerminalType, TextType, ScreenType, Write
  <1>s. /\ n \in Nat /\ n >= 1 /\ m \in Nat /\ m >= n /\ m >= d /\ b = (IF d > 1 THEN 1 ELSE 0)
        /\ Rowed(rows, d) = b + 2 * m - 1
        /\ d > n => m = d /\ total = b + 2 * m
        /\ d <= n => m = n /\ total = b + 2 * m - 1
    <2>1. n \in Nat /\ n >= 1 /\ m \in Nat
      BY Sizes
    <2>2. /\ m >= n /\ m >= d /\ b = (IF d > 1 THEN 1 ELSE 0) /\ Rowed(rows, d) = b + 2 * m - 1
          /\ d > n => m = d /\ total = Rowed(rows, d) + 1
          /\ d <= n => m = n /\ total = Rowed(rows, d)
      BY Sizes
    <2> HIDE DEF n, m, b, total
    <2> QED
      BY <2>1, <2>2
  <1>k. k \in Nat /\ total \in Nat /\ b \in Nat /\ k + 1 \in Nat /\ q = k - b /\ q \in Int
    <2>1. b \in Nat
      BY <1>s
    <2>2. total \in Nat
      <3> HIDE DEF n, m, b, total
      <3> QED
        BY <1>s
    <2> HIDE DEF b
    <2> QED
      BY <2>1, <2>2
  <1> HIDE DEF q, total
  <1>1. /\ Len(steps) = total + end - k /\ Len(steps) \in Nat /\ Len(steps) >= 1
        /\ \A j \in 1..Len(steps) : steps[j] = StepAt(rows, d, k + j)
    BY <1>t DEF LeftOf, total
  <1>2. k + 1 \in 0..(total + end) /\ k + 1 <= total + end
    BY <1>1, <1>k
  <1>3. Head(steps) = head
    BY <1>1, <1>t
  <1>4. text'[thread] = Tail(steps)
    BY <1>t DEF Write
  <1>5. LeftOf(text'[thread], rows, d, end, k + 1)
    <2>1. Len(Tail(steps)) = total + end - (k + 1)
      BY <1>1, <1>k, <1>t
    <2>2. \A j \in 1..Len(Tail(steps)) : Tail(steps)[j] = steps[j + 1] /\ j + 1 \in 1..Len(steps)
      BY <1>1, <1>t
    <2>3. \A j \in 1..Len(Tail(steps)) : k + (j + 1) = (k + 1) + j
      BY <1>k
    <2>4. \A j \in 1..Len(Tail(steps)) : Tail(steps)[j] = StepAt(rows, d, (k + 1) + j)
      BY <1>1, <2>2, <2>3
    <2> QED
      BY <1>4, <2>1, <2>4 DEF LeftOf, total
  <1>w. /\ head.op = "up" => cursor' = (IF cursor > head.by THEN cursor - head.by ELSE 1) /\ screen' = screen
        /\ head.op = "down" => /\ cursor' = cursor + 1
                               /\ screen' = IF cursor < Len(screen) THEN screen ELSE Append(screen, Blank)
        /\ head.op = "draw" => screen' = [screen EXCEPT ![cursor] = head.row] /\ cursor' = cursor
    <2>1. Write(thread)
      OBVIOUS
    <2> HIDE DEF head
    <2> QED
      BY <1>3, <2>1 DEF Write
  <1>p. /\ screen[1] = Prompt
        /\ \A i \in DOMAIN screen : i > m + 1 => screen[i] = Blank
        /\ \A i \in 1..m : 2 * i - 1 <= q => i + 1 \in DOMAIN screen /\ screen[i + 1] = Laid(rows, i)
        /\ cursor = CursorAt(rows, d, k)
    BY DEF Painted, q
  <1>g. ASSUME /\ screen'[1] = Prompt
               /\ \A i \in DOMAIN screen' : i > m + 1 => screen'[i] = Blank
               /\ \A i \in 1..m : 2 * i - 1 <= q + 1 =>
                    i + 1 \in DOMAIN screen' /\ screen'[i + 1] = Laid(rows, i)
               /\ cursor' = CursorAt(rows, d, k + 1)
        PROVE  Painted(screen', cursor', rows, d, k + 1)
    <2>1. (k + 1) - Back(d) = q + 1
      BY <1>k
    <2> QED
      BY <1>g, <2>1 DEF Painted
  <1>c. /\ k < b => CursorAt(rows, d, k) = d + 1
        /\ k >= b /\ k <= b + 2 * m - 1 => CursorAt(rows, d, k) = 2 + q \div 2
        /\ k >= b /\ k > b + 2 * m - 1 /\ k <= total => CursorAt(rows, d, k) = n + 1
        /\ k + 1 >= b /\ k + 1 <= b + 2 * m - 1 => CursorAt(rows, d, k + 1) = 2 + (q + 1) \div 2
        /\ k + 1 >= b /\ k + 1 > b + 2 * m - 1 /\ k + 1 <= total => CursorAt(rows, d, k + 1) = n + 1
        /\ k + 1 >= b /\ k + 1 > b + 2 * m - 1 /\ k + 1 > total => CursorAt(rows, d, k + 1) = n + 2
    <2>1. ASSUME NEW j \in Nat
          PROVE  /\ j < b => CursorAt(rows, d, j) = d + 1
                 /\ j >= b /\ j <= b + 2 * m - 1 => CursorAt(rows, d, j) = 2 + (j - b) \div 2
                 /\ j >= b /\ j > b + 2 * m - 1 /\ j <= total => CursorAt(rows, d, j) = n + 1
                 /\ j >= b /\ j > b + 2 * m - 1 /\ j > total => CursorAt(rows, d, j) = n + 2
      <3>1. CursorAt(rows, d, j) = IF j < b THEN d + 1 ELSE IF j <= Rowed(rows, d) THEN 2 + (j - b) \div 2
                                   ELSE IF j <= total THEN n + 1 ELSE n + 2
        BY DEF CursorAt, total
      <3> HIDE DEF b, n, m
      <3> QED
        BY <1>k, <1>s, <3>1
    <2>2. k - b = q /\ (k + 1) - b = q + 1
      BY <1>k
    <2> HIDE DEF b, n, m
    <2> QED
      BY <1>k, <2>1, <2>2
  <1>h. /\ k < b => head = Up(d - 1)
        /\ k >= b /\ k + 1 <= b + 2 * m - 1 =>
             head = IF (q + 1) % 2 = 1 THEN Draw(Laid(rows, (q + 2) \div 2)) ELSE Down
        /\ k >= b /\ k + 1 > b + 2 * m - 1 /\ k + 1 <= total => head = Up(d - n)
        /\ k >= b /\ k + 1 > b + 2 * m - 1 /\ k + 1 > total => head = Down
    <2>1. (k + 1) - b = q + 1 /\ (k + 1) - b + 1 = q + 2 /\ (k < b <=> k + 1 <= b)
      BY <1>k
    <2>2. /\ k < b => head = Up(d - 1)
          /\ ~(k < b) =>
               head = IF k + 1 <= Rowed(rows, d)
                        THEN IF ((k + 1) - b) % 2 = 1 THEN Draw(Laid(rows, ((k + 1) - b + 1) \div 2)) ELSE Down
                      ELSE IF k + 1 <= total THEN Up(d - n) ELSE Down
      <3>1. head = IF k + 1 <= b THEN Up(d - 1)
                   ELSE IF k + 1 <= Rowed(rows, d)
                     THEN IF ((k + 1) - b) % 2 = 1 THEN Draw(Laid(rows, ((k + 1) - b + 1) \div 2)) ELSE Down
                   ELSE IF k + 1 <= total THEN Up(d - n) ELSE Down
        BY Zenon DEF StepAt, total
      <3> HIDE DEF b, n, head
      <3> QED
        BY <2>1, <3>1
    <2> HIDE DEF b, n, m, head
    <2>3. k >= b => ~(k < b)
      BY <1>k
    <2>4. ~(k + 1 <= b + 2 * m - 1) <=> k + 1 > b + 2 * m - 1
      BY <1>k, <1>s
    <2>5. k + 1 > total <=> ~(k + 1 <= total)
      BY <1>k
    <2> QED
      BY <1>s, <2>1, <2>2, <2>3, <2>4, <2>5
  <1>o. /\ \A u \in Nat : Up(u).op = "up" /\ Up(u).by = u
        /\ Down.op = "down" /\ \A row : Draw(row).op = "draw" /\ Draw(row).row = row
    BY DEF Up, Down, Draw
  <1>b. /\ cursor >= Len(screen) => /\ Append(screen, Blank) \in Seq(Rows \cup {Message})
                                    /\ Len(Append(screen, Blank)) = Len(screen) + 1
                                    /\ Append(screen, Blank)[Len(screen) + 1] = Blank
                                    /\ \A i \in 1..Len(screen) : Append(screen, Blank)[i] = screen[i]
    <2>1. Blank \in Rows \cup {Message}
      BY DEF Blank, Row, Rows
    <2> QED
      BY <1>t, <2>1
  <1> HIDE DEF steps, n, m, b, head
  <1>d. ASSUME head = Down, \A i \in 1..m : 2 * i - 1 <= q + 1 => 2 * i - 1 <= q
        PROVE  /\ screen'[1] = Prompt /\ cursor' = cursor + 1
               /\ \A i \in DOMAIN screen' : i > m + 1 => screen'[i] = Blank
               /\ \A i \in 1..m : 2 * i - 1 <= q + 1 =>
                    i + 1 \in DOMAIN screen' /\ screen'[i + 1] = Laid(rows, i)
    <2>1. cursor' = cursor + 1 /\ screen' = IF cursor < Len(screen) THEN screen ELSE Append(screen, Blank)
      BY <1>d, <1>o, <1>w
    <2>2. \A i \in DOMAIN screen : i \in DOMAIN screen' /\ screen'[i] = screen[i]
      BY <1>b, <1>t, <2>1
    <2>3. \A i \in DOMAIN screen' : i \in DOMAIN screen \/ screen'[i] = Blank
      BY <1>b, <1>t, <2>1
    <2>4. 1 \in DOMAIN screen
      BY <1>t
    <2> QED
      BY <1>d, <1>p, <2>1, <2>2, <2>3, <2>4
  <1>6. CASE k < b
    <2>1. k = 0 /\ b = 1 /\ d > 1 /\ k + 1 <= b + 2 * m - 1
      BY <1>6, <1>k, <1>s
    <2>2. cursor' = (IF cursor > d - 1 THEN cursor - (d - 1) ELSE 1) /\ screen' = screen /\ cursor = d + 1
      BY <1>6, <1>c, <1>h, <1>o, <1>p, <1>w, <2>1
    <2>3. cursor' = 2 /\ CursorAt(rows, d, k + 1) = 2
      <3>1. CursorAt(rows, d, k + 1) = 2 + (q + 1) \div 2 /\ q + 1 = 0
        BY <1>c, <1>k, <2>1
      <3> QED
        BY <2>1, <2>2, <3>1
    <2>4. q + 1 = 0
      BY <1>k, <2>1
    <2>5. \A i \in 1..m : ~(2 * i - 1 <= q + 1)
      BY <1>s, <2>4
    <2> QED
      BY <1>2, <1>5, <1>g, <1>p, <2>2, <2>3, <2>5 DEF total
  <1>7. CASE k >= b /\ k + 1 <= b + 2 * m - 1 /\ (q + 1) % 2 = 1
    <2> DEFINE p == q \div 2
    <2>1. q \in Nat /\ q = 2 * p /\ p \in Nat /\ (q + 2) \div 2 = p + 1 /\ p + 1 <= m /\ (q + 1) \div 2 = p
      BY <1>7, <1>k, <1>s
    <2>2. /\ cursor = 2 + p /\ CursorAt(rows, d, k + 1) = 2 + p
      <3>1. CursorAt(rows, d, k) = 2 + q \div 2 /\ CursorAt(rows, d, k + 1) = 2 + (q + 1) \div 2
        BY <1>7, <1>c, <1>k, <1>s
      <3> QED
        BY <1>p, <2>1, <3>1
    <2>3. screen' = [screen EXCEPT ![cursor] = Laid(rows, p + 1)] /\ cursor' = cursor
      BY <1>7, <1>h, <1>o, <1>w, <2>1
    <2> HIDE DEF p
    <2>4. /\ DOMAIN screen' = DOMAIN screen /\ screen'[p + 2] = Laid(rows, p + 1) /\ p + 2 \in DOMAIN screen
          /\ \A i \in DOMAIN screen : i # p + 2 => screen'[i] = screen[i]
      <3>1. /\ DOMAIN screen' = DOMAIN screen /\ screen'[cursor] = Laid(rows, p + 1) /\ cursor \in DOMAIN screen
            /\ \A i \in DOMAIN screen : i # cursor => screen'[i] = screen[i]
        BY <1>t, <2>3
      <3>2. cursor = p + 2
        BY <2>1, <2>2
      <3> QED
        BY <3>1, <3>2
    <2>5. \A i \in 1..m : 2 * i - 1 <= q + 1 => i = p + 1 \/ (i <= p /\ 2 * i - 1 <= q)
      BY <1>s, <2>1
    <2>6. 1 \in DOMAIN screen
      BY <1>t
    <2>7. \A i \in 1..m : 2 * i - 1 <= q + 1 => i + 1 \in DOMAIN screen' /\ screen'[i + 1] = Laid(rows, i)
      <3> TAKE i \in 1..m
      <3> HAVE 2 * i - 1 <= q + 1
      <3>1. CASE i = p + 1
        BY <2>1, <2>4, <3>1
      <3>2. CASE i <= p /\ 2 * i - 1 <= q
        <4>1. i + 1 # p + 2 /\ i + 1 \in DOMAIN screen /\ screen[i + 1] = Laid(rows, i)
          BY <1>p, <2>1, <3>2
        <4> QED
          BY <2>4, <4>1
      <3> QED
        BY <2>5, <3>1, <3>2
    <2>8. \A i \in DOMAIN screen' : i > m + 1 => screen'[i] = Blank
      BY <1>p, <1>s, <1>t, <2>1, <2>4
    <2>9. screen'[1] = Prompt
      BY <1>p, <2>1, <2>4, <2>6
    <2> QED
      BY <1>2, <1>5, <1>g, <2>2, <2>3, <2>7, <2>8, <2>9 DEF total
  <1>8. CASE k >= b /\ k + 1 <= b + 2 * m - 1 /\ (q + 1) % 2 # 1
    <2>1. /\ q \in Nat /\ (q + 1) \div 2 = q \div 2 + 1 /\ q \div 2 \in Nat
          /\ \A i \in 1..m : 2 * i - 1 <= q + 1 => 2 * i - 1 <= q
      BY <1>8, <1>k, <1>s
    <2>2. cursor = 2 + q \div 2 /\ CursorAt(rows, d, k + 1) = 3 + q \div 2
      <3>1. CursorAt(rows, d, k) = 2 + q \div 2 /\ CursorAt(rows, d, k + 1) = 2 + (q + 1) \div 2
        BY <1>8, <1>c, <1>k, <1>s
      <3> QED
        BY <1>p, <2>1, <3>1
    <2>3. head = Down
      BY <1>8, <1>h
    <2>4. /\ screen'[1] = Prompt /\ cursor' = cursor + 1
          /\ \A i \in DOMAIN screen' : i > m + 1 => screen'[i] = Blank
          /\ \A i \in 1..m : 2 * i - 1 <= q + 1 => i + 1 \in DOMAIN screen' /\ screen'[i + 1] = Laid(rows, i)
      BY <1>d, <2>1, <2>3
    <2>5. cursor' = CursorAt(rows, d, k + 1)
      BY <2>1, <2>2, <2>4
    <2> QED
      BY <1>2, <1>5, <1>g, <2>4, <2>5 DEF total
  <1>9. CASE k >= b /\ k + 1 > b + 2 * m - 1 /\ k + 1 <= total
    <2>1. d > n /\ k = b + 2 * m - 1 /\ m = d /\ q = 2 * m - 1
      BY <1>9, <1>k, <1>s
    <2>2. cursor = d + 1 /\ CursorAt(rows, d, k + 1) = n + 1
      <3>1. CursorAt(rows, d, k) = 2 + q \div 2 /\ CursorAt(rows, d, k + 1) = n + 1
        BY <1>9, <1>c, <1>k, <2>1
      <3>2. q \div 2 = m - 1
        BY <1>s, <2>1
      <3>3. m = d /\ cursor = CursorAt(rows, d, k) /\ m \in Nat
        BY <1>p, <1>s, <2>1
      <3> QED
        BY <3>1, <3>2, <3>3
    <2>3. screen' = screen /\ cursor' = (IF cursor > d - n THEN cursor - (d - n) ELSE 1)
      BY <1>9, <1>h, <1>o, <1>s, <1>w, <2>1
    <2>4. cursor' = n + 1
      BY <1>s, <2>1, <2>2, <2>3
    <2>5. \A i \in 1..m : 2 * i - 1 <= q
      BY <1>s, <2>1
    <2> QED
      BY <1>2, <1>5, <1>g, <1>p, <2>2, <2>3, <2>4, <2>5 DEF total
  <1>10. CASE k >= b /\ k + 1 > b + 2 * m - 1 /\ k + 1 > total
    <2>1. k = total /\ k + 1 > total /\ q >= 2 * m - 1 /\ q \in Nat
      BY <1>10, <1>2, <1>k, <1>s
    <2>2. cursor = n + 1 /\ CursorAt(rows, d, k + 1) = n + 2
      <3>1. CursorAt(rows, d, k + 1) = n + 2
        BY <1>10, <1>c, <1>k
      <3>2. CASE d > n
        BY <1>c, <1>k, <1>p, <1>s, <2>1, <3>1, <3>2
      <3>3. CASE d <= n
        <4>1. k = b + 2 * m - 1 /\ m = n /\ CursorAt(rows, d, k) = 2 + q \div 2
          BY <1>10, <1>c, <1>k, <1>s, <2>1, <3>3
        <4>2. q = 2 * m - 1
          BY <1>k, <1>s, <4>1
        <4>3. q \div 2 = m - 1
          BY <1>s, <4>2
        <4> QED
          BY <1>p, <1>s, <3>1, <4>1, <4>3
      <3> QED
        BY <1>s, <3>2, <3>3
    <2>3. \A i \in 1..m : 2 * i - 1 <= q
      BY <1>s, <2>1
    <2>4. head = Down
      BY <1>10, <1>h
    <2>5. cursor' = n + 2
      BY <1>d, <1>s, <2>2, <2>3, <2>4
    <2> QED
      BY <1>2, <1>5, <1>d, <1>g, <2>2, <2>3, <2>4, <2>5 DEF total
  <1> QED
    BY <1>6, <1>7, <1>8, <1>9, <1>10, <1>k, <1>s

\* A text that is at its end has nothing left, and no other.
LEMMA Spent ==
  ASSUME NEW rows \in Seq(Rows), Len(rows) >= 1, NEW d \in Nat, NEW end \in {0, 1},
         NEW k \in 0..(Total(rows, d) + end), NEW steps \in Seq(Ops), LeftOf(steps, rows, d, end, k)
  PROVE  steps = <<>> <=> k = Total(rows, d) + end
  <1> DEFINE total == Total(rows, d)
  <1>1. total \in Nat
    <2>1. /\ Len(rows) \in Nat /\ Reach(rows, d) \in Nat /\ Reach(rows, d) >= Len(rows)
          /\ Back(d) = (IF d > 1 THEN 1 ELSE 0) /\ Rowed(rows, d) = Back(d) + 2 * Reach(rows, d) - 1
          /\ d > Len(rows) => total = Rowed(rows, d) + 1
          /\ d <= Len(rows) => total = Rowed(rows, d)
      BY Sizes
    <2> HIDE DEF total
    <2> QED
      BY <2>1
  <1>2. Len(steps) = total + end - k
    BY DEF LeftOf
  <1> HIDE DEF total
  <1>3. steps = <<>> <=> Len(steps) = 0
    OBVIOUS
  <1>4. k \in 0..(total + end) /\ (total + end - k = 0 <=> k = total + end)
    BY <1>1 DEF total
  <1> QED
    BY <1>2, <1>3, <1>4 DEF total

\* At the end of its text a frame stands, and the cursor is on its last row or,
\* after a summary, below it.
LEMMA Stood ==
  ASSUME NEW rows \in Seq(Rows), Len(rows) >= 1, NEW d \in Nat, NEW end \in {0, 1}, NEW shown, NEW place,
         Painted(shown, place, rows, d, Total(rows, d) + end), DOMAIN shown \subseteq Nat
  PROVE  Shows(shown, rows, {Blank}) /\ place = Len(rows) + 1 + end
  <1> DEFINE n == Len(rows)
             m == Reach(rows, d)
             b == Back(d)
             total == Total(rows, d)
  <1>0. /\ Rowed(rows, d) = b + 2 * m - 1 /\ n \in Nat /\ n >= 1
        /\ m \in Nat /\ m >= n /\ m >= d /\ b = (IF d > 1 THEN 1 ELSE 0)
    BY Sizes
  <1>1. /\ d > n => m = d /\ total = Rowed(rows, d) + 1
        /\ d <= n => m = n /\ total = Rowed(rows, d)
    BY Sizes
  <1>2. /\ shown[1] = Prompt
        /\ \A i \in DOMAIN shown : i > m + 1 => shown[i] = Blank
        /\ \A i \in 1..m : 2 * i - 1 <= (total + end) - b =>
             i + 1 \in DOMAIN shown /\ shown[i + 1] = Laid(rows, i)
        /\ place = CursorAt(rows, d, total + end)
    BY DEF Painted
  <1>3. \A i \in 1..n : Laid(rows, i) = rows[i]
    BY DEF Laid
  <1>4. \A i \in Nat : i > n => Laid(rows, i) = Blank
    BY <1>0 DEF Laid
  <1>5. CursorAt(rows, d, total + end) =
          IF total + end < b THEN d + 1
          ELSE IF total + end <= Rowed(rows, d) THEN 2 + ((total + end) - b) \div 2
          ELSE IF total + end <= total THEN n + 1 ELSE n + 2
    BY Zenon DEF CursorAt
  <1> HIDE DEF n, m, b, total
  <1>6. \A i \in 1..m : i + 1 \in DOMAIN shown /\ shown[i + 1] = Laid(rows, i)
    <2>1. \A i \in 1..m : 2 * i - 1 <= (total + end) - b
      BY <1>0, <1>1
    <2> QED
      BY <1>2, <2>1
  <1>7. place = n + 1 + end
    <2>1. CASE end = 0 /\ d > n
      BY <1>0, <1>1, <1>2, <1>5, <2>1
    <2>2. CASE end = 0 /\ d <= n
      <3>1. total = b + 2 * n - 1 /\ ((total + end) - b) \div 2 = n - 1
        BY <1>0, <1>1, <2>2
      <3>2. ~(total + end < b) /\ total + end <= Rowed(rows, d)
        BY <1>0, <1>1, <2>2
      <3> QED
        BY <1>0, <1>2, <1>5, <2>2, <3>1, <3>2
    <2>3. CASE end = 1
      <3>1. ~(total + end < b) /\ ~(total + end <= Rowed(rows, d)) /\ ~(total + end <= total)
        BY <1>0, <1>1, <2>3
      <3> QED
        BY <1>0, <1>2, <1>5, <2>3, <3>1
    <2> QED
      BY <1>0, <2>1, <2>2, <2>3
  <1>8. \A i \in DOMAIN shown : i > n + 1 => shown[i] \in {Blank}
    <2> SUFFICES ASSUME NEW i \in DOMAIN shown, i > n + 1 PROVE shown[i] = Blank
      OBVIOUS
    <2>1. CASE i > m + 1
      BY <1>2, <2>1
    <2>2. CASE i <= m + 1
      <3>1. i \in Nat /\ i - 1 \in 1..m /\ (i - 1) + 1 = i /\ i - 1 > n
        BY <1>0, <2>2
      <3> QED
        BY <1>4, <1>6, <3>1
    <2> QED
      BY <1>0, <2>1, <2>2
  <1>9. \A i \in 1..n : i + 1 \in DOMAIN shown /\ shown[i + 1] = rows[i]
    BY <1>0, <1>3, <1>6
  <1> QED
    BY <1>2, <1>7, <1>8, <1>9 DEF Shows, n

\* Where a frame stands, or nothing is drawn, the next one may be laid over it.
LEMMA Ready ==
  ASSUME NEW rows \in Seq(Rows), Len(rows) >= 1, NEW d \in Nat,
         NEW shown, NEW place, DOMAIN shown \subseteq Nat,
         \/ d = 0 /\ shown = <<Prompt, Blank>> /\ place = 2
         \/ \E old \in Seq(Rows) :
              Len(old) = d /\ d >= 1 /\ Shows(shown, old, {Blank}) /\ place = d + 1
  PROVE  Painted(shown, place, rows, d, 0)
  <1> DEFINE m == Reach(rows, d)
             b == Back(d)
  <1>0. m \in Nat /\ m >= 1 /\ m >= d /\ b = (IF d > 1 THEN 1 ELSE 0) /\ Rowed(rows, d) = b + 2 * m - 1
    <2>1. Len(rows) \in Nat /\ m \in Nat
      BY Sizes
    <2> QED
      BY <2>1, Sizes
  <1>1. CursorAt(rows, d, 0) =
          IF 0 < b THEN d + 1 ELSE IF 0 <= Rowed(rows, d) THEN 2 + (0 - b) \div 2
          ELSE IF 0 <= Total(rows, d) THEN Len(rows) + 1 ELSE Len(rows) + 2
    BY Zenon DEF CursorAt
  <1> HIDE DEF m, b
  <1>2. CursorAt(rows, d, 0) = IF d > 1 THEN d + 1 ELSE 2
    BY <1>0, <1>1
  <1>3. \A i \in 1..m : ~(2 * i - 1 <= 0 - b)
    BY <1>0
  <1>4. /\ shown[1] = Prompt /\ place = CursorAt(rows, d, 0)
        /\ \A i \in DOMAIN shown : i > m + 1 => shown[i] = Blank
    <2>1. CASE d = 0 /\ shown = <<Prompt, Blank>> /\ place = 2
      BY <1>0, <1>2, <2>1
    <2>2. CASE \E old \in Seq(Rows) : Len(old) = d /\ d >= 1 /\ Shows(shown, old, {Blank}) /\ place = d + 1
      <3>1. PICK old \in Seq(Rows) : Len(old) = d /\ d >= 1 /\ Shows(shown, old, {Blank}) /\ place = d + 1
        BY <2>2
      <3>2. shown[1] = Prompt /\ \A i \in DOMAIN shown : i > d + 1 => shown[i] = Blank
        BY <3>1 DEF Shows
      <3> QED
        BY <1>0, <1>2, <3>1, <3>2
    <2> QED
      BY <2>1, <2>2
  <1> QED
    BY <1>3, <1>4 DEF Painted, m, b

LEMMA HeightsType ==
  /\ \A height \in Heights : height \in Nat /\ height >= 1
  /\ TypeInv => drawn \in Nat /\ frame \in Nat /\ (drawn > 0 => drawn \in Heights)
  <1>1. Heights \subseteq Nat \ {0} /\ MaxFrames \in Nat
    BY ViewAssumption
  <1>2. \A height \in Heights : height \in Nat /\ height >= 1
    BY <1>1
  <1>3. ASSUME TypeInv PROVE drawn \in Nat /\ frame \in Nat /\ (drawn > 0 => drawn \in Heights)
    BY <1>1, <1>3 DEF TypeInv, FrameType
  <1> QED
    BY <1>2, <1>3

\* Rows of a frame, as the lemmas on texts take them.
LEMMA Framed ==
  ASSUME NEW kind \in {"frame", "summary"}, NEW number \in Nat, NEW height \in Heights
  PROVE  /\ Lines(kind, number, height) \in Seq(Rows)
         /\ Len(Lines(kind, number, height)) = height /\ height >= 1 /\ height \in Nat
  <1>1. height \in Nat \ {0} /\ height >= 1
    BY HeightsType
  <1> QED
    BY <1>1, LinesType

\* A step of a thread's text, as Drawing has it.
LEMMA StillDrawing ==
  ASSUME TypeInv, NEW thread \in Threads, Write(thread), NEW rows \in Seq(Rows), Len(rows) >= 1,
         NEW d \in Nat, NEW end \in {0, 1}, Drawing(text[thread], screen, cursor, rows, d, end)
  PROVE  /\ Drawing(text'[thread], screen', cursor', rows, d, end)
         /\ text'[thread] = <<>> => Shows(screen', rows, {Blank}) /\ cursor' = Len(rows) + 1 + end
  <1>1. PICK k \in 0..(Total(rows, d) + end) :
          LeftOf(text[thread], rows, d, end, k) /\ Painted(screen, cursor, rows, d, k)
    BY DEF Drawing
  <1>2. /\ k + 1 \in 0..(Total(rows, d) + end)
        /\ LeftOf(text'[thread], rows, d, end, k + 1)
        /\ Painted(screen', cursor', rows, d, k + 1)
    BY <1>1, DrawStep
  <1>3. text'[thread] \in Seq(Ops) /\ DOMAIN screen' \subseteq Nat
    <2>1. TextType' /\ ScreenType'
      BY WriteType
    <2> QED
      BY <2>1 DEF TextType, ScreenType
  <1>4. Drawing(text'[thread], screen', cursor', rows, d, end)
    BY <1>2 DEF Drawing
  <1>5. ASSUME text'[thread] = <<>>
        PROVE  Shows(screen', rows, {Blank}) /\ cursor' = Len(rows) + 1 + end
    <2>1. k + 1 = Total(rows, d) + end
      BY <1>2, <1>3, <1>5, Spent
    <2>2. Painted(screen', cursor', rows, d, Total(rows, d) + end)
      BY <1>2, <2>1
    <2> QED
      BY <1>3, <2>2, Stood
  <1> QED
    BY <1>4, <1>5

\* With nothing left to write the view is open to a next frame.
LEMMA OpenToNext ==
  ASSUME TypeInv, FrameInv, ~closed, text["ticker"] = <<>>
  PROVE  /\ text["main"] = <<>>
         /\ \A rows \in Seq(Rows) : Len(rows) >= 1 => Painted(screen, cursor, rows, drawn, 0)
         /\ drawn > 0 => Shows(screen, Lines("frame", frame, drawn), {Blank}) /\ cursor = drawn + 1
  <1>t. /\ text \in [Threads -> Seq(Ops)] /\ DOMAIN screen \subseteq Nat /\ "ticker" \in Threads
        /\ drawn \in Nat /\ frame \in Nat /\ (drawn > 0 => drawn \in Heights)
    BY HeightsType DEF TypeInv, TextType, ScreenType, Threads
  <1>1. Fresh \/ Redrawing
    BY DEF FrameInv, Waiting, Closing, Over
  <1>2. CASE Fresh
    <2>1. /\ drawn = 0 /\ screen = <<Prompt, Blank>> /\ cursor = 2 /\ text["main"] = <<>>
      BY <1>2 DEF Fresh, Unwritten, Threads
    <2>2. \A rows \in Seq(Rows) : Len(rows) >= 1 => Painted(screen, cursor, rows, drawn, 0)
      BY <1>t, <2>1, Ready
    <2> QED
      BY <2>1, <2>2
  <1>3. CASE Redrawing
    <2> DEFINE old == Lines("frame", frame, drawn)
    <2>1. drawn > 0 /\ text["main"] = <<>>
      BY <1>3 DEF Redrawing
    <2>2. old \in Seq(Rows) /\ Len(old) = drawn /\ drawn >= 1
      BY <1>t, <2>1, Framed
    <2>3. PICK d \in Heights \cup {0} : Drawing(text["ticker"], screen, cursor, old, d, 0)
      BY <1>3 DEF Redrawing
    <2>4. d \in Nat
      BY HeightsType
    <2> HIDE DEF old
    <2>5. PICK k \in 0..(Total(old, d) + 0) :
            LeftOf(text["ticker"], old, d, 0, k) /\ Painted(screen, cursor, old, d, k)
      BY <2>3 DEF Drawing
    <2>6. text["ticker"] \in Seq(Ops)
      BY <1>t
    <2>7. k = Total(old, d) + 0
      BY <2>2, <2>4, <2>5, <2>6, Spent
    <2>8. Shows(screen, old, {Blank}) /\ cursor = Len(old) + 1 + 0
      <3>1. Painted(screen, cursor, old, d, Total(old, d) + 0) /\ Len(old) >= 1
        BY <2>2, <2>5, <2>7
      <3> QED
        BY <1>t, <2>2, <2>4, <3>1, Stood
    <2>9. cursor = drawn + 1
      BY <1>t, <2>2, <2>8
    <2>10. \A rows \in Seq(Rows) : Len(rows) >= 1 => Painted(screen, cursor, rows, drawn, 0)
      BY <1>t, <2>2, <2>8, <2>9, Ready
    <2> QED
      BY <2>1, <2>8, <2>9, <2>10 DEF old
  <1> QED
    BY <1>1, <1>2, <1>3

\* What is built is laid over what stands.
LEMMA Begun ==
  ASSUME TypeInv, NEW rows \in Seq(Rows), Len(rows) >= 1, NEW thread \in Threads, NEW end \in {0, 1},
         Painted(screen, cursor, rows, drawn, 0), UNCHANGED terminalVars,
         LeftOf(text'[thread], rows, drawn, end, 0)
  PROVE  \E d \in Heights \cup {0} : Drawing(text'[thread], screen', cursor', rows, d, end)
  <1>1. drawn \in Heights \cup {0} /\ drawn \in Nat
    BY HeightsType DEF TypeInv, FrameType
  <1>2. 0 \in 0..(Total(rows, drawn) + end)
    <2>1. /\ Len(rows) \in Nat /\ Reach(rows, drawn) \in Nat /\ Reach(rows, drawn) >= Len(rows)
          /\ Back(drawn) = (IF drawn > 1 THEN 1 ELSE 0)
          /\ Rowed(rows, drawn) = Back(drawn) + 2 * Reach(rows, drawn) - 1
          /\ drawn > Len(rows) => Total(rows, drawn) = Rowed(rows, drawn) + 1
          /\ drawn <= Len(rows) => Total(rows, drawn) = Rowed(rows, drawn)
      BY <1>1, Sizes
    <2> QED
      BY <1>1, <2>1
  <1>3. screen' = screen /\ cursor' = cursor
    BY DEF terminalVars
  <1> DEFINE d == drawn
  <1>4. LeftOf(text'[thread], rows, d, end, 0) /\ Painted(screen', cursor', rows, d, 0)
    BY <1>3
  <1>5. d \in Heights \cup {0} /\ 0 \in 0..(Total(rows, d) + end)
    BY <1>1, <1>2
  <1> HIDE DEF d
  <1>6. \E k \in 0..(Total(rows, d) + end) :
          LeftOf(text'[thread], rows, d, end, k) /\ Painted(screen', cursor', rows, d, k)
    BY <1>4, <1>5
  <1> QED
    BY <1>5, <1>6 DEF Drawing

\* A step that builds nothing and writes nothing leaves the view where it is.
LEMMA StillFramed ==
  ASSUME FrameInv, UNCHANGED <<closed, drawn, frame, text, screen, cursor>>
  PROVE  FrameInv'
  <1>1. Fresh => Fresh'
    BY DEF Fresh, Unwritten
  <1>2. Redrawing => Redrawing'
    BY DEF Redrawing, Drawing
  <1>3. Waiting => Waiting'
    BY DEF Waiting, Drawing
  <1>4. Closing => Closing'
    BY DEF Closing, Drawing
  <1>5. Over => Over'
    BY DEF Over, Unwritten
  <1> QED
    BY <1>1, <1>2, <1>3, <1>4, <1>5 DEF FrameInv

\* The ticker builds a frame over the one that stands.
LEMMA FrameBuilt ==
  ASSUME TypeInv, WriterInv, FrameInv, BuildFrame, ~closed
  PROVE  FrameInv'
  <1>t. /\ text \in [Threads -> Seq(Ops)] /\ "ticker" \in Threads /\ "main" \in Threads
        /\ frame \in Nat /\ drawn \in Nat
    BY HeightsType DEF TypeInv, TextType, Threads
  <1>1. PICK height \in Heights :
          /\ frame' = frame + 1 /\ drawn' = height
          /\ text' = [text EXCEPT !["ticker"] = FrameText(Lines("frame", frame + 1, height))]
    BY DEF BuildFrame
  <1>2. ticker = "lock" /\ UNCHANGED <<terminalVars, closed>>
    BY DEF BuildFrame, TickerFrame
  <1>3. text["ticker"] = <<>>
    BY <1>2 DEF WriterInv, Handed
  <1> DEFINE rows == Lines("frame", frame + 1, height)
  <1>4. rows \in Seq(Rows) /\ Len(rows) >= 1 /\ height >= 1 /\ height \in Nat
    BY <1>t, Framed
  <1>5. rows = Lines("frame", frame', drawn')
    BY <1>1
  <1>6. text'["ticker"] = FrameText(rows) /\ text'["main"] = text["main"]
    BY <1>1, <1>t
  <1> HIDE DEF rows
  <1>7. LeftOf(text'["ticker"], rows, drawn, 0, 0)
    BY <1>4, <1>6, <1>t, FrameTextSteps
  <1>8. text["main"] = <<>> /\ Painted(screen, cursor, rows, drawn, 0)
    BY <1>3, <1>4, OpenToNext
  <1>9. \E d \in Heights \cup {0} : Drawing(text'["ticker"], screen', cursor', rows, d, 0)
    BY <1>2, <1>4, <1>7, <1>8, <1>t, Begun
  <1>10. Redrawing'
    BY <1>1, <1>2, <1>4, <1>5, <1>6, <1>8, <1>9 DEF Redrawing, Drawing
  <1> QED
    BY <1>10 DEF FrameInv

\* The main thread builds the summary, over the frame that stands or the one
\* that is being written.
LEMMA SummaryBuilt ==
  ASSUME TypeInv, WriterInv, FrameInv, BuildSummary, ~closed
  PROVE  FrameInv'
  <1>t. /\ text \in [Threads -> Seq(Ops)] /\ "ticker" \in Threads /\ "main" \in Threads
        /\ frame \in Nat /\ drawn \in Nat
    BY HeightsType DEF TypeInv, TextType, Threads
  <1>1. PICK height \in Heights :
          /\ frame' = frame + 1 /\ drawn' = height
          /\ text' = [text EXCEPT !["main"] = Append(FrameText(Lines("summary", frame + 1, height)), Down)]
    BY DEF BuildSummary
  <1>2. UNCHANGED <<screen, cursor>> /\ closed' = TRUE /\ UNCHANGED terminalVars
    BY DEF BuildSummary, MainFrame, terminalVars
  <1> DEFINE rows == Lines("summary", frame + 1, height)
  <1>3. rows \in Seq(Rows) /\ Len(rows) >= 1 /\ height >= 1 /\ height \in Nat
    BY <1>t, Framed
  <1>4. rows = Lines("summary", frame', drawn')
    BY <1>1
  <1>5. text'["main"] = Append(FrameText(rows), Down) /\ text'["ticker"] = text["ticker"]
    BY <1>1, <1>t
  <1> HIDE DEF rows
  <1>6. FrameText(rows) \in Seq(Ops) /\ text'["main"] # <<>>
    <2>1. FrameText(rows) \in Seq(Ops)
      BY <1>3, <1>t, FrameTextType
    <2>2. Append(FrameText(rows), Down) # <<>>
      BY <2>1, OpsType
    <2> QED
      BY <1>5, <2>1, <2>2
  <1>7. LeftOf(text'["main"], rows, drawn, 1, 0)
    BY <1>3, <1>5, <1>t, FrameTextSteps
  <1>8. CASE text["ticker"] = <<>>
    <2>1. Painted(screen, cursor, rows, drawn, 0)
      BY <1>3, <1>8, OpenToNext
    <2>2. \E d \in Heights \cup {0} : Drawing(text'["main"], screen', cursor', rows, d, 1)
      BY <1>2, <1>3, <1>7, <1>t, <2>1, Begun
    <2>3. Closing'
      BY <1>1, <1>2, <1>3, <1>4, <1>5, <1>6, <1>8, <2>2 DEF Closing, Drawing
    <2> QED
      BY <2>3 DEF FrameInv
  <1>9. CASE text["ticker"] # <<>>
    <2>1. Redrawing
      BY <1>9, <1>t DEF FrameInv, Fresh, Unwritten, Waiting, Closing, Over
    <2>2. drawn > 0 /\ drawn \in Heights
      BY <2>1, HeightsType DEF Redrawing
    <2>3. PICK d \in Heights \cup {0} :
            Drawing(text["ticker"], screen, cursor, Lines("frame", frame, drawn), d, 0)
      BY <2>1 DEF Redrawing
    <2> DEFINE under == Lines("frame", frame, drawn)
               number == frame
               n == drawn
    <2>4. number \in 0..frame' /\ n \in Heights /\ under = Lines("frame", number, n)
      BY <1>1, <1>t, <2>2
    <2>5. \E k \in 0..(Total(under, d) + 0) :
            LeftOf(text'["ticker"], under, d, 0, k) /\ Painted(screen', cursor', under, d, k)
      BY <1>2, <1>5, <2>3 DEF Drawing
    <2>6. LeftOf(text'["main"], Lines("summary", frame', drawn'), n, 1, 0)
      BY <1>4, <1>7
    <2> HIDE DEF under, number, n
    <2>7. Waiting'
      BY <1>1, <1>2, <1>3, <1>5, <1>6, <1>9, <2>4, <2>5, <2>6 DEF Waiting, Drawing
    <2> QED
      BY <2>7 DEF FrameInv
  <1> QED
    BY <1>8, <1>9

\* The ticker writes on, and leaves its frame to the summary when that waits.
LEMMA FrameWrittenOn ==
  ASSUME TypeInv, WriterInv, FrameInv, WriteFrame
  PROVE  FrameInv'
  <1>t. /\ text \in [Threads -> Seq(Ops)] /\ "ticker" \in Threads /\ "main" \in Threads
        /\ frame \in Nat /\ drawn \in Nat
    BY HeightsType DEF TypeInv, TextType, Threads
  <1>1. Write("ticker") /\ UNCHANGED <<frame, drawn, closed>> /\ text["ticker"] # <<>>
    BY DEF WriteFrame, TickerFrame, Write
  <1>2. text'["main"] = text["main"]
    BY <1>1, <1>t DEF Write
  <1>3. CASE Redrawing
    <2> DEFINE rows == Lines("frame", frame, drawn)
    <2>1. PICK d \in Heights \cup {0} : Drawing(text["ticker"], screen, cursor, rows, d, 0)
      BY <1>3 DEF Redrawing
    <2>2. rows \in Seq(Rows) /\ Len(rows) >= 1 /\ d \in Nat
      <3>1. drawn \in Heights
        BY <1>3, HeightsType DEF Redrawing
      <3> QED
        BY <1>t, <3>1, Framed, HeightsType
    <2>r. rows = Lines("frame", frame', drawn')
      BY <1>1
    <2> HIDE DEF rows
    <2>3. Drawing(text'["ticker"], screen', cursor', rows, d, 0)
      BY <1>1, <1>t, <2>1, <2>2, StillDrawing
    <2>4. Redrawing'
      BY <1>1, <1>2, <1>3, <2>3, <2>r DEF Redrawing, Drawing
    <2> QED
      BY <2>4 DEF FrameInv
  <1>4. CASE Waiting
    <2>1. PICK number \in 0..frame, n \in Heights, d \in Heights \cup {0} :
            /\ Drawing(text["ticker"], screen, cursor, Lines("frame", number, n), d, 0)
            /\ LeftOf(text["main"], Lines("summary", frame, drawn), n, 1, 0)
      BY <1>4 DEF Waiting
    <2> DEFINE rows == Lines("frame", number, n)
               over == Lines("summary", frame, drawn)
    <2>2. rows \in Seq(Rows) /\ Len(rows) = n /\ n >= 1 /\ n \in Nat /\ d \in Nat
      BY <1>t, Framed, HeightsType
    <2>3. over \in Seq(Rows) /\ Len(over) >= 1
      BY <1>4, <1>t, Framed, HeightsType DEF Waiting
    <2>r. /\ rows = Lines("frame", number, n) /\ over = Lines("summary", frame', drawn')
          /\ Drawing(text["ticker"], screen, cursor, rows, d, 0)
          /\ LeftOf(text'["main"], over, n, 1, 0)
      BY <1>1, <1>2, <2>1
    <2> HIDE DEF rows, over
    <2>4. /\ Drawing(text'["ticker"], screen', cursor', rows, d, 0)
          /\ text'["ticker"] = <<>> => Shows(screen', rows, {Blank}) /\ cursor' = Len(rows) + 1 + 0
      BY <1>1, <1>t, <2>2, <2>r, StillDrawing
    <2>5. CASE text'["ticker"] # <<>>
      <3>1. Waiting'
        BY <1>1, <1>2, <1>4, <2>1, <2>4, <2>5, <2>r DEF Waiting, Drawing
      <3> QED
        BY <3>1 DEF FrameInv
    <2>6. CASE text'["ticker"] = <<>>
      <3>1. Shows(screen', rows, {Blank}) /\ cursor' = n + 1 /\ DOMAIN screen' \subseteq Nat
        <4>1. ScreenType'
          BY <1>1, <1>t, WriteType
        <4> QED
          BY <2>2, <2>4, <2>6, <4>1 DEF ScreenType
      <3>2. Painted(screen', cursor', over, n, 0)
        BY <2>2, <2>3, <3>1, Ready
      <3>3. 0 \in 0..(Total(over, n) + 1) /\ n \in Heights \cup {0}
        <4>1. /\ Len(over) \in Nat /\ Reach(over, n) \in Nat /\ Reach(over, n) >= Len(over)
              /\ Back(n) = (IF n > 1 THEN 1 ELSE 0) /\ Rowed(over, n) = Back(n) + 2 * Reach(over, n) - 1
              /\ n > Len(over) => Total(over, n) = Rowed(over, n) + 1
              /\ n <= Len(over) => Total(over, n) = Rowed(over, n)
          BY <2>2, <2>3, Sizes
        <4> QED
          BY <2>2, <2>3, <4>1
      <3>4. \E k \in 0..(Total(over, n) + 1) :
              LeftOf(text'["main"], over, n, 1, k) /\ Painted(screen', cursor', over, n, k)
        BY <2>r, <3>2, <3>3
      <3>5. Closing'
        BY <1>1, <1>2, <1>4, <2>6, <2>r, <3>3, <3>4 DEF Closing, Drawing, Waiting
      <3> QED
        BY <3>5 DEF FrameInv
    <2> QED
      BY <2>5, <2>6
  <1> QED
    BY <1>1, <1>3, <1>4, <1>t DEF FrameInv, Fresh, Unwritten, Closing, Over

\* The main thread writes on, and the summary stands.
LEMMA SummaryWrittenOn ==
  ASSUME TypeInv, WriterInv, FrameInv, WriteSummary
  PROVE  FrameInv'
  <1>t. /\ text \in [Threads -> Seq(Ops)] /\ "ticker" \in Threads /\ "main" \in Threads
        /\ frame \in Nat /\ drawn \in Nat
    BY HeightsType DEF TypeInv, TextType, Threads
  <1>1. Write("main") /\ UNCHANGED <<frame, drawn, closed>> /\ text["main"] # <<>> /\ main = "write"
    BY DEF WriteSummary, MainFrame, Write
  <1>2. text'["ticker"] = text["ticker"]
    BY <1>1, <1>t DEF Write
  <1>3. text["ticker"] = <<>>
    <2>1. lock = "main" /\ output = "main"
      BY <1>1 DEF WriterInv, Handed
    <2> QED
      BY <2>1 DEF WriterInv, Handed
  <1>4. Closing
    BY <1>1, <1>3, <1>t DEF FrameInv, Fresh, Redrawing, Waiting, Over, Unwritten
  <1> DEFINE rows == Lines("summary", frame, drawn)
  <1>5. PICK d \in Heights \cup {0} : Drawing(text["main"], screen, cursor, rows, d, 1)
    BY <1>4 DEF Closing
  <1>6. rows \in Seq(Rows) /\ Len(rows) = drawn /\ Len(rows) >= 1 /\ d \in Nat
    <2>1. drawn \in Heights
      BY <1>4, HeightsType DEF Closing
    <2> QED
      BY <1>t, <2>1, Framed, HeightsType
  <1>r. rows = Lines("summary", frame', drawn')
    BY <1>1
  <1> HIDE DEF rows
  <1>7. /\ Drawing(text'["main"], screen', cursor', rows, d, 1)
        /\ text'["main"] = <<>> => Shows(screen', rows, {Blank}) /\ cursor' = Len(rows) + 1 + 1
    BY <1>1, <1>t, <1>5, <1>6, StillDrawing
  <1>8. CASE text'["main"] # <<>>
    <2>1. Closing'
      BY <1>1, <1>2, <1>3, <1>4, <1>7, <1>8, <1>r DEF Closing, Drawing
    <2> QED
      BY <2>1 DEF FrameInv
  <1>9. CASE text'["main"] = <<>>
    <2>1. Shows(screen', rows, {Blank, Message}) /\ cursor' = drawn + 2
      BY <1>6, <1>7, <1>9, <1>t DEF Shows
    <2>2. ~Unwritten'
      BY <1>2, <1>3, <1>9 DEF Unwritten, Threads
    <2>3. Over'
      BY <1>1, <1>4, <1>r, <2>1, <2>2 DEF Over, Closing
    <2> QED
      BY <2>3 DEF FrameInv
  <1> QED
    BY <1>8, <1>9

\* The message goes below the summary.
LEMMA MessageBelow ==
  ASSUME TypeInv, WriterInv, FrameInv, PrintMessage
  PROVE  FrameInv'
  <1>t. /\ drawn \in Nat /\ cursor \in 1..Len(screen) /\ screen \in Seq(Rows \cup {Message})
        /\ "main" \in Threads /\ frame \in Nat
    BY HeightsType DEF TypeInv, TerminalType, ScreenType, Threads
  <1>1. /\ main = "print" /\ screen' = [screen EXCEPT ![cursor] = Message]
        /\ UNCHANGED <<frame, drawn, closed, text, cursor>>
    BY DEF PrintMessage, MainFrame
  <1>2. closed /\ text["main"] = <<>>
    BY <1>1 DEF WriterInv, Handed, Quiet
  <1>3. Over
    BY <1>2 DEF FrameInv, Fresh, Redrawing, Waiting, Closing
  <1> DEFINE rows == Lines("summary", frame, drawn)
  <1>4. Shows(screen, rows, {Blank, Message}) /\ cursor = drawn + 2 /\ drawn > 0
    BY <1>3 DEF Over
  <1>5. Len(rows) = drawn /\ rows = Lines("summary", frame', drawn')
    BY <1>1, <1>4, <1>t, Framed, HeightsType
  <1> HIDE DEF rows
  <1>6. /\ DOMAIN screen' = DOMAIN screen
        /\ \A i \in DOMAIN screen : screen'[i] = IF i = cursor THEN Message ELSE screen[i]
    BY <1>1, <1>t
  <1>7. /\ 1 \in DOMAIN screen /\ cursor # 1
        /\ \A i \in 1..drawn : i + 1 # cursor
    BY <1>4, <1>t
  <1>8. Shows(screen', rows, {Blank, Message})
    BY <1>4, <1>5, <1>6, <1>7 DEF Shows
  <1>9. Over'
    BY <1>1, <1>3, <1>4, <1>5, <1>8 DEF Over, Unwritten
  <1> QED
    BY <1>9 DEF FrameInv

LEMMA NextFramed ==
  ASSUME TypeInv, WriterInv, FrameInv, Next
  PROVE  FrameInv'
  <1>c. closed \in BOOLEAN
    BY DEF TypeInv, StateType, FlagType
  <1>1. CASE BuildFrame
    <2>1. CASE closed
      BY <1>1, <2>1, StillFramed DEF BuildFrame, TickerFrame, terminalVars
    <2> QED
      BY <1>1, <1>c, <2>1, FrameBuilt
  <1>2. CASE BuildSummary
    <2>1. CASE closed
      BY <1>2, <2>1, StillFramed DEF BuildSummary, MainFrame, terminalVars
    <2> QED
      BY <1>2, <1>c, <2>1, SummaryBuilt
  <1>3. CASE WriteFrame
    BY <1>3, FrameWrittenOn
  <1>4. CASE WriteSummary
    BY <1>4, SummaryWrittenOn
  <1>5. CASE PrintMessage
    BY <1>5, MessageBelow
  <1>6. CASE Tick \/ TakeOutput \/ FrameWritten
    BY <1>6, StillFramed DEF Tick, TakeOutput, FrameWritten, TickerFrame, terminalVars
  <1>7. CASE Receive \/ Update \/ CallClose \/ Join \/ TakeOutputToClose \/ SummaryWritten
    BY <1>7, StillFramed DEF Receive, Update, CallClose, Join, TakeOutputToClose, SummaryWritten, MainFrame,
                             terminalVars
  <1>8. CASE Pause \/ Resume \/ Ended
    BY <1>8, StillFramed DEF Pause, Resume, Ended, vars, terminalVars
  <1> QED
    BY <1>1, <1>2, <1>3, <1>4, <1>5, <1>6, <1>7, <1>8 DEF Next, MainStep, TickerStep

LEMMA ShownRows ==
  ASSUME NEW rows \in Seq(Rows), Len(rows) >= 1, NEW shown \in Seq(Rows \cup {Message}), NEW below,
         Shows(shown, rows, below)
  PROVE  SubSeq(shown, 1, Len(rows) + 1) = <<Prompt>> \o rows
  <1> DEFINE n == Len(rows)
             left == SubSeq(shown, 1, n + 1)
             right == <<Prompt>> \o rows
  <1>1. /\ n \in Nat /\ n >= 1 /\ shown[1] = Prompt
        /\ \A i \in 1..n : i + 1 \in DOMAIN shown /\ shown[i + 1] = rows[i]
    BY DEF Shows
  <1>2. n + 1 <= Len(shown)
    <2>1. n \in 1..n
      BY <1>1
    <2>2. n + 1 \in DOMAIN shown
      BY <1>1, <2>1
    <2> HIDE DEF n
    <2> QED
      BY <2>2
  <1>3. Prompt \in Rows
    BY DEF Prompt, Row, Rows
  <1>4. /\ right \in Seq(Rows) /\ Len(right) = n + 1
        /\ \A i \in 1..(n + 1) : right[i] = IF i = 1 THEN Prompt ELSE rows[i - 1]
    BY <1>3
  <1>5. left = [i \in 1..(n + 1) |-> shown[i]]
    <2>1. left = [i \in 1..((n + 1) - 1 + 1) |-> shown[1 + i - 1]]
      BY <1>1, <1>2
    <2> HIDE DEF left, n
    <2> QED
      BY <1>1, <2>1
  <1> HIDE DEF n, left, right
  <1>6. \A i \in 1..(n + 1) : shown[i] = IF i = 1 THEN Prompt ELSE rows[i - 1]
    <2> SUFFICES ASSUME NEW i \in 1..(n + 1), i # 1 PROVE shown[i] = rows[i - 1]
      BY <1>1
    <2>1. i - 1 \in 1..n /\ (i - 1) + 1 = i
      BY <1>1
    <2> QED
      BY <1>1, <2>1
  <1>7. right = [i \in 1..(n + 1) |-> right[i]]
    BY <1>1, <1>4
  <1>8. left = right
    BY <1>4, <1>5, <1>6, <1>7
  <1> QED
    BY <1>8 DEF left, right, n

\* Whenever nothing is left to write, what stands on the terminal is the frame
\* built last, whole, and nothing of a taller one before it, for every height,
\* race and pause (progress.py:25-31, 173-174).
THEOREM FramesAreWhole == Spec => []WholeFrames
  <1>1. Init => WriterInv /\ FrameInv
    <2> SUFFICES ASSUME Init PROVE WriterInv /\ FrameInv
      OBVIOUS
    <2>1. Fresh
      BY DEF Init, Fresh, Unwritten, Threads
    <2> QED
      BY <2>1, InitWriter DEF FrameInv
  <1>2. TypeInv /\ WriterInv /\ FrameInv /\ [Next]_vars => WriterInv' /\ FrameInv'
    <2>1. TypeInv /\ WriterInv /\ FrameInv /\ Next => WriterInv' /\ FrameInv'
      BY NextWriter, NextFramed
    <2>2. WriterInv /\ UNCHANGED vars => WriterInv'
      BY StillWriter
    <2>3. FrameInv /\ UNCHANGED vars => FrameInv'
      BY StillFramed DEF vars, terminalVars
    <2> QED
      BY <2>1, <2>2, <2>3
  <1>3. TypeInv /\ FrameInv => WholeFrames
    <2> SUFFICES ASSUME TypeInv, FrameInv, ~Unwritten, drawn > 0
                 PROVE  LET below == {i \in DOMAIN screen : i > drawn + 1} IN
                        /\ SubSeq(screen, 1, drawn + 1) =
                             <<Prompt>> \o Lines(IF closed THEN "summary" ELSE "frame", frame, drawn)
                        /\ \A i \in below : screen[i] \in {Blank, Message}
                        /\ cursor = IF closed THEN drawn + 2 ELSE drawn + 1
      BY DEF WholeFrames
    <2>1. /\ drawn \in Heights /\ frame \in Nat /\ screen \in Seq(Rows \cup {Message})
          /\ text["ticker"] = <<>> /\ text["main"] = <<>>
      BY HeightsType DEF TypeInv, ScreenType, Unwritten, Threads
    <2> DEFINE kind == IF closed THEN "summary" ELSE "frame"
               rows == Lines(kind, frame, drawn)
    <2>2. Shows(screen, rows, {Blank, Message}) /\ cursor = IF closed THEN drawn + 2 ELSE drawn + 1
      <3>1. CASE closed
        <4>1. Over
          BY <2>1, <3>1 DEF FrameInv, Fresh, Redrawing, Waiting, Closing
        <4> QED
          BY <3>1, <4>1 DEF Over
      <3>2. CASE ~closed
        <4>1. Shows(screen, Lines("frame", frame, drawn), {Blank}) /\ cursor = drawn + 1
          BY <2>1, <3>2, OpenToNext
        <4> QED
          BY <3>2, <4>1 DEF Shows
      <3> QED
        BY <3>1, <3>2
    <2>3. rows \in Seq(Rows) /\ Len(rows) = drawn /\ Len(rows) >= 1
      <3>1. kind \in {"frame", "summary"}
        OBVIOUS
      <3> HIDE DEF kind
      <3> QED
        BY <2>1, <3>1, Framed
    <2> HIDE DEF rows
    <2>4. SubSeq(screen, 1, drawn + 1) = <<Prompt>> \o rows
      <3>1. SubSeq(screen, 1, Len(rows) + 1) = <<Prompt>> \o rows
        BY <2>1, <2>2, <2>3, ShownRows
      <3> QED
        BY <2>3, <3>1
    <2>5. \A i \in DOMAIN screen : i > drawn + 1 => screen[i] \in {Blank, Message}
      BY <2>2, <2>3 DEF Shows
    <2> QED
      BY <2>2, <2>4, <2>5 DEF rows
  <1> QED
    BY <1>1, <1>2, <1>3, TypeInvariance, PTL DEF Spec
=============================================================================
