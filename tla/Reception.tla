------------------------------ MODULE Reception ------------------------------
(***************************************************************************)
(* Reception statistics of the RU emulator.  Three threads share them: the *)
(* timing worker stores the OTA symbol, the receive thread classifies the  *)
(* frames against it and counts, and the main thread prints, once a        *)
(* second, what has been counted since it last printed.                    *)
(*                                                                         *)
(* One window checker and one eAxC stand for the three checkers and the    *)
(* eAxCs, and "refused" for the counters of dropped and of corrupt frames: *)
(* they share no state.  Every step reads or writes one atomic.            *)
(***************************************************************************)
EXTENDS TimingNotifier, RxChecks, Sequences

CONSTANTS Messages,   \* messages: symbols from the one on air to theirs, and
                      \* identifiers from the expected one to theirs
          MaxEvents   \* bound: frames received and rows printed

ASSUME ReceptionAssumption ==
  /\ Messages \subseteq [lead : Int, gap : Int]
  /\ MaxEvents \in Nat

VARIABLES ota,        \* count_val of the window checker
          otaRead,    \* history: the tick at which ota was on air, -1 before
          rx,         \* where the receive thread is
          frame,      \* the message it handles: symbol and identifier, both
                      \* absolute (the O-RU sees them modulo their periods)
          seqStarted, \* initialized
          seqCounter, \* counters of the sequence checker
          streamLast, \* history: the last identifier in the stream
          counters,   \* the counters
          printed,    \* last_value_printed of each of them
          row,        \* main thread: counters fetched for the row at hand
          rowBegan,   \* history: messages received when the row at hand began
          events      \* frames received and rows begun

checkerVars == <<ota, otaRead>>
rxVars == <<rx, frame, seqStarted, seqCounter, streamLast, counters>>
printVars == <<printed, row, rowBegan>>
vars == <<notifierVars, checkerVars, rxVars, printVars, events>>

Counters == Verdicts \cup {"rx", "refused", "seq"}

NoFrame == [symbol |-> 0, id |-> 0]

Add(counter) == [counters EXCEPT ![counter] = @ + 1]

TypeOK ==
  /\ NotifierTypeOK
  /\ ota \in WireSymbols
  /\ otaRead \in Nat \cup {-1}
  /\ rx \in {"idle", "window", "seq"}
  /\ frame \in [symbol : Int, id : Int]
  /\ seqStarted \in BOOLEAN
  /\ seqCounter \in SeqIds
  /\ streamLast \in Int
  /\ counters \in [Counters -> Nat]
  /\ printed \in [Counters -> Nat]
  /\ row \in 0 .. 5
  /\ rowBegan \in Nat
  /\ events \in Nat

\* count_val is not initialised: see CheckWindow.
Init ==
  /\ NotifierInit
  /\ ota = 0
  /\ otaRead = -1
  /\ rx = "idle"
  /\ frame = NoFrame
  /\ seqStarted = FALSE
  /\ seqCounter = 0
  /\ streamLast = NofSeqIds
  /\ counters = [c \in Counters |-> 0]
  /\ printed = [c \in Counters |-> 0]
  /\ row = 0
  /\ rowBegan = 0
  /\ events = 0
-----------------------------------------------------------------------------
\* Timing worker: on_new_symbol of the window checker, from the notification.
OnNewSymbol ==
  /\ Notify
  /\ ota' = OfhSymbolPoint(point.slot, point.symbol)
  /\ otaRead' = point.read
  /\ UNCHANGED <<rxVars, printVars, events>>

\* Main thread: ru->start() and ru->stop() of the Ethernet receiver.
RuStart ==
  /\ main = "started"
  /\ main' = "running"
  /\ UNCHANGED <<clock, status, worker, previous, point, subscribed, checkerVars, rxVars, printVars, events>>

RuStop ==
  /\ main = "timing_stopped"
  /\ main' = "done"
  /\ UNCHANGED <<clock, status, worker, previous, point, subscribed, checkerVars, rxVars, printVars, events>>

Receiving == main \in {"running", "stopping", "timing_stopped"}
-----------------------------------------------------------------------------
\* One more event, up to the bound.
OneMoreEvent == events < MaxEvents /\ events' = events + 1

\* A frame that fails the Ethernet filter, or whose fields cannot be decoded, are
\* not defined or not configured: any frame may.
FrameRefused == counters' = Add("refused") /\ UNCHANGED <<rx, frame>>

\* Receive thread: on_frame up to the end of the classification.
OnFrame ==
  /\ Receiving
  /\ rx = "idle"
  /\ OneMoreEvent
  /\ \/ FrameRefused
     \/ \E m \in Messages :
          /\ rx' = "window"
          /\ frame' = [symbol |-> SymbolOnAir(clock) + m.lead, id |-> streamLast + 1 + m.gap]
          /\ counters' = Add("rx")
  /\ UNCHANGED <<notifierVars, checkerVars, seqStarted, seqCounter, streamLast, printVars>>

\* The reception window.  Before the first notification the checker compares
\* with whatever count_val holds.
CheckWindow ==
  /\ rx = "window"
  /\ rx' = "seq"
  /\ \E v \in Verdicts :
       /\ otaRead = -1 \/ v = WindowVerdict(frame.symbol % (Period * NofSymbols), ota)
       /\ counters' = Add(v)
  /\ UNCHANGED <<notifierVars, checkerVars, frame, seqStarted, seqCounter, streamLast, printVars, events>>

\* The sequence identifier: an error is counted unless it is the expected one.
CheckSeq ==
  LET seqId == frame.id % NofSeqIds
  IN  /\ rx = "seq"
      /\ rx' = "idle"
      /\ frame' = NoFrame
      /\ seqStarted' = TRUE
      /\ seqCounter' = IF seqStarted THEN CounterAfter(seqCounter, seqId) ELSE seqId
      /\ streamLast' = IF seqStarted /\ frame.id < streamLast THEN streamLast ELSE frame.id
      /\ counters' = IF seqStarted /\ SkippedIds(seqId, (seqCounter + 1) % NofSeqIds) # 0
                     THEN Add("seq") ELSE counters
      /\ UNCHANGED <<notifierVars, checkerVars, printVars, events>>
-----------------------------------------------------------------------------
\* Mutant: the total is fetched first.
TotalFirst == <<"rx", "on_time", "late", "early", "refused", "seq">>

\* The order in which print_statistics fetches the counters.
PrintOrder == <<"on_time", "late", "early", "rx", "refused", "seq">>

\* Main thread: print_statistics, one counter at a time.  What is printed is the
\* difference to last_value_printed, which then takes the value that was read.
PrintCounter ==
  LET c == PrintOrder[row + 1]
  IN  /\ main = "running"
      /\ IF row = 0 THEN OneMoreEvent /\ rowBegan' = counters["rx"]
                    ELSE UNCHANGED <<events, rowBegan>>
      /\ printed' = [printed EXCEPT ![c] = counters[c]]
      /\ row' = (row + 1) % Len(PrintOrder)
      /\ UNCHANGED <<notifierVars, checkerVars, rxVars>>

\* The loop of main ends between two rows.
StopMain == row = 0 /\ Stop /\ UNCHANGED <<checkerVars, rxVars, printVars, events>>

WorkerStep ==
  \/ (WorkerEnter \/ WorkerFirst \/ Poll \/ WorkerExit) /\ UNCHANGED <<checkerVars, rxVars, printVars, events>>
  \/ OnNewSymbol

MainReturns ==
  (StartReturns \/ StopReturns) /\ UNCHANGED <<checkerVars, rxVars, printVars, events>>

Next ==
  \/ (Start \/ Tick) /\ UNCHANGED <<checkerVars, rxVars, printVars, events>>
  \/ MainReturns
  \/ RuStart
  \/ PrintCounter
  \/ StopMain
  \/ RuStop
  \/ WorkerStep
  \/ OnFrame
  \/ CheckWindow
  \/ CheckSeq

\* The worker and the main thread are threads of their own; nothing they do can
\* be put off for ever.
Spec == Init /\ [][Next]_vars /\ WF_vars(WorkerStep) /\ WF_vars(MainReturns)
-----------------------------------------------------------------------------
\* Ticks, times SymbolsPerSecond, from the clock reading behind ota to the
\* symbol of the message.
LeadOfFrame == (frame.symbol * TicksPerSecond) - (otaRead * SymbolsPerSecond)

\* The symbol of the message and the stored one are less than half a wire
\* period apart: further apart, the wire numbers do not tell how far.
WithinHalfAPeriod ==
  LET half == (Period * NofSymbols) \div 2
  IN  frame.symbol - SymbolOnAir(otaRead) \in (-half) .. (half - 1)

\* A message is on time when its lead lies within the T2a window, and not when
\* it is outside by more than the symbol the OTA time is counted in, across the
\* wrap of the wire numbering and the end of a second.
VerdictWithinT2a ==
  [][rx = "window" /\ rx' = "seq" /\ otaRead # -1 /\ ~LosesSymbol(otaRead) /\ WithinHalfAPeriod =>
       LET onTime == counters'["on_time"] # counters["on_time"]
           low == T2aMin * SymbolsPerSecond
           high == T2aMax * SymbolsPerSecond
       IN  /\ onTime => LeadOfFrame > low - TicksPerSecond /\ LeadOfFrame =< high
           /\ LeadOfFrame >= low /\ LeadOfFrame =< high - TicksPerSecond => onTime
           /\ counters'["late"] # counters["late"] => LeadOfFrame < low
           /\ counters'["early"] # counters["early"] => LeadOfFrame > high - TicksPerSecond]_vars

\* No message is half the identifiers, or more, from the expected one: 128 of the
\* 256 lost, or overtaken by as many.
ShortGaps ==
  \A m \in Messages : m.gap \in (-(NofSeqIds \div 2)) .. (NofSeqIds \div 2 - 1)

\* An error is counted for exactly the messages that are not the next of their
\* stream, whatever was lost, repeated or overtaken before, as long as a gap is
\* shorter than half the identifiers.
ErrorsMatchStream ==
  [][rx = "seq" /\ rx' = "idle" /\ seqStarted =>
       (counters'["seq"] # counters["seq"] <=> frame.id # streamLast + 1)]_vars

\* The rows printed so far, added up, never show more judged messages than
\* received ones, and show every message received before the last row was begun
\* as judged, but for the one the receive thread had at hand.  A single row shows
\* differences and promises neither: a message received while a row was put
\* together may be judged, and not received, in the next.
RowAccountsForFrames ==
  LET judged == printed["on_time"] + printed["late"] + printed["early"]
  IN  row = 0 => judged =< printed["rx"] /\ judged >= rowBegan - 1
=============================================================================
