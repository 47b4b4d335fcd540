-------------------------- MODULE ReceptionProofs --------------------------
(***************************************************************************)
(* Theorems about Reception and the parts it composes (OtaClock, RxChecks, *)
(* TimingNotifier), for every slot and symbol duration, every numbering,   *)
(* every T2a window, every stream of messages and every delay of the       *)
(* timing worker.                                                          *)
(***************************************************************************)
EXTENDS Reception, NumberTheorems, TLAPS

\* A slot is a whole number of ticks.
LEMMA SlotTicksType ==
  /\ SlotTicks \in Nat \ {0}
  /\ TicksPerSecond = SlotTicks * SlotsPerSecond
<1> DEFINE K == SlotTicks
<1>1. TicksPerSecond = SlotsPerSecond * K + (TicksPerSecond % SlotsPerSecond) /\ K \in Int
  BY ClockAssumption, DivMod DEF SlotTicks
<1> HIDE DEF K
<1>2. TicksPerSecond = SlotsPerSecond * K
  BY <1>1, ClockAssumption
<1>3. K > 0
  <2>1. K =< 0 => SlotsPerSecond * K =< 0
    BY <1>1, ClockAssumption
  <2>. QED  BY <2>1, <1>1, <1>2, ClockAssumption
<1>4. TicksPerSecond = K * SlotsPerSecond
  BY <1>1, <1>2, ClockAssumption
<1>. QED  BY <1>1, <1>3, <1>4 DEF K

LEMMA SymbolsPerSecondType == SymbolsPerSecond \in Nat \ {0}
BY ClockAssumption DEF SymbolsPerSecond

\* The symbols of r ticks of a slot of K ticks, q slots later.
LEMMA SymbolsOfSlot ==
  ASSUME NEW K \in Nat \ {0}, NEW S \in Nat \ {0}, NEW N \in Nat \ {0},
         NEW q \in Nat, NEW r \in 0 .. (K - 1)
  PROVE  LET j == (r * (S * N)) \div (K * S)
         IN  /\ j \in 0 .. (N - 1)
             /\ (((K * q) + r) * (S * N)) \div (K * S) = (q * N) + j
<1> DEFINE W == K * S
           M == S * N
           x == r * M
           j == x \div W
           m == x % W
<1>1. W \in Nat \ {0} /\ M \in Nat \ {0} /\ x \in Nat
  <2>1. W \in Nat \ {0}
    OBVIOUS
  <2>2. M \in Nat \ {0}
    OBVIOUS
  <2>. HIDE DEF M
  <2>3. x \in Nat
    BY <2>2
  <2>. QED  BY <2>1, <2>2, <2>3
<1>2. W * N = K * M
  OBVIOUS
<1>3. (K * q) * M = W * (q * N)
  OBVIOUS
<1>. HIDE DEF W, M
<1>4. x < W * N
  <2>1. r * M < K * M
    BY <1>1
  <2>. QED  BY <1>2, <2>1
<1>. HIDE DEF x
<1>5. x = W * j + m /\ j \in Int /\ m \in 0 .. (W - 1)
  BY <1>1, DivMod
<1>. HIDE DEF j, m
<1>6. j >= 0
  <2>1. j =< -1 => W * j =< -W
    BY <1>1, <1>5
  <2>. QED  BY <2>1, <1>1, <1>5
<1>7. j < N
  <2>1. j >= N => W * j >= W * N
    BY <1>1, <1>5
  <2>. QED  BY <2>1, <1>1, <1>4, <1>5
<1>8. ((K * q) + r) * M = W * ((q * N) + j) + m
  <2>1. ((K * q) + r) * M = (K * q) * M + r * M
    BY <1>1
  <2>2. ((K * q) + r) * M = W * (q * N) + x
    BY <2>1, <1>3 DEF x
  <2>3. q * N \in Nat
    OBVIOUS
  <2>4. W * ((q * N) + j) = W * (q * N) + W * j
    BY <2>3, <1>1, <1>5
  <2>5. W * (q * N) \in Int /\ W * j \in Int
    BY <2>3, <1>1, <1>5
  <2>. QED  BY <2>2, <2>4, <2>5, <1>1, <1>5
<1>9. (((K * q) + r) * M) \div W = (q * N) + j
  <2>1. (q * N) + j \in Int
    BY <1>5
  <2>2. ((K * q) + r) * M \in Int
    BY <1>1
  <2>. QED  BY <2>1, <2>2, <1>1, <1>5, <1>8, DivModUnique
<1>. QED  BY <1>5, <1>6, <1>7, <1>9 DEF W, M, x, j

\* Where a tick lies: slot q since the epoch, slot v of its second, symbol j.
LEMMA TickSplit ==
  ASSUME NEW tick \in Nat
  PROVE  \E q \in Nat, v \in 0 .. (SlotsPerSecond - 1), j \in 0 .. (NofSymbols - 1) :
           /\ tick \div SlotTicks = q
           /\ SymbolOnAir(tick) = (q * NofSymbols) + j
           /\ SymbolOnAir(tick % TicksPerSecond) = (v * NofSymbols) + j
<1> DEFINE K == SlotTicks
           S == SlotsPerSecond
           N == NofSymbols
           q == tick \div K
           r == tick % K
           u == q \div S
           v == q % S
           j == (r * (S * N)) \div (K * S)
<1>1. K \in Nat \ {0} /\ S \in Nat \ {0} /\ N \in Nat \ {0} /\ TicksPerSecond = K * S
  BY SlotTicksType, ClockAssumption
<1>. HIDE DEF K, S, N
<1>2. tick = K * q + r /\ q \in Nat /\ r \in 0 .. (K - 1)
  <2>1. tick = K * q + r /\ q \in Int /\ r \in 0 .. (K - 1)
    BY <1>1, DivMod
  <2>. HIDE DEF q, r
  <2>2. q >= 0
    <3>1. q =< -1 => K * q =< -K
      BY <1>1, <2>1
    <3>. QED  BY <3>1, <1>1, <2>1
  <2>. QED  BY <2>1, <2>2
<1>. HIDE DEF q, r
<1>3. q = S * u + v /\ u \in Int /\ v \in 0 .. (S - 1)
  BY <1>1, <1>2, DivMod
<1>. HIDE DEF u, v
<1>4. (K * v) + r \in 0 .. (K * S - 1)
  <2>1. K * v =< K * (S - 1) /\ K * v >= 0
    BY <1>1, <1>3
  <2>2. K * (S - 1) = K * S - K
    BY <1>1
  <2>. QED  BY <2>1, <2>2, <1>1, <1>2, <1>3
<1>5. tick % (K * S) = (K * v) + r
  <2>1. K * q = (K * S) * u + K * v
    BY <1>1, <1>2, <1>3
  <2>2. tick = (K * S) * u + ((K * v) + r)
    <3>1. (K * S) * u \in Int /\ K * v \in Int
      BY <1>1, <1>3
    <3>. QED  BY <3>1, <2>1, <1>1, <1>2
  <2>3. K * S \in Nat \ {0}
    BY <1>1
  <2>. HIDE DEF K, S
  <2>. QED  BY <2>2, <2>3, <1>3, <1>4, DivModUnique
<1>6. j \in 0 .. (N - 1)
  BY <1>1, <1>2, SymbolsOfSlot
<1>7. (((K * q) + r) * (S * N)) \div (K * S) = (q * N) + j
  BY <1>1, <1>2, SymbolsOfSlot
<1>8. (((K * v) + r) * (S * N)) \div (K * S) = (v * N) + j
  <2>1. v \in Nat
    BY <1>1, <1>3
  <2>. QED  BY <2>1, <1>1, <1>2, SymbolsOfSlot
<1>. HIDE DEF j
<1>9. SymbolOnAir(tick) = (q * N) + j
  BY <1>1, <1>2, <1>7 DEF SymbolOnAir, SymbolsPerSecond, S, N
<1>10. SymbolOnAir(tick % TicksPerSecond) = (v * N) + j
  BY <1>1, <1>5, <1>8 DEF SymbolOnAir, SymbolsPerSecond, S, N
<1>11. tick \div SlotTicks = q
  BY DEF q, K
<1>. QED  BY <1>2, <1>3, <1>6, <1>9, <1>10, <1>11 DEF S, N

\* The symbol index lies within the second: only a symbol that does not start
\* one is rounded down.
LEMMA SymbolIndexType ==
  ASSUME NEW tick \in Nat
  PROVE  /\ SymbolIndex(tick) \in 0 .. (SymbolsPerSecond - 1)
         /\ SystemSlot(tick) \in 0 .. (HyperSlots - 1)
         /\ SymbolOnAir(tick) \in Nat
<1>1. PICK q \in Nat, v \in 0 .. (SlotsPerSecond - 1), j \in 0 .. (NofSymbols - 1) :
        /\ tick \div SlotTicks = q
        /\ SymbolOnAir(tick) = (q * NofSymbols) + j
        /\ SymbolOnAir(tick % TicksPerSecond) = (v * NofSymbols) + j
  BY TickSplit
<1>2. (v * NofSymbols) + j \in 0 .. (SymbolsPerSecond - 1)
  <2>1. v * NofSymbols =< (SlotsPerSecond - 1) * NofSymbols /\ v * NofSymbols >= 0
    BY ClockAssumption
  <2>2. (SlotsPerSecond - 1) * NofSymbols = SlotsPerSecond * NofSymbols - NofSymbols
    BY ClockAssumption
  <2>. QED  BY <2>1, <2>2, ClockAssumption DEF SymbolsPerSecond
<1>3. LosesSymbol(tick) => (v * NofSymbols) + j # 0
  BY <1>1, ClockAssumption DEF LosesSymbol
<1>4. SymbolIndex(tick) \in 0 .. (SymbolsPerSecond - 1)
  BY <1>1, <1>2, <1>3, SymbolsPerSecondType DEF SymbolIndex
<1>5. SystemSlot(tick) \in 0 .. (HyperSlots - 1)
  BY <1>1, ClockAssumption DEF SystemSlot
<1>6. SymbolOnAir(tick) \in Nat
  BY <1>1, ClockAssumption
<1>. QED  BY <1>4, <1>5, <1>6

LEMMA WirePeriodType == Period * NofSymbols \in Nat \ {0}
BY ClockAssumption

LEMMA OfhSymbolType ==
  ASSUME NEW slot \in Nat, NEW symbol \in 0 .. (NofSymbols - 1)
  PROVE  OfhSymbolPoint(slot, symbol) \in WireSymbols
<1> DEFINE w == slot % Period
<1>1. w \in 0 .. (Period - 1)
  BY ClockAssumption
<1> HIDE DEF w
<1>2. w * NofSymbols =< (Period - 1) * NofSymbols /\ w * NofSymbols >= 0
  BY <1>1, ClockAssumption
<1>3. (Period - 1) * NofSymbols = Period * NofSymbols - NofSymbols
  BY ClockAssumption
<1>4. (w * NofSymbols) + symbol \in 0 .. (Period * NofSymbols - 1)
  BY <1>1, <1>2, <1>3, ClockAssumption, WirePeriodType
<1>. QED  BY <1>4 DEF OfhSymbolPoint, ToUint, WireSymbols, w

LEMMA CounterAfterType ==
  ASSUME NEW counter \in SeqIds, NEW id \in Int
  PROVE  id % NofSeqIds \in SeqIds /\ CounterAfter(counter, id % NofSeqIds) \in SeqIds
BY ChecksAssumption DEF SeqIds, CounterAfter

LEMMA AddType ==
  ASSUME counters \in [Counters -> Nat], NEW c \in Counters
  PROVE  /\ Add(c) \in [Counters -> Nat]
         /\ Add(c)[c] = counters[c] + 1
         /\ \A d \in Counters : d # c => Add(c)[d] = counters[d]
BY DEF Add
-----------------------------------------------------------------------------
LEMMA NotifierStepType ==
  ASSUME NotifierTypeOK, Start \/ Tick \/ StartReturns \/ StopReturns \/ Stop
                         \/ WorkerEnter \/ WorkerExit
  PROVE  NotifierTypeOK'
<1>1. CASE Start \/ Tick
  BY <1>1 DEF Start, Tick, NotifierTypeOK, MainStates
<1>2. CASE StartReturns \/ StopReturns \/ Stop
  BY <1>2 DEF StartReturns, StopReturns, Stop, NotifierTypeOK, MainStates
<1>3. CASE WorkerEnter \/ WorkerExit
  BY <1>3 DEF WorkerEnter, WorkerExit, NotifierTypeOK
<1>. QED  BY <1>1, <1>2, <1>3

LEMMA WorkerReadsType ==
  ASSUME NotifierTypeOK, WorkerFirst \/ Poll \/ Notify
  PROVE  NotifierTypeOK'
<1>1. CASE WorkerFirst
  <2>1. SymbolIndex(clock) \in 0 .. (SymbolsPerSecond - 1)
    BY SymbolIndexType DEF NotifierTypeOK
  <2>. QED  BY <1>1, <2>1 DEF WorkerFirst, NotifierTypeOK
<1>2. CASE Poll
  <2>1. /\ SymbolIndex(clock) \in 0 .. (SymbolsPerSecond - 1)
        /\ SystemSlot(clock) \in 0 .. (HyperSlots - 1)
    BY SymbolIndexType DEF NotifierTypeOK
  <2>2. SymbolIndex(clock) % NofSymbols \in 0 .. (NofSymbols - 1)
    BY <2>1, ClockAssumption
  <2>. QED  BY <1>2, <2>1, <2>2 DEF Poll, NotifierTypeOK
<1>3. CASE Notify
  <2>1. 0 \in 0 .. (HyperSlots - 1) /\ 0 \in 0 .. (NofSymbols - 1)
    BY ClockAssumption
  <2>. QED  BY <1>3, <2>1 DEF Notify, NotifierTypeOK, NoPoint
<1>. QED  BY <1>1, <1>2, <1>3

LEMMA TypeInit == Init => TypeOK
<1> SUFFICES ASSUME Init PROVE TypeOK
  OBVIOUS
<1>1. NotifierTypeOK
  <2>1. 0 \in 0 .. (SymbolsPerSecond - 1)
    BY SymbolsPerSecondType
  <2>2. NoPoint \in [slot : 0 .. (HyperSlots - 1), symbol : 0 .. (NofSymbols - 1), read : Nat \cup {-1}]
    BY ClockAssumption DEF NoPoint
  <2>. QED  BY <2>1, <2>2, NotifierAssumption DEF Init, NotifierInit, NotifierTypeOK, MainStates
<1>2. ota \in WireSymbols
  BY WirePeriodType DEF Init, WireSymbols
<1>3. seqCounter \in SeqIds /\ streamLast \in Int
  BY ChecksAssumption DEF Init, SeqIds
<1>4. counters \in [Counters -> Nat] /\ printed \in [Counters -> Nat]
  BY DEF Init
<1>5. frame \in [symbol : Int, id : Int]
  BY DEF Init, NoFrame
<1>6. /\ otaRead \in Nat \cup {-1}
      /\ rx \in {"idle", "window", "seq"}
      /\ row \in 0 .. 5
      /\ rowBegan \in Nat
      /\ events \in Nat
  BY DEF Init
<1>7. seqStarted \in BOOLEAN
  BY DEF Init
<1>. QED  BY <1>1, <1>2, <1>3, <1>4, <1>5, <1>6, <1>7, Zenon DEF TypeOK

LEMMA TypeInductive == TypeOK /\ [Next]_vars => TypeOK'
<1> SUFFICES ASSUME TypeOK, [Next]_vars PROVE TypeOK'
  OBVIOUS
<1>1. CASE (Start \/ Tick) /\ UNCHANGED <<checkerVars, rxVars, printVars, events>>
  <2>1. NotifierTypeOK'
    BY <1>1, NotifierStepType DEF TypeOK
  <2>. QED  BY <1>1, <2>1 DEF TypeOK, checkerVars, rxVars, printVars
<1>2. CASE MainReturns
  <2>1. NotifierTypeOK'
    BY <1>2, NotifierStepType DEF TypeOK, MainReturns
  <2>. QED  BY <1>2, <2>1 DEF MainReturns, TypeOK, checkerVars, rxVars, printVars
<1>3. CASE RuStart \/ RuStop
  BY <1>3 DEF RuStart, RuStop, TypeOK, NotifierTypeOK, MainStates, checkerVars, rxVars, printVars
<1>4. CASE PrintCounter
  <2> DEFINE c == PrintOrder[row + 1]
  <2>1. c \in Counters /\ Len(PrintOrder) = 6
    BY DEF PrintOrder, Counters, Verdicts, TypeOK
  <2>2. printed' = [printed EXCEPT ![c] = counters[c]] /\ row' = (row + 1) % 6
    BY <1>4, <2>1 DEF PrintCounter
  <2>3. printed' \in [Counters -> Nat]
    BY <2>1, <2>2 DEF TypeOK
  <2>4. row' \in 0 .. 5
    BY <2>2 DEF TypeOK
  <2>5. events' \in Nat /\ rowBegan' \in Nat
    BY <1>4 DEF PrintCounter, OneMoreEvent, TypeOK, Counters
  <2>. QED  BY <1>4, <2>3, <2>4, <2>5
       DEF PrintCounter, TypeOK, NotifierTypeOK, notifierVars, checkerVars, rxVars
<1>5. CASE StopMain
  <2>1. NotifierTypeOK'
    BY <1>5, NotifierStepType DEF TypeOK, StopMain
  <2>. QED  BY <1>5, <2>1 DEF StopMain, TypeOK, checkerVars, rxVars, printVars
<1>6. CASE (WorkerEnter \/ WorkerFirst \/ Poll \/ WorkerExit) /\ UNCHANGED <<checkerVars, rxVars, printVars, events>>
  <2>1. NotifierTypeOK'
    BY <1>6, NotifierStepType, WorkerReadsType DEF TypeOK
  <2>. QED  BY <1>6, <2>1 DEF TypeOK, checkerVars, rxVars, printVars
<1>7. CASE OnNewSymbol
  <2>1. NotifierTypeOK'
    BY <1>7, WorkerReadsType DEF OnNewSymbol, TypeOK
  <2>2. OfhSymbolPoint(point.slot, point.symbol) \in WireSymbols /\ point.read \in Nat \cup {-1}
    BY OfhSymbolType DEF TypeOK, NotifierTypeOK
  <2>. QED  BY <1>7, <2>1, <2>2 DEF OnNewSymbol, TypeOK, rxVars, printVars
<1>8. CASE OnFrame
  <2>1. frame' \in [symbol : Int, id : Int] /\ rx' \in {"idle", "window", "seq"}
    <3>1. SymbolOnAir(clock) \in Int
      BY SymbolIndexType DEF TypeOK, NotifierTypeOK
    <3>. QED  BY <1>8, <3>1, ReceptionAssumption DEF OnFrame, FrameRefused, TypeOK
  <2>2. counters' \in [Counters -> Nat]
    BY <1>8, AddType DEF OnFrame, FrameRefused, TypeOK, Counters
  <2>3. events' \in Nat
    BY <1>8 DEF OnFrame, OneMoreEvent, TypeOK
  <2>. QED  BY <1>8, <2>1, <2>2, <2>3
       DEF OnFrame, TypeOK, NotifierTypeOK, notifierVars, checkerVars, printVars
<1>9. CASE CheckWindow
  <2>1. counters' \in [Counters -> Nat]
    BY <1>9, AddType DEF CheckWindow, TypeOK, Counters
  <2>. QED  BY <1>9, <2>1
       DEF CheckWindow, TypeOK, NotifierTypeOK, notifierVars, checkerVars, printVars
<1>10. CASE CheckSeq
  <2>1. seqCounter' \in SeqIds /\ streamLast' \in Int
    BY <1>10, CounterAfterType DEF CheckSeq, TypeOK
  <2>2. counters' \in [Counters -> Nat]
    BY <1>10, AddType DEF CheckSeq, TypeOK, Counters
  <2>3. frame' \in [symbol : Int, id : Int]
    BY <1>10 DEF CheckSeq, NoFrame
  <2>. QED  BY <1>10, <2>1, <2>2, <2>3
       DEF CheckSeq, TypeOK, NotifierTypeOK, notifierVars, checkerVars, printVars
<1>11. CASE UNCHANGED vars
  BY <1>11 DEF vars, notifierVars, checkerVars, rxVars, printVars, TypeOK, NotifierTypeOK
<1>. QED
  BY <1>1, <1>2, <1>3, <1>4, <1>5, <1>6, <1>7, <1>8, <1>9, <1>10, <1>11
  DEF Next, WorkerStep

\* Type correctness of the notifier, the checkers, the counters and the rows.
THEOREM ReceptionTypeOK == Spec => []TypeOK
BY TypeInit, TypeInductive, PTL DEF Spec
-----------------------------------------------------------------------------
\* start() has waited for the worker, so no stop request is overwritten by it,
\* and stop() has waited for its end before it drops the subscribers.
HandshakeInv ==
  /\ main \notin {"init", "starting"} => worker # "off"
  /\ status # "running" => main \in {"stopping", "timing_stopped", "done"}
  /\ main = "stopping" => status # "running"
  /\ worker = "exited" <=> status = "stopped"
  /\ ~subscribed => worker = "exited"

LEMMA HandshakeInductive == TypeOK /\ HandshakeInv /\ [Next]_vars => HandshakeInv'
<1> SUFFICES ASSUME TypeOK, HandshakeInv, [Next]_vars PROVE HandshakeInv'
  OBVIOUS
<1> USE DEF HandshakeInv
<1>1. CASE Start \/ Tick
  BY <1>1 DEF Start, Tick
<1>2. CASE MainReturns
  BY <1>2 DEF MainReturns, StartReturns, StopReturns
<1>3. CASE RuStart \/ RuStop
  BY <1>3 DEF RuStart, RuStop
<1>4. CASE StopMain
  BY <1>4 DEF StopMain, Stop
<1>5. CASE WorkerEnter \/ WorkerFirst \/ Poll
  BY <1>5 DEF WorkerEnter, WorkerFirst, Poll, TypeOK, NotifierTypeOK, MainStates
<1>6. CASE WorkerExit
  BY <1>6 DEF WorkerExit
<1>7. CASE OnNewSymbol
  BY <1>7 DEF OnNewSymbol, Notify
<1>8. CASE PrintCounter \/ OnFrame \/ CheckWindow \/ CheckSeq
  BY <1>8 DEF PrintCounter, OnFrame, CheckWindow, CheckSeq, notifierVars
<1>9. CASE UNCHANGED vars
  BY <1>9 DEF vars, notifierVars
<1>. QED  BY <1>1, <1>2, <1>3, <1>4, <1>5, <1>6, <1>7, <1>8, <1>9 DEF Next, WorkerStep

\* The worker never goes through the notifiers while, or after, stop() clears
\* them, wherever it is when the request reaches it.
THEOREM ReceptionNoNotificationAfterClear == Spec => []NoNotificationAfterClear
<1>1. Init => HandshakeInv
  BY DEF Init, NotifierInit, HandshakeInv
<1>2. HandshakeInv => NoNotificationAfterClear
  BY DEF HandshakeInv, NoNotificationAfterClear
<1>. QED  BY <1>1, <1>2, HandshakeInductive, ReceptionTypeOK, PTL DEF Spec
-----------------------------------------------------------------------------
\* What is notified, and what the window checker stores, comes from one reading
\* of the clock.
PointInv ==
  /\ worker = "notify" =>
       /\ point.read \in Nat
       /\ point.slot = SystemSlot(point.read)
       /\ point.symbol = SymbolIndex(point.read) % NofSymbols
  /\ otaRead # -1 =>
       ota = OfhSymbolPoint(SystemSlot(otaRead), SymbolIndex(otaRead) % NofSymbols)

LEMMA PointInductive == TypeOK /\ PointInv /\ [Next]_vars => PointInv'
<1> SUFFICES ASSUME TypeOK, PointInv, [Next]_vars PROVE PointInv'
  OBVIOUS
<1> USE DEF PointInv
<1>1. CASE (Start \/ Tick) /\ UNCHANGED <<checkerVars, rxVars, printVars, events>>
  BY <1>1 DEF Start, Tick, checkerVars
<1>2. CASE MainReturns
  BY <1>2 DEF MainReturns, StartReturns, StopReturns, checkerVars
<1>3. CASE RuStart \/ RuStop
  BY <1>3 DEF RuStart, RuStop, checkerVars
<1>4. CASE StopMain
  BY <1>4 DEF StopMain, Stop, checkerVars
<1>5. CASE (WorkerEnter \/ WorkerFirst \/ WorkerExit) /\ UNCHANGED <<checkerVars, rxVars, printVars, events>>
  BY <1>5 DEF WorkerEnter, WorkerFirst, WorkerExit, checkerVars
<1>6. CASE Poll /\ UNCHANGED <<checkerVars, rxVars, printVars, events>>
  BY <1>6 DEF Poll, checkerVars, TypeOK, NotifierTypeOK
<1>7. CASE OnNewSymbol
  BY <1>7 DEF OnNewSymbol, Notify
<1>8. CASE PrintCounter \/ OnFrame \/ CheckWindow \/ CheckSeq
  BY <1>8 DEF PrintCounter, OnFrame, CheckWindow, CheckSeq, notifierVars, checkerVars
<1>9. CASE UNCHANGED vars
  BY <1>9 DEF vars, notifierVars, checkerVars
<1>. QED  BY <1>1, <1>2, <1>3, <1>4, <1>5, <1>6, <1>7, <1>8, <1>9 DEF Next, WorkerStep

LEMMA SpecPoint == Spec => []PointInv
<1>1. Init => PointInv
  BY DEF Init, NotifierInit, PointInv
<1>. QED  BY <1>1, PointInductive, ReceptionTypeOK, PTL DEF Spec

\* A symbol number is its slot and its place in the slot, also modulo a number
\* of whole slots.
LEMMA SymbolOfSlot ==
  ASSUME NEW H \in Nat \ {0}, NEW N \in Nat \ {0}, NEW q \in Int, NEW j \in 0 .. (N - 1)
  PROVE  /\ ((q * N) + j) % (H * N) = ((q % H) * N) + j
         /\ ((q * N) + j) % N = j
<1> DEFINE d == q \div H
           m == q % H
           W == H * N
<1>1. q = H * d + m /\ d \in Int /\ m \in 0 .. (H - 1)
  BY DivMod
<1>. HIDE DEF d, m
<1>2. (m * N) + j \in 0 .. (W - 1) /\ W \in Nat \ {0}
  <2>1. m * N =< (H - 1) * N /\ m * N >= 0
    BY <1>1
  <2>2. (H - 1) * N = H * N - N
    OBVIOUS
  <2>. QED  BY <2>1, <2>2, <1>1
<1>3. (q * N) + j = W * d + ((m * N) + j)
  <2>1. q * N = W * d + m * N
    BY <1>1
  <2>2. q * N \in Int /\ W * d \in Int /\ m * N \in Int
    BY <1>1
  <2>. HIDE DEF W
  <2>. QED  BY <2>1, <2>2
<1>4. (q * N) + j \in Int
  OBVIOUS
<1>. HIDE DEF W
<1>5. ((q * N) + j) % W = (m * N) + j
  BY <1>1, <1>2, <1>3, <1>4, DivModUnique
<1>6. ((q * N) + j) % N = j
  <2>1. (q * N) + j = N * q + j
    OBVIOUS
  <2>. QED  BY <2>1, <1>4, DivModUnique
<1>. QED  BY <1>5, <1>6 DEF W, m

\* The point computed from a clock reading, against the symbol on air.
LEMMA PointOnAir ==
  ASSUME NEW tick \in Nat
  PROVE  LET onAir == SymbolOnAir(tick) % (HyperSlots * NofSymbols)
             notified == ToUint(SystemSlot(tick), SymbolIndex(tick) % NofSymbols)
         IN  \/ ~LosesSymbol(tick) /\ notified = onAir
             \/ LosesSymbol(tick) /\ onAir % NofSymbols # 0 /\ notified = onAir - 1
             \/ LosesSymbol(tick) /\ onAir % NofSymbols = 0 /\ notified = onAir + NofSymbols - 1
<1> DEFINE N == NofSymbols
           H == HyperSlots
           onAir == SymbolOnAir(tick) % (H * N)
           notified == ToUint(SystemSlot(tick), SymbolIndex(tick) % N)
<1>1. PICK q \in Nat, v \in 0 .. (SlotsPerSecond - 1), j \in 0 .. (N - 1) :
        /\ tick \div SlotTicks = q
        /\ SymbolOnAir(tick) = (q * N) + j
        /\ SymbolOnAir(tick % TicksPerSecond) = (v * N) + j
  BY TickSplit
<1>2. N \in Nat \ {0} /\ H \in Nat \ {0}
  BY ClockAssumption
<1> DEFINE s == q % H
<1>3. s \in Nat /\ SystemSlot(tick) = s
  BY <1>1, <1>2 DEF SystemSlot
<1>. HIDE DEF N, H
<1>4. onAir = (s * N) + j
  <2>1. q \in Int
    OBVIOUS
  <2>2. ((q * N) + j) % (H * N) = (s * N) + j
    BY <2>1, <1>2, SymbolOfSlot
  <2>. QED  BY <2>2, <1>1
<1>. HIDE DEF s
<1>5. onAir % N = j
  BY <1>2, <1>3, <1>4, SymbolOfSlot
<1>6. notified = (s * N) + (SymbolIndex(tick) % N)
  BY <1>3 DEF ToUint, N
<1>7. v \in Int
  BY ClockAssumption
<1>8. CASE ~LosesSymbol(tick)
  <2>1. SymbolIndex(tick) = (v * N) + j
    BY <1>1, <1>2, <1>7, <1>8 DEF SymbolIndex
  <2>2. SymbolIndex(tick) % N = j
    BY <2>1, <1>2, <1>7, SymbolOfSlot
  <2>. QED  BY <2>2, <1>4, <1>6, <1>8 DEF N, H
<1>9. CASE LosesSymbol(tick) /\ j # 0
  <2>1. SymbolIndex(tick) = (v * N) + (j - 1)
    BY <1>1, <1>2, <1>7, <1>9 DEF SymbolIndex
  <2>2. SymbolIndex(tick) % N = j - 1
    BY <2>1, <1>2, <1>7, <1>9, SymbolOfSlot
  <2>3. notified = onAir - 1
    BY <2>2, <1>2, <1>3, <1>4, <1>6
  <2>. QED  BY <2>3, <1>5, <1>9 DEF N, H
<1>10. CASE LosesSymbol(tick) /\ j = 0
  <2>1. SymbolIndex(tick) = ((v - 1) * N) + (N - 1)
    BY <1>1, <1>2, <1>7, <1>10 DEF SymbolIndex
  <2>2. SymbolIndex(tick) % N = N - 1
    <3>1. v - 1 \in Int /\ N - 1 \in 0 .. (N - 1)
      BY <1>2, <1>7
    <3>. QED  BY <2>1, <3>1, <1>2, SymbolOfSlot
  <2>3. notified = onAir + N - 1
    BY <2>2, <1>2, <1>3, <1>4, <1>6, <1>10
  <2>. QED  BY <2>3, <1>5, <1>10 DEF N, H
<1>. QED  BY <1>8, <1>9, <1>10

\* What is notified is the symbol that was on air when the clock was read, in
\* the slot that was on air, but for a reading at the very start of a symbol
\* whose index is rounded down: across every wrap of the second and of the
\* hyper frame.
THEOREM ReceptionNotifiedIsOnAir == Spec => []NotifiedIsOnAir
<1>1. PointInv => NotifiedIsOnAir
  <2> SUFFICES ASSUME PointInv, worker = "notify" PROVE NotifiedIsOnAir
    BY DEF NotifiedIsOnAir
  <2>1. /\ point.read \in Nat
        /\ point.slot = SystemSlot(point.read)
        /\ point.symbol = SymbolIndex(point.read) % NofSymbols
    BY DEF PointInv
  <2>. QED  BY <2>1, PointOnAir DEF NotifiedIsOnAir
<1>. QED  BY <1>1, SpecPoint, PTL
-----------------------------------------------------------------------------
\* A message is counted as received before it is judged, and a row fetches the
\* verdicts before the received messages: what it has fetched of the verdicts, and
\* what it still has to fetch, covers what had been received when it began.
CountInv ==
  /\ counters["rx"] = counters["on_time"] + counters["late"] + counters["early"]
                        + (IF rx = "window" THEN 1 ELSE 0)
  /\ \A c \in Counters : printed[c] =< counters[c]
  /\ row \in {0, 4, 5} =>
       printed["rx"] >= printed["on_time"] + printed["late"] + printed["early"]
  /\ row = 1 => printed["on_time"] + counters["late"] + counters["early"] >= rowBegan - 1
  /\ row = 2 => printed["on_time"] + printed["late"] + counters["early"] >= rowBegan - 1
  /\ row \notin {1, 2} =>
       printed["on_time"] + printed["late"] + printed["early"] >= rowBegan - 1

LEMMA CounterNames ==
  /\ "rx" \in Counters /\ "on_time" \in Counters /\ "late" \in Counters
  /\ "early" \in Counters /\ "refused" \in Counters /\ "seq" \in Counters
BY DEF Counters, Verdicts

\* A counter outside the sum may grow while no frame is being judged.
LEMMA OtherCounter ==
  ASSUME TypeOK, CountInv, rx # "window", rx' # "window", UNCHANGED printVars,
         NEW c \in {"refused", "seq"}, counters' = Add(c)
  PROVE  CountInv'
<1>1. counters \in [Counters -> Nat] /\ printed \in [Counters -> Nat]
  BY DEF TypeOK
<1>2. c \in Counters
  BY CounterNames
<1>3. /\ counters'[c] = counters[c] + 1
      /\ \A d \in Counters : d # c => counters'[d] = counters[d]
  BY <1>1, <1>2, AddType
<1>4. /\ counters'["rx"] = counters["rx"] /\ counters'["on_time"] = counters["on_time"]
      /\ counters'["late"] = counters["late"] /\ counters'["early"] = counters["early"]
  BY <1>3, CounterNames
<1>5. /\ counters["rx"] \in Nat /\ counters["on_time"] \in Nat
      /\ counters["late"] \in Nat /\ counters["early"] \in Nat
  BY <1>1, CounterNames
<1>6. /\ printed["on_time"] \in Nat /\ printed["late"] \in Nat
      /\ printed["early"] \in Nat /\ rowBegan \in Nat
  BY <1>1, CounterNames DEF TypeOK
<1>7. \A d \in Counters : printed'[d] =< counters'[d]
  BY <1>1, <1>2, <1>3 DEF CountInv, printVars
<1>. QED  BY <1>4, <1>5, <1>6, <1>7 DEF CountInv, printVars

LEMMA CountInductive == TypeOK /\ CountInv /\ [Next]_vars => CountInv'
<1> SUFFICES ASSUME TypeOK, CountInv, [Next]_vars PROVE CountInv'
  OBVIOUS
<1>0. /\ counters \in [Counters -> Nat] /\ printed \in [Counters -> Nat]
      /\ row \in 0 .. 5 /\ rowBegan \in Nat
  BY DEF TypeOK
<1>a. /\ counters["rx"] \in Nat /\ counters["on_time"] \in Nat
      /\ counters["late"] \in Nat /\ counters["early"] \in Nat
      /\ printed["rx"] \in Nat /\ printed["on_time"] \in Nat
      /\ printed["late"] \in Nat /\ printed["early"] \in Nat
  BY <1>0, CounterNames
<1>1. CASE UNCHANGED <<rxVars, printVars>>
  BY <1>1 DEF CountInv, rxVars, printVars
<1>2. CASE OnFrame
  <2>1. CASE FrameRefused
    <3>1. counters' = Add("refused") /\ rx # "window" /\ rx' # "window" /\ UNCHANGED printVars
      BY <2>1, <1>2 DEF OnFrame, FrameRefused
    <3>. QED  BY <3>1, OtherCounter
  <2>2. CASE rx' = "window" /\ counters' = Add("rx")
    <3>1. /\ counters'["rx"] = counters["rx"] + 1
          /\ \A d \in Counters : d # "rx" => counters'[d] = counters[d]
      BY <2>2, <1>0, AddType, CounterNames
    <3>2. rx = "idle" /\ UNCHANGED <<printed, row, rowBegan>>
      BY <1>2 DEF OnFrame, printVars
    <3>3. \A c \in Counters : printed'[c] =< counters'[c]
      BY <3>1, <3>2, <1>0 DEF CountInv
    <3>4. /\ counters'["on_time"] = counters["on_time"]
          /\ counters'["late"] = counters["late"] /\ counters'["early"] = counters["early"]
      BY <3>1, CounterNames
    <3>. QED  BY <3>1, <3>2, <3>3, <3>4, <2>2, <1>0, <1>a DEF CountInv
  <2>. QED  BY <1>2, <2>1, <2>2 DEF OnFrame
<1>3. CASE CheckWindow
  <2>1. PICK v \in Verdicts : counters' = Add(v)
    BY <1>3 DEF CheckWindow
  <2>2. v \in Counters /\ v # "rx"
    BY DEF Counters, Verdicts
  <2>3. /\ counters'[v] = counters[v] + 1
        /\ \A d \in Counters : d # v => counters'[d] = counters[d]
    BY <2>1, <2>2, <1>0, AddType
  <2>4. \A c \in Counters : printed'[c] =< counters'[c]
    BY <1>0, <1>3, <2>2, <2>3 DEF CountInv, CheckWindow, printVars
  <2>5. /\ rx = "window" /\ rx' # "window"
        /\ UNCHANGED <<printed, row, rowBegan>>
    BY <1>3 DEF CheckWindow, printVars
  <2>6. /\ counters'["rx"] = counters["rx"]
        /\ counters'["on_time"] = counters["on_time"] + (IF v = "on_time" THEN 1 ELSE 0)
        /\ counters'["late"] = counters["late"] + (IF v = "late" THEN 1 ELSE 0)
        /\ counters'["early"] = counters["early"] + (IF v = "early" THEN 1 ELSE 0)
    BY <2>2, <2>3, <1>a, CounterNames
  <2>7. v \in {"on_time", "late", "early"}
    BY DEF Verdicts
  <2>. QED  BY <2>4, <2>5, <2>6, <2>7, <1>0, <1>a DEF CountInv
<1>4. CASE CheckSeq
  <2>1. /\ rx # "window" /\ rx' # "window" /\ UNCHANGED printVars
        /\ counters' = Add("seq") \/ counters' = counters
    BY <1>4 DEF CheckSeq
  <2>2. CASE counters' = counters
    BY <2>1, <2>2, <1>0, <1>a DEF CountInv, printVars
  <2>3. CASE counters' = Add("seq")
    BY <2>1, <2>3, OtherCounter
  <2>. QED  BY <2>1, <2>2, <2>3
<1>5. CASE PrintCounter
  <2> DEFINE c == PrintOrder[row + 1]
  <2>1. /\ row = 0 => c = "on_time"
        /\ row = 1 => c = "late"
        /\ row = 2 => c = "early"
        /\ row = 3 => c = "rx"
        /\ row = 4 => c = "refused"
        /\ row = 5 => c = "seq"
        /\ Len(PrintOrder) = 6
    BY DEF PrintOrder
  <2>2. printed' = [printed EXCEPT ![c] = counters[c]] /\ row' = (row + 1) % 6
    BY <1>5, <2>1 DEF PrintCounter
  <2>3. /\ counters' = counters /\ rx' = rx
        /\ rowBegan' = IF row = 0 THEN counters["rx"] ELSE rowBegan
    BY <1>5 DEF PrintCounter, rxVars
  <2>. HIDE DEF c
  <2>4. \A d \in Counters : printed'[d] = IF d = c THEN counters[d] ELSE printed[d]
    BY <2>2, <1>0
  <2>5. \A d \in Counters : printed'[d] =< counters'[d]
    BY <2>3, <2>4, <1>0 DEF CountInv
  <2>6. /\ printed'["on_time"] = IF row = 0 THEN counters["on_time"] ELSE printed["on_time"]
        /\ printed'["late"] = IF row = 1 THEN counters["late"] ELSE printed["late"]
        /\ printed'["early"] = IF row = 2 THEN counters["early"] ELSE printed["early"]
        /\ printed'["rx"] = IF row = 3 THEN counters["rx"] ELSE printed["rx"]
    BY <2>1, <2>4, <1>0, CounterNames
  <2>7. /\ printed["on_time"] =< counters["on_time"] /\ printed["late"] =< counters["late"]
        /\ printed["early"] =< counters["early"]
    BY CounterNames DEF CountInv
  <2>8. row' = IF row = 5 THEN 0 ELSE row + 1
    BY <2>2, <1>0
  <2>. QED  BY <2>3, <2>5, <2>6, <2>7, <2>8, <1>0, <1>a DEF CountInv
<1>6. CASE \/ (Start \/ Tick) /\ UNCHANGED <<checkerVars, rxVars, printVars, events>>
           \/ MainReturns \/ RuStart \/ RuStop \/ StopMain \/ WorkerStep
  BY <1>1, <1>6 DEF MainReturns, RuStart, RuStop, StopMain, WorkerStep, OnNewSymbol
<1>7. CASE UNCHANGED vars
  BY <1>1, <1>7 DEF vars
<1>. QED  BY <1>2, <1>3, <1>4, <1>5, <1>6, <1>7 DEF Next

\* The rows printed so far, added up, never show more judged messages than
\* received ones, and miss at most one of those received before the last row was
\* begun, wherever the receive thread is while print_statistics fetches them.
THEOREM ReceptionRowAccountsForFrames == Spec => []RowAccountsForFrames
<1>1. Init => CountInv
  BY CounterNames DEF Init, CountInv
<1>2. CountInv => RowAccountsForFrames
  BY DEF CountInv, RowAccountsForFrames
<1>. QED  BY <1>1, <1>2, CountInductive, ReceptionTypeOK, PTL DEF Spec
-----------------------------------------------------------------------------
\* The distance of two numbers, recovered from what is left of them after they
\* wrap.
LEMMA WrappedDistance ==
  ASSUME NEW W \in Nat \ {0}, NEW a \in Int, NEW b \in Int,
         a - b \in (-(W \div 2)) .. (W \div 2 - 1)
  PROVE  Wrapped((a % W) - (b % W), W) = a - b
<1> DEFINE half == W \div 2
           r == a % W
           s == b % W
           k == (b \div W) - (a \div W)
<1>1. half \in Nat /\ half + half =< W
  OBVIOUS
<1>2. r \in 0 .. (W - 1) /\ s \in 0 .. (W - 1) /\ k \in Int /\ r - s = (a - b) + W * k
  <2> DEFINE d == a \div W
             e == b \div W
  <2>1. a = W * d + r /\ d \in Int /\ r \in 0 .. (W - 1)
    BY DivMod
  <2>2. b = W * e + s /\ e \in Int /\ s \in 0 .. (W - 1)
    BY DivMod
  <2>. HIDE DEF d, e, r, s
  <2>3. W * (e - d) = W * e - W * d
    BY <2>1, <2>2
  <2>. QED  BY <2>1, <2>2, <2>3 DEF d, e
<1>3. a - b \in (-half) .. (half - 1)
  OBVIOUS
<1>. HIDE DEF half, r, s, k
<1>4. k \in {-1, 0, 1}
  <2>1. k >= 2 => W * k >= 2 * W
    BY <1>2
  <2>2. k =< -2 => W * k =< -(2 * W)
    BY <1>2
  <2>. QED  BY <2>1, <2>2, <1>1, <1>2, <1>3
<1>5. r - s \in {(a - b) - W, a - b, (a - b) + W}
  BY <1>2, <1>4
<1>. QED  BY <1>1, <1>2, <1>3, <1>5 DEF Wrapped, half, r, s

\* The sequence checker expects the identifier after the last of the stream.
StreamInv ==
  /\ seqStarted => seqCounter = streamLast % NofSeqIds
  /\ rx # "idle" => \E m \in Messages : frame.id = streamLast + 1 + m.gap

\* What the checker computes for a message, from what is left of the
\* identifiers modulo their number.
LEMMA SkippedIsGap ==
  ASSUME TypeOK, StreamInv, ShortGaps, rx # "idle", seqStarted
  PROVE  SkippedIds(frame.id % NofSeqIds, (seqCounter + 1) % NofSeqIds)
           = frame.id - (streamLast + 1)
<1>1. PICK m \in Messages : frame.id = streamLast + 1 + m.gap
  BY DEF StreamInv
<1>2. m.gap \in Int /\ streamLast \in Int /\ frame.id \in Int
  BY ReceptionAssumption DEF TypeOK
<1>3. m.gap \in (-(NofSeqIds \div 2)) .. (NofSeqIds \div 2 - 1)
  BY DEF ShortGaps
<1>4. (seqCounter + 1) % NofSeqIds = (streamLast + 1) % NofSeqIds
  <2>1. NofSeqIds \in Nat \ {0} /\ 1 \in Int
    BY ChecksAssumption
  <2>2. ((streamLast % NofSeqIds) + 1) % NofSeqIds = (streamLast + 1) % NofSeqIds
    BY <2>1, <1>2, ModAdd, Zenon
  <2>. QED  BY <2>2 DEF StreamInv
<1>5. frame.id - (streamLast + 1) = m.gap
  BY <1>1, <1>2
<1>6. streamLast + 1 \in Int
  BY <1>2
<1>. QED  BY <1>2, <1>3, <1>4, <1>5, <1>6, WrappedDistance, ChecksAssumption, ZenonT(30) DEF SkippedIds

LEMMA StreamInductive == TypeOK /\ ShortGaps /\ StreamInv /\ [Next]_vars => StreamInv'
<1> SUFFICES ASSUME TypeOK, ShortGaps, StreamInv, [Next]_vars PROVE StreamInv'
  OBVIOUS
<1>1. CASE UNCHANGED rxVars
  BY <1>1 DEF StreamInv, rxVars
<1>2. CASE OnFrame
  <2>1. CASE FrameRefused
    BY <2>1, <1>2 DEF StreamInv, OnFrame, FrameRefused
  <2>2. CASE \E m \in Messages : frame' = [symbol |-> SymbolOnAir(clock) + m.lead, id |-> streamLast + 1 + m.gap]
    BY <2>2, <1>2 DEF StreamInv, OnFrame
  <2>. QED  BY <1>2, <2>1, <2>2 DEF OnFrame
<1>3. CASE CheckWindow
  BY <1>3 DEF StreamInv, CheckWindow
<1>4. CASE CheckSeq
  <2>1. rx = "seq" /\ rx' = "idle" /\ seqStarted'
    BY <1>4 DEF CheckSeq
  <2>2. streamLast \in Int /\ frame.id \in Int
    BY DEF TypeOK
  <2>3. CASE ~seqStarted
    BY <2>1, <2>3, <1>4 DEF StreamInv, CheckSeq
  <2>4. CASE seqStarted /\ frame.id >= streamLast + 1
    <3>1. seqCounter' = frame.id % NofSeqIds
      BY <2>1, <2>2, <2>4, <1>4, SkippedIsGap DEF CheckSeq, CounterAfter
    <3>2. streamLast' = frame.id
      BY <2>2, <2>4, <1>4 DEF CheckSeq
    <3>. QED  BY <3>1, <3>2, <2>1 DEF StreamInv
  <2>5. CASE seqStarted /\ frame.id < streamLast + 1
    <3>1. seqCounter' = seqCounter
      BY <2>1, <2>2, <2>5, <1>4, SkippedIsGap DEF CheckSeq, CounterAfter
    <3>2. streamLast' = streamLast
      BY <2>2, <2>5, <1>4 DEF CheckSeq
    <3>. QED  BY <3>1, <3>2, <2>1, <2>5 DEF StreamInv
  <2>. QED  BY <2>2, <2>3, <2>4, <2>5
<1>5. CASE \/ (Start \/ Tick) /\ UNCHANGED <<checkerVars, rxVars, printVars, events>>
           \/ MainReturns \/ RuStart \/ RuStop \/ StopMain \/ WorkerStep \/ PrintCounter
  BY <1>1, <1>5 DEF MainReturns, RuStart, RuStop, StopMain, WorkerStep, OnNewSymbol, PrintCounter
<1>6. CASE UNCHANGED vars
  BY <1>1, <1>6 DEF vars
<1>. QED  BY <1>2, <1>3, <1>4, <1>5, <1>6 DEF Next

\* An error is counted for exactly the messages that are not the next of their
\* stream, for every number of identifiers and every loss, repetition or
\* overtaking shorter than half of them.
THEOREM ReceptionErrorsMatchStream == ShortGaps /\ Spec => ErrorsMatchStream
<1> SUFFICES ASSUME ShortGaps PROVE Spec => ErrorsMatchStream
  OBVIOUS
<1> DEFINE Step == rx = "seq" /\ rx' = "idle" /\ seqStarted =>
                     (counters'["seq"] # counters["seq"] <=> frame.id # streamLast + 1)
<1>1. Init => StreamInv
  BY DEF Init, StreamInv
<1>2. TypeOK /\ StreamInv /\ [Next]_vars => [Step]_vars
  <2> SUFFICES ASSUME TypeOK, StreamInv, Next, rx = "seq", rx' = "idle", seqStarted
               PROVE  counters'["seq"] # counters["seq"] <=> frame.id # streamLast + 1
    BY DEF vars
  <2>1. CheckSeq
    <3>1. rx' # rx
      OBVIOUS
    <3>2. CASE \/ (Start \/ Tick) /\ UNCHANGED <<checkerVars, rxVars, printVars, events>>
               \/ MainReturns \/ RuStart \/ RuStop \/ StopMain \/ WorkerStep \/ PrintCounter
      BY <3>1, <3>2 DEF MainReturns, RuStart, RuStop, StopMain, WorkerStep, OnNewSymbol, PrintCounter, rxVars
    <3>3. CASE OnFrame \/ CheckWindow
      BY <3>3 DEF OnFrame, CheckWindow
    <3>. QED  BY <3>2, <3>3 DEF Next
  <2>2. SkippedIds(frame.id % NofSeqIds, (seqCounter + 1) % NofSeqIds) = frame.id - (streamLast + 1)
    BY SkippedIsGap
  <2>3. streamLast \in Int /\ frame.id \in Int /\ counters \in [Counters -> Nat]
    BY DEF TypeOK
  <2>4. Add("seq")["seq"] = counters["seq"] + 1 /\ counters["seq"] \in Nat
    BY <2>3, AddType, CounterNames
  <2>5. counters' = IF frame.id - (streamLast + 1) # 0 THEN Add("seq") ELSE counters
    BY <2>1, <2>2 DEF CheckSeq
  <2>. QED  BY <2>3, <2>4, <2>5
<1>3. TypeOK /\ StreamInv /\ [Next]_vars => StreamInv'
  BY StreamInductive
<1>. QED  BY <1>1, <1>2, <1>3, ReceptionTypeOK, PTL DEF Spec, ErrorsMatchStream
-----------------------------------------------------------------------------
\* The stored symbol is the one on air at the reading, in the wire numbering.
LEMMA OtaOnAir ==
  ASSUME NEW tick \in Nat, ~LosesSymbol(tick)
  PROVE  OfhSymbolPoint(SystemSlot(tick), SymbolIndex(tick) % NofSymbols)
           = SymbolOnAir(tick) % (Period * NofSymbols)
<1> DEFINE N == NofSymbols
           H == HyperSlots
           P == Period
           s == SystemSlot(tick)
           j == SymbolIndex(tick) % N
           a == SymbolOnAir(tick)
<1>1. N \in Nat \ {0} /\ H \in Nat \ {0} /\ P \in Nat \ {0} /\ H % P = 0
  BY ClockAssumption
<1>2. s \in Int /\ j \in 0 .. (N - 1) /\ a \in Int
  BY <1>1, SymbolIndexType
<1>3. (s * N) + j = a % (H * N)
  <2>1. ToUint(s, j) = a % (H * N)
    BY PointOnAir
  <2>. QED  BY <2>1 DEF ToUint
<1>. HIDE DEF N, H, P, s, j, a
<1>4. ((s * N) + j) % (P * N) = ((s % P) * N) + j
  <2>1. P \in Nat \ {0}
    BY <1>1
  <2>2. N \in Nat \ {0}
    BY <1>1
  <2>3. s \in Int
    BY <1>2
  <2>4. j \in 0 .. (N - 1)
    BY <1>2
  <2>. QED  BY <2>1, <2>2, <2>3, <2>4, SymbolOfSlot
<1>5. (a % (H * N)) % (P * N) = a % (P * N)
  <2>1. PICK k \in Int : H = P * k
    <3>1. H = P * (H \div P) + (H % P) /\ H \div P \in Int
      BY <1>1, DivMod
    <3>. QED  BY <3>1, <1>1
  <2>2. H * N = (P * N) * k + 0
    BY <2>1, <1>1
  <2>3. P * N \in Nat \ {0} /\ H * N \in Nat \ {0} /\ 0 \in 0 .. (P * N - 1)
    BY <1>1
  <2>. DEFINE V == P * N
              U == H * N
  <2>. HIDE DEF V, U
  <2>4. U = V * k + 0 /\ V \in Nat \ {0} /\ U \in Nat \ {0} /\ 0 \in 0 .. (V - 1)
    BY <2>2, <2>3 DEF V, U
  <2>5. U % V = 0
    BY <2>4, DivModUnique
  <2>6. (a % U) % V = a % V
    BY <2>4, <2>5, <1>2, ModMod
  <2>. QED  BY <2>6 DEF V, U
<1>6. ((s % P) * N) + j = a % (P * N)
  BY <1>3, <1>4, <1>5
<1>. QED  BY <1>6 DEF OfhSymbolPoint, ToUint, N, P, s, j, a

\* A lead of d whole symbols, less the part of the current symbol that is over
\* (rem), against a window given in ticks and rounded inwards to symbols.
LEMMA WindowInSymbols ==
  ASSUME NEW T \in Nat \ {0}, NEW low \in Nat, NEW high \in Nat,
         NEW d \in Int, NEW rem \in 0 .. (T - 1)
  PROVE  LET lead == (T * d) - rem
             first == (low + T - 1) \div T
             last == high \div T
         IN  /\ d =< last => lead =< high
             /\ d > last => lead > high - T
             /\ d >= first => lead > low - T
             /\ d < first => lead < low
             /\ lead >= low => d >= first
             /\ lead =< high - T => d =< last
<1> DEFINE first == (low + T - 1) \div T
           fr == (low + T - 1) % T
           last == high \div T
           lr == high % T
<1>1. low + T - 1 = T * first + fr /\ first \in Int /\ fr \in 0 .. (T - 1)
  <2>1. low + T - 1 \in Int
    OBVIOUS
  <2>. QED  BY <2>1, DivMod
<1>2. high = T * last + lr /\ last \in Int /\ lr \in 0 .. (T - 1)
  BY DivMod
<1>. HIDE DEF first, fr, last, lr
<1>3. d =< last => T * d =< T * last
  BY <1>2
<1>4. d > last => T * d >= (T * last) + T
  <2>1. d > last => T * d >= T * (last + 1)
    BY <1>2
  <2>2. T * (last + 1) = (T * last) + T
    BY <1>2
  <2>. QED  BY <2>1, <2>2
<1>5. d >= first => T * d >= T * first
  BY <1>1
<1>6. d < first => T * d =< (T * first) - T
  <2>1. d < first => T * d =< T * (first - 1)
    BY <1>1
  <2>2. T * (first - 1) = (T * first) - T
    BY <1>1
  <2>. QED  BY <2>1, <2>2
<1>7. T * d \in Int /\ T * first \in Int /\ T * last \in Int
  BY <1>1, <1>2
<1>8. (T * d) - rem >= low => d >= first
  BY <1>1, <1>6, <1>7
<1>9. (T * d) - rem =< high - T => d =< last
  BY <1>2, <1>4, <1>7
<1>. QED  BY <1>1, <1>2, <1>3, <1>4, <1>5, <1>6, <1>7, <1>8, <1>9 DEF first, last

\* The verdict in terms of the lead in ticks.
LEMMA VerdictOfLead ==
  ASSUME TypeOK, PointInv, otaRead # -1, ~LosesSymbol(otaRead), WithinHalfAPeriod
  PROVE  LET v == WindowVerdict(frame.symbol % (Period * NofSymbols), ota)
             low == T2aMin * SymbolsPerSecond
             high == T2aMax * SymbolsPerSecond
         IN  /\ v = "on_time" => LeadOfFrame > low - TicksPerSecond /\ LeadOfFrame =< high
             /\ LeadOfFrame >= low /\ LeadOfFrame =< high - TicksPerSecond => v = "on_time"
             /\ v = "late" => LeadOfFrame < low
             /\ v = "early" => LeadOfFrame > high - TicksPerSecond
<1> DEFINE W == Period * NofSymbols
           T == TicksPerSecond
           R == SymbolsPerSecond
           a == SymbolOnAir(otaRead)
           d == frame.symbol - a
           rem == (otaRead * R) % T
           low == T2aMin * R
           high == T2aMax * R
           v == WindowVerdict(frame.symbol % W, ota)
<1>1. otaRead \in Nat /\ frame.symbol \in Int /\ a \in Int
  <2>1. otaRead \in Nat
    BY DEF TypeOK
  <2>. QED  BY <2>1, SymbolIndexType DEF TypeOK
<1>2. T \in Nat \ {0} /\ R \in Nat \ {0} /\ W \in Nat \ {0}
  BY ClockAssumption, SymbolsPerSecondType, WirePeriodType
<1>3. ota = a % W
  BY <1>1, OtaOnAir DEF PointInv
<1>4. SymbolDistance(frame.symbol % W, ota) = d
  <2>1. d \in (-(W \div 2)) .. (W \div 2 - 1)
    BY DEF WithinHalfAPeriod
  <2>2. Wrapped((frame.symbol % W) - (a % W), W) = frame.symbol - a
    BY <2>1, <1>1, <1>2, WrappedDistance
  <2>. QED  BY <2>2, <1>3 DEF SymbolDistance
<1>5. otaRead * R = T * a + rem /\ rem \in 0 .. (T - 1)
  <2>1. otaRead * R \in Int
    BY <1>1, <1>2
  <2>2. a = (otaRead * R) \div T
    BY DEF SymbolOnAir
  <2>. HIDE DEF a, R, T
  <2>. QED  BY <2>1, <2>2, <1>2, DivMod
<1>6. low \in Nat /\ high \in Nat
  BY <1>2, ChecksAssumption
<1>7. SymEnd = high \div T /\ SymStart = (low + T - 1) \div T
  BY DEF SymEnd, SymStart
<1>8. v = IF d > SymEnd THEN "early" ELSE IF d < SymStart THEN "late" ELSE "on_time"
  BY <1>4 DEF WindowVerdict
<1>. HIDE DEF W, T, R, a, rem, low, high, v
<1>9. LeadOfFrame = (T * d) - rem /\ d \in Int
  <2>1. T * (frame.symbol - a) = frame.symbol * T - T * a
    BY <1>1, <1>2
  <2>2. frame.symbol * T \in Int /\ T * a \in Int /\ otaRead * R \in Int
    BY <1>1, <1>2
  <2>3. LeadOfFrame = frame.symbol * T - otaRead * R
    BY DEF LeadOfFrame, T, R
  <2>. QED  BY <2>1, <2>2, <2>3, <1>1, <1>5
<1>. HIDE DEF d
<1>10. /\ d =< SymEnd => LeadOfFrame =< high
       /\ d > SymEnd => LeadOfFrame > high - T
       /\ d >= SymStart => LeadOfFrame > low - T
       /\ d < SymStart => LeadOfFrame < low
       /\ LeadOfFrame >= low => d >= SymStart
       /\ LeadOfFrame =< high - T => d =< SymEnd
  BY <1>2, <1>5, <1>6, <1>7, <1>9, WindowInSymbols
<1>11. SymStart \in Int /\ SymEnd \in Int
  BY <1>2, <1>6, <1>7
<1>12. /\ v = "on_time" => LeadOfFrame > low - T /\ LeadOfFrame =< high
       /\ LeadOfFrame >= low /\ LeadOfFrame =< high - T => v = "on_time"
       /\ v = "late" => LeadOfFrame < low
       /\ v = "early" => LeadOfFrame > high - T
  BY <1>8, <1>9, <1>10, <1>11
<1>. QED  BY <1>12 DEF v, W, T, R, low, high

\* The verdict on a message is the one its lead over the air time calls for, to
\* within the symbol the OTA time is counted in: for every T2a window, across
\* the wrap of the wire numbering and the end of a second.
THEOREM ReceptionVerdictWithinT2a == Spec => VerdictWithinT2a
<1> DEFINE onTime == counters'["on_time"] # counters["on_time"]
           low == T2aMin * SymbolsPerSecond
           high == T2aMax * SymbolsPerSecond
           Judged == rx = "window" /\ rx' = "seq" /\ otaRead # -1 /\ ~LosesSymbol(otaRead) /\ WithinHalfAPeriod
           Right == /\ onTime => LeadOfFrame > low - TicksPerSecond /\ LeadOfFrame =< high
                    /\ LeadOfFrame >= low /\ LeadOfFrame =< high - TicksPerSecond => onTime
                    /\ counters'["late"] # counters["late"] => LeadOfFrame < low
                    /\ counters'["early"] # counters["early"] => LeadOfFrame > high - TicksPerSecond
<1>1. TypeOK /\ PointInv /\ [Next]_vars => [Judged => Right]_vars
  <2> SUFFICES ASSUME TypeOK, PointInv, Next, Judged PROVE Right
    BY DEF vars
  <2>1. CheckWindow
    <3>1. rx' # rx
      OBVIOUS
    <3>2. CASE \/ (Start \/ Tick) /\ UNCHANGED <<checkerVars, rxVars, printVars, events>>
               \/ MainReturns \/ RuStart \/ RuStop \/ StopMain \/ WorkerStep \/ PrintCounter
      BY <3>1, <3>2 DEF MainReturns, RuStart, RuStop, StopMain, WorkerStep, OnNewSymbol, PrintCounter, rxVars
    <3>3. CASE OnFrame \/ CheckSeq
      BY <3>3 DEF OnFrame, CheckSeq
    <3>. QED  BY <3>2, <3>3 DEF Next
  <2>2. PICK v \in Verdicts : /\ v = WindowVerdict(frame.symbol % (Period * NofSymbols), ota)
                              /\ counters' = Add(v)
    BY <2>1 DEF CheckWindow
  <2>3. \A c \in Verdicts : counters'[c] # counters[c] <=> c = v
    <3>1. counters \in [Counters -> Nat] /\ Verdicts \subseteq Counters
      BY DEF TypeOK, Counters
    <3>. QED  BY <2>2, <3>1, AddType
  <2>4. /\ v = "on_time" => LeadOfFrame > low - TicksPerSecond /\ LeadOfFrame =< high
        /\ LeadOfFrame >= low /\ LeadOfFrame =< high - TicksPerSecond => v = "on_time"
        /\ v = "late" => LeadOfFrame < low
        /\ v = "early" => LeadOfFrame > high - TicksPerSecond
    BY <2>2, VerdictOfLead
  <2>5. "on_time" \in Verdicts /\ "late" \in Verdicts /\ "early" \in Verdicts
    BY DEF Verdicts
  <2>. QED  BY <2>3, <2>4, <2>5, Zenon
<1>. QED  BY <1>1, SpecPoint, ReceptionTypeOK, PTL DEF Spec, VerdictWithinT2a
=============================================================================
