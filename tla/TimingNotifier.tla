--------------------------- MODULE TimingNotifier ---------------------------
(***************************************************************************)
(* ru_emulator_timing_notifier: a worker polls the clock and notifies the  *)
(* OTA symbols; the main thread starts it, stops it, and drops the         *)
(* subscribers once it has stopped.                                        *)
(***************************************************************************)
EXTENDS OtaClock

CONSTANTS FirstClock,  \* tick at which the program starts
          MaxClock,    \* bound: last tick
          MaxLag       \* symbols the worker may be behind the clock

ASSUME NotifierAssumption ==
  /\ FirstClock \in Nat
  /\ MaxClock \in Nat
  /\ MaxLag \in Nat

VARIABLES clock,
          status,     \* worker_status
          worker,     \* where the worker is
          previous,   \* previous_symb_index
          point,      \* the symbol point the worker notifies, and, as history,
                      \* the tick it read
          main,       \* where the main thread is
          subscribed  \* ota_notifiers is not empty

notifierVars == <<clock, status, worker, previous, point, main, subscribed>>

MainStates == {"init", "starting", "started", "running", "stopping", "timing_stopped", "done"}

NoPoint == [slot |-> 0, symbol |-> 0, read |-> -1]

NotifierTypeOK ==
  /\ clock \in Nat
  /\ status \in {"running", "stop_requested", "stopped"}
  /\ worker \in {"off", "entered", "loop", "notify", "exited"}
  /\ previous \in 0 .. (SymbolsPerSecond - 1)
  /\ point \in [slot : 0 .. (HyperSlots - 1), symbol : 0 .. (NofSymbols - 1), read : Nat \cup {-1}]
  /\ main \in MainStates
  /\ subscribed \in BOOLEAN

\* The notifiers are subscribed before start().
NotifierInit ==
  /\ clock = FirstClock
  /\ status = "running"
  /\ worker = "off"
  /\ previous = 0
  /\ point = NoPoint
  /\ main = "init"
  /\ subscribed = TRUE
-----------------------------------------------------------------------------
\* Main thread: start() defers the worker's task ...
Start ==
  /\ main = "init"
  /\ main' = "starting"
  /\ UNCHANGED <<clock, status, worker, previous, point, subscribed>>

\* Mutant: start() does not wait for the worker.
StartReturnsAtOnce ==
  /\ main = "starting"
  /\ main' = "started"
  /\ UNCHANGED <<clock, status, worker, previous, point, subscribed>>

\* ... and waits until the worker has set its status.
StartReturns ==
  /\ main = "starting"
  /\ worker # "off"
  /\ main' = "started"
  /\ UNCHANGED <<clock, status, worker, previous, point, subscribed>>

\* Main thread: stop() asks the worker to stop ...
Stop ==
  /\ main = "running"
  /\ main' = "stopping"
  /\ status' = "stop_requested"
  /\ UNCHANGED <<clock, worker, previous, point, subscribed>>

\* Mutant: stop() does not wait for the worker.
StopReturnsAtOnce ==
  /\ main = "stopping"
  /\ main' = "timing_stopped"
  /\ subscribed' = FALSE
  /\ UNCHANGED <<clock, status, worker, previous, point>>

\* ... waits for it, and clears the notifiers.
StopReturns ==
  /\ main = "stopping"
  /\ status = "stopped"
  /\ main' = "timing_stopped"
  /\ subscribed' = FALSE
  /\ UNCHANGED <<clock, status, worker, previous, point>>
-----------------------------------------------------------------------------
\* Worker: the deferred task sets the status and signals start() ...
WorkerEnter ==
  /\ main # "init"
  /\ worker = "off"
  /\ worker' = "entered"
  /\ status' = "running"
  /\ UNCHANGED <<clock, previous, point, main, subscribed>>

\* ... and reads the clock for the first time.
WorkerFirst ==
  /\ worker = "entered"
  /\ worker' = "loop"
  /\ previous' = SymbolIndex(clock)
  /\ UNCHANGED <<clock, status, point, main, subscribed>>

\* poll(): a new symbol is notified; the symbols slept through are not.  A poll
\* within the same symbol changes nothing.
Poll ==
  /\ worker = "loop"
  /\ status = "running"
  /\ CircularDistance(SymbolIndex(clock), previous) # 0
  /\ previous' = SymbolIndex(clock)
  /\ point' = [slot |-> SystemSlot(clock), symbol |-> SymbolIndex(clock) % NofSymbols, read |-> clock]
  /\ worker' = "notify"
  /\ UNCHANGED <<clock, status, main, subscribed>>

\* notify_slot_symbol_point().
Notify ==
  /\ worker = "notify"
  /\ worker' = "loop"
  /\ point' = NoPoint
  /\ UNCHANGED <<clock, status, previous, main, subscribed>>

\* The end of timing_loop().
WorkerExit ==
  /\ worker = "loop"
  /\ status # "running"
  /\ worker' = "exited"
  /\ status' = "stopped"
  /\ UNCHANGED <<clock, previous, point, main, subscribed>>

\* Time goes by; a running worker is never more than MaxLag symbols behind.
Tick ==
  /\ clock < MaxClock
  /\ worker = "loop" => CircularDistance(SymbolIndex(clock), previous) < MaxLag
  /\ worker = "notify" => SymbolOnAir(clock) - SymbolOnAir(point.read) < MaxLag
  /\ clock' = clock + 1
  /\ UNCHANGED <<status, worker, previous, point, main, subscribed>>
-----------------------------------------------------------------------------
\* The symbol notified is the one that was on air when the clock was read, in
\* the slot that was on air.  Only a reading at the very tick a symbol starts
\* may be off: one symbol early or, at the start of a slot, at the last symbol
\* of the slot that has just begun.
NotifiedIsOnAir ==
  worker = "notify" =>
    LET onAir == SymbolOnAir(point.read) % (HyperSlots * NofSymbols)
        notified == ToUint(point.slot, point.symbol)
    IN  \/ notified = onAir
        \/ LosesSymbol(point.read) /\ onAir % NofSymbols # 0 /\ notified = onAir - 1
        \/ LosesSymbol(point.read) /\ onAir % NofSymbols = 0 /\ notified = onAir + NofSymbols - 1

\* The worker never goes through the notifiers while, or after, stop() clears
\* them.
NoNotificationAfterClear == worker = "notify" => subscribed

\* stop() returns: no stop request is overwritten by the start of the worker.
StopCompletes == main = "stopping" ~> main = "timing_stopped"
=============================================================================
