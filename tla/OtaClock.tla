------------------------------ MODULE OtaClock ------------------------------
(***************************************************************************)
(* OTA time.  The clock counts ticks (nanoseconds in the code) from the    *)
(* GPS epoch; a slot is a whole number of ticks, a symbol is not.  The     *)
(* slot is counted from the epoch, the symbol from the start of the second.*)
(*                                                                         *)
(* The symbol index is a quotient of doubles: at the very tick a symbol    *)
(* starts, some quotients come out just below the whole number and lose a  *)
(* symbol (at 15 kHz, the starts of 682 of the 1000 slots of a second).    *)
(***************************************************************************)
EXTENDS Integers

CONSTANTS TicksPerSecond,
          SlotsPerSecond,
          NofSymbols,      \* nof_symbols_per_slot
          HyperSlots,      \* nof_slots_per_hyper_system_frame
          Period,          \* slots of the wire numbering
          RoundedDown      \* symbol indices whose exact start is rounded down

ASSUME ClockAssumption ==
  /\ TicksPerSecond \in Nat \ {0}
  /\ SlotsPerSecond \in Nat \ {0}
  /\ NofSymbols \in Nat \ {0}
  /\ HyperSlots \in Nat \ {0}
  /\ Period \in Nat \ {0}
  /\ TicksPerSecond % SlotsPerSecond = 0
  /\ HyperSlots % Period = 0
  /\ 0 \notin RoundedDown

SymbolsPerSecond == SlotsPerSecond * NofSymbols

SlotTicks == TicksPerSecond \div SlotsPerSecond

WireSymbols == 0 .. (Period * NofSymbols - 1)

\* The absolute symbol on air at a tick.
SymbolOnAir(tick) == (tick * SymbolsPerSecond) \div TicksPerSecond

\* A symbol starts at this tick, and its index is rounded down.
LosesSymbol(tick) ==
  /\ (tick * SymbolsPerSecond) % TicksPerSecond = 0
  /\ SymbolOnAir(tick % TicksPerSecond) \in RoundedDown

\* Mutant: the symbol duration is cut to whole ticks.
SymbolIndexWholeTicks(tick) ==
  (tick % TicksPerSecond) \div (TicksPerSecond \div SymbolsPerSecond)

\* get_symbol_index() of the fraction of the second.
SymbolIndex(tick) ==
  SymbolOnAir(tick % TicksPerSecond) - (IF LosesSymbol(tick) THEN 1 ELSE 0)

\* get_current_system_slot().
SystemSlot(tick) == (tick \div SlotTicks) % HyperSlots

\* circular_distance().
CircularDistance(cur, prev) ==
  IF cur >= prev THEN cur - prev ELSE SymbolsPerSecond + cur - prev

\* slot_symbol_point::to_uint().
ToUint(slot, symbol) == (slot * NofSymbols) + symbol
=============================================================================
