------------------------------ MODULE RxChecks ------------------------------
(***************************************************************************)
(* The checks a received message goes through: its lead over the OTA time  *)
(* against the reception window, and its sequence identifier.  The window  *)
(* is configured in time (T2a, here in ticks) and checked in symbols.      *)
(***************************************************************************)
EXTENDS OtaClock

CONSTANTS T2aMin, T2aMax,  \* lead of a punctual message over its air time
          NofSeqIds        \* NOF_SEQUENCES_IDENTIFIERS

ASSUME ChecksAssumption ==
  /\ T2aMin \in Nat
  /\ T2aMax \in Nat
  /\ NofSeqIds \in Nat \ {0}
  /\ NofSeqIds % 2 = 0

Verdicts == {"on_time", "early", "late"}

SeqIds == 0 .. (NofSeqIds - 1)
-----------------------------------------------------------------------------
\* floor() of T2a_max and ceil() of T2a_min in symbols.
SymEnd == (T2aMax * SymbolsPerSecond) \div TicksPerSecond

SymStart == ((T2aMin * SymbolsPerSecond) + TicksPerSecond - 1) \div TicksPerSecond

\* Mutant: the frame number is not cut to 8 bits.
FullSymbolPoint(slot, symbol) == ToUint(slot, symbol)

\* calculate_ofh_slot_symbol_point(), as an integer.
OfhSymbolPoint(slot, symbol) == ToUint(slot % Period, symbol)

\* The signed distance of two numbers that wrap at `size'.
Wrapped(difference, size) ==
  IF difference >= size \div 2 THEN difference - size
  ELSE IF difference < -(size \div 2) THEN difference + size
  ELSE difference

\* Mutant: the distance does not wrap.
Difference(lhs, rhs) == lhs - rhs

\* calculate_slot_symbol_point_distance().
SymbolDistance(lhs, rhs) == Wrapped(lhs - rhs, Period * NofSymbols)

\* update_rx_window_statistics(): the counter that is incremented.
WindowVerdict(symbol, ota) ==
  LET diff == SymbolDistance(symbol, ota)
  IN  IF diff > SymEnd THEN "early" ELSE IF diff < SymStart THEN "late" ELSE "on_time"

\* get_nof_skipped_sequence_id().
SkippedIds(seqId, expected) == Wrapped(seqId - expected, NofSeqIds)

\* Mutant: an identifier from the past is taken over as well.
AnyId(counter, seqId) == seqId

\* update_and_compare_seq_id(): the counter after an identifier.
CounterAfter(counter, seqId) ==
  IF SkippedIds(seqId, (counter + 1) % NofSeqIds) >= 0 THEN seqId ELSE counter
=============================================================================
