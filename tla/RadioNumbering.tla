--------------------------- MODULE RadioNumbering ---------------------------
(***************************************************************************)
(* The radio numbers its slots from the moment it starts streaming, the    *)
(* O-DU on the GPS timescale: absolute slot a, counted on the GPS scale,   *)
(* is radio slot RadioSlot(a) and wire slot a % Period.                    *)
(***************************************************************************)
EXTENDS OfhSlots

CONSTANT RadioShift   \* radio slot number of absolute slot 0

ASSUME RadioShiftAssumption == RadioShift \in Nat

\* The slot count of the samples at a time: it wraps with the radio frames.
RadioSlot(slot) == (slot + RadioShift) % RadioPeriod

\* What the slot aligner measures when the host clock is right.
AlignedOffset == MeasureGpsSlotOffset(0, RadioSlot(0))
=============================================================================
