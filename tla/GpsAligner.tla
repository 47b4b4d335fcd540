----------------------------- MODULE GpsAligner -----------------------------
(***************************************************************************)
(* ru_emulator_gps_slot_aligner: every TTI notification pairs a radio slot *)
(* with the host time it goes over the air; the median of a window of such *)
(* measurements is the offset from the radio to the wire numbering, and is *)
(* replaced once two windows in a row agree on another one.                *)
(*                                                                         *)
(* A sample keeps, as history, the offset that was true when it was taken. *)
(***************************************************************************)
EXTENDS RadioNumbering, Sequences, FiniteSets

CONSTANTS SettleTtis,       \* TTIs of the first second, which are not measured
          NofMeasurements   \* NOF_MEASUREMENTS, the length of a window

ASSUME AlignerAssumption ==
  /\ SettleTtis \in Nat
  /\ NofMeasurements \in Nat \ {0}

VARIABLES nofTtis,        \* TTIs seen, counted up to SettleTtis
          samples,        \* the measurements of the window so far
          applied,        \* an offset has been applied
          appliedOffset,
          pendingValid,   \* the last window gave another offset ...
          pendingOffset   \* ... this one

alignerVars == <<nofTtis, samples, applied, appliedOffset, pendingValid, pendingOffset>>

Samples == [offset : WireSlots, truth : WireSlots]

AlignerTypeOK ==
  /\ nofTtis \in 0 .. SettleTtis
  /\ samples \in Seq(Samples)
  /\ Len(samples) < NofMeasurements
  /\ applied \in BOOLEAN
  /\ appliedOffset \in WireSlots
  /\ pendingValid \in BOOLEAN
  /\ pendingOffset \in WireSlots

AlignerInit ==
  /\ nofTtis = 0
  /\ samples = << >>
  /\ applied = FALSE
  /\ appliedOffset = 0
  /\ pendingValid = FALSE
  /\ pendingOffset = 0
-----------------------------------------------------------------------------
AtMost(s, v) == Cardinality({i \in 1 .. Len(s) : s[i].offset =< v})

\* sorted[size / 2]: the values below the median fill at most half the window,
\* those up to it more than half.
Median(s) ==
  LET half == Len(s) \div 2
  IN  CHOOSE v \in {s[i].offset : i \in 1 .. Len(s)} :
        AtMost(s, v - 1) =< half /\ half < AtMost(s, v)

\* apply(): the callback on_offset_measured hands the offset to its users.
Apply(offset) ==
  /\ applied' = TRUE
  /\ appliedOffset' = offset

Keep == UNCHANGED <<applied, appliedOffset>>

\* Mutant: no hysteresis.
EveryWindow(median) ==
  /\ Apply(median)
  /\ UNCHANGED <<pendingValid, pendingOffset>>

\* Mutant: the offset is measured once.
FirstWindowOnly(median) ==
  /\ IF applied THEN Keep ELSE Apply(median)
  /\ UNCHANGED <<pendingValid, pendingOffset>>

\* What a full window of this median does.
WindowClosed(median) ==
  \/ /\ ~applied
     /\ Apply(median)
     /\ UNCHANGED <<pendingValid, pendingOffset>>
  \/ /\ applied
     /\ median = appliedOffset
     /\ pendingValid' = FALSE
     /\ Keep /\ UNCHANGED pendingOffset
  \/ /\ applied
     /\ median # appliedOffset
     /\ pendingValid /\ median = pendingOffset
     /\ Apply(median)
     /\ pendingValid' = FALSE
     /\ UNCHANGED pendingOffset
  \/ /\ applied
     /\ median # appliedOffset
     /\ ~(pendingValid /\ median = pendingOffset)
     /\ pendingOffset' = median
     /\ pendingValid' = TRUE
     /\ Keep

\* Mutant: the window is not emptied.
WholeWindow(window) == window

\* The measurements that are left for the next TTI.
RestOf(window) == IF Len(window) < NofMeasurements THEN window ELSE << >>

\* measure(): the TTI notification of a radio slot, at a host time of hostSlots
\* slots; gpsSlots is what a clock without error would have said.
Measure(hostSlots, gpsSlots, radioSlot) ==
  LET window == Append(samples, [offset |-> MeasureGpsSlotOffset(hostSlots, radioSlot),
                                 truth |-> MeasureGpsSlotOffset(gpsSlots, radioSlot)])
  IN  \/ /\ nofTtis < SettleTtis
         /\ nofTtis' = nofTtis + 1
         /\ Keep /\ UNCHANGED <<samples, pendingValid, pendingOffset>>
      \/ /\ nofTtis = SettleTtis
         /\ samples' = RestOf(window)
         /\ \/ Len(window) < NofMeasurements /\ Keep /\ UNCHANGED <<pendingValid, pendingOffset>>
            \/ Len(window) = NofMeasurements /\ WindowClosed(Median(window))
         /\ UNCHANGED nofTtis
=============================================================================
