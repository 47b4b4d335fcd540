---------------------------- MODULE PrachAligned ----------------------------
(***************************************************************************)
(* PRACH capture under the slot aligner: the radio starts with no offset,  *)
(* its clock drifts against the host's, it may lose a capture, and the     *)
(* host clock may be misread.                                              *)
(* On the radio thread the aligner measures first; the TTI then goes on to *)
(* the orchestrator with the offset it left behind.                        *)
(***************************************************************************)
EXTENDS PrachCapture, GpsAligner

CONSTANTS Drifts,       \* slots the host clock gains (or, -1, loses) on the
                        \* radio's between two TTIs
          ClockErrors,  \* slots a reading of the host clock may be off by
          MinSlip,      \* bounds: drift of a behaviour
          MaxSlip,
          MaxMisreads   \* bound: readings that are off

ASSUME AlignedAssumption ==
  /\ Drifts \subseteq Nat \cup {-1}   \* host time does not run backwards
  /\ ClockErrors \subseteq Int
  /\ MinSlip \in Int /\ MinSlip =< 0
  /\ MaxSlip \in Nat
  /\ MaxMisreads \in Nat

VARIABLES misreads,  \* history: measurements that were off
          steady,    \* history: measurements since the last one that was off or
                     \* the last drift, counted up to SettledAfter
          before,    \* history: the true offsets in the last window of
                     \* measurements, and whether none of it was off
          aligned    \* history: an offset had been applied when the window at
                     \* hand was captured

alignedVars == <<vars, alignerVars, misreads, steady, before, aligned>>

\* Two windows in a row, after the rest of the one at hand.
SettledAfter == 3 * NofMeasurements - 1

\* The offset at the next TTI.
TrueOffset == MeasureGpsSlotOffset(tti, NextRadioSlot)

AlignedTypeOK ==
  /\ TypeOK
  /\ AlignerTypeOK
  /\ misreads \in 0 .. MaxMisreads
  /\ steady \in 0 .. SettledAfter
  /\ before \in [truths : SUBSET WireSlots, clean : BOOLEAN]
  /\ aligned \in BOOLEAN

AlignedInit ==
  /\ InitWith(0)
  /\ AlignerInit
  /\ misreads = 0
  /\ steady = 0
  /\ before = [truths |-> {}, clean |-> FALSE]
  /\ aligned = FALSE
-----------------------------------------------------------------------------
\* The offset the callback has left with the orchestrator and the adapter.
HandedOver == IF applied' THEN appliedOffset' ELSE offset

\* A window that this measurement closes, what was true in it.
NoteWindow(measured, error) ==
  before' = IF measured /\ Len(samples) + 1 = NofMeasurements
            THEN [truths |-> {samples[i].truth : i \in 1 .. Len(samples)} \cup {TrueOffset},
                  clean |-> error = 0 /\ \A i \in 1 .. Len(samples) : samples[i].offset = samples[i].truth]
            ELSE before

\* Radio thread: on_tti_boundary of the aligner.
AlignedTti ==
  \E drift \in Drifts, error \in ClockErrors :
    LET measured == nofTtis = SettleTtis
        clean == measured /\ error = 0
    IN  /\ slip + drift \in MinSlip .. MaxSlip
        /\ measured \/ error = 0
        /\ error = 0 \/ misreads < MaxMisreads
        /\ misreads' = IF error = 0 THEN misreads ELSE misreads + 1
        /\ steady' = IF clean /\ drift = 0
                     THEN IF steady < SettledAfter THEN steady + 1 ELSE steady
                     ELSE 0
        /\ NoteWindow(measured, error)
        /\ Measure(tti + error, tti, NextRadioSlot)
        /\ OnTtiWith(HandedOver, drift)
        /\ UNCHANGED aligned

\* A capture whose window has begun before the radio could wait for it is late: its
\* buffer returns unfilled.  (A demodulation that the executor refuses, which would
\* keep its buffer for good, does not happen here.)
CaptureLost ==
  \E c \in captures :
    /\ captures' = captures \ {c}
    /\ sent' = {}
    /\ UNCHANGED <<repo, tti, slip, offset, window>>

NoteAlignment ==
  aligned' = (window'.pc # "idle" /\ IF window.pc = "idle" THEN applied ELSE aligned)

AlignedNext ==
  \/ AlignedTti
  \/ (BetweenTtis \/ CaptureLost) /\ NoteAlignment /\ UNCHANGED <<alignerVars, misreads, steady, before>>

AlignedSpec == AlignedInit /\ [][AlignedNext]_alignedVars
-----------------------------------------------------------------------------
\* A re-alignment takes up an offset that held in each of the two windows that
\* agreed on it, but for a window with misread measurements: those of a single
\* window never lead to an offset that was not true in the other, not even at the
\* wrap of the numbering, where the order of the samples is not that of time.
RealignsToTruth ==
  [][applied /\ appliedOffset' # appliedOffset =>
       /\ before.clean => appliedOffset' \in before.truths
       /\ before'.clean => appliedOffset' \in before'.truths]_alignedVars

\* Drift and misreadings do not leave a wrong offset behind: when neither has
\* happened for three windows, the offset is applied and right.
FollowsDrift == steady = SettledAfter => applied /\ appliedOffset = TrueOffset

\* With an offset established, the wire slot a reply is sent for is no further
\* from the wire slot of its samples than the drift and one misreading add up to,
\* even when the offset changes while the capture is under way.  The numbers are
\* those of the wire: the request of a capture that was lost stays behind and is
\* answered whole wire periods late, although ARCHITECTURE.md:351-352 says of the
\* repository that it "prevents stale requests from generating further traffic".
WireSlotNearRequested ==
  aligned => \A r \in sent :
    \E d \in (MinSlip - MaxSlip) .. (MaxSlip - MinSlip), e \in ClockErrors :
      (r.request.air - r.air) % Period = (d + e) % Period
=============================================================================
