------------------------ MODULE PrachAlignedProofs ------------------------
(***************************************************************************)
(* Theorems about PrachAligned, the slot aligner with the PRACH capture,   *)
(* for every numbering, window length, drift and misreading, and whatever  *)
(* captures the radio loses.                                               *)
(***************************************************************************)
EXTENDS PrachAligned, PrachCaptureProofs, SequenceTheorems

\* The offset of a radio that is k slots behind the host clock.
OffsetAt(k) == (k - RadioShift) % Period

LEMMA OffsetTypes ==
  /\ \A k \in Int : OffsetAt(k) \in WireSlots
  /\ \A g \in Int, r \in Int : MeasureGpsSlotOffset(g, r) \in WireSlots
<1>1. ASSUME NEW k \in Int PROVE OffsetAt(k) \in WireSlots
  <2>1. k - RadioShift \in Int
    BY RadioShiftAssumption
  <2>. QED  BY <2>1, WireTypes DEF OffsetAt
<1>2. ASSUME NEW g \in Int, NEW r \in Int PROVE MeasureGpsSlotOffset(g, r) \in WireSlots
  <2>1. r % Period \in Int
    BY SlotAssumption
  <2>2. g + (Period - (r % Period)) \in Int
    BY <2>1, SlotAssumption
  <2>. QED  BY <2>2, WireTypes DEF MeasureGpsSlotOffset
<1>. QED  BY <1>1, <1>2

\* A measurement e slots off.
LEMMA MeasuredOffset ==
  ASSUME TypeOK, NEW e \in Int
  PROVE  MeasureGpsSlotOffset(tti + e, NextRadioSlot) = OffsetAt(slip + e)
<1> DEFINE P == Period
           R == RadioPeriod
           g == tti + e
           n == (tti - slip) + RadioShift
<1>1. P \in Nat \ {0} /\ R \in Nat \ {0} /\ R % P = 0
  BY SlotAssumption
<1>2. g \in Int /\ n \in Int
  BY RadioShiftAssumption DEF TypeOK
<1>3. NextRadioSlot = n % R
  BY DEF NextRadioSlot, RadioSlot
<1>4. g - n = (slip + e) - RadioShift
  BY RadioShiftAssumption DEF TypeOK
<1>. HIDE DEF P, R, g, n
<1>5. (g + (P - ((n % R) % P))) % P = (g - n) % P
  BY <1>1, <1>2, Measured
<1>. QED  BY <1>3, <1>4, <1>5 DEF MeasureGpsSlotOffset, OffsetAt, P, g

LEMMA TrueOffsetOfSlip ==
  ASSUME TypeOK
  PROVE  TrueOffset = OffsetAt(slip)
<1>1. tti + 0 = tti /\ slip + 0 = slip
  BY DEF TypeOK
<1>2. MeasureGpsSlotOffset(tti + 0, NextRadioSlot) = OffsetAt(slip + 0)
  BY MeasuredOffset
<1>. QED  BY <1>1, <1>2 DEF TrueOffset

\* sorted[size / 2] exists, and is one of the measurements.
LEMMA MedianIsMeasured ==
  ASSUME NEW s \in Seq(Samples), s # << >>
  PROVE  \E i \in 1 .. Len(s) : Median(s) = s[i].offset
<1> DEFINE n == Len(s)
           half == n \div 2
           Below(v) == {i \in 1 .. n : s[i].offset =< v}
           T == {v \in Nat : half < AtMost(s, v)}
           Offsets == {s[i].offset : i \in 1 .. n}
<1>1. n \in Nat \ {0}
  <2>1. n \in Nat /\ (n = 0 => s = << >>)
    BY EmptySeq, LenProperties
  <2>. QED  BY <2>1
<1>2. half \in Nat /\ half < n
  BY <1>1
<1>3. \A i \in 1 .. n : s[i].offset \in Nat /\ s[i].offset < Period
  <2>1. \A i \in 1 .. n : s[i] \in Samples
    BY ElementOfSeq
  <2>. QED  BY <2>1, SlotAssumption DEF Samples, WireSlots
<1>4. \A v : AtMost(s, v) = Cardinality(Below(v))
  BY DEF AtMost
<1>. HIDE DEF n, half
<1>5. IsFiniteSet(1 .. n) /\ Cardinality(1 .. n) = n
  <2>1. 1 \in Int /\ n \in Int
    BY <1>1
  <2>2. IsFiniteSet(1 .. n) /\ Cardinality(1 .. n) = IF 1 > n THEN 0 ELSE n - 1 + 1
    BY <2>1, FS_Interval
  <2>. QED  BY <2>2, <1>1
<1>6. \A v : Cardinality(Below(v)) \in Nat
  <2> SUFFICES ASSUME NEW v PROVE Cardinality(Below(v)) \in Nat
    OBVIOUS
  <2>1. Below(v) \in SUBSET (1 .. n)
    OBVIOUS
  <2>. HIDE DEF Below
  <2>2. IsFiniteSet(Below(v))
    BY <2>1, <1>5, FS_Subset
  <2>. QED  BY <2>2, FS_CardinalityType
<1>7. Period \in T
  <2>1. Below(Period) = 1 .. n
    BY <1>3, SlotAssumption
  <2>. QED  BY <2>1, <1>2, <1>4, <1>5, SlotAssumption
<1>8. PICK v \in T : \A w \in T : v =< w
  <2>1. T \subseteq Nat /\ T # {}
    BY <1>7
  <2>. HIDE DEF T
  <2>. QED  BY <2>1, SmallestElement
<1>9. v \in Nat /\ half < AtMost(s, v)
  BY <1>8
<1>10. AtMost(s, v - 1) =< half
  <2>1. CASE v = 0
    <3>1. Below(v - 1) = {}
      BY <2>1, <1>3
    <3>2. Cardinality({}) = 0
      BY FS_EmptySet
    <3>. QED  BY <3>1, <3>2, <1>2, <1>4
  <2>2. CASE v # 0
    <3>1. v - 1 \in Nat /\ ~(v =< v - 1)
      BY <2>2, <1>9
    <3>2. v - 1 \notin T
      BY <3>1, <1>8
    <3>3. ~(half < AtMost(s, v - 1))
      BY <3>1, <3>2
    <3>4. AtMost(s, v - 1) \in Nat
      <4>. HIDE DEF Below
      <4>. QED  BY <1>4, <1>6
    <3>. QED  BY <3>3, <3>4, <1>2
  <2>. QED  BY <2>1, <2>2
<1>11. v \in Offsets
  <2> SUFFICES ASSUME v \notin Offsets PROVE FALSE
    OBVIOUS
  <2>1. Below(v) = Below(v - 1)
    BY <1>3, <1>9
  <2>2. AtMost(s, v) = AtMost(s, v - 1)
    BY <2>1, <1>4
  <2>3. AtMost(s, v) \in Nat
    BY <1>4, <1>6
  <2>. QED  BY <2>2, <2>3, <1>2, <1>9, <1>10
<1>12. Median(s) \in Offsets
  BY <1>9, <1>10, <1>11 DEF Median, half, n
<1>. QED  BY <1>12 DEF n
-----------------------------------------------------------------------------
(* The steps of the aligner. *)

\* The measurement of the next TTI, e slots off.
Reading(e) == [offset |-> OffsetAt(slip + e), truth |-> OffsetAt(slip)]

Settles ==
  /\ nofTtis < SettleTtis /\ nofTtis' = nofTtis + 1
  /\ UNCHANGED <<samples, applied, appliedOffset, pendingValid, pendingOffset>>

Fills(e) ==
  /\ nofTtis = SettleTtis /\ nofTtis' = nofTtis
  /\ samples' = Append(samples, Reading(e))
  /\ Len(samples) + 1 < NofMeasurements
  /\ UNCHANGED <<applied, appliedOffset, pendingValid, pendingOffset>>

Closes(e) ==
  /\ nofTtis = SettleTtis /\ nofTtis' = nofTtis
  /\ samples' = << >>
  /\ Len(samples) + 1 = NofMeasurements
  /\ WindowClosed(Median(Append(samples, Reading(e))))

\* What the history notes of a TTI.
Noted(drift, e) ==
  /\ slip + drift \in MinSlip .. MaxSlip /\ slip' = slip + drift
  /\ e # 0 => nofTtis = SettleTtis /\ misreads < MaxMisreads
  /\ misreads' = IF e = 0 THEN misreads ELSE misreads + 1
  /\ steady' = IF nofTtis = SettleTtis /\ e = 0 /\ drift = 0
               THEN IF steady < SettledAfter THEN steady + 1 ELSE steady
               ELSE 0
  /\ NoteWindow(nofTtis = SettleTtis, e)
  /\ offset' = IF applied' THEN appliedOffset' ELSE offset
  /\ aligned' = aligned

LEMMA ReadingType ==
  ASSUME TypeOK, NEW e \in Int
  PROVE  Reading(e) \in Samples
<1>1. slip \in Int /\ slip + e \in Int
  BY DEF TypeOK
<1>. QED  BY <1>1, OffsetTypes DEF Reading, Samples

LEMMA AlignedTtiStep ==
  ASSUME TypeOK, AlignerTypeOK, AlignedTti
  PROVE  \E drift \in Nat \cup {-1}, e \in ClockErrors :
           /\ e \in Int
           /\ OnTtiWith(HandedOver, drift)
           /\ Noted(drift, e)
           /\ Settles \/ Fills(e) \/ Closes(e)
<1>1. PICK drift \in Drifts, e \in ClockErrors :
        /\ slip + drift \in MinSlip .. MaxSlip
        /\ nofTtis = SettleTtis \/ e = 0
        /\ e = 0 \/ misreads < MaxMisreads
        /\ misreads' = IF e = 0 THEN misreads ELSE misreads + 1
        /\ steady' = IF (nofTtis = SettleTtis /\ e = 0) /\ drift = 0
                     THEN IF steady < SettledAfter THEN steady + 1 ELSE steady
                     ELSE 0
        /\ NoteWindow(nofTtis = SettleTtis, e)
        /\ Measure(tti + e, tti, NextRadioSlot)
        /\ OnTtiWith(HandedOver, drift)
        /\ UNCHANGED aligned
  BY DEF AlignedTti
<1>2. drift \in Nat \cup {-1} /\ e \in Int
  BY AlignedAssumption
<1>3. Noted(drift, e)
  BY <1>1 DEF Noted, OnTtiWith, HandedOver
<1> DEFINE w == Append(samples, Reading(e))
<1>4. Reading(e) = [offset |-> MeasureGpsSlotOffset(tti + e, NextRadioSlot),
                    truth |-> MeasureGpsSlotOffset(tti, NextRadioSlot)]
  <2>1. MeasureGpsSlotOffset(tti + e, NextRadioSlot) = OffsetAt(slip + e)
    BY <1>2, MeasuredOffset
  <2>2. MeasureGpsSlotOffset(tti, NextRadioSlot) = OffsetAt(slip)
    BY TrueOffsetOfSlip DEF TrueOffset
  <2>. QED  BY <2>1, <2>2 DEF Reading
<1>5. samples \in Seq(Samples) /\ Len(samples) \in Nat
  BY DEF AlignerTypeOK
<1>6. Len(w) = Len(samples) + 1
  BY <1>5, <1>2, ReadingType, AppendProperties
<1>7. \/ /\ nofTtis < SettleTtis
         /\ nofTtis' = nofTtis + 1
         /\ Keep /\ UNCHANGED <<samples, pendingValid, pendingOffset>>
      \/ /\ nofTtis = SettleTtis
         /\ samples' = RestOf(w)
         /\ \/ Len(w) < NofMeasurements /\ Keep /\ UNCHANGED <<pendingValid, pendingOffset>>
            \/ Len(w) = NofMeasurements /\ WindowClosed(Median(w))
         /\ UNCHANGED nofTtis
  BY <1>1, <1>4 DEF Measure
<1>8. NofMeasurements \in Nat
  BY AlignerAssumption
<1>. HIDE DEF w
<1>9. Settles \/ Fills(e) \/ Closes(e)
  <2>1. CASE nofTtis < SettleTtis /\ nofTtis' = nofTtis + 1
             /\ Keep /\ UNCHANGED <<samples, pendingValid, pendingOffset>>
    BY <2>1 DEF Settles, Keep
  <2>2. CASE /\ nofTtis = SettleTtis /\ UNCHANGED nofTtis
             /\ samples' = RestOf(w) /\ Len(w) < NofMeasurements
             /\ Keep /\ UNCHANGED <<pendingValid, pendingOffset>>
    <3>1. samples' = w
      BY <2>2 DEF RestOf
    <3>. QED  BY <3>1, <2>2, <1>6 DEF Fills, Keep, w
  <2>3. CASE /\ nofTtis = SettleTtis /\ UNCHANGED nofTtis
             /\ samples' = RestOf(w) /\ Len(w) = NofMeasurements /\ WindowClosed(Median(w))
    <3>1. samples' = << >>
      BY <2>3, <1>8 DEF RestOf
    <3>. QED  BY <3>1, <2>3, <1>6 DEF Closes, w
  <2>. QED  BY <1>7, <2>1, <2>2, <2>3
<1>. QED  BY <1>1, <1>2, <1>3, <1>9

\* The samples once the window at hand has one more.
LEMMA OneMoreSample ==
  ASSUME TypeOK, AlignerTypeOK, NEW e \in Int
  PROVE  LET w == Append(samples, Reading(e))
         IN  /\ w \in Seq(Samples) /\ w # << >>
             /\ Len(samples) \in Nat /\ Len(w) = Len(samples) + 1
             /\ \A i \in 1 .. Len(samples) : w[i] = samples[i]
             /\ w[Len(samples) + 1] = Reading(e)
<1>1. samples \in Seq(Samples) /\ Reading(e) \in Samples
  BY ReadingType DEF AlignerTypeOK
<1>2. Len(samples) \in Nat
  BY <1>1
<1> DEFINE w == Append(samples, Reading(e))
<1>3. /\ w \in Seq(Samples)
      /\ Len(w) = Len(samples) + 1
      /\ \A i \in 1 .. Len(samples) : w[i] = samples[i]
      /\ w[Len(samples) + 1] = Reading(e)
  BY <1>1, AppendProperties
<1>. HIDE DEF w
<1>4. w # << >>
  BY <1>2, <1>3, EmptySeq
<1>. QED  BY <1>2, <1>3, <1>4 DEF w
-----------------------------------------------------------------------------
(* Types, and the repository of requests. *)

LEMMA AlignerTypeInductive ==
  ASSUME TypeOK, AlignerTypeOK, NEW e \in Int, Settles \/ Fills(e) \/ Closes(e)
  PROVE  AlignerTypeOK'
<1> DEFINE w == Append(samples, Reading(e))
<1>1. /\ w \in Seq(Samples) /\ w # << >>
      /\ Len(samples) \in Nat /\ Len(w) = Len(samples) + 1
  BY OneMoreSample
<1>2. SettleTtis \in Nat /\ NofMeasurements \in Nat \ {0}
  BY AlignerAssumption
<1>3. Median(w) \in WireSlots
  <2>. HIDE DEF w
  <2>1. PICK i \in 1 .. Len(w) : Median(w) = w[i].offset
    BY <1>1, MedianIsMeasured
  <2>2. w[i] \in Samples
    BY <1>1, <2>1, ElementOfSeq
  <2>. QED  BY <2>1, <2>2 DEF Samples
<1>4. CASE Settles
  BY <1>4, <1>2 DEF Settles, AlignerTypeOK
<1>5. CASE Fills(e)
  <2>1. samples' = w
    BY <1>5 DEF Fills
  <2>2. samples' \in Seq(Samples) /\ Len(samples') < NofMeasurements
    BY <2>1, <1>1, <1>5 DEF Fills
  <2>. QED  BY <2>2, <1>5 DEF Fills, AlignerTypeOK
<1>6. CASE Closes(e)
  <2>1. samples' = << >> /\ WindowClosed(Median(w)) /\ nofTtis' = nofTtis
    BY <1>6 DEF Closes
  <2>. HIDE DEF w
  <2>2. samples' \in Seq(Samples) /\ Len(samples') = 0
    BY <2>1
  <2>3. /\ applied' \in BOOLEAN /\ appliedOffset' \in WireSlots
        /\ pendingValid' \in BOOLEAN /\ pendingOffset' \in WireSlots
    BY <2>1, <1>3 DEF AlignerTypeOK, WindowClosed, Apply, Keep
  <2>. QED  BY <2>1, <2>2, <2>3, <1>2 DEF AlignerTypeOK
<1>. QED  BY <1>4, <1>5, <1>6

LEMMA LostType ==
  ASSUME TypeOK, PeekInv, CaptureLost
  PROVE  TypeOK' /\ PeekInv'
<1>1. /\ captures' \subseteq captures /\ sent' = {}
      /\ UNCHANGED <<repo, tti, slip, offset, window>>
  BY DEF CaptureLost
<1>. QED  BY <1>1 DEF TypeOK, PeekInv

LEMMA AlignedTtiIsAny ==
  ASSUME TypeOK, AlignerTypeOK, AlignedTti
  PROVE  AnyTti /\ AlignerTypeOK'
<1>1. PICK drift \in Nat \cup {-1}, e \in ClockErrors :
        /\ e \in Int
        /\ OnTtiWith(HandedOver, drift)
        /\ Settles \/ Fills(e) \/ Closes(e)
  BY AlignedTtiStep
<1>2. AlignerTypeOK'
  BY <1>1, AlignerTypeInductive
<1>3. HandedOver \in WireSlots
  BY <1>2 DEF AlignerTypeOK, TypeOK, HandedOver
<1>. QED  BY <1>1, <1>2, <1>3 DEF AnyTti

LEMMA AlignedTypeInductive ==
  ASSUME AlignedTypeOK, PeekInv, [AlignedNext]_alignedVars
  PROVE  AlignedTypeOK' /\ PeekInv'
<1>1. TypeOK /\ AlignerTypeOK /\ misreads \in 0 .. MaxMisreads /\ steady \in 0 .. SettledAfter
      /\ aligned \in BOOLEAN /\ before \in [truths : SUBSET WireSlots, clean : BOOLEAN]
  BY DEF AlignedTypeOK
<1>2. MaxMisreads \in Nat /\ SettledAfter \in Nat
  BY AlignedAssumption, AlignerAssumption DEF SettledAfter
<1>3. CASE AlignedTti
  <2>1. AnyTti /\ AlignerTypeOK'
    BY <1>1, <1>3, AlignedTtiIsAny
  <2>2. TypeOK' /\ PeekInv'
    BY <1>1, <2>1, TypeInductive
  <2>3. PICK drift \in Nat \cup {-1}, e \in ClockErrors : e \in Int /\ Noted(drift, e)
    BY <1>1, <1>3, AlignedTtiStep
  <2>4. misreads' \in 0 .. MaxMisreads
    BY <2>3, <1>1, <1>2 DEF Noted
  <2>5. steady' \in 0 .. SettledAfter /\ aligned' \in BOOLEAN
    BY <2>3, <1>1, <1>2 DEF Noted
  <2>6. before' \in [truths : SUBSET WireSlots, clean : BOOLEAN]
    <3>1. TrueOffset \in WireSlots
      BY <1>1, TrueOffsetOfSlip, OffsetTypes DEF TypeOK
    <3>2. {samples[i].truth : i \in 1 .. Len(samples)} \in SUBSET WireSlots
      <4>1. \A i \in 1 .. Len(samples) : samples[i] \in Samples
        BY <1>1, ElementOfSeq DEF AlignerTypeOK
      <4>. QED  BY <4>1 DEF Samples
    <3>. QED  BY <2>3, <1>1, <3>1, <3>2 DEF Noted, NoteWindow
  <2>. QED  BY <2>1, <2>2, <2>4, <2>5, <2>6 DEF AlignedTypeOK
<1>4. CASE (BetweenTtis \/ CaptureLost) /\ NoteAlignment /\ UNCHANGED <<alignerVars, misreads, steady, before>>
  <2>1. TypeOK' /\ PeekInv'
    BY <1>1, <1>4, TypeInductive, LostType
  <2>2. AlignerTypeOK'
    BY <1>1, <1>4 DEF AlignerTypeOK, alignerVars
  <2>3. aligned' \in BOOLEAN
    BY <1>1, <1>4 DEF NoteAlignment, AlignerTypeOK
  <2>. QED  BY <1>1, <1>4, <2>1, <2>2, <2>3 DEF AlignedTypeOK
<1>5. CASE UNCHANGED alignedVars
  <2>1. TypeOK' /\ PeekInv'
    BY <1>1, <1>5, TypeInductive DEF alignedVars
  <2>2. AlignerTypeOK'
    BY <1>1, <1>5 DEF AlignerTypeOK, alignedVars, alignerVars
  <2>. QED  BY <1>1, <1>5, <2>1, <2>2 DEF AlignedTypeOK, alignedVars
<1>. QED  BY <1>3, <1>4, <1>5 DEF AlignedNext

LEMMA AlignedTypeInit == AlignedInit => AlignedTypeOK /\ PeekInv
<1> SUFFICES ASSUME AlignedInit PROVE AlignedTypeOK /\ PeekInv
  OBVIOUS
<1>1. TypeOK /\ PeekInv
  BY TypeInit, WireTypes DEF AlignedInit
<1>2. AlignerTypeOK
  <2>1. samples \in Seq(Samples) /\ Len(samples) < NofMeasurements
    BY AlignerAssumption DEF AlignedInit, AlignerInit
  <2>2. 0 \in WireSlots /\ 0 \in 0 .. SettleTtis
    BY AlignerAssumption, WireTypes
  <2>. QED  BY <2>1, <2>2 DEF AlignedInit, AlignerInit, AlignerTypeOK
<1>3. 0 \in 0 .. MaxMisreads /\ 0 \in 0 .. SettledAfter
  BY AlignedAssumption, AlignerAssumption DEF SettledAfter
<1>. QED  BY <1>1, <1>2, <1>3 DEF AlignedInit, AlignedTypeOK

LEMMA AlignedSpecType == AlignedSpec => [](AlignedTypeOK /\ PeekInv)
BY AlignedTypeInit, AlignedTypeInductive, PTL DEF AlignedSpec

\* Every variable keeps its type whatever the clock and the radio do: the
\* median of a window is one of its measurements, the offset that is handed
\* over is a wire offset, and the window is emptied before it is overfull.
THEOREM AlignedTypes == AlignedSpec => []AlignedTypeOK
BY AlignedSpecType, PTL

LEMMA AlignedRecorded ==
  ASSUME AlignedTypeOK, PeekInv, RecordedInv, [AlignedNext]_alignedVars
  PROVE  RecordedInv'
<1>1. TypeOK /\ AlignerTypeOK
  BY DEF AlignedTypeOK
<1>2. CASE AlignedTti
  BY <1>1, <1>2, AlignedTtiIsAny, RecordedInductive
<1>3. CASE BetweenTtis \/ UNCHANGED vars
  BY <1>1, <1>3, RecordedInductive
<1>4. CASE CaptureLost
  BY <1>4 DEF CaptureLost, RecordedInv
<1>. QED  BY <1>2, <1>3, <1>4 DEF AlignedNext, alignedVars

LEMMA AlignedSpecRecorded == AlignedSpec => [](AlignedTypeOK /\ PeekInv /\ RecordedInv)
<1>1. AlignedInit => RecordedInv
  BY RecordedInit, WireTypes DEF AlignedInit
<1>. QED  BY <1>1, AlignedRecorded, AlignedSpecType, PTL DEF AlignedSpec
-----------------------------------------------------------------------------
(* Following the drift. *)

\* Of the window at hand, the measurements of the steady time are the true
\* offset; a steady window that has been closed has left it pending or applied,
\* a second one has applied it.
SteadyInv ==
  /\ \A i \in 1 .. Len(samples) :
       i > Len(samples) - steady => samples[i].offset = OffsetAt(slip)
  /\ steady >= Len(samples) + NofMeasurements
       => /\ applied
          /\ \/ appliedOffset = OffsetAt(slip)
             \/ pendingValid /\ pendingOffset = OffsetAt(slip)
  /\ steady >= Len(samples) + 2 * NofMeasurements
       => applied /\ appliedOffset = OffsetAt(slip)

LEMMA SteadyInductive ==
  ASSUME AlignedTypeOK, SteadyInv, AlignedTti
  PROVE  SteadyInv'
<1>1. TypeOK /\ AlignerTypeOK
  BY DEF AlignedTypeOK
<1>2. PICK drift \in Nat \cup {-1}, e \in ClockErrors :
        /\ e \in Int
        /\ Noted(drift, e)
        /\ Settles \/ Fills(e) \/ Closes(e)
  BY <1>1, AlignedTtiStep
<1> DEFINE len == Len(samples)
           N == NofMeasurements
           now == OffsetAt(slip)
<1>3. N \in Nat \ {0} /\ len \in Nat /\ len < N /\ steady \in Nat /\ steady =< 3 * N - 1
  BY <1>1, AlignerAssumption DEF AlignedTypeOK, AlignerTypeOK, SettledAfter
<1>4. CASE steady' = 0
  <2>1. Len(samples') \in Nat
    <3>1. AlignerTypeOK'
      BY <1>1, <1>2, AlignerTypeInductive
    <3>. QED  BY <3>1 DEF AlignerTypeOK
  <2>. QED  BY <1>3, <1>4, <2>1 DEF SteadyInv
<1>5. CASE steady' # 0
  <2>1. /\ nofTtis = SettleTtis /\ e = 0 /\ slip' = slip
        /\ steady' = IF steady < 3 * N - 1 THEN steady + 1 ELSE steady
    BY <1>1, <1>2, <1>5 DEF Noted, SettledAfter, TypeOK
  <2> DEFINE w == Append(samples, Reading(e))
  <2>2. /\ w \in Seq(Samples) /\ w # << >>
        /\ Len(w) = len + 1
        /\ \A i \in 1 .. len : w[i] = samples[i]
        /\ w[len + 1] = Reading(e)
    BY <1>1, <1>2, OneMoreSample
  <2>3. w[len + 1].offset = now
    <3>1. slip + e = slip
      BY <1>1, <2>1 DEF TypeOK
    <3>. QED  BY <2>2, <3>1 DEF Reading
  <2>4. \A i \in 1 .. (len + 1) : i > (len + 1) - steady' => w[i].offset = now
    <3> SUFFICES ASSUME NEW i \in 1 .. (len + 1), i > (len + 1) - steady' PROVE w[i].offset = now
      OBVIOUS
    <3>1. CASE i = len + 1
      BY <2>3, <3>1
    <3>2. CASE i # len + 1
      <4>1. i \in 1 .. len /\ i > len - steady
        BY <1>3, <2>1, <3>2
      <4>. QED  BY <4>1, <2>2 DEF SteadyInv
    <3>. QED  BY <3>1, <3>2
  <2>. HIDE DEF w, now
  <2>5. SteadyInv
    OBVIOUS
  <2>6. CASE Fills(e)
    <3>1. /\ samples' = w /\ Len(samples') = len + 1 /\ len + 1 < N
          /\ UNCHANGED <<applied, appliedOffset, pendingValid, pendingOffset>>
      BY <2>2, <2>6 DEF Fills, w
    <3>2. steady' >= len + 1 + N => steady >= len + N
      BY <1>3, <2>1
    <3>3. steady' >= len + 1 + 2 * N => steady >= len + 2 * N
      BY <1>3, <2>1
    <3>. QED  BY <2>1, <2>4, <3>1, <3>2, <3>3, <1>3, <2>5 DEF SteadyInv, now
  <2>7. CASE Closes(e)
    <3>1. samples' = << >> /\ len + 1 = N /\ WindowClosed(Median(w)) /\ Len(samples') = 0
      BY <2>7 DEF Closes, w
    <3>2. \A i \in 1 .. Len(samples') : FALSE
      BY <3>1
    <3>3. CASE steady' >= N
      <4>1. Median(w) = now
        <5>1. PICK i \in 1 .. Len(w) : Median(w) = w[i].offset
          BY <2>2, MedianIsMeasured
        <5>2. i \in 1 .. (len + 1) /\ i > (len + 1) - steady'
          BY <5>1, <2>2, <3>1, <3>3, <1>3, <2>1
        <5>. QED  BY <5>1, <5>2, <2>4
      <4>2. /\ applied'
            /\ appliedOffset' = now \/ (pendingValid' /\ pendingOffset' = now)
        BY <3>1, <4>1 DEF WindowClosed, Apply, Keep
      <4>3. ASSUME steady' >= 2 * N PROVE appliedOffset' = now
        <5>1. steady >= len + N
          BY <4>3, <1>3, <2>1, <3>1
        <5>2. /\ applied
              /\ appliedOffset = now \/ (pendingValid /\ pendingOffset = now)
          BY <5>1, <2>5 DEF SteadyInv, now
        <5>. QED  BY <5>2, <4>1, <3>1 DEF WindowClosed, Apply, Keep
      <4>. QED  BY <1>3, <2>1, <3>1, <3>2, <4>2, <4>3 DEF SteadyInv, now
    <3>4. CASE ~(steady' >= N)
      <4>1. ~(steady' >= 0 + N) /\ ~(steady' >= 0 + 2 * N)
        BY <3>4, <1>3, <2>1
      <4>. QED  BY <3>1, <3>2, <4>1 DEF SteadyInv
    <3>. QED  BY <3>3, <3>4
  <2>8. ~Settles
    BY <2>1, AlignerAssumption DEF Settles
  <2>. QED  BY <1>2, <2>6, <2>7, <2>8
<1>. QED  BY <1>4, <1>5

\* Drift and misreadings leave no wrong offset behind: once the clock has been
\* steady for the rest of a window and two more, the offset is applied and
\* right.
THEOREM AlignedFollowsDrift == AlignedSpec => []FollowsDrift
<1>1. AlignedInit => SteadyInv
  <2> SUFFICES ASSUME AlignedInit PROVE SteadyInv
    OBVIOUS
  <2>1. samples = << >> /\ Len(samples) = 0 /\ steady = 0
    BY DEF AlignedInit, AlignerInit
  <2>. QED  BY <2>1, AlignerAssumption DEF SteadyInv
<1>2. AlignedTypeOK /\ SteadyInv /\ [AlignedNext]_alignedVars => SteadyInv'
  <2> SUFFICES ASSUME AlignedTypeOK, SteadyInv, [AlignedNext]_alignedVars PROVE SteadyInv'
    OBVIOUS
  <2>1. CASE AlignedTti
    BY <2>1, SteadyInductive
  <2>2. CASE UNCHANGED <<slip, alignerVars, steady>>
    BY <2>2 DEF SteadyInv, alignerVars
  <2>3. BetweenTtis \/ CaptureLost => slip' = slip
    BY DEF BetweenTtis, CaptureLost, RecordPrach, WindowCaptured, RespondPort, ClearPort
  <2>. QED  BY <2>1, <2>2, <2>3 DEF AlignedNext, alignedVars, vars
<1>3. AlignedTypeOK /\ SteadyInv => FollowsDrift
  <2> SUFFICES ASSUME AlignedTypeOK, SteadyInv, steady = SettledAfter
               PROVE  applied /\ appliedOffset = TrueOffset
    BY DEF FollowsDrift
  <2>1. TrueOffset = OffsetAt(slip)
    BY TrueOffsetOfSlip DEF AlignedTypeOK
  <2>2. Len(samples) \in Nat /\ Len(samples) < NofMeasurements /\ NofMeasurements \in Nat
    BY AlignerAssumption DEF AlignedTypeOK, AlignerTypeOK
  <2>3. steady >= Len(samples) + 2 * NofMeasurements
    BY <2>2 DEF SettledAfter
  <2>. QED  BY <2>1, <2>3 DEF SteadyInv
<1>. HIDE DEF SteadyInv
<1>. QED  BY <1>1, <1>2, <1>3, AlignedSpecType, PTL DEF AlignedSpec
-----------------------------------------------------------------------------
(* Re-alignments. *)

\* The offset that is pending is the median of the last window, and so was true
\* in it unless the window had misread measurements.
PendingInv ==
  /\ pendingValid => applied
  /\ pendingValid /\ before.clean => pendingOffset \in before.truths

\* The median of a window that is closed, when none of it was misread.
LEMMA ClosedClean ==
  ASSUME AlignedTypeOK, NEW drift \in Nat \cup {-1}, NEW e \in ClockErrors, Noted(drift, e), Closes(e),
         before'.clean
  PROVE  Median(Append(samples, Reading(e))) \in before'.truths
<1> DEFINE w == Append(samples, Reading(e))
<1>1. TypeOK /\ AlignerTypeOK /\ e \in Int
  BY AlignedAssumption DEF AlignedTypeOK
<1>2. /\ w \in Seq(Samples) /\ w # << >>
      /\ Len(samples) \in Nat /\ Len(w) = Len(samples) + 1
      /\ \A i \in 1 .. Len(samples) : w[i] = samples[i]
      /\ w[Len(samples) + 1] = Reading(e)
  BY <1>1, OneMoreSample
<1>3. /\ before'.truths = {samples[i].truth : i \in 1 .. Len(samples)} \cup {TrueOffset}
      /\ e = 0 /\ \A i \in 1 .. Len(samples) : samples[i].offset = samples[i].truth
  BY DEF Noted, NoteWindow, Closes
<1>4. Reading(e).offset = TrueOffset
  <2>1. slip + e = slip
    BY <1>1, <1>3 DEF TypeOK
  <2>. QED  BY <2>1, <1>1, TrueOffsetOfSlip DEF Reading
<1>. HIDE DEF w
<1>5. PICK j \in 1 .. Len(w) : Median(w) = w[j].offset
  BY <1>2, MedianIsMeasured
<1>6. CASE j = Len(samples) + 1
  BY <1>2, <1>3, <1>4, <1>5, <1>6 DEF w
<1>7. CASE j # Len(samples) + 1
  <2>1. j \in 1 .. Len(samples)
    BY <1>2, <1>5, <1>7
  <2>2. Median(w) = samples[j].truth
    BY <2>1, <1>2, <1>3, <1>5
  <2>. QED  BY <2>1, <2>2, <1>3 DEF w
<1>. QED  BY <1>6, <1>7

\* A TTI keeps PendingInv and, when it re-aligns, takes up an offset that was true
\* in the undisturbed ones of the two windows.
LEMMA RealignStep ==
  ASSUME AlignedTypeOK, PendingInv, AlignedTti
  PROVE  /\ PendingInv'
         /\ applied /\ appliedOffset' # appliedOffset =>
              /\ before.clean => appliedOffset' \in before.truths
              /\ before'.clean => appliedOffset' \in before'.truths
<1>1. TypeOK /\ AlignerTypeOK
  BY DEF AlignedTypeOK
<1>2. PICK drift \in Nat \cup {-1}, e \in ClockErrors :
        Noted(drift, e) /\ (Settles \/ Fills(e) \/ Closes(e))
  BY <1>1, AlignedTtiStep
<1>3. CASE Settles \/ Fills(e)
  <2>1. UNCHANGED <<applied, appliedOffset, pendingValid, pendingOffset>>
    BY <1>3 DEF Settles, Fills
  <2>2. before' = before
    BY <1>1, <1>2, <1>3, AlignerAssumption DEF Settles, Fills, Noted, NoteWindow
  <2>. QED  BY <2>1, <2>2 DEF PendingInv
<1>4. CASE Closes(e)
  <2> DEFINE median == Median(Append(samples, Reading(e)))
  <2>1. before'.clean => median \in before'.truths
    BY <1>2, <1>4, ClosedClean
  <2>2. WindowClosed(median)
    BY <1>4 DEF Closes
  <2>3. applied => appliedOffset' = appliedOffset \/ (pendingValid /\ median = pendingOffset /\ appliedOffset' = median)
    BY <2>2 DEF WindowClosed, Apply, Keep
  <2>4. pendingValid' => pendingOffset' = median /\ applied'
    BY <2>2 DEF WindowClosed, Apply, Keep, PendingInv
  <2>. HIDE DEF median
  <2>5. PendingInv'
    BY <2>1, <2>4 DEF PendingInv
  <2>. QED  BY <2>1, <2>3, <2>5 DEF PendingInv
<1>. QED  BY <1>2, <1>3, <1>4

\* A re-alignment takes up an offset that held in each of the two windows that
\* agreed on it and had no misread measurement, for every length of the window,
\* every drift in either direction and every misreading: it takes misreadings in
\* both windows to take up an offset that was never true.
THEOREM AlignedRealignsToTruth == AlignedSpec => RealignsToTruth
<1> DEFINE Realign ==
      applied /\ appliedOffset' # appliedOffset =>
        /\ before.clean => appliedOffset' \in before.truths
        /\ before'.clean => appliedOffset' \in before'.truths
<1>1. AlignedInit => PendingInv
  BY DEF AlignedInit, AlignerInit, PendingInv
<1>2. AlignedTypeOK /\ PendingInv /\ [AlignedNext]_alignedVars => PendingInv' /\ [Realign]_alignedVars
  <2> SUFFICES ASSUME AlignedTypeOK, PendingInv, [AlignedNext]_alignedVars
               PROVE  PendingInv' /\ [Realign]_alignedVars
    OBVIOUS
  <2>1. CASE AlignedTti
    BY <2>1, RealignStep
  <2>2. CASE UNCHANGED <<alignerVars, before>>
    BY <2>2 DEF alignerVars, PendingInv
  <2>. QED  BY <2>1, <2>2 DEF AlignedNext, alignedVars
<1>3. AlignedSpec => [][Realign]_alignedVars
  <2>. HIDE DEF Realign, PendingInv
  <2>. QED  BY <1>1, <1>2, AlignedSpecType, PTL DEF AlignedSpec
<1>. QED  BY <1>3 DEF RealignsToTruth
-----------------------------------------------------------------------------
(* The samples of a reply. *)

\* The drifts of a behaviour.
Slips == MinSlip .. MaxSlip

\* The measurements of the window at hand, and the offset in use, were read at
\* some drift; a capture holds the samples of its slot in the numbering of some
\* drift; a window captured with an offset is in the wire numbering up to drift
\* and misreading.
ReadInv ==
  /\ slip \in Slips
  /\ \A i \in 1 .. Len(samples) :
       \E k \in Slips, e \in ClockErrors : samples[i].offset = OffsetAt(k + e)

NearInv ==
  /\ applied => /\ offset = appliedOffset
                /\ \E k \in Slips, e \in ClockErrors : appliedOffset = OffsetAt(k + e)
  /\ \A c \in captures :
       \E k \in Slips : c.slot % Period = ((c.air - k) + RadioShift) % Period
  /\ window.pc # "idle" /\ aligned
       => \E d \in (MinSlip - MaxSlip) .. (MaxSlip - MinSlip), e \in ClockErrors :
            window.slot = (window.air + (d + e)) % Period

\* The new measurement is a reading, the earlier ones stay readings.
LEMMA Readings ==
  ASSUME AlignedTypeOK, ReadInv, NEW e \in ClockErrors
  PROVE  LET w == Append(samples, Reading(e))
         IN  \A i \in 1 .. Len(w) :
               \E k \in Slips, f \in ClockErrors : w[i].offset = OffsetAt(k + f)
<1> DEFINE w == Append(samples, Reading(e))
<1>1. e \in Int
  BY AlignedAssumption
<1>2. /\ Len(samples) \in Nat /\ Len(w) = Len(samples) + 1
      /\ \A i \in 1 .. Len(samples) : w[i] = samples[i]
      /\ w[Len(samples) + 1] = Reading(e)
  BY <1>1, OneMoreSample DEF AlignedTypeOK
<1>3. Reading(e).offset = OffsetAt(slip + e)
  BY DEF Reading
<1>. HIDE DEF w
<1>4. ASSUME NEW i \in 1 .. Len(w)
      PROVE  \E k \in Slips, f \in ClockErrors : w[i].offset = OffsetAt(k + f)
  <2>1. i \in 1 .. Len(samples) \/ i = Len(samples) + 1
    BY <1>2
  <2>. QED  BY <2>1, <1>2, <1>3 DEF ReadInv
<1>. QED  BY <1>4 DEF w

LEMMA ReadInductive ==
  ASSUME AlignedTypeOK, ReadInv, AlignedTti
  PROVE  ReadInv'
<1>1. TypeOK /\ AlignerTypeOK
  BY DEF AlignedTypeOK
<1>2. PICK drift \in Nat \cup {-1}, e \in ClockErrors :
        e \in Int /\ Noted(drift, e) /\ (Settles \/ Fills(e) \/ Closes(e))
  BY <1>1, AlignedTtiStep
<1> DEFINE w == Append(samples, Reading(e))
<1>3. \A i \in 1 .. Len(w) : \E k \in Slips, f \in ClockErrors : w[i].offset = OffsetAt(k + f)
  BY Readings
<1>4. samples' = samples \/ samples' = w \/ samples' = << >>
  BY <1>2 DEF Settles, Fills, Closes
<1>5. slip' \in Slips
  BY <1>2 DEF Noted, Slips
<1>. HIDE DEF w, Slips
<1>6. ASSUME NEW i \in 1 .. Len(samples')
      PROVE  \E k \in Slips, f \in ClockErrors : samples'[i].offset = OffsetAt(k + f)
  BY <1>3, <1>4 DEF ReadInv
<1>. QED  BY <1>5, <1>6 DEF ReadInv, Slips, OffsetAt

LEMMA SumOfRemainders ==
  ASSUME NEW P \in Nat \ {0}, NEW x \in Int, NEW y \in Int, NEW z \in Int, x % P = z % P
  PROVE  (x + (y % P)) % P = (z + y) % P
<1>1. ((y % P) + x) % P = (y + x) % P
  BY ModAdd
<1>2. ((x % P) + y) % P = (x + y) % P
  BY ModAdd
<1>3. ((z % P) + y) % P = (z + y) % P
  BY ModAdd
<1>4. x + (y % P) = (y % P) + x /\ y + x = x + y
  <2>1. y % P \in Int
    BY DivMod
  <2>. QED  BY <2>1
<1>. QED  BY <1>1, <1>2, <1>3, <1>4

LEMMA CapturedNumber ==
  ASSUME TypeOK
  PROVE  CapturedSlot(NextRadioSlot) % Period
           = (((tti - (Lookback % RadioPeriod)) - slip) + RadioShift) % Period
<1> DEFINE P == Period
           R == RadioPeriod
           L == Lookback
           n == (tti - slip) + RadioShift
<1>1. P \in Nat \ {0} /\ R \in Nat \ {0} /\ R % P = 0
  BY SlotAssumption
<1>2. n \in Int /\ L \in Int /\ tti \in Int /\ slip \in Int /\ RadioShift \in Int
  BY RadioShiftAssumption, PrachAssumption DEF TypeOK
<1>3. CapturedSlot(NextRadioSlot) = ((n % R) + (-L)) % R
  BY DEF CapturedSlot, NextRadioSlot, RadioSlot, SlotPlus
<1>4. ((tti - (L % R)) - slip) + RadioShift = n - (L % R)
  <2>1. L % R \in Int
    BY <1>1, <1>2, DivMod
  <2>. QED  BY <2>1, <1>2
<1>. HIDE DEF P, R, L, n
<1>5. -L \in Int /\ n + (-L) \in Int /\ n - L = n + (-L) /\ n - (L % R) \in Int
  <2>1. L % R \in Int
    BY <1>1, <1>2, DivMod
  <2>. QED  BY <2>1, <1>2
<1>6. ((n % R) + (-L)) % R = (n + (-L)) % R
  BY <1>1, <1>2, <1>5, ModAdd
<1>7. ((n + (-L)) % R) % P = (n + (-L)) % P
  BY <1>1, <1>5, ModMod
<1>8. (n - (L % R)) % R = (n - L) % R
  BY <1>1, <1>2, ModAdd
<1>9. ((n - (L % R)) % R) % P = (n - (L % R)) % P
  BY <1>1, <1>5, ModMod
<1>10. (n - (L % R)) % P = (n + (-L)) % P
  BY <1>5, <1>7, <1>8, <1>9
<1>. QED  BY <1>3, <1>4, <1>6, <1>7, <1>10 DEF P, R, L

LEMMA AlignedSpecRead == AlignedSpec => [](AlignedTypeOK /\ ReadInv)
<1>1. AlignedInit => ReadInv
  <2> SUFFICES ASSUME AlignedInit PROVE ReadInv
    OBVIOUS
  <2>1. samples = << >> /\ slip = 0
    BY DEF AlignedInit, InitWith, AlignerInit
  <2>. QED  BY <2>1, AlignedAssumption DEF ReadInv, Slips
<1>2. AlignedTypeOK /\ ReadInv /\ [AlignedNext]_alignedVars => ReadInv'
  <2> SUFFICES ASSUME AlignedTypeOK, ReadInv, [AlignedNext]_alignedVars PROVE ReadInv'
    OBVIOUS
  <2>1. CASE AlignedTti
    BY <2>1, ReadInductive
  <2>2. CASE UNCHANGED <<slip, alignerVars>>
    BY <2>2 DEF ReadInv, alignerVars
  <2>3. BetweenTtis \/ CaptureLost => slip' = slip
    BY DEF BetweenTtis, CaptureLost, RecordPrach, WindowCaptured, RespondPort, ClearPort
  <2>. QED  BY <2>1, <2>2, <2>3 DEF AlignedNext, alignedVars, vars
<1>. HIDE DEF ReadInv
<1>. QED  BY <1>1, <1>2, AlignedSpecType, PTL DEF AlignedSpec

LEMMA NearTti ==
  ASSUME AlignedTypeOK, PeekInv, ReadInv, NearInv, AlignedTti
  PROVE  NearInv'
<1>1. TypeOK /\ AlignerTypeOK /\ slip \in Slips
  BY DEF AlignedTypeOK, TypeOK, ReadInv
<1>2. PICK drift \in Nat \cup {-1}, e \in ClockErrors :
        e \in Int /\ Noted(drift, e) /\ (Settles \/ Fills(e) \/ Closes(e))
  BY <1>1, AlignedTtiStep
<1>3. AnyTti
  BY <1>1, AlignedTtiIsAny
<1>4. ASSUME applied'
      PROVE  /\ offset' = appliedOffset'
             /\ \E k \in Slips, f \in ClockErrors : appliedOffset' = OffsetAt(k + f)
  <2>1. offset' = appliedOffset'
    BY <1>2, <1>4 DEF Noted
  <2>2. CASE applied /\ appliedOffset' = appliedOffset
    BY <2>1, <2>2 DEF NearInv
  <2>3. CASE ~(applied /\ appliedOffset' = appliedOffset)
    <3> DEFINE w == Append(samples, Reading(e))
    <3>1. WindowClosed(Median(w))
      BY <1>2, <1>4, <2>3 DEF Settles, Fills, Closes
    <3>2. appliedOffset' = Median(w)
      BY <3>1, <2>3 DEF WindowClosed, Apply, Keep
    <3>3. w \in Seq(Samples) /\ w # << >>
      BY <1>1, <1>2, OneMoreSample
    <3>4. \A i \in 1 .. Len(w) : \E k \in Slips, f \in ClockErrors : w[i].offset = OffsetAt(k + f)
      BY Readings
    <3>. HIDE DEF w
    <3>5. PICK j \in 1 .. Len(w) : Median(w) = w[j].offset
      BY <3>3, MedianIsMeasured
    <3>. QED  BY <2>1, <3>2, <3>4, <3>5
  <2>. QED  BY <2>2, <2>3
<1>5. ASSUME NEW c \in captures'
      PROVE  \E k \in Slips : c.slot % Period = ((c.air - k) + RadioShift) % Period
  <2>1. CASE c \in captures
    BY <2>1 DEF NearInv
  <2>2. CASE c \notin captures
    <3>1. /\ c.slot = CapturedSlot(NextRadioSlot)
          /\ c.air = tti - (Lookback % RadioPeriod)
      BY <1>1, <1>3, <1>5, <2>2, TtiStep
    <3>2. c.slot % Period = ((c.air - slip) + RadioShift) % Period
      BY <3>1, <1>1, CapturedNumber
    <3>. QED  BY <3>2, <1>1
  <2>. QED  BY <2>1, <2>2
<1>6. window' = window /\ aligned' = aligned
  BY <1>1, <1>2, <1>3, TtiStep DEF Noted
<1>. QED  BY <1>4, <1>5, <1>6 DEF NearInv

LEMMA NearCaptured ==
  ASSUME AlignedTypeOK, ReadInv, NearInv, WindowCaptured, NoteAlignment,
         UNCHANGED <<alignerVars, misreads, steady, before>>
  PROVE  NearInv'
<1>1. TypeOK /\ MinSlip \in Int /\ MaxSlip \in Nat
  BY AlignedAssumption DEF AlignedTypeOK
<1>2. PICK c \in captures :
        /\ c \in Captures
        /\ window.pc = "idle"
        /\ captures' = captures \ {c}
        /\ window' = [pc |-> "get", slot |-> ToOfhSlot(c.slot, offset), air |-> c.air,
                      start |-> c.start, port |-> 1]
        /\ UNCHANGED <<repo, tti, slip, offset>>
  BY <1>1, CapturedStep
<1>3. window'.pc = "get" /\ window'.slot = ToOfhSlot(c.slot, offset) /\ window'.air = c.air
  BY <1>2
<1>4. aligned' => applied
  BY <1>2, <1>3 DEF NoteAlignment
<1>5. ASSUME applied
      PROVE  \E d \in (MinSlip - MaxSlip) .. (MaxSlip - MinSlip), e \in ClockErrors :
               window'.slot = (window'.air + (d + e)) % Period
  <2>1. PICK m \in Slips, e \in ClockErrors : offset = OffsetAt(m + e)
    BY <1>5 DEF NearInv
  <2>2. PICK k \in Slips : c.slot % Period = ((c.air - k) + RadioShift) % Period
    BY <1>2 DEF NearInv
  <2>3. /\ m \in Int /\ k \in Int /\ e \in Int /\ RadioShift \in Int
        /\ c.slot \in Int /\ c.air \in Int
        /\ m - k \in (MinSlip - MaxSlip) .. (MaxSlip - MinSlip)
    BY <1>1, <1>2, <2>1, <2>2, AlignedAssumption, RadioShiftAssumption, SlotAssumption
       DEF Captures, RadioSlots, Slips
  <2> DEFINE x == c.slot
             y == (m + e) - RadioShift
             z == (c.air - k) + RadioShift
  <2>4. x \in Int /\ y \in Int /\ z \in Int /\ x % Period = z % Period /\ Period \in Nat \ {0}
    BY <2>2, <2>3, SlotAssumption
  <2>5. z + y = c.air + ((m - k) + e)
    BY <2>3
  <2>6. window'.slot = (x + (y % Period)) % Period
    BY <1>3, <2>1 DEF ToOfhSlot, OffsetAt
  <2>. HIDE DEF x, y, z
  <2>7. (x + (y % Period)) % Period = (z + y) % Period
    BY <2>4, SumOfRemainders
  <2>8. window'.slot = (window'.air + ((m - k) + e)) % Period
    BY <2>5, <2>6, <2>7, <1>3
  <2>. QED  BY <2>3, <2>8
<1>. QED  BY <1>2, <1>4, <1>5 DEF NearInv, alignerVars

LEMMA NearInductive ==
  ASSUME AlignedTypeOK, PeekInv, ReadInv, NearInv, [AlignedNext]_alignedVars
  PROVE  NearInv'
<1>1. TypeOK
  BY DEF AlignedTypeOK
<1> DEFINE Rest == NoteAlignment /\ UNCHANGED <<alignerVars, misreads, steady, before>>
<1>2. CASE AlignedTti
  BY <1>2, NearTti
<1>3. CASE WindowCaptured /\ Rest
  BY <1>3, NearCaptured
<1>4. CASE (RespondPort \/ ClearPort) /\ Rest
  <2>1. /\ UNCHANGED <<tti, slip, offset, captures>>
        /\ window.pc # "idle"
        /\ \/ window'.pc = "idle"
           \/ window'.pc # "idle" /\ window'.air = window.air /\ window'.slot = window.slot
    BY <1>1, <1>4, PortStep
  <2>2. aligned' => aligned
    BY <1>4, <2>1 DEF NoteAlignment
  <2>. QED  BY <1>4, <2>1, <2>2 DEF NearInv, alignerVars
<1>5. CASE (RecordPrach \/ CaptureLost) /\ Rest
  <2>1. captures' \subseteq captures /\ UNCHANGED <<slip, offset, window>>
    BY <1>5 DEF RecordPrach, CaptureLost
  <2>2. window'.pc # "idle" /\ aligned' => aligned
    BY <1>5, <2>1 DEF NoteAlignment
  <2>. QED  BY <1>5, <2>1, <2>2 DEF NearInv, alignerVars
<1>6. CASE UNCHANGED alignedVars
  BY <1>6 DEF NearInv, alignedVars, alignerVars, vars
<1>. QED  BY <1>2, <1>3, <1>4, <1>5, <1>6 DEF AlignedNext, BetweenTtis

LEMMA NearSent ==
  ASSUME AlignedTypeOK, PeekInv, RecordedInv, NearInv, WireSlotNearRequested,
         [AlignedNext]_alignedVars
  PROVE  WireSlotNearRequested'
<1>1. TypeOK /\ AlignerTypeOK
  BY DEF AlignedTypeOK
<1>2. CASE UNCHANGED alignedVars
  BY <1>2 DEF WireSlotNearRequested, alignedVars, vars
<1>3. CASE AlignedNext
  <2> SUFFICES ASSUME aligned', NEW r \in sent'
               PROVE  \E d \in (MinSlip - MaxSlip) .. (MaxSlip - MinSlip), e \in ClockErrors :
                        (r.request.air - r.air) % Period = (d + e) % Period
    BY DEF WireSlotNearRequested
  <2>1. ~AlignedTti /\ ~CaptureLost
    <3>1. AlignedTti => sent' = {}
      BY <1>1, AlignedTtiIsAny, TtiStep
    <3>. QED  BY <3>1 DEF CaptureLost
  <2>2. BetweenTtis /\ NoteAlignment
    BY <1>3, <2>1 DEF AlignedNext
  <2> DEFINE f == PrachEaxc[window.port]
             i == RepositoryIndex(window.slot)
  <2>3. /\ window.pc = "get" /\ f \in PrachEaxcSet /\ i \in Indices
        /\ Has(repo, window.slot, f)
        /\ r.request = Get(repo, window.slot, f)
        /\ r.air = window.air
    BY <1>1, <2>2, SentStep
  <2>4. aligned
    BY <2>2, <2>3 DEF NoteAlignment
  <2>5. PICK d \in (MinSlip - MaxSlip) .. (MaxSlip - MinSlip), e \in ClockErrors :
          window.slot = (window.air + (d + e)) % Period
    BY <2>3, <2>4 DEF NearInv
  <2>6. r.request = repo[i][f] /\ repo[i][f] \in PrachEntries
        /\ repo[i][f].nof # 0 /\ repo[i][f].slot = window.slot
    <3>1. repo[i][f] \in PrachEntries
      BY <1>1, <2>3 DEF TypeOK
    <3>. QED  BY <3>1, <2>3 DEF Has, Get
  <2>7. r.request.air % Period = (window.air + (d + e)) % Period /\ r.request.air \in Int
    BY <2>3, <2>5, <2>6 DEF RecordedInv, PrachEntries
  <2> DEFINE P == Period
             a == r.request.air
             b == r.air
             v == b + (d + e)
  <2>8. P \in Nat \ {0} /\ a \in Int /\ b \in Int /\ -b \in Int /\ v \in Int /\ d + e \in Int
        /\ v + (-b) = d + e
    <3>1. b \in Nat
      BY <1>1, <2>3 DEF TypeOK
    <3>2. d \in Int /\ e \in Int
      BY AlignedAssumption
    <3>. QED  BY <3>1, <3>2, <2>7, SlotAssumption
  <2>9. a % P = v % P
    BY <2>3, <2>7
  <2>10. a - b = a + (-b)
    BY <2>8
  <2>. HIDE DEF P, a, b, v
  <2>11. ((a % P) + (-b)) % P = (a + (-b)) % P /\ ((v % P) + (-b)) % P = (v + (-b)) % P
    BY <2>8, ModAdd
  <2>12. (a - b) % P = (d + e) % P
    BY <2>8, <2>9, <2>10, <2>11
  <2>. QED  BY <2>12 DEF P, a, b
<1>. QED  BY <1>2, <1>3

\* With an offset established before it was captured, the wire slot a reply is
\* sent for is no further from that of its samples than the drift, in either
\* direction, and one misreading add up to.
THEOREM AlignedWireSlotNearRequested == AlignedSpec => []WireSlotNearRequested
<1>1. AlignedInit => NearInv /\ WireSlotNearRequested
  BY DEF AlignedInit, InitWith, AlignerInit, NoWindow, NearInv, WireSlotNearRequested
<1>2. AlignedSpec => []NearInv
  <2>1. AlignedTypeOK /\ PeekInv /\ ReadInv /\ NearInv /\ [AlignedNext]_alignedVars => NearInv'
    BY NearInductive
  <2>. HIDE DEF NearInv, ReadInv
  <2>. QED  BY <1>1, <2>1, AlignedSpecType, AlignedSpecRead, PTL DEF AlignedSpec
<1>. HIDE DEF NearInv, WireSlotNearRequested
<1>. QED  BY <1>1, <1>2, NearSent, AlignedSpecRecorded, PTL DEF AlignedSpec
=============================================================================
