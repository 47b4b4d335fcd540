------------------------------ MODULE OfhSlots ------------------------------
(***************************************************************************)
(* Slot numbering of the O-RU.  The radio and the OTA timing notifier      *)
(* number slots over 1024 frames (RadioPeriod); the eCPRI header carries   *)
(* an 8-bit frame number, so the wire numbering wraps every 256 frames     *)
(* (Period); the repositories hold two frames (RepoSize slots).            *)
(* A slot_point is modelled by its system slot count.                      *)
(***************************************************************************)
EXTENDS Integers

CONSTANTS RadioPeriod,  \* slots in 1024 frames: slot_point wraps here
          Period,       \* slots in 256 frames: the wire numbering wraps here
          RepoSize      \* entries of the request and grid repositories

ASSUME SlotAssumption ==
  /\ RadioPeriod \in Nat \ {0}
  /\ Period \in Nat \ {0}
  /\ RepoSize \in Nat \ {0}
  /\ Period =< RadioPeriod
  /\ RadioPeriod % Period = 0   \* 1024 frames are four wire periods
  /\ Period % RepoSize = 0      \* 256 frames are 128 times the two of a repository
-----------------------------------------------------------------------------
RadioSlots == 0 .. (RadioPeriod - 1)

WireSlots == 0 .. (Period - 1)

Indices == 0 .. (RepoSize - 1)

\* slot + jump and slot - jump, jump of either sign: slot_point::operator+=.
SlotPlus(slot, jump) == (slot + jump) % RadioPeriod

\* The frame number is reduced modulo 256 before the index is taken.
RepositoryIndex(slot) == (slot % Period) % RepoSize

\* Mutant: the offset is taken with the wrong sign.
ToOfhSlotReversed(radioSlot, offset) == (radioSlot + Period - offset) % Period

\* Radio numbering -> wire numbering.
ToOfhSlot(radioSlot, offset) == (radioSlot + offset) % Period

\* Offset from the radio numbering to the GPS wire numbering, from the GPS slot
\* count at the air time of the radio slot.
MeasureGpsSlotOffset(gpsSlots, radioSlot) ==
  (gpsSlots + Period - (radioSlot % Period)) % Period

\* Mutant: the wire periods the radio has gone through are not added.
WireToRadioBase(slot, offset, current) == (slot + Period - (offset % Period)) % Period

\* Wire numbering -> radio numbering: of the radio slots with this wire number,
\* the one nearest the radio's current slot.
WireToRadio(slot, offset, current) ==
  LET base == (slot + Period - (offset % Period)) % Period
      ahead == (current + RadioPeriod - base) % RadioPeriod
      past == (ahead + (Period \div 2)) \div Period
  IN  (base + past * Period) % RadioPeriod
=============================================================================
