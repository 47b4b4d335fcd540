--------------------------- MODULE CplaneDispatch ---------------------------
(***************************************************************************)
(* Routing of a decoded Control-Plane message (ru_rx_cplane_data_flow and  *)
(* ru_cplane_scheduling_dispatcher): the section type decides before the   *)
(* data direction does, and a message for an eAxC that is not configured   *)
(* for its path is dropped.  An eAxC list is a sequence: port p of the     *)
(* source is element p + 1 here.                                           *)
(***************************************************************************)
EXTENDS RequestRepository, Sequences

CONSTANTS Eaxcs,        \* every eAxC identifier that occurs on the wire
          DlEaxc,       \* config.dl_eaxc
          UlEaxc,       \* config.ul_eaxc
          PrachEaxc     \* config.prach_eaxc

ASSUME EaxcAssumption ==
  /\ DlEaxc \in Seq(Eaxcs)
  /\ UlEaxc \in Seq(Eaxcs)
  /\ PrachEaxc \in Seq(Eaxcs)

Configured(list, eaxc) == \E port \in 1 .. Len(list) : list[port] = eaxc

Messages ==
  [prach : BOOLEAN, uplink : BOOLEAN, eaxc : Eaxcs, air : Nat,
   range : Ranges, sid : SectionIds]

Route(m) ==
  CASE m.prach /\ Configured(PrachEaxc, m.eaxc)              -> "prach"
    [] ~m.prach /\ m.uplink /\ Configured(UlEaxc, m.eaxc)    -> "uplink"
    [] ~m.prach /\ ~m.uplink /\ Configured(DlEaxc, m.eaxc)   -> "downlink"
    [] OTHER                                                 -> "dropped"

\* Mutant: the slot is not reduced to the wire period.
ToUnwrappedRequest(m) ==
  [slot |-> m.air, start |-> m.range[1], nof |-> m.range[2],
   sid |-> m.sid, air |-> m.air, prach |-> m.prach]

\* What the recorder keeps of a message: the wire carries the slot modulo 256
\* frames, so `slot' is all the O-RU ever learns of `air'.
ToRequest(m) ==
  [slot |-> m.air % Period, start |-> m.range[1], nof |-> m.range[2],
   sid |-> m.sid, air |-> m.air, prach |-> m.prach]
=============================================================================
