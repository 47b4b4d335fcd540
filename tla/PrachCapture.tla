---------------------------- MODULE PrachCapture ----------------------------
(***************************************************************************)
(* PRACH over the radio: the receive thread records the PRACH Control-     *)
(* Plane, every TTI of the radio peeks the occasion of an earlier slot and *)
(* asks the radio to capture its window, and the captured window is        *)
(* matched with the recorded requests and answered.  The radio delivers    *)
(* every window; PrachAligned has one that does not.                       *)
(*                                                                         *)
(* Time is `tti', the absolute slot of the last TTI; the O-RU sees it only *)
(* in the radio numbering and, through `offset', in the wire numbering.    *)
(***************************************************************************)
EXTENDS CplaneDispatch, RadioNumbering, FiniteSets

CONSTANTS Lookback,        \* prach_peek_lookback_slots = max_proc_delay
          NofBuffers,      \* NOF_PRACH_CAPTURE_BUFFERS
          BufferPorts,     \* ports of a capture buffer
          ScsChoices,      \* whether a request may be in the cell's SCS, or not
          Leads,           \* slots from the slot being peeked to a recorded one
          Latency,         \* TTIs within which the radio delivers a window
          MaxTti           \* bound: last absolute TTI

ASSUME PrachAssumption ==
  /\ Lookback \in Nat
  /\ NofBuffers \in Nat
  /\ BufferPorts \in Nat \ {0}
  /\ ScsChoices \subseteq BOOLEAN
  /\ Leads \subseteq Int
  /\ Latency \in Nat
  /\ MaxTti \in Nat
  /\ Len(PrachEaxc) > 0

VARIABLES repo,      \* prach_request_repo
          tti,       \* absolute slot of the next TTI
          slip,      \* absolute slots gone by without a TTI, less those that had
                     \* two: the clock drift
          offset,    \* gps_slot_offset of the orchestrator and the adapter
          captures,  \* captures asked for: radio slot, start symbol and, as
                     \* history, the absolute slot the radio will sample
          window,    \* radio thread: the window being answered
          sent       \* history: the replies built by the last step

vars == <<repo, tti, slip, offset, captures, window, sent>>

PrachEaxcSet == {PrachEaxc[p] : p \in 1 .. Len(PrachEaxc)}

\* min(buffer ports, PRACH eAxCs).
NofPorts == IF BufferPorts < Len(PrachEaxc) THEN BufferPorts ELSE Len(PrachEaxc)

PrachEntries ==
  [slot : WireSlots \cup {NoSlot}, start : Nat, nof : Nat, sid : SectionIds,
   air : Nat, prach : BOOLEAN, cellScs : BOOLEAN]

\* A request and whether its PRACH SCS is the cell's.
WithScs(request, cellScs) ==
  [slot |-> request.slot, start |-> request.start, nof |-> request.nof, sid |-> request.sid,
   air |-> request.air, prach |-> request.prach, cellScs |-> cellScs]

Captures == [slot : RadioSlots, air : Nat, start : Nat]

NoWindow == [pc |-> "idle", slot |-> 0, air |-> 0, start |-> 0, port |-> 1]

TypeOK ==
  /\ repo \in [Indices -> [PrachEaxcSet -> PrachEntries]]
  /\ tti \in Nat
  /\ slip \in Int
  /\ offset \in WireSlots
  /\ captures \subseteq Captures
  /\ window \in [pc : {"idle", "get", "clear"}, slot : WireSlots, air : Nat, start : Nat,
                 port : 1 .. NofPorts]
  /\ sent \subseteq [air : Nat, slot : WireSlots, start : Nat, eaxc : PrachEaxcSet,
                     request : PrachEntries]

InitWith(o) ==
  /\ repo = [i \in Indices |-> [e \in PrachEaxcSet |->
               WithScs(EmptyEntry(CHOOSE s \in SectionIds : TRUE), FALSE)]]
  /\ tti = Lookback
  /\ slip = 0
  /\ offset = o
  /\ captures = {}
  /\ window = NoWindow
  /\ sent = {}

\* The slot aligner has done its first measurement (see PrachAligned).
Init == InitWith(AlignedOffset)
-----------------------------------------------------------------------------
\* The slot whose occasion is peeked at the next TTI.
Peeked == tti - Lookback

\* Receive thread: handle_prach_scheduling.  A request whose filter and SCS do
\* not fit, or whose allocation lies outside the grid, is dropped (~valid).
RecordPrach ==
  \E lead \in Leads, eaxc \in Eaxcs, range \in Ranges, sid \in SectionIds,
     valid \in BOOLEAN, cellScs \in ScsChoices :
    LET m == [prach |-> TRUE, uplink |-> TRUE, eaxc |-> eaxc, air |-> Peeked + lead,
              range |-> range, sid |-> sid]
    IN  /\ Peeked + lead >= 0
        /\ Route(m) = "prach"
        /\ valid
        /\ repo' = Add(repo, eaxc, WithScs(ToRequest(m), cellScs))
        /\ sent' = {}
        /\ UNCHANGED <<tti, slip, offset, captures, window>>

\* The SDR capture context is for the cell's SCS only.
Capturable(request) == request.cellScs

\* peek_prach_occasion: the first eAxC with a request for the slot.
Occasions(slot) == {p \in 1 .. Len(PrachEaxc) : Has(repo, slot, PrachEaxc[p])}

PeekOccasion(slot) ==
  Get(repo, slot, PrachEaxc[CHOOSE p \in Occasions(slot) : \A q \in Occasions(slot) : p =< q])

\* A buffer of the capture pool is free: none is held by a capture or by the
\* window being answered.
BufferFree == Cardinality(captures) + (IF window.pc = "idle" THEN 0 ELSE 1) < NofBuffers

\* Mutant: the radio slot is not moved back.
CapturedSlotAhead(radioSlot) == radioSlot

\* Radio slot of the peeked occasion.
CapturedSlot(radioSlot) == SlotPlus(radioSlot, -Lookback)

\* Radio slot of the next TTI.
NextRadioSlot == RadioSlot(tti - slip)

\* Radio thread: on_tti_boundary, when the orchestrator's offset is o.  Both
\* numberings are moved back by the lookback, each as a slot_point.  The next
\* TTI comes one slot later, and `drift' slots more, or one less.
OnTtiWith(o, drift) ==
  LET prachOfhSlot == SlotPlus(ToOfhSlot(NextRadioSlot, o), -Lookback)
  IN  /\ tti < MaxTti
      /\ \A c \in captures : Peeked - c.air =< Latency
      /\ window.pc = "idle" \/ Peeked - window.air =< Latency
      /\ tti' = tti + 1 + drift
      /\ slip' = slip + drift
      /\ offset' = o
      /\ captures' =
           IF /\ Occasions(prachOfhSlot) # {}
              /\ Capturable(PeekOccasion(prachOfhSlot))
              /\ BufferFree
           THEN captures \cup {[slot |-> CapturedSlot(NextRadioSlot),
                                air |-> tti - SlotPlus(NextRadioSlot, -CapturedSlot(NextRadioSlot)),
                                start |-> PeekOccasion(prachOfhSlot).start]}
           ELSE captures
      /\ sent' = {}
      /\ UNCHANGED <<repo, window>>

OnTti == OnTtiWith(offset, 0)

\* Radio thread: on_new_prach_window_data.
WindowCaptured ==
  \E c \in captures :
    /\ window.pc = "idle"
    /\ captures' = captures \ {c}
    /\ window' = [pc |-> "get", slot |-> ToOfhSlot(c.slot, offset), air |-> c.air,
                  start |-> c.start, port |-> 1]
    /\ sent' = {}
    /\ UNCHANGED <<repo, tti, slip, offset>>

\* Mutant: the loop ends with its first port.
FirstPortOnly == window' = NoWindow

NextPort ==
  window' = IF window.port = NofPorts THEN NoWindow
            ELSE [window EXCEPT !.pc = "get", !.port = @ + 1]

\* One turn of handle_prach_window up to the clear.
RespondPort ==
  LET eaxc == PrachEaxc[window.port]
  IN  /\ window.pc = "get"
      /\ IF Has(repo, window.slot, eaxc)
         THEN /\ sent' = {[air |-> window.air, slot |-> window.slot, start |-> window.start,
                          eaxc |-> eaxc, request |-> Get(repo, window.slot, eaxc)]}
              /\ window' = [window EXCEPT !.pc = "clear"]
         ELSE sent' = {} /\ NextPort
      /\ UNCHANGED <<repo, tti, slip, offset, captures>>

ClearPort ==
  /\ window.pc = "clear"
  /\ repo' = Clear(repo, window.slot, PrachEaxc[window.port])
  /\ sent' = {}
  /\ NextPort
  /\ UNCHANGED <<tti, slip, offset, captures>>

\* Everything but the TTI.
BetweenTtis ==
  \/ RecordPrach
  \/ WindowCaptured
  \/ RespondPort
  \/ ClearPort

Next == OnTti \/ BetweenTtis

Spec == Init /\ [][Next]_vars
-----------------------------------------------------------------------------
(* The environment the O-RU is specified for: every request asks for symbols
   in the cell's SCS, and comes before its occasion is peeked but not before the
   windows of the slots that share its entry have been answered; a repository
   holds less than the 256 frames of the wire, the lookback is less than the 1024
   of the radio. *)
Timely ==
  /\ RepoSize < Period
  /\ Lookback < RadioPeriod
  /\ ScsChoices = {TRUE}
  /\ Leads \subseteq 1 .. (RepoSize - Latency - 1)
  /\ \A r \in Ranges : r[2] > 0
  /\ Latency < NofBuffers
  /\ Len(PrachEaxc) =< BufferPorts

\* A reply carries the samples of the slot its request was for: neither the two
\* numberings, the lookback nor the repository index mixes up two occasions,
\* and none is answered again when the wire numbering comes round.
SamplesOfRequestedSlot == \A r \in sent : r.request.air = r.air

Waiting(entry, slot) == entry.nof # 0 /\ entry.air = slot

Pending(slot) ==
  \E e \in PrachEaxcSet : Waiting(repo[RepositoryIndex(slot % Period)][e], slot)

\* A recorded occasion is captured, in its own radio slot, by the TTI that looks
\* back to it.
OccasionCaptured ==
  [][tti' # tti /\ Pending(Peeked)
       => \E c \in captures' : c.air = Peeked /\ c.slot = RadioSlot(Peeked)]_vars

\* The same, for the slots that have their TTI in the same wire period.
OccasionCapturedInPeriod ==
  [][tti' # tti /\ Pending(Peeked) /\ tti % Period >= Lookback
       => \E c \in captures' : c.air = Peeked /\ c.slot = RadioSlot(Peeked)]_vars

\* No request outlives its occasion: it is answered on every eAxC and released
\* within the latency of the radio.
NothingLeftOver ==
  \A i \in Indices, e \in PrachEaxcSet :
    LET entry == repo[i][e]
    IN  entry.nof # 0 /\ entry.air % Period < Period - Lookback
          => Peeked - entry.air =< Latency + 1
=============================================================================
