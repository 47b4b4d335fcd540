# TLA+ models of the ProtO-RU radio unit

ProtO-RU is a software O-RAN (split 7.2) radio unit: it receives Open Fronthaul
Control-Plane and User-Plane from an O-DU over Ethernet, drives an SDR, and
answers with uplink and PRACH User-Plane.  These modules model the part of the
repository that is the O-RU itself (`apps/examples/ofh`, `lib/ofh/ru`, the
`ofh_ru_*` files of `lib/ofh/receiver` and the support code they use).  The
CU/DU stack, the PHY and the radio drivers around it are the OCUDU code base and
are modelled only where the O-RU meets them (the radio's numbering, late PRACH captures,
the release of modulated grids, the worker of an executor).

All paths below are relative to the root of the repository.

## The system

### Threads

| thread | what it runs |
|---|---|
| receive (`ru_rx`, `ru_emu`) | one frame after the other: header checks, Control-Plane decoding and dispatch, User-Plane decoding and the write into the downlink grid; classification and counting of the frame; without a radio also the immediate uplink and PRACH replies |
| timing (`ru_timing`) | `ru_emulator_timing_notifier::poll`: once per OTA symbol it notifies the transmit dispatcher, the downlink window handler and the window checkers; symbols it sleeps through are never notified |
| transmit worker (`ru_ofh_tx`) | single worker with a bounded queue: encodes uplink replies and drains the frame pools |
| radio | the lower PHY: TTI boundaries (aligner, then orchestrator), captured uplink symbols and PRACH windows (adapter, then responders) |
| main | subscribes the notifiers, starts the timing worker and the receivers, prints a row of statistics once a second, stops everything |

### Components

| component | state | operations | what makes it correct |
|---|---|---|---|
| slot numbering (`slot_point.h`, `context_repository_helpers.h`, `ru_emulator_gps_slot_alignment.h`) | none | radio numbering (1024 frames), wire numbering (256 frames), repository index, the translations between them | a slot keeps its identity across both wraps |
| Control-Plane dispatch (`ofh_ru_cplane_scheduling_dispatcher.cpp`) | eAxC lists | routing by section type, then direction, then eAxC list | PRACH and uplink requests never mix |
| request repository (`ofh_ru_uplink_request_repository.h`) | one entry per slot index and eAxC | `add`, `get`, `clear`, each under the mutex | an entry only serves the slot it was recorded for |
| uplink recorder and responder | the repository | record on the receive thread, answer per captured symbol on the radio thread | every requested symbol is answered exactly once, in its slot |
| PRACH recorder, orchestrator, responder | a second repository, capture buffers, slot offset | record; peek with a lookback at each TTI; answer the captured window | the samples sent belong to the occasion asked for; no request is left over |
| downlink grid assembly (`rx_grid_context_repository.h`, `ofh_ru_cplane_scheduling_handler.cpp`, `ofh_ru_downlink_rx_window_handler.cpp`) | contexts per slot index and symbol, queue of registrations | register, write, close | one grid per slot, one slot per grid; only scheduled data in it |
| SDR upper PHY and grid pool | reference counts, last pushed slot, offset | reserve, clear, push to the radio | each slot is transmitted once, under its own radio number; grids return |
| frame pools and transmitter (`ethernet_frame_pool.h`, `ofh_ru_message_transmitter.cpp`, task dispatchers) | free and pending lists, buffer states, task queue | reserve, write, release, drain, send | no buffer has two owners; frames leave inside the Ta3 window |
| GPS slot aligner | window of measurements, applied and pending offset | measure at each TTI, apply the median, re-apply on drift | the offset follows the clocks, without jitter |
| timing notifier | previous symbol index, status | poll, start, stop | one notification per symbol, slot and symbol consistent |
| reception checks (sequence identifiers, window checkers) | sequence counters, OTA time | compare, count | early, late and lost messages counted as such, across every wrap |
| statistics and main loop | counters, last printed values | count, print the difference | rows add up although they are printed while frames are counted |
| configuration, sector assembly | options | - | - |

### What is hard

Each entry of `hazards` in `PROJECT.json` names a line.  In short: two threads
meet in a repository whose mutex is released between a look-up and the action
taken on it; two numberings with different periods wrap at different moments;
slots share repository indices; the thing that releases an entry may be the very
event that is lost; a closure popped from a queue is invisible to the other
thread; a buffer's state and the list it is in change in separate steps; frames
built after their window stay in the pool; the slot offset is applied, and
corrected, while captures are under way; the offsets the aligner takes a median
of are numbers modulo a period; the symbol comes from a floating-point quotient
and the slot from an integer one; statistics are printed one counter at a time
while another thread counts; the worker may enter its loop while main already
wants to go on, and stop must find it there.

## Modules

| module | models | used by |
|---|---|---|
| `OfhSlots` | slot arithmetic and both translations; a slot is its system slot count | all but `FrameTransmit` |
| `RadioNumbering` | the radio's numbering relative to the GPS scale, and the offset measured from one pair | `DownlinkGrid`, `PrachCapture`, `GpsAligner` |
| `RequestRepository` | `ru_uplink_request_repository` and the window and release tests of the responder | `CplaneDispatch` |
| `CplaneDispatch` | dispatcher and `to_ru_uplink_request` | `UplinkRequests`, `PrachCapture` |
| `UplinkRequests` | uplink recorder and responder, two threads | `MCUplinkRequests`, proofs |
| `UplinkContract` | abstract: what the O-DU is promised | instantiated in `UplinkRequests` |
| `PrachCapture` | PRACH recorder, TTI orchestrator, adapter, window responder | `MCPrachCapture`, `PrachAligned` |
| `GpsAligner` | settling time, measurement windows, median, two-window hysteresis | `PrachAligned` |
| `PrachAligned` | `PrachCapture` with the offset of `GpsAligner` instead of a given one | `MCPrachAligned` |
| `DownlinkGrid` | grid repository, registration queue, grid pool, window handler, SDR upper PHY | `MCDownlinkGrid` |
| `FrameTransmit` | frame pools, task queue, transmit worker, PRACH encoder; replies to captures and, in loopback mode, to the Control-Plane message itself | `MCFrameTransmit`, proofs |
| `OtaClock` | clock ticks, slot and symbol of a reading, the rounding of the symbol index | `TimingNotifier`, `RxChecks` |
| `TimingNotifier` | start, stop and loop of the timing worker | `Reception` |
| `RxChecks` | window verdict, conversion of T2a to symbols, sequence identifiers, as operators | `Reception` |
| `Reception` | worker, receive thread and main thread around the checkers and counters | `MCReception` |
| `NumberTheorems` | lemmas on remainders and smallest elements | the proof modules |
| `UplinkRequestsProofs`, `PrachCaptureProofs`, `PrachAlignedProofs`, `DownlinkGridProofs`, `FrameTransmitProofs`, `FrameTimelyProofs`, `ReceptionProofs` | theorems | - |

Conventions.  Time is absolute (`air`, `tti`, `now`) and never visible to the
modelled code, which sees it modulo the wire or the radio period.  Fields named
`air`, and variables called history in their comments, exist for the properties:
no guard of a modelled operation reads them.  `sent` holds the replies or frames
of the last step only, which keeps the state space small.  An operator whose
comment begins with "Mutant" is a deliberately wrong variant of the definition
after it; no specification uses it.

State and actions against the code:

* `UplinkRequests`: `repo` is `ul_request_repo`; `pc`, `port`, `air`, `sym` are
  the radio thread inside `handle_uplink_symbol`.  `RespondPort` is one turn of
  the port loop up to the `clear`, `ClearPort` the `clear`: the mutex is free in
  between, and `OnCplaneMessage` may run there.  `SymbolLost` is a symbol the
  adapter drops as invalid or whose slot got no capture grid.
* `PrachCapture`: `captures` are the requests handed to the radio, each with the
  radio slot the code computed and, as history, the absolute slot that number
  makes the radio sample.  `OnTti` is the PRACH half of `on_tti_boundary`.  The
  frequency mapping (`ofh_ru_prach_frequency_mapping.h`) appears as a request
  that is accepted or refused, and as an SCS that is the cell's or not.
* `PrachAligned`: `AlignedTti` is one TTI notification: `Measure` (the aligner),
  then, with the offset it has left behind, `OnTtiWith` (the orchestrator).
  `slip` is the drift of the host clock against the radio so far; a sample keeps
  the true offset as history, and `before` those of the last full window.  Drift
  and misreadings have either sign.  A capture in flight keeps the radio slot it was
  asked with and is translated back with whatever offset holds by then.
  `aligned` is history: an offset had been applied when the window at hand was
  translated, which is when `WireSlotNearRequested` has something to say.
  `CaptureLost` is a capture the lower PHY finds late
  (`prach_processor_worker.cpp:19`).
* `TimingNotifier`, `Reception`: `worker`, `rx` and `main` are the program
  counters of three threads; every step reads or writes one atomic.  The atomics
  are relaxed in the code; the models take the accesses of a thread in program
  order, which is what the x86 build gives the counters (they are incremented by
  locked read-modify-writes, and x86 does not reorder loads) and the C++ memory
  model by itself does not promise.  `count_val` of the window checker is not initialised, so
  until the first notification any verdict may come out.
* `DownlinkGrid`: `rx` and `timing` are the program counters of the two threads.
  A registration is popped (`RxDrain`, `TimingDrain`) in one step and run under
  the mutex in another (`RxRun`, `TimingRun`).  The reference count of a grid is
  derived: `InUse` holds while an entry, a task, a thread or the radio refers to
  it.  `content` records which slot's data was written into a grid since it was
  cleared.  `OffsetMeasured` is a call of the aligner's callback: it may come at any
  time, repeatedly, with any of `Offsets`, right or wrong.  The radio's numbering
  itself does not drift in this module; what the aligner makes of a drift is
  `PrachAligned`'s subject.
* `FrameTransmit`: a buffer is identified by pool, entry and number.  `Reserve`
  and `Fill`, `Release` and `Push`, `DrainPop` and `DrainQueue`, `ReleaseSent`
  and `PushSent` are the pairs of steps in which list and state change.  The
  uplink encoder runs on the worker, so it starts with `TakeTask`; PRACH is
  encoded on the radio thread.  `UplinkCaptured` and `PrachCaptured` are the
  replies to captures, `UplinkScheduled` and `PrachScheduled` those of the mode
  without a radio (`ofh_ru_cplane_scheduling_handler.cpp`), whose uplink task
  encodes all symbols of the message.  A deployment is in one mode; a run that
  offers both covers each.  One eAxC is modelled per pool: several eAxCs of
  a symbol fill its entry as several fragments do, but the code defers one encoding
  for each of them (`ofh_ru_uplink_task_dispatcher.h:44`) where the model queues one,
  so the bound `Timely` puts on the queue is the one for a single uplink eAxC.

## Runs

`wild` runs make no assumption on the environment; `timely` runs use the one the
O-RU is specified for, which each module states as `Timely` (and which is the
hypothesis of the theorems about them).

| run | checks | shows |
|---|---|---|
| `UplinkRequests_wild` | `TypeOK`, `ReplyMatchesRequest`, `OnlyOwnRequestCleared` | late, early, empty and overlong requests and lost symbols never make the responder use or clear another slot's entry |
| `UplinkRequests_timely` | `NoStaleReply`, `ImplementsContract`, `EveryRequestReleased` | the two threads implement the contract (every symbol asked for is answered exactly once and nothing else is sent) and every entry is released, across a wrap of the wire numbering |
| `UplinkRequests_stale` | `NoStaleReply`, violated | a lost last symbol leaves the request behind and it is answered a wire period later |
| `DownlinkGrid_wild` | `TypeOK`, `GridServesOneSlot`, `OneGridPerSlot` | any interleaving, missed symbols, stalled receive thread, full pool |
| `DownlinkGrid_timely` | `PushedOnceInOrder`, `OnlyOwnData`, `ScheduledUntilClosed`, `PushedToItsSlot`, `WrittenWhereScheduled`, `GridsReturn` | with re-alignments at any time, slots are transmitted once, in order, ahead of time, with their own data, and under their radio number while the offset is right; every grid comes back |
| `PrachAligned_wild` | `AlignedTypeOK`, `WireSlotNearRequested`, `FollowsDrift`, `RealignsToTruth` | any request, lost captures, buffers exhausted, no offset at first, drift and misread host times of either sign around the wrap: the aligner recovers, takes up no offset that a window without misreadings did not hold, and a re-alignment shifts the wire number of a capture in flight by no more than drift and one misreading |
| `PrachCapture_timely` | `SamplesOfRequestedSlot`, `NothingLeftOver`, `OccasionCapturedInPeriod` | every occasion whose TTI falls in the same wire period is captured in its own slot, answered on every eAxC and released |
| `PrachCapture_lookback` | `OccasionCaptured`, violated | the occasions in the last slots of a wire period are never captured |
| `FrameTransmit_wild` | `TypeOK`, `OneOwner`, `ListedInItsState` | late captures, missed symbols, refused tasks, stalled threads |
| `FrameTransmit_timely` | `SentInWindow`, `ReservationSucceeds`, `NothingOverdue` | with a radio or in loopback mode, frames leave inside Ta3, none misses it, buffers are back in time |
| `FrameTransmit_late` | `SentInWindow`, violated | the first frames of a PRACH occasion longer than the window leave a radio frame late |
| `Reception` | `TypeOK`, `NotifiedIsOnAir`, `NoNotificationAfterClear`, `RowAccountsForFrames`, `VerdictWithinT2a`, `ErrorsMatchStream`, `StopCompletes` | the program from start to stop, across the end of a second and, three ticks later, of the wire period and of the hyper frame, with missed symbols and lost, repeated and overtaken messages |

### Bounds

* Two symbols per slot (four in `FrameTransmit_timely`, three in `_late`): a first
  and a last symbol, and a window that is longer than a slot's half.
* Wire period of two repositories, radio period of at least two wire periods:
  every pair of "same index", "same wire number" and "same radio number" occurs.
  `RadioShift` puts the wraps of the two numberings at different slots.
* `MaxAir`, `MaxTti` and `MaxNow` let the timely runs go through more than one
  wire period (more than one radio frame in `FrameTransmit`), which the stale
  behaviours need; the wild runs are shorter and wider.
* Two ports in the uplink and PRACH runs, the lists overlapping; one port and
  two grids in the downlink runs, so that the pool runs out; up to three
  Control-Plane commands (`MaxCommands`).
* `QueueSize` is 2 in the wild run, so that tasks are refused, and the least the
  timely environment asks for in the timely one: the encodings of a frame and the
  drains that lag (the code's queue holds 1024 tasks, a frame at 60 kHz has 560
  symbols).  Buffers of an entry are symmetric.
* `PrachAligned_wild`: one TTI of settling, windows of two, 8 TTIs: three full
  windows and more, so that an offset is applied, lost to drift and applied again,
  with a misreading in one of them.  The true offset is the last of the period, so
  one slot of drift or misreading crosses its wrap.  The wire period is 16, so that
  most distances between wire slots are ones `WireSlotNearRequested` excludes.
* `DownlinkGrid_timely`: the true offset and one that is a slot off, each applied at
  any time.  Slots 3 and 6, and 4 and 7, share an index, and the wire numbering wraps
  at slot 6.
* `Reception`: a second is three slots of two symbols, a symbol 3/2 ticks, so that
  symbols do not start on ticks.  The clock runs from 98 to 102: tick 99 ends a
  second, tick 102 the wire period and the hyper frame, which no whole number of
  seconds fills, and is a slot start whose symbol index is rounded down.  Three events (frames or rows) and four sequence
  identifiers let a row meet a frame half counted and the identifiers wrap.

Time stops at the bound and arrivals stay enabled.  `Reception` is the one run
without the deadlock check: its program ends.

### Fairness

`UplinkRequests!FairSpec`: the radio delivers symbols and its thread runs on.
`DownlinkGrid!FairSpec`: both threads run on and the radio drops its references
after transmission.  `Reception!Spec`: the worker takes its steps, and main
returns from a wait that is over; when stop is called, or whether, is left open.
Nothing is assumed of the O-DU.  The threads are pinned
real-time loops that never block on each other except for short mutex sections,
and the lower PHY processes every slot it was given a grid for.

### Findings

1. **A request outlives a lost symbol** (`UplinkRequests_stale`).  The entry is
   cleared only with the reply to its last symbol
   (`lib/ofh/ru/ofh_ru_uplink_symbol_responder.cpp:58`); the adapter drops invalid
   symbols.  The repository's comment promises that a stale entry generates no
   traffic.
2. **The PRACH lookback wraps at the wrong period** (`PrachCapture_lookback`).
   `ofh_slot - prach_peek_lookback_slots` is computed on a `slot_point` that wraps
   at 1024 frames while `ofh_slot` wraps at 256
   (`apps/examples/ofh/ru_emulator_tti_orchestrator.cpp:130`).
3. **Late frames are kept, not dropped** (`FrameTransmit_late`).  A frame built
   after its window stays pending until its pool entry comes round and then
   leaves, a radio frame late.  PRACH replies are built when the whole occasion has
   been captured, so with the default Ta3 of 300 to 85 us (8 to 3 symbols at 30
   kHz) the first symbols of a 12-symbol B4 occasion always do.

Two more sentences of `proto-ru/ARCHITECTURE.md` do not describe the code; no run is
about them, the comments of `WireSlotNearRequested` and `SentInWindow` name them.

* **A PRACH request outlives a lost capture**.  The entry is
  cleared with the reply to its window
  (`lib/ofh/ru/ofh_ru_prach_window_responder.cpp:59`).  If the lower PHY finds the
  capture late there is no window, and the request is peeked, captured and answered
  a wire period later with the samples of that slot: `PrachAligned`, with clocks that
  agree, a capture lost and a `MaxTti` of more than a wire period, violates
  `SamplesOfRequestedSlot` once aligned.  Lines 351-352 say stale requests generate no
  further traffic.
* **The documented transmit window has the wrong sign**.
  Line 259 has a frame for symbol `s` leave between
  `s - tx_window_start` and `s - tx_window_end`; the code, its header and its tests
  have it leave after `s`, by `tx_window_end` to `tx_window_start` symbols, as Ta3
  asks.  The document is wrong, not the code.

Some limits are worth knowing; dropping the condition from the instance shows
each.

* With `SkipsTicks` a downlink symbol nobody closed keeps its context, and
  `WrittenWhereScheduled` fails: the writer looks a context up by index and does
  not compare its slot.
* With Control-Plane two symbols before its slot closes, a slot can be pushed to
  the radio twice, since only the last pushed slot is remembered.
* The median is taken of numbers modulo the wire period.  At the wrap, a single
  misread value can be the median of its window (with period 8, the window 7, 0, 1
  gives 1, where 0 is in the middle).  The hysteresis of two windows still
  protects an established offset as long as one of the two has no misreading, which
  is what `RealignsToTruth` says; with misreadings in both, an offset that never
  held can be taken up.
* A single row of the statistics need not add up: rows print differences, and a
  message received after the verdicts were fetched is counted as received in one row
  and as judged in the next.  `RowAccountsForFrames` is about the sums of the rows.
* Two requests for one slot in quick succession: one that arrives between the reply
  to the last symbol and the `clear` is cleared unanswered.  The timely environment
  does not send one so late.
* At the very nanosecond a symbol starts, the symbol index may come out one too
  small while the slot does not
  (`apps/examples/ofh/ru_emulator_timing_notifier.cpp:156`).  At a slot start (682 of
  the 1000 of a second at 15 kHz) that names the last symbol of the slot that has
  just begun.  `NotifiedIsOnAir` states exactly this much; the next poll corrects it.
* The sector's own window checker (`lib/ofh/receiver/ofh_rx_window_checker.cpp`)
  subtracts the message from the OTA time, and is given the T2a window, which lies
  ahead of the air time (`apps/examples/ofh/ru_emulator.cpp:391`).  It feeds
  diagnostics only; the emulator's checker, which is modelled, subtracts the other
  way round and is right.
* A Ta3 window narrower than a symbol becomes an empty range of symbols
  (`apps/examples/ofh/ru_emulator.cpp:103`); the models assume `TxEnd =< TxStart`.

## Proofs

Checked by TLAPS, for every value of the constants that satisfies the named
assumptions of the modules.

`UplinkRequestsProofs`, assumptions `SlotAssumption`, `RequestAssumption`,
`EaxcAssumption`, `UplinkAssumption`:

* `UplinkTypeOK`: `TypeOK` is inductive.
* `UplinkReplyMatchesRequest`: not inductive, since it speaks of the last step
  only.  The invariant added says of every entry that its wire slot is its history
  slot modulo the period and that it came from an uplink section.
* `UplinkOnlyOwnRequestCleared`: an action property, from the same invariant.
* `UplinkNoStaleReply`: `Timely /\ Spec => []NoStaleReply`.  The invariant says
  that a pending entry lies less than a repository ahead of the air interface and
  not behind it; when its slot is on air, its last symbol has not been passed on
  its port.  Two slots less than a period apart have different wire numbers
  (lemma `ModInjective`), so an entry found by its wire number is the one meant.
* `UplinkImplementsContract`: `Timely /\ OnePortPerEaxc /\ Spec => ImplementsContract`.
  What is owed is read off the repository: the symbols of the pending entries that
  are still to come, on each port.  Recording a message is a `Request` per eAxC or a
  stutter, a turn of the port loop serves what is due on its port (`PortServed`), and
  the symbol ends when no port is left (`SymbolPassed`); clearing an entry changes
  nothing that is owed (`ClearInv`).  `OnePortPerEaxc` is needed: an eAxC configured
  for two uplink ports would be answered twice.  The code does not check it.

`PrachCaptureProofs`, assumptions `SlotAssumption`, `RadioShiftAssumption`,
`RequestAssumption`, `EaxcAssumption`, `PrachAssumption`.  The lemmas are about a
TTI of any offset and any drift, so that they serve `PrachAlignedProofs` too:

* `PrachSamplesOfRequestedSlot`, `PrachNothingLeftOver` and
  `PrachOccasionCaptured`, all `Timely /\ Spec => ...`.  `PeekInv` says that nothing
  before time 0 is peeked, `RecordedInv` that an entry carries the wire number of its
  slot.  `CaptureInv` says where the
  captures and the window are relative to the slot being peeked and that their
  radio and wire numbers are those of their absolute slot; `KeptInv` that a pending
  entry is not yet peeked, or has a capture or a window that still comes to its
  port.  That a buffer is free (`PoolSuffices`) is counted: captures of different
  slots within the latency.  `Peekable` is where the lookback does not cross the
  end of the wire period (finding 2); the properties are restricted to that.

`PrachAlignedProofs`, with `AlignerAssumption` and `AlignedAssumption` in addition:

* `AlignedTypes`: `CHOOSE` in `Median` has a value (lemma `MedianIsMeasured`: the
  smallest number that more than half of the window does not exceed is one of the
  measurements).
* `AlignedFollowsDrift`, from `SteadyInv`: the last `steady` measurements of the
  window at hand are the true offset; one full window of them has left the true
  offset applied or pending, a second one has applied it.
* `AlignedRealignsToTruth`, for every drift and misreading of either sign.  The
  median is one of the measurements, so in a window without misreadings it was true
  (`ClosedClean`); `PendingInv` keeps this of the window that left the offset pending.
  The argument needs neither the position of the median nor an order of the numbers
  modulo the period.
* `AlignedWireSlotNearRequested`, from `NearInv`: the offset in use was measured at
  some drift so far, a capture keeps the radio number of some drift so far, and
  the difference of the two drifts is what a window can be off by.  The distance is
  one between wire numbers; that whole wire periods may lie between request and
  samples is the first of the two remarks after the findings.

`DownlinkGridProofs`, assumptions `SlotAssumption`, `RadioShiftAssumption`,
`DownlinkAssumption`.  The first three say nothing on the O-DU, missed symbols or
stalls, the others are `Timely /\ Spec => ...`:

* `DownlinkTypeOK`, with `HandsInv` (who holds a task or a grid at which step).
* `DownlinkOneGridPerSlot`: inductive with the types, since a registration takes
  over the grid it finds under the mutex.
* `DownlinkGridServesOneSlot`, from `KeyedInv` (contexts and registrations carry the
  wire number of their slot) and `OneSlotInv` (`HeldFor`: the holders of a grid, in
  the repository, the queue, either thread's hands and the radio, agree).
* `TimelyInv`, which the others rest on, measures everything from the symbol being
  closed.  `RxTimely`: the message at hand was taken up in this symbol or the one
  before.  `QueueTimely`: a queued registration is three symbols ahead of its slot, or
  two while the timing thread has not drained the queue.  `EntriesTimely`: a context is
  at its slot's index, for a symbol not closed yet, at most a turn of the repository
  less a slot ahead.  Hence the contexts at an index are of one slot (`SameSlot`,
  `ContextOfTask`), and a symbol pops the context it is the symbol of
  (`ClosingContext`).
* `DownlinkWrittenWhereScheduled`, from `ContextOfMessage`.
* `DownlinkOnlyOwnData`, from `DataInv`: the holders of a grid agree on the absolute
  slot, not only on its wire number, and the grid holds data of that slot only.
* `DownlinkScheduledUntilClosed`: a registration registers what it covers and
  overwrites nothing (`RegisterCovers`), a symbol pops no other's context
  (`CloseKeepsOthers`).
* `DownlinkPushedOnceInOrder`, from `PushedInv`: the slot completed last is not later
  than the one being closed, and none later was pushed.
* `DownlinkPushedToItsSlot` also assumes `SdrLeads`: the finalize point is a slot or
  more ahead of the air, and the slot closed is within half a wire period (1.28 s) of
  the radio's.  The number is right whenever the offset in use is the true one,
  whatever was applied before; that the grid is ahead of its air time does not
  depend on the offset.  In SDR mode the code finalizes a subframe and a slot ahead
  (`ru_emulator.cpp:403`).  `NearestTurn` is the arithmetic of the translation.

`FrameTransmitProofs`, assumption `FrameAssumption` only (nothing on delays,
stalls, lost tasks or missed symbols):

* `FrameTypeOK`, `FrameOneOwner`, `FrameListedInItsState`, from one inductive
  invariant: `TypeOK`, `ListedInItsState`, `Hands` (at which steps a thread holds
  a buffer, and the buffer's state there) and `Apart` (the lists, the burst and the
  hands are disjoint and cover all buffers).  `OneOwner` alone is not inductive:
  a release sends a buffer to a list by its state, so state and ownership have to
  be tied together.

`FrameTimelyProofs`, under `Timely`, from `TimelyInv`, which adds to the invariant of
`FrameTransmitProofs`:

* `QueueInv`: the drains after `drain.at` are queued in order and none is missing.
  This needs that the executor refuses no task (`QueueHasRoom`: the tasks it holds
  are told apart by kind and symbol, whose ranges are a lag and a frame).
* `EncodesInv`, `UplinkJob`, `PrachJob`, `PendingInv`: an encoding in the queue, a
  message being encoded and a frame in a pool are ahead of the last drain of their
  window (or that drain is at work and has not come to the entry), and less than a
  frame ahead of the air.  PRACH runs on the radio thread, so for it the argument is
  that it takes no longer than a symbol.
* `HandsInv`, `LeavingInv`: a frame is in the entry of its symbol, and what the drain
  pops is of the symbol it has come to (`PoppedIsOwn`): symbols less than a frame
  apart share no entry (`EntryIsRemainder`, `SameEntry`).

`FrameSentInWindow` and `FrameNothingOverdue` follow.  `FrameReservationSucceeds` also
assumes `EnoughBuffers` (a buffer per fragment of a symbol) and needs `OrderInv` (what
waits or leaves is not later than what is still encoded) and `SiblingsInv` (the
fragments of the current symbol in the pool and those to come are at most
`Fragments`), so that a full entry would hold a frame of an earlier round, which is
gone.

`ReceptionProofs`, with the assumptions of `OtaClock`, `TimingNotifier`, `RxChecks` and
`Reception`.  A hyper frame is a whole number of wire periods, and need not be one of
seconds (10240 slots against 1000 a second at 15 kHz):

* `ReceptionTypeOK`.
* `ReceptionNoNotificationAfterClear`, from `HandshakeInv`, which also says that no
  stop request is overwritten by a worker that starts late: the safety half of
  `StopCompletes`.
* `ReceptionNotifiedIsOnAir`, from `PointInv` (what is notified comes from one
  reading of the clock) and the division lemmas.
* `ReceptionRowAccountsForFrames`, from `CountInv` (a frame is counted as received
  before it is judged, a row fetches the verdicts first, and what had been received
  when the row began is judged but for one frame).
* `ReceptionErrorsMatchStream`, under `ShortGaps` (no gap of half the identifiers or
  more, which 8 bits cannot tell from a step back), from `StreamInv`.
* `ReceptionVerdictWithinT2a`, an action property: `WrappedDistance` says that the
  signed distance modulo the period is the distance in time, for a frame within
  half a period (1.28 s) of the clock.

Only model-checked: the liveness properties `EveryRequestReleased`, `GridsReturn`
and `StopCompletes` (fairness is out of the prover's reach), and the findings.

## Not modelled

* Serialisation, compression, FFT and frequency mapping: data conversions.
* Ethernet sockets and DPDK, console output, YAML and command line: I/O.
* The sector's own message receiver (`ofh_ru_message_receiver.cpp`) beyond what
  reaches the handlers: it filters by header and runs diagnostic checks, whose
  results are only logged.  In the models any message may arrive or not.
* The counter of transmitted frames, the decoding of header fields for the
  statistics, the contents of the test vectors.
* A PRACH demodulation the executor refuses (`prach_processor_worker.cpp:134`), which
  keeps its capture buffer for good, and the start symbol of a capture within its slot:
  the requests of one occasion are taken to agree on it.
* The limit of 128 frames of one burst (`MAX_TX_BURST_SIZE`): the number of frames
  a drain can meet is bounded by the pools' size, not by a behaviour of the models.
* The branches for a frame too small to hold a section: the frame size is fixed
  in the code.
* The CU/DU stack, the PHY and the radio drivers.  The repository is the OCUDU code
  base, some 1.47 million lines of which two thirds is generated ASN.1; the O-RU is
  an application of about 8000 lines on top of it.  The share of all lines that the
  models map is therefore small, and would stay so with every line of the O-RU.

## Plan

The O-RU's components are modelled, and every safety property that a run finds to
hold is proved.  What is left is to follow the code as it changes.
