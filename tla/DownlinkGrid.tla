---------------------------- MODULE DownlinkGrid ----------------------------
(***************************************************************************)
(* Downlink of the O-RU in SDR mode: the receive thread prepares a grid    *)
(* for every slot the Control-Plane schedules and writes the User-Plane    *)
(* into it; the timing thread closes every symbol at the finalize point    *)
(* and hands the slot's grid to the radio.                                 *)
(*                                                                         *)
(* Registrations go through a queue of closures (tasks) that either thread *)
(* drains: a task is popped without the repository mutex and runs under    *)
(* it, so a thread may hold a task while the other one finds the queue     *)
(* empty.  A grid is in use while an entry, a task, a thread or the radio  *)
(* refers to it: the reference count of shared_resource_grid is derived.   *)
(*                                                                         *)
(* Time is `now', the absolute OTA symbol last notified.  The fields `air' *)
(* are history: the absolute slot the O-DU meant.                          *)
(***************************************************************************)
EXTENDS RadioNumbering, Sequences

CONSTANTS NofSymbols,      \* OFDM symbols per slot
          Ports,           \* ports of the grid, one per downlink eAxC
          Ranges,          \* <<start, stop>> symbol ranges the O-DU schedules
          NofGrids,        \* grids of the reception pool
          FinalizeOffset,  \* dl_grid_finalize_offset_symbols
          Offsets,         \* the offsets that the slot aligner may apply
          TtiLeads,        \* slots by which the radio's TTI leads the air slot
          CplaneLeads,     \* symbols from the closing symbol to a scheduled slot
          UplaneLeads,     \* symbols from the closing symbol to a User-Plane one
          SkipsTicks,      \* TRUE: the timing thread may miss symbols
          StallsRx,        \* TRUE: a message may take any number of symbols
          MaxSlot,         \* bound: last absolute slot the O-DU schedules
          MaxNow,          \* bound: last absolute symbol notified
          MaxCommands      \* bound: Control-Plane commands

ASSUME DownlinkAssumption ==
  /\ NofSymbols \in Nat \ {0}
  /\ NofGrids \in Nat \ {0}
  /\ Ranges \subseteq (0 .. (NofSymbols - 1)) \X (0 .. NofSymbols)
  /\ FinalizeOffset \in Int
  /\ Offsets \subseteq WireSlots
  /\ TtiLeads \subseteq Nat
  /\ CplaneLeads \subseteq Int
  /\ UplaneLeads \subseteq Int
  /\ SkipsTicks \in BOOLEAN
  /\ StallsRx \in BOOLEAN
  /\ MaxSlot \in Nat
  /\ MaxNow \in Nat
  /\ MaxCommands \in Nat

VARIABLES entries,     \* rx_grid_context_repository::buffer
          queue,       \* pending_context_to_add
          counter,     \* resource_grid_pool_impl::counter
          content,     \* [Grids -> set of marks]: what was written since allocation
          now,         \* absolute OTA symbol last notified
          rx,          \* receive thread
          timing,      \* timing thread
          offset,      \* gps_slot_offset of the SDR upper PHY
          lastPushed,  \* last_pushed_slot
          radio,       \* grids held by the radio
          pushed,      \* history: the absolute slots pushed, in order
          due,         \* history: the symbols scheduled and not closed yet
          commands     \* Control-Plane commands so far, for the bound

vars == <<entries, queue, counter, content, now, rx, timing, offset, lastPushed,
          radio, pushed, due, commands>>

Symbols == 0 .. (NofSymbols - 1)

Grids == 0 .. (NofGrids - 1)

NoGrid == -1

NoSlot == -1

NoOffset == -1          \* negative until the alignment is established

Empty == [slot |-> NoSlot, grid |-> NoGrid, air |-> 0]

Contexts == [slot : WireSlots, grid : Grids, air : Nat]

Tasks == [slot : WireSlots, grid : Grids, air : Nat, first : Symbols, stop : 0 .. NofSymbols]

NoTask == [slot |-> NoSlot, grid |-> NoGrid, air |-> 0, first |-> 0, stop |-> 0]

Marks == [air : Nat, symbol : Symbols, port : Ports]

Messages == [air : Nat, first : Symbols, stop : 0 .. NofSymbols]

NoMessage == [air |-> 0, first |-> 0, stop |-> 0]

Idle == [pc |-> "idle", task |-> NoTask, grid |-> NoGrid, message |-> NoMessage, since |-> 0]

TypeOK ==
  /\ entries \in [Indices -> [Symbols -> Contexts \cup {Empty}]]
  /\ queue \in Seq(Tasks)
  /\ Len(queue) =< RepoSize
  /\ counter \in Grids
  /\ content \in [Grids -> SUBSET Marks]
  /\ now \in Nat
  /\ rx \in [pc : {"idle", "drain", "run", "find", "add", "write"},
             task : Tasks \cup {NoTask}, grid : Grids \cup {NoGrid},
             message : Messages, since : Nat]
  /\ timing \in [pc : {"idle", "drain", "run", "close"}, task : Tasks \cup {NoTask}]
  /\ offset \in WireSlots \cup {NoOffset}
  /\ lastPushed \in WireSlots \cup {NoSlot}
  /\ radio \subseteq [grid : Grids, slot : RadioSlots, air : Nat]
  /\ pushed \in Seq(Nat)
  /\ due \subseteq Nat \X Symbols
  /\ commands \in 0 .. MaxCommands

Init ==
  /\ entries = [i \in Indices |-> [s \in Symbols |-> Empty]]
  /\ queue = << >>
  /\ counter = 0
  /\ content = [g \in Grids |-> {}]
  /\ now = 0
  /\ rx = Idle
  /\ timing = [pc |-> "idle", task |-> NoTask]
  /\ offset = NoOffset
  /\ lastPushed = NoSlot
  /\ radio = {}
  /\ pushed = << >>
  /\ due = {}
  /\ commands = 0
-----------------------------------------------------------------------------
IsEmpty(context) == context.grid = NoGrid

\* The symbols of a slot's index that hold a context of this very slot.
OfSlot(repo, slot) ==
  {s \in Symbols : /\ ~IsEmpty(repo[RepositoryIndex(slot)][s])
                   /\ repo[RepositoryIndex(slot)][s].slot = slot}

\* The first registered grid of a slot.
FindGrid(repo, slot) ==
  IF OfSlot(repo, slot) = {} THEN NoGrid
  ELSE LET first == CHOOSE s \in OfSlot(repo, slot) :
                      \A t \in OfSlot(repo, slot) : s =< t
       IN  repo[RepositoryIndex(slot)][first].grid

\* Mutant: a registration brings its own grid.
RegisterOwnGrid(repo, task) ==
  [repo EXCEPT ![RepositoryIndex(task.slot)] =
     [s \in Symbols |->
        IF s \in (task.first .. (task.stop - 1)) \ OfSlot(repo, task.slot)
        THEN [slot |-> task.slot, grid |-> task.grid, air |-> task.air] ELSE @[s]]]

\* Mutant: the last symbol of the range is left out.
RegisterShort(repo, task) ==
  [repo EXCEPT ![RepositoryIndex(task.slot)] =
     [s \in Symbols |->
        IF s \in (task.first .. (task.stop - 2)) \ OfSlot(repo, task.slot)
        THEN [slot |-> task.slot, grid |-> task.grid, air |-> task.air] ELSE @[s]]]

\* The closure of rx_grid_context_repository::add().  The slot's grid is reused
\* if it has one, and its contexts are kept.
Register(repo, task) ==
  LET known == OfSlot(repo, task.slot)
      grid == IF known = {} THEN task.grid ELSE FindGrid(repo, task.slot)
      context == [slot |-> task.slot, grid |-> grid, air |-> task.air]
  IN  [repo EXCEPT ![RepositoryIndex(task.slot)] =
         [s \in Symbols |->
            IF s \in task.first .. (task.stop - 1) /\ s \notin known
            THEN context ELSE @[s]]]

\* Mutant: the pool does not see the grids that only the radio holds.
InUseHere(grid) ==
  \/ \E i \in Indices, s \in Symbols : entries[i][s].grid = grid
  \/ \E k \in 1 .. Len(queue) : queue[k].grid = grid
  \/ grid \in {rx.task.grid, rx.grid, timing.task.grid}

\* The grid has a reference: the pool will not reserve it.
InUse(grid) ==
  \/ \E i \in Indices, s \in Symbols : entries[i][s].grid = grid
  \/ \E k \in 1 .. Len(queue) : queue[k].grid = grid
  \/ grid \in {rx.task.grid, rx.grid, timing.task.grid}
  \/ \E r \in radio : r.grid = grid

\* Mutant: the round robin of the pool does not wrap.
NextUnwrapped == counter + 1

\* The grid the pool will try after this one.
NextGrid == (counter + 1) % NofGrids

\* Mutant: a reserved grid keeps what it held.
Uncleared(grid) == content

\* set_all_zero() of a grid that has just been reserved.
Cleared(grid) == [content EXCEPT ![grid] = {}]

\* Mutant: the closed symbol is read and left in the repository.
Peeked(index, symbol) == entries

\* pop_rx_grid_context_resource_grid_info(): the grid is moved out.
Popped(index, symbol) == [entries EXCEPT ![index][symbol] = Empty]

\* Absolute symbol closed when symbol t is notified.
Closing(t) == t - FinalizeOffset

\* The symbol has been closed already.
Closed(x) ==
  \/ x[1] * NofSymbols + x[2] < Closing(now)
  \/ x[1] * NofSymbols + x[2] = Closing(now) /\ timing.pc = "idle"
-----------------------------------------------------------------------------
\* Receive thread: handle_downlink_scheduling begins.
CplaneArrives ==
  \E slot \in 0 .. MaxSlot, range \in Ranges :
    /\ rx.pc = "idle"
    /\ slot * NofSymbols - Closing(now) \in CplaneLeads
    /\ commands < MaxCommands
    /\ commands' = commands + 1
    /\ rx' = [Idle EXCEPT !.since = now, !.pc = "drain",
                !.message = [air |-> slot, first |-> range[1], stop |-> range[2]]]
    /\ UNCHANGED <<entries, queue, counter, content, now, timing, offset, lastPushed,
                   radio, pushed, due>>

\* process_pending_contexts of the receive thread: pop a task, or go on.
RxDrain ==
  /\ rx.pc = "drain"
  /\ IF queue = << >>
     THEN rx' = [rx EXCEPT !.pc = "find"] /\ UNCHANGED queue
     ELSE /\ rx' = [rx EXCEPT !.pc = "run", !.task = Head(queue)]
          /\ queue' = Tail(queue)
  /\ UNCHANGED <<entries, counter, content, now, timing, offset, lastPushed, radio, pushed,
                 due, commands>>

RxRun ==
  /\ rx.pc = "run"
  /\ entries' = Register(entries, rx.task)
  /\ rx' = [rx EXCEPT !.pc = "drain", !.task = NoTask]
  /\ UNCHANGED <<queue, counter, content, now, timing, offset, lastPushed, radio, pushed,
                 due, commands>>

\* find_grid(), else get_downlink_rx_grid(): the pool tries one grid, the next
\* in turn, and clears it.  Without a grid the command is dropped.
RxFindGrid ==
  LET found == FindGrid(entries, rx.message.air % Period)
  IN  /\ rx.pc = "find"
      /\ \/ /\ found # NoGrid
            /\ rx' = [rx EXCEPT !.pc = "add", !.grid = found]
            /\ UNCHANGED <<counter, content>>
         \/ /\ found = NoGrid
            /\ counter' = NextGrid
            /\ IF InUse(counter)
               THEN rx' = Idle /\ UNCHANGED content
               ELSE /\ rx' = [rx EXCEPT !.pc = "add", !.grid = counter]
                    /\ content' = Cleared(counter)
      /\ UNCHANGED <<entries, queue, now, timing, offset, lastPushed, radio, pushed,
                 due, commands>>

\* add(): the registration is queued, or dropped when the queue is full.
RxAdd ==
  LET task == [slot |-> rx.message.air % Period, grid |-> rx.grid, air |-> rx.message.air,
               first |-> rx.message.first, stop |-> rx.message.stop]
      asked == {rx.message.air} \X (rx.message.first .. (rx.message.stop - 1))
  IN  /\ rx.pc = "add"
      /\ IF Len(queue) < RepoSize
         THEN queue' = Append(queue, task) /\ due' = due \cup {x \in asked : ~Closed(x)}
         ELSE UNCHANGED <<queue, due>>
      /\ rx' = Idle
      /\ UNCHANGED <<entries, counter, content, now, timing, offset, lastPushed, radio, pushed,
                     commands>>

\* Receive thread: write_to_resource_grid takes a copy of the context of the
\* message's index and symbol, and drops the message when there is none.
UplaneArrives ==
  \E slot \in 0 .. (MaxSlot + RepoSize), symbol \in Symbols :
    LET context == entries[RepositoryIndex(slot % Period)][symbol]
    IN  /\ rx.pc = "idle"
        /\ slot * NofSymbols + symbol - Closing(now) \in UplaneLeads
        /\ \/ IsEmpty(context) /\ UNCHANGED rx
           \/ /\ ~IsEmpty(context)
              /\ rx' = [Idle EXCEPT !.since = now, !.pc = "write", !.grid = context.grid,
                          !.message = [air |-> slot, first |-> symbol, stop |-> symbol + 1]]
        /\ UNCHANGED <<entries, queue, counter, content, now, timing, offset, lastPushed,
                       radio, pushed, due, commands>>

\* write_grid(): the context is looked up again, and may have gone since.
UplaneWrite ==
  LET context == entries[RepositoryIndex(rx.message.air % Period)][rx.message.first]
  IN  /\ rx.pc = "write"
      /\ \E port \in Ports :
           content' = IF IsEmpty(context) THEN content
                      ELSE [content EXCEPT ![context.grid] = @ \cup
                              {[air |-> rx.message.air, symbol |-> rx.message.first,
                                port |-> port]}]
      /\ rx' = Idle
      /\ UNCHANGED <<entries, queue, counter, now, timing, offset, lastPushed, radio, pushed,
                 due, commands>>
-----------------------------------------------------------------------------
\* Timing thread: on_new_symbol begins.  A symbol the thread sleeps through is
\* never notified.
OnNewSymbol ==
  \E elapsed \in (IF SkipsTicks THEN {1, 2} ELSE {1}) :
    /\ timing.pc = "idle"
    /\ StallsRx \/ rx.pc = "idle" \/ rx.since = now
    /\ now + elapsed =< MaxNow
    /\ now' = now + elapsed
    /\ timing' = [timing EXCEPT !.pc = "drain"]
    /\ UNCHANGED <<entries, queue, counter, content, rx, offset, lastPushed, radio, pushed,
                 due, commands>>

\* Mutant: the task is read from the queue and not taken out of it.
TimingDrainPeeks ==
  /\ timing.pc = "drain"
  /\ timing' = IF queue = << >> THEN [timing EXCEPT !.pc = "close"]
               ELSE [pc |-> "run", task |-> Head(queue)]
  /\ UNCHANGED <<entries, queue, counter, content, now, rx, offset, lastPushed, radio, pushed,
                 due, commands>>

TimingDrain ==
  /\ timing.pc = "drain"
  /\ IF queue = << >>
     THEN timing' = [timing EXCEPT !.pc = "close"] /\ UNCHANGED queue
     ELSE /\ timing' = [pc |-> "run", task |-> Head(queue)]
          /\ queue' = Tail(queue)
  /\ UNCHANGED <<entries, counter, content, now, rx, offset, lastPushed, radio, pushed,
                 due, commands>>

TimingRun ==
  /\ timing.pc = "run"
  /\ entries' = Register(entries, timing.task)
  /\ timing' = [pc |-> "drain", task |-> NoTask]
  /\ UNCHANGED <<queue, counter, content, now, rx, offset, lastPushed, radio, pushed,
                 due, commands>>

\* Mutant: every closed symbol pushes its grid.
CompletedEachSymbol(context) ==
  /\ lastPushed' = context.slot
  /\ IF offset = NoOffset
     THEN UNCHANGED <<radio, pushed>>
     ELSE \E lead \in TtiLeads :
            LET current == RadioSlot((now \div NofSymbols) + lead)
            IN  /\ radio' = radio \cup
                     {[grid |-> context.grid, air |-> context.air,
                       slot |-> WireToRadio(context.slot, offset, current)]}
                /\ pushed' = Append(pushed, context.air)

\* on_downlink_rx_grid_completed: pushed once per slot, and only when aligned.
Completed(context) ==
  /\ lastPushed' = context.slot
  /\ IF lastPushed = context.slot \/ offset = NoOffset
     THEN UNCHANGED <<radio, pushed>>
     ELSE \E lead \in TtiLeads :
            LET current == RadioSlot((now \div NofSymbols) + lead)
            IN  /\ radio' = radio \cup
                     {[grid |-> context.grid, air |-> context.air,
                       slot |-> WireToRadio(context.slot, offset, current)]}
                /\ pushed' = Append(pushed, context.air)

\* pop_resource_grid_symbol(): whatever the index holds is popped.
CloseSymbol ==
  LET closing == Closing(now)
      index == RepositoryIndex((closing \div NofSymbols) % RadioPeriod)
      symbol == closing % NofSymbols
      context == entries[index][symbol]
  IN  /\ timing.pc = "close"
      /\ timing' = [timing EXCEPT !.pc = "idle"]
      /\ IF IsEmpty(context)
         THEN UNCHANGED <<entries, lastPushed, radio, pushed>>
         ELSE /\ entries' = Popped(index, symbol)
              /\ Completed(context)
      /\ due' = {x \in due : x[1] * NofSymbols + x[2] > closing}
      /\ UNCHANGED <<queue, counter, content, now, rx, offset, commands>>

\* The slot aligner applies an offset: the first one, right or not, and again at
\* every re-alignment.
OffsetMeasured ==
  \E o \in Offsets :
    /\ offset' = o
    /\ UNCHANGED <<entries, queue, counter, content, now, rx, timing, lastPushed, radio, pushed,
                   due, commands>>

\* The radio has modulated a grid, or refused it, and drops its reference.
RadioDone ==
  \E r \in radio :
    /\ radio' = radio \ {r}
    /\ UNCHANGED <<entries, queue, counter, content, now, rx, timing, offset, lastPushed, pushed,
                   due, commands>>

RxStep == RxDrain \/ RxRun \/ RxFindGrid \/ RxAdd \/ UplaneWrite

TimingStep == OnNewSymbol \/ TimingDrain \/ TimingRun \/ CloseSymbol

Next ==
  \/ CplaneArrives
  \/ UplaneArrives
  \/ RxStep
  \/ TimingStep
  \/ OffsetMeasured
  \/ RadioDone

Spec == Init /\ [][Next]_vars

\* Both threads keep running and the radio keeps transmitting.
FairSpec == Spec /\ WF_vars(RxStep) /\ WF_vars(TimingStep) /\ WF_vars(RadioDone)
-----------------------------------------------------------------------------
(* The environment the O-RU is specified for: no symbol is missed, a message
   is handled before the second symbol after it, the Control-Plane comes four
   symbols before the slot closes and the User-Plane two symbols before its
   symbol does, neither earlier than the repository can hold. *)
Timely ==
  /\ ~SkipsTicks
  /\ ~StallsRx
  /\ CplaneLeads \subseteq 4 .. ((RepoSize - 1) * NofSymbols)
  /\ UplaneLeads \subseteq 2 .. (RepoSize * NofSymbols - 1)

\* The SDR mode: a grid is finalized a slot or more ahead of its air time, and by
\* less than half a wire period from the slot that the radio is at.
SdrLeads ==
  /\ FinalizeOffset =< -NofSymbols
  /\ \A lead \in TtiLeads :
       /\ lead + (FinalizeOffset \div NofSymbols) >= -(Period \div 2)
       /\ lead - ((-FinalizeOffset) \div NofSymbols) < Period - (Period \div 2)

\* Who holds which grid, and for which slot.
Holders ==
  {[slot |-> entries[i][s].slot, grid |-> entries[i][s].grid] : i \in Indices, s \in Symbols}
    \cup {[slot |-> queue[k].slot, grid |-> queue[k].grid] : k \in 1 .. Len(queue)}
    \cup {[slot |-> t.slot, grid |-> t.grid] : t \in {rx.task, timing.task}}
    \cup {[slot |-> r.air % Period, grid |-> r.grid] : r \in radio}
    \cup {[slot |-> rx.message.air % Period, grid |-> rx.grid] : x \in {rx.pc} \cap {"add"}}

\* A grid never serves two slots at once: whatever the order in which the
\* threads register, close and transmit, a grid that the repository, a pending
\* registration or the radio holds for one slot is not handed out for another.
GridServesOneSlot ==
  \A a, b \in Holders : a.grid = b.grid /\ a.grid # NoGrid => a.slot = b.slot

\* The commands of one slot, one per eAxC, assemble into one grid, even when
\* each thread holds a registration the other one does not see yet.
OneGridPerSlot ==
  \A i \in Indices, s, t \in Symbols :
    /\ ~IsEmpty(entries[i][s]) /\ ~IsEmpty(entries[i][t])
    /\ entries[i][s].slot = entries[i][t].slot
    => entries[i][s].grid = entries[i][t].grid

\* Slots are pushed to the radio in the order of their air time, none twice,
\* although completion is notified once per symbol.
PushedOnceInOrder == \A k \in 1 .. (Len(pushed) - 1) : pushed[k] < pushed[k + 1]

\* A grid the radio is transmitting holds the User-Plane of its own slot only.
OnlyOwnData == \A r \in radio : \A m \in content[r.grid] : m.air = r.air

\* User-Plane is written only where Control-Plane for its slot prepared a grid:
\* the context it finds at its index is never one left over from another slot.
WrittenWhereScheduled ==
  [][\A g \in Grids : \A m \in content'[g] \ content[g] :
       entries[RepositoryIndex(m.air % Period)][m.symbol].slot = m.air % Period]_vars

\* A grid is pushed ahead of its air time and, while the offset that the aligner
\* has applied is the true one, under the number the radio gives to its slot,
\* across the wraps of both numberings and whatever was applied before.
PushedToItsSlot ==
  [][\A r \in radio' \ radio :
       /\ r.air * NofSymbols > now'
       /\ offset = AlignedOffset => r.slot = RadioSlot(r.air)]_vars

\* A scheduled symbol has a context, or a registration on its way, until it is
\* closed: the User-Plane of a scheduled symbol is never refused for good.
ScheduledUntilClosed ==
  \A x \in due :
    \/ \E t \in {queue[k] : k \in 1 .. Len(queue)} \cup {rx.task, timing.task} :
          t.grid # NoGrid /\ t.air = x[1] /\ x[2] \in t.first .. (t.stop - 1)
    \/ LET context == entries[RepositoryIndex(x[1] % Period)][x[2]]
       IN  ~IsEmpty(context) /\ context.air = x[1]

\* Every grid taken from the pool comes back to it.
GridsReturn == \A g \in Grids : InUse(g) ~> ~InUse(g)
=============================================================================
