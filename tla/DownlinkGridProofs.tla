------------------------- MODULE DownlinkGridProofs -------------------------
(***************************************************************************)
(* Theorems about DownlinkGrid, for every numbering, repository size, pool *)
(* size, set of symbol ranges, set of leads and finalize offset.  The      *)
(* first three hold whatever symbols the timing thread misses and however  *)
(* long the receive thread stalls, the others in a timely environment.     *)
(***************************************************************************)
EXTENDS DownlinkGrid, NumberTheorems, SequenceTheorems, TLAPS

LEMMA SlotTypes ==
  /\ \A n \in Nat : n % Period \in WireSlots
  /\ \A n \in Nat : RepositoryIndex(n) \in Indices
  /\ WireSlots \subseteq Nat
BY SlotAssumption DEF WireSlots, Indices, RepositoryIndex

\* The index and the symbol that a notified symbol closes.
LEMMA ClosingTypes ==
  ASSUME now \in Nat
  PROVE  /\ RepositoryIndex((Closing(now) \div NofSymbols) % RadioPeriod) \in Indices
         /\ Closing(now) % NofSymbols \in Symbols
<1>1. Closing(now) \in Int
  BY DownlinkAssumption DEF Closing
<1>2. Closing(now) \div NofSymbols \in Int /\ Closing(now) % NofSymbols \in Symbols
  BY <1>1, DownlinkAssumption DEF Symbols
<1>3. (Closing(now) \div NofSymbols) % RadioPeriod \in Nat
  BY <1>2, SlotAssumption
<1>. QED  BY <1>2, <1>3, SlotTypes

\* A queue loses its first task, or gains a last one.
LEMMA PoppedQueue ==
  ASSUME queue \in Seq(Tasks), queue # << >>
  PROVE  /\ Head(queue) \in Tasks
         /\ Head(queue) = queue[1] /\ 1 \in 1 .. Len(queue)
         /\ Tail(queue) \in Seq(Tasks)
         /\ Len(Tail(queue)) = Len(queue) - 1
         /\ \A k \in 1 .. Len(Tail(queue)) : Tail(queue)[k] = queue[k + 1] /\ k + 1 \in 1 .. Len(queue)
<1>1. Len(queue) \in Nat \ {0}
  BY EmptySeq, LenProperties
<1>. QED  BY <1>1, HeadTailProperties

LEMMA WireToRadioType ==
  ASSUME NEW slot \in WireSlots, NEW o \in WireSlots, NEW current \in RadioSlots
  PROVE  WireToRadio(slot, o, current) \in RadioSlots
<1> DEFINE base == (slot + Period - (o % Period)) % Period
           ahead == (current + RadioPeriod - base) % RadioPeriod
           past == (ahead + (Period \div 2)) \div Period
<1>1. base \in Int
  BY SlotAssumption DEF WireSlots
<1>2. ahead \in Int
  BY <1>1, SlotAssumption DEF RadioSlots
<1>3. past \in Int
  BY <1>2, SlotAssumption
<1> HIDE DEF base, ahead, past
<1>4. base + past * Period \in Int
  BY <1>1, <1>3, SlotAssumption
<1>5. (base + past * Period) % RadioPeriod \in RadioSlots
  BY <1>4, SlotAssumption DEF RadioSlots
<1>. QED  BY <1>5 DEF WireToRadio, base, ahead, past

\* A thread that is about to run a task has one, and a thread that is about to
\* queue a registration has a grid for it.
HandsInv ==
  /\ rx.pc = "run" => rx.task \in Tasks
  /\ rx.pc = "add" => rx.grid \in Grids
  /\ timing.pc = "run" => timing.task \in Tasks

LEMMA EmptyIsNoGrid ==
  /\ \A c \in Contexts : c.grid # NoGrid /\ c \in [slot : WireSlots, grid : Grids, air : Nat]
  /\ Empty.grid = NoGrid
  /\ NoGrid \notin Grids
BY DEF Contexts, Empty, NoGrid, Grids

\* What FindGrid returns: the grid of some context of the slot, if there is one.
LEMMA FoundGrid ==
  ASSUME TypeOK, NEW slot \in WireSlots
  PROVE  /\ OfSlot(entries, slot) \subseteq Symbols
         /\ FindGrid(entries, slot) = NoGrid <=> OfSlot(entries, slot) = {}
         /\ OfSlot(entries, slot) # {} =>
              \E s \in OfSlot(entries, slot) :
                 /\ FindGrid(entries, slot) = entries[RepositoryIndex(slot)][s].grid
                 /\ FindGrid(entries, slot) \in Grids
<1> DEFINE i == RepositoryIndex(slot)
           known == OfSlot(entries, slot)
           first == CHOOSE s \in known : \A t \in known : s =< t
<1>1. i \in Indices
  BY SlotTypes
<1>2. known \subseteq Symbols
  BY DEF OfSlot
<1>3. \A s \in known : entries[i][s] \in Contexts
  BY <1>1, <1>2, EmptyIsNoGrid DEF OfSlot, IsEmpty, TypeOK
<1>4. ASSUME known # {} PROVE first \in known
  <2>1. known \subseteq Nat
    BY <1>2, DownlinkAssumption DEF Symbols
  <2>. QED  BY <2>1, <1>4, SmallestElement
<1>5. known # {} => FindGrid(entries, slot) = entries[i][first].grid
  BY DEF FindGrid
<1>6. known = {} => FindGrid(entries, slot) = NoGrid
  BY DEF FindGrid
<1> HIDE DEF known, first, i
<1>7. known # {} => entries[i][first].grid \in Grids
  BY <1>3, <1>4 DEF Contexts
<1>8. known # {} => FindGrid(entries, slot) # NoGrid
  BY <1>5, <1>7, EmptyIsNoGrid
<1>9. known # {} => \E s \in known : /\ FindGrid(entries, slot) = entries[i][s].grid
                                     /\ FindGrid(entries, slot) \in Grids
  BY <1>4, <1>5, <1>7
<1>. QED  BY <1>2, <1>6, <1>8, <1>9 DEF known, i

\* The contexts that a registration leaves at an index and symbol.
LEMMA RegisteredContext ==
  ASSUME TypeOK, NEW task \in Tasks, NEW i \in Indices, NEW s \in Symbols
  PROVE  LET known == OfSlot(entries, task.slot)
             grid == IF known = {} THEN task.grid ELSE FindGrid(entries, task.slot)
         IN  /\ grid \in Grids
             /\ Register(entries, task)[i][s] =
                  IF i = RepositoryIndex(task.slot) /\ s \in task.first .. (task.stop - 1) /\ s \notin known
                  THEN [slot |-> task.slot, grid |-> grid, air |-> task.air]
                  ELSE entries[i][s]
<1> DEFINE known == OfSlot(entries, task.slot)
           grid == IF known = {} THEN task.grid ELSE FindGrid(entries, task.slot)
<1>1. task.slot \in WireSlots /\ task.grid \in Grids
  BY DEF Tasks
<1>2. grid \in Grids
  BY <1>1, FoundGrid
<1>3. RepositoryIndex(task.slot) \in Indices
  BY <1>1, SlotTypes
<1> HIDE DEF known, grid
<1>4. Register(entries, task) =
        [entries EXCEPT ![RepositoryIndex(task.slot)] =
           [y \in Symbols |-> IF y \in task.first .. (task.stop - 1) /\ y \notin known
                              THEN [slot |-> task.slot, grid |-> grid, air |-> task.air]
                              ELSE entries[RepositoryIndex(task.slot)][y]]]
  BY DEF Register, known, grid
<1>5. Register(entries, task)[i][s] =
        IF i = RepositoryIndex(task.slot) /\ s \in task.first .. (task.stop - 1) /\ s \notin known
        THEN [slot |-> task.slot, grid |-> grid, air |-> task.air]
        ELSE entries[i][s]
  BY <1>3, <1>4 DEF TypeOK
<1>. QED  BY <1>2, <1>5 DEF known, grid

LEMMA RegisterType ==
  ASSUME TypeOK, NEW task \in Tasks
  PROVE  Register(entries, task) \in [Indices -> [Symbols -> Contexts \cup {Empty}]]
<1> DEFINE new == Register(entries, task)
<1>1. ASSUME NEW i \in Indices, NEW s \in Symbols
      PROVE  new[i][s] \in Contexts \cup {Empty}
  <2>1. entries[i][s] \in Contexts \cup {Empty}
    BY DEF TypeOK
  <2>2. \A g \in Grids : [slot |-> task.slot, grid |-> g, air |-> task.air] \in Contexts
    BY DEF Tasks, Contexts
  <2>. QED  BY <2>1, <2>2, RegisteredContext
<1>2. task.slot \in WireSlots
  BY DEF Tasks
<1>3. DOMAIN new = Indices
  BY DEF Register, TypeOK
<1>4. new = [i \in Indices |-> new[i]]
  BY <1>3 DEF Register, TypeOK
<1>5. \A i \in Indices : new[i] = [s \in Symbols |-> new[i][s]]
  BY <1>2, SlotTypes DEF Register, TypeOK
<1> HIDE DEF new
<1>6. \A i \in Indices : new[i] \in [Symbols -> Contexts \cup {Empty}]
  BY <1>1, <1>5
<1>7. new \in [Indices -> [Symbols -> Contexts \cup {Empty}]]
  BY <1>4, <1>6
<1>. QED  BY <1>7 DEF new

\* What closing a symbol, or passing its grid on, leaves behind.
LEMMA ClosedType ==
  ASSUME TypeOK, CloseSymbol
  PROVE  /\ entries' \in [Indices -> [Symbols -> Contexts \cup {Empty}]]
         /\ lastPushed' \in WireSlots \cup {NoSlot}
         /\ radio' \subseteq [grid : Grids, slot : RadioSlots, air : Nat]
         /\ pushed' \in Seq(Nat)
         /\ due' \subseteq Nat \X Symbols
<1> DEFINE index == RepositoryIndex((Closing(now) \div NofSymbols) % RadioPeriod)
           symbol == Closing(now) % NofSymbols
           context == entries[index][symbol]
<1>1. index \in Indices /\ symbol \in Symbols
  BY ClosingTypes DEF TypeOK
<1>2. context \in Contexts \cup {Empty}
  BY <1>1 DEF TypeOK
<1>3. due' \subseteq due
  BY DEF CloseSymbol
<1>4. CASE IsEmpty(context)
  BY <1>3, <1>4 DEF CloseSymbol, TypeOK
<1>5. CASE ~IsEmpty(context)
  <2>1. context \in Contexts
    BY <1>2, <1>5, EmptyIsNoGrid DEF IsEmpty
  <2>2. entries' = [entries EXCEPT ![index][symbol] = Empty] /\ Completed(context)
    BY <1>5 DEF CloseSymbol, Popped
  <2> HIDE DEF index, symbol, context
  <2>3. entries' \in [Indices -> [Symbols -> Contexts \cup {Empty}]]
    BY <1>1, <2>2 DEF TypeOK
  <2>4. context.slot \in WireSlots /\ context.grid \in Grids /\ context.air \in Nat
    BY <2>1 DEF Contexts
  <2>5. CASE lastPushed = context.slot \/ offset = NoOffset
    BY <1>3, <2>2, <2>3, <2>4, <2>5 DEF Completed, TypeOK
  <2>6. CASE ~(lastPushed = context.slot \/ offset = NoOffset)
    <3>1. PICK lead \in TtiLeads :
            /\ radio' = radio \cup
                 {[grid |-> context.grid, air |-> context.air,
                   slot |-> WireToRadio(context.slot, offset, RadioSlot((now \div NofSymbols) + lead))]}
            /\ pushed' = Append(pushed, context.air)
      BY <2>2, <2>6 DEF Completed
    <3>2. (now \div NofSymbols) + lead \in Nat
      <4>1. now \in Nat /\ lead \in Nat /\ NofSymbols \in Nat \ {0}
        BY DownlinkAssumption DEF TypeOK
      <4>. QED  BY <4>1
    <3>3. RadioSlot((now \div NofSymbols) + lead) \in RadioSlots
      BY <3>2, SlotAssumption, RadioShiftAssumption DEF RadioSlot, RadioSlots
    <3>4. offset \in WireSlots
      BY <2>6 DEF TypeOK
    <3>5. WireToRadio(context.slot, offset, RadioSlot((now \div NofSymbols) + lead)) \in RadioSlots
      BY <2>4, <3>3, <3>4, WireToRadioType
    <3>6. radio' \subseteq [grid : Grids, slot : RadioSlots, air : Nat]
      BY <2>4, <3>1, <3>5 DEF TypeOK
    <3>7. pushed' \in Seq(Nat)
      BY <2>4, <3>1, AppendProperties DEF TypeOK
    <3>. QED  BY <1>3, <2>2, <2>3, <2>4, <3>6, <3>7 DEF Completed, TypeOK
  <2>. QED  BY <2>5, <2>6
<1>. QED  BY <1>4, <1>5

LEMMA IdleType ==
  Idle \in [pc : {"idle", "drain", "run", "find", "add", "write"},
            task : Tasks \cup {NoTask}, grid : Grids \cup {NoGrid},
            message : Messages, since : Nat]
BY DownlinkAssumption DEF Idle, NoMessage, Messages, Symbols

LEMMA TypeInductive ==
  /\ Init => TypeOK /\ HandsInv
  /\ TypeOK /\ HandsInv /\ [Next]_vars => TypeOK' /\ HandsInv'
<1>1. Init => TypeOK /\ HandsInv
  <2> SUFFICES ASSUME Init PROVE TypeOK /\ HandsInv
    OBVIOUS
  <2>1. queue \in Seq(Tasks) /\ Len(queue) =< RepoSize /\ pushed \in Seq(Nat)
    BY SlotAssumption, EmptySeq DEF Init
  <2>2. rx.pc = "idle" /\ timing.pc = "idle"
    BY DEF Init, Idle
  <2>. QED  BY <2>1, <2>2, IdleType, DownlinkAssumption DEF Init, TypeOK, HandsInv, Grids
<1>2. ASSUME TypeOK, HandsInv, [Next]_vars PROVE TypeOK' /\ HandsInv'
  <2> USE <1>2
  <2>1. CASE CplaneArrives
    <3>1. PICK slot \in 0 .. MaxSlot, range \in Ranges :
            /\ commands < MaxCommands
            /\ commands' = commands + 1
            /\ rx' = [Idle EXCEPT !.since = now, !.pc = "drain",
                        !.message = [air |-> slot, first |-> range[1], stop |-> range[2]]]
      BY <2>1 DEF CplaneArrives
    <3>2. [air |-> slot, first |-> range[1], stop |-> range[2]] \in Messages
      BY DownlinkAssumption DEF Messages, Symbols
    <3>3. rx' \in [pc : {"idle", "drain", "run", "find", "add", "write"},
                   task : Tasks \cup {NoTask}, grid : Grids \cup {NoGrid},
                   message : Messages, since : Nat]
      BY <3>1, <3>2, IdleType DEF TypeOK
    <3>4. rx'.pc = "drain"
      BY <3>1, IdleType
    <3>5. commands' \in 0 .. MaxCommands
      BY <3>1, DownlinkAssumption, SMTT(30) DEF TypeOK
    <3>. QED  BY <2>1, <3>3, <3>4, <3>5 DEF CplaneArrives, TypeOK, HandsInv
  <2>2. CASE RxDrain
    <3>1. CASE queue = << >>
      BY <2>2, <3>1 DEF RxDrain, TypeOK, HandsInv
    <3>2. CASE queue # << >>
      <4>1. rx' = [rx EXCEPT !.pc = "run", !.task = Head(queue)] /\ queue' = Tail(queue)
        BY <2>2, <3>2 DEF RxDrain
      <4>2. Head(queue) \in Tasks /\ queue' \in Seq(Tasks) /\ Len(queue') =< RepoSize
        BY <3>2, <4>1, PoppedQueue, SlotAssumption, LenProperties DEF TypeOK
      <4>. QED  BY <2>2, <4>1, <4>2 DEF RxDrain, TypeOK, HandsInv
    <3>. QED  BY <3>1, <3>2
  <2>3. CASE RxRun
    <3>1. rx.task \in Tasks
      BY <2>3 DEF RxRun, HandsInv
    <3>2. entries' \in [Indices -> [Symbols -> Contexts \cup {Empty}]]
      BY <2>3, <3>1, RegisterType DEF RxRun
    <3>. QED  BY <2>3, <3>2 DEF RxRun, TypeOK, HandsInv
  <2>4. CASE RxFindGrid
    <3> DEFINE found == FindGrid(entries, rx.message.air % Period)
    <3>1. rx.message.air % Period \in WireSlots
      BY SlotTypes DEF TypeOK, Messages
    <3>2. found \in Grids \cup {NoGrid}
      BY <3>1, FoundGrid
    <3>3. CASE found # NoGrid
      BY <2>4, <3>2, <3>3 DEF RxFindGrid, TypeOK, HandsInv
    <3>4. CASE found = NoGrid
      <4>1. NextGrid \in Grids
        BY DownlinkAssumption DEF TypeOK, NextGrid, Grids
      <4>2. Cleared(counter) \in [Grids -> SUBSET Marks]
        BY DEF TypeOK, Cleared
      <4>3. Idle.pc = "idle"
        BY DEF Idle
      <4>4. CASE InUse(counter)
        BY <2>4, <3>4, <4>1, <4>3, <4>4, IdleType DEF RxFindGrid, TypeOK, HandsInv
      <4>5. CASE ~InUse(counter)
        BY <2>4, <3>4, <4>1, <4>2, <4>5 DEF RxFindGrid, TypeOK, HandsInv
      <4>. QED  BY <4>4, <4>5
    <3>. QED  BY <3>3, <3>4
  <2>5. CASE RxAdd
    <3> DEFINE task == [slot |-> rx.message.air % Period, grid |-> rx.grid, air |-> rx.message.air,
                        first |-> rx.message.first, stop |-> rx.message.stop]
               asked == {rx.message.air} \X (rx.message.first .. (rx.message.stop - 1))
    <3>1. Idle.pc = "idle" /\ rx' = Idle
      BY <2>5 DEF Idle, RxAdd
    <3>2. CASE Len(queue) < RepoSize
      <4>1. task \in Tasks
        BY <2>5, SlotTypes DEF RxAdd, HandsInv, TypeOK, Tasks, Messages
      <4>2. queue' = Append(queue, task) /\ due' = due \cup {x \in asked : ~Closed(x)}
        BY <2>5, <3>2 DEF RxAdd
      <4>3. queue' \in Seq(Tasks) /\ Len(queue') =< RepoSize
        BY <3>2, <4>1, <4>2, AppendProperties, SlotAssumption DEF TypeOK
      <4>4. due' \subseteq Nat \X Symbols
        <5>1. /\ rx.message.air \in Nat /\ rx.message.first \in Symbols
              /\ rx.message.stop \in 0 .. NofSymbols
          BY DEF TypeOK, Messages
        <5>2. rx.message.first .. (rx.message.stop - 1) \subseteq Symbols
          BY <5>1, DownlinkAssumption DEF Symbols
        <5>3. asked \subseteq Nat \X Symbols
          BY <5>1, <5>2
        <5> HIDE DEF asked
        <5>. QED  BY <4>2, <5>3 DEF TypeOK
      <4>. QED  BY <2>5, <3>1, <4>3, <4>4, IdleType DEF RxAdd, TypeOK, HandsInv
    <3>3. CASE ~(Len(queue) < RepoSize)
      BY <2>5, <3>1, <3>3, IdleType DEF RxAdd, TypeOK, HandsInv
    <3>. QED  BY <3>2, <3>3
  <2>6. CASE UplaneArrives
    <3>1. PICK slot \in 0 .. (MaxSlot + RepoSize), symbol \in Symbols :
            LET context == entries[RepositoryIndex(slot % Period)][symbol]
            IN  \/ rx' = rx
                \/ /\ ~IsEmpty(context)
                   /\ rx' = [Idle EXCEPT !.since = now, !.pc = "write", !.grid = context.grid,
                               !.message = [air |-> slot, first |-> symbol, stop |-> symbol + 1]]
      BY <2>6 DEF UplaneArrives
    <3> DEFINE context == entries[RepositoryIndex(slot % Period)][symbol]
    <3>2. context \in Contexts \cup {Empty}
      BY SlotTypes, SlotAssumption, DownlinkAssumption DEF TypeOK
    <3>3. CASE rx' = rx
      BY <2>6, <3>3 DEF UplaneArrives, TypeOK, HandsInv
    <3>4. CASE rx' # rx
      <4>1. context.grid \in Grids
        BY <3>1, <3>2, <3>4 DEF Contexts, IsEmpty, Empty
      <4>2. [air |-> slot, first |-> symbol, stop |-> symbol + 1] \in Messages
        BY SlotAssumption, DownlinkAssumption DEF Messages, Symbols
      <4>3. /\ rx' \in [pc : {"idle", "drain", "run", "find", "add", "write"},
                        task : Tasks \cup {NoTask}, grid : Grids \cup {NoGrid},
                        message : Messages, since : Nat]
            /\ rx'.pc = "write"
        BY <3>1, <3>4, <4>1, <4>2, IdleType, ZenonT(30) DEF TypeOK
      <4>. QED  BY <2>6, <4>3 DEF UplaneArrives, TypeOK, HandsInv
    <3>. QED  BY <3>3, <3>4
  <2>7. CASE UplaneWrite
    <3> DEFINE context == entries[RepositoryIndex(rx.message.air % Period)][rx.message.first]
    <3>1. Idle.pc = "idle" /\ rx' = Idle
      BY <2>7, ZenonT(30) DEF Idle, UplaneWrite
    <3>2. PICK port \in Ports :
           content' = IF IsEmpty(context) THEN content
                      ELSE [content EXCEPT ![context.grid] = @ \cup
                              {[air |-> rx.message.air, symbol |-> rx.message.first,
                                port |-> port]}]
      BY <2>7, ZenonT(30) DEF UplaneWrite
    <3>3. rx.message \in Messages
      BY DEF TypeOK
    <3>4. context \in Contexts \cup {Empty}
      <4>1. rx.message.air \in Nat /\ rx.message.first \in Symbols
        BY <3>3 DEF Messages
      <4>2. RepositoryIndex(rx.message.air % Period) \in Indices
        BY <4>1, SlotTypes
      <4>. QED  BY <4>1, <4>2 DEF TypeOK
    <3>5. [air |-> rx.message.air, symbol |-> rx.message.first, port |-> port] \in Marks
      BY <3>3 DEF Messages, Marks
    <3> HIDE DEF context
    <3>6. content' \in [Grids -> SUBSET Marks]
      BY <3>2, <3>4, <3>5 DEF TypeOK, Contexts, IsEmpty, Empty
    <3>. QED  BY <2>7, <3>1, <3>6, IdleType, ZenonT(30) DEF UplaneWrite, TypeOK, HandsInv
  <2>8. CASE OnNewSymbol
    <3>1. now' \in Nat
      BY <2>8 DEF OnNewSymbol, TypeOK
    <3>2. timing' = [timing EXCEPT !.pc = "drain"]
      BY <2>8 DEF OnNewSymbol
    <3>. QED  BY <2>8, <3>1, <3>2 DEF OnNewSymbol, TypeOK, HandsInv
  <2>9. CASE TimingDrain
    <3>1. CASE queue = << >>
      BY <2>9, <3>1 DEF TimingDrain, TypeOK, HandsInv
    <3>2. CASE queue # << >>
      <4>1. timing' = [pc |-> "run", task |-> Head(queue)] /\ queue' = Tail(queue)
        BY <2>9, <3>2 DEF TimingDrain
      <4>2. Head(queue) \in Tasks /\ queue' \in Seq(Tasks) /\ Len(queue') =< RepoSize
        BY <3>2, <4>1, PoppedQueue, SlotAssumption, LenProperties DEF TypeOK
      <4>. QED  BY <2>9, <4>1, <4>2 DEF TimingDrain, TypeOK, HandsInv
    <3>. QED  BY <3>1, <3>2
  <2>10. CASE TimingRun
    <3>1. timing.task \in Tasks
      BY <2>10 DEF TimingRun, HandsInv
    <3>2. entries' \in [Indices -> [Symbols -> Contexts \cup {Empty}]]
      BY <2>10, <3>1, RegisterType DEF TimingRun
    <3>. QED  BY <2>10, <3>2 DEF TimingRun, TypeOK, HandsInv
  <2>11. CASE CloseSymbol
    BY <2>11, ClosedType DEF CloseSymbol, TypeOK, HandsInv
  <2>12. CASE OffsetMeasured
    BY <2>12, DownlinkAssumption DEF OffsetMeasured, TypeOK, HandsInv
  <2>13. CASE RadioDone
    BY <2>13 DEF RadioDone, TypeOK, HandsInv
  <2>14. CASE UNCHANGED vars
    BY <2>14 DEF vars, TypeOK, HandsInv
  <2>. QED
    BY <2>1, <2>2, <2>3, <2>4, <2>5, <2>6, <2>7, <2>8, <2>9, <2>10, <2>11, <2>12, <2>13, <2>14
    DEF Next, RxStep, TimingStep
<1>. QED  BY <1>1, <1>2

\* Type correctness of the grid repository, the queue of registrations, the
\* grid pool and the two threads.
THEOREM DownlinkTypeOK == Spec => []TypeOK
BY TypeInductive, PTL DEF Spec
-----------------------------------------------------------------------------
\* Contexts and registrations carry the wire number of the slot they are for.
KeyedInv ==
  /\ \A i \in Indices, s \in Symbols :
       entries[i][s] \in Contexts => entries[i][s].slot = entries[i][s].air % Period
  /\ \A k \in 1 .. Len(queue) : queue[k].slot = queue[k].air % Period
  /\ rx.task \in Tasks => rx.task.slot = rx.task.air % Period
  /\ timing.task \in Tasks => timing.task.slot = timing.task.air % Period

LEMMA NoTaskIsNoTask == NoTask \notin Tasks /\ NoTask.grid = NoGrid
BY EmptyIsNoGrid DEF NoTask, Tasks

LEMMA RegisterKeyed ==
  ASSUME TypeOK, KeyedInv, NEW task \in Tasks, task.slot = task.air % Period,
         NEW i \in Indices, NEW s \in Symbols,
         Register(entries, task)[i][s] \in Contexts
  PROVE  Register(entries, task)[i][s].slot = Register(entries, task)[i][s].air % Period
<1>1. \/ Register(entries, task)[i][s] = entries[i][s]
      \/ \E g : Register(entries, task)[i][s] = [slot |-> task.slot, grid |-> g, air |-> task.air]
  BY RegisteredContext
<1>2. CASE Register(entries, task)[i][s] = entries[i][s]
  BY <1>2 DEF KeyedInv
<1>3. CASE \E g : Register(entries, task)[i][s] = [slot |-> task.slot, grid |-> g, air |-> task.air]
  <2>1. Register(entries, task)[i][s].slot = task.slot /\ Register(entries, task)[i][s].air = task.air
    BY <1>3
  <2>. QED  BY <2>1
<1>. QED  BY <1>1, <1>2, <1>3

\* Closing a symbol leaves the other contexts alone.
LEMMA ClosedContext ==
  ASSUME TypeOK, CloseSymbol, NEW i \in Indices, NEW s \in Symbols
  PROVE  entries'[i][s] = entries[i][s] \/ entries'[i][s] = Empty
<1>1. \/ entries' = entries
      \/ \E index, symbol : entries' = [entries EXCEPT ![index][symbol] = Empty]
  BY DEF CloseSymbol, Popped
<1>2. CASE entries' = entries
  BY <1>2
<1>3. CASE \E index, symbol : entries' = [entries EXCEPT ![index][symbol] = Empty]
  <2>1. PICK index, symbol : entries' = [entries EXCEPT ![index][symbol] = Empty]
    BY <1>3
  <2>. QED  BY <2>1 DEF TypeOK
<1>. QED  BY <1>1, <1>2, <1>3

LEMMA KeyedInductive ==
  /\ Init => KeyedInv
  /\ TypeOK /\ HandsInv /\ KeyedInv /\ [Next]_vars => KeyedInv'
<1>1. Init => KeyedInv
  <2> SUFFICES ASSUME Init PROVE KeyedInv
    OBVIOUS
  <2>1. Len(queue) = 0 /\ rx.task = NoTask /\ timing.task = NoTask
    BY DEF Init, Idle
  <2>2. \A i \in Indices, s \in Symbols : entries[i][s] \notin Contexts
    BY EmptyIsNoGrid DEF Init
  <2>. QED  BY <2>1, <2>2, NoTaskIsNoTask DEF KeyedInv
<1>2. ASSUME TypeOK, HandsInv, KeyedInv, [Next]_vars PROVE KeyedInv'
  <2> USE <1>2
  <2>0. Idle.task \notin Tasks
    BY NoTaskIsNoTask DEF Idle
  <2>1. CASE CplaneArrives
    <3>1. rx'.task = Idle.task
      BY <2>1, IdleType DEF CplaneArrives
    <3>. QED  BY <2>0, <2>1, <3>1 DEF CplaneArrives, KeyedInv
  <2>2. CASE RxDrain
    <3>1. CASE queue = << >>
      <4>1. rx'.task = rx.task /\ queue' = queue
        BY <2>2, <3>1 DEF RxDrain, TypeOK
      <4>. QED  BY <2>2, <4>1 DEF RxDrain, KeyedInv
    <3>2. CASE queue # << >>
      <4>1. rx'.task = Head(queue) /\ queue' = Tail(queue)
        BY <2>2, <3>2 DEF RxDrain, TypeOK
      <4>2. Head(queue).slot = Head(queue).air % Period
        BY <3>2, PoppedQueue DEF TypeOK, KeyedInv
      <4>3. \A k \in 1 .. Len(queue') : queue'[k].slot = queue'[k].air % Period
        BY <3>2, <4>1, PoppedQueue DEF TypeOK, KeyedInv
      <4>. QED  BY <2>2, <4>1, <4>2, <4>3 DEF RxDrain, KeyedInv
    <3>. QED  BY <3>1, <3>2
  <2>3. CASE RxRun
    <3>1. rx.task \in Tasks /\ rx.task.slot = rx.task.air % Period
      BY <2>3 DEF RxRun, HandsInv, KeyedInv
    <3>2. rx'.task \notin Tasks
      BY <2>3, NoTaskIsNoTask DEF RxRun, TypeOK
    <3>. QED  BY <2>3, <3>1, <3>2, RegisterKeyed DEF RxRun, KeyedInv
  <2>4. CASE RxFindGrid
    <3>1. rx'.task \in {rx.task, Idle.task}
      BY <2>4 DEF RxFindGrid, TypeOK
    <3>. QED  BY <2>0, <2>4, <3>1 DEF RxFindGrid, KeyedInv
  <2>5. CASE RxAdd
    <3> DEFINE task == [slot |-> rx.message.air % Period, grid |-> rx.grid, air |-> rx.message.air,
                        first |-> rx.message.first, stop |-> rx.message.stop]
    <3>1. rx'.task = Idle.task
      BY <2>5 DEF RxAdd
    <3>2. queue' = queue \/ queue' = Append(queue, task)
      BY <2>5 DEF RxAdd
    <3>3. task \in Tasks
      BY <2>5, SlotTypes DEF RxAdd, HandsInv, TypeOK, Tasks, Messages
    <3>4. ASSUME NEW k \in 1 .. Len(queue') PROVE queue'[k].slot = queue'[k].air % Period
      <4>1. task.slot = task.air % Period
        OBVIOUS
      <4> HIDE DEF task
      <4>2. queue \in Seq(Tasks)
        BY DEF TypeOK
      <4>3. queue'[k] = task \/ (k \in 1 .. Len(queue) /\ queue'[k] = queue[k])
        BY <3>2, <3>3, <3>4, <4>2, AppendProperties
      <4>. QED  BY <4>1, <4>3 DEF KeyedInv
    <3>. QED  BY <2>0, <2>5, <3>1, <3>4 DEF RxAdd, KeyedInv
  <2>6. CASE UplaneArrives
    <3>1. rx'.task \in {rx.task, Idle.task}
      BY <2>6, IdleType, ZenonT(30) DEF UplaneArrives
    <3>. QED  BY <2>0, <2>6, <3>1 DEF UplaneArrives, KeyedInv
  <2>7. CASE UplaneWrite
    BY <2>0, <2>7, ZenonT(30) DEF UplaneWrite, KeyedInv
  <2>8. CASE OnNewSymbol
    <3>1. timing'.task = timing.task
      BY <2>8 DEF OnNewSymbol, TypeOK
    <3>. QED  BY <2>8, <3>1 DEF OnNewSymbol, KeyedInv
  <2>9. CASE TimingDrain
    <3>1. CASE queue = << >>
      <4>1. timing'.task = timing.task /\ queue' = queue
        BY <2>9, <3>1 DEF TimingDrain, TypeOK
      <4>. QED  BY <2>9, <4>1 DEF TimingDrain, KeyedInv
    <3>2. CASE queue # << >>
      <4>1. timing'.task = Head(queue) /\ queue' = Tail(queue)
        BY <2>9, <3>2 DEF TimingDrain
      <4>2. Head(queue).slot = Head(queue).air % Period
        BY <3>2, PoppedQueue DEF TypeOK, KeyedInv
      <4>3. \A k \in 1 .. Len(queue') : queue'[k].slot = queue'[k].air % Period
        BY <3>2, <4>1, PoppedQueue DEF TypeOK, KeyedInv
      <4>. QED  BY <2>9, <4>1, <4>2, <4>3 DEF TimingDrain, KeyedInv
    <3>. QED  BY <3>1, <3>2
  <2>10. CASE TimingRun
    <3>1. timing.task \in Tasks /\ timing.task.slot = timing.task.air % Period
      BY <2>10 DEF TimingRun, HandsInv, KeyedInv
    <3>2. timing'.task \notin Tasks
      BY <2>10, NoTaskIsNoTask DEF TimingRun
    <3>. QED  BY <2>10, <3>1, <3>2, RegisterKeyed DEF TimingRun, KeyedInv
  <2>11. CASE CloseSymbol
    <3>1. timing'.task = timing.task
      BY <2>11 DEF CloseSymbol, TypeOK
    <3>2. \A i \in Indices, s \in Symbols : entries'[i][s] = entries[i][s] \/ entries'[i][s] = Empty
      BY <2>11, ClosedContext
    <3>3. Empty \notin Contexts
      BY EmptyIsNoGrid
    <3>. QED  BY <2>11, <3>1, <3>2, <3>3 DEF CloseSymbol, KeyedInv
  <2>12. CASE OffsetMeasured
    BY <2>12 DEF OffsetMeasured, KeyedInv
  <2>13. CASE RadioDone
    BY <2>13 DEF RadioDone, KeyedInv
  <2>14. CASE UNCHANGED vars
    BY <2>14 DEF vars, KeyedInv
  <2>. QED
    BY <2>1, <2>2, <2>3, <2>4, <2>5, <2>6, <2>7, <2>8, <2>9, <2>10, <2>11, <2>12, <2>13, <2>14
    DEF Next, RxStep, TimingStep
<1>. QED  BY <1>1, <1>2

\* The commands of one slot assemble into one grid: the contexts of a slot refer
\* to the same grid, whichever thread registered them and in whatever order.
THEOREM DownlinkOneGridPerSlot == Spec => []OneGridPerSlot
<1>1. Init => OneGridPerSlot
  BY SMTT(30) DEF Init, OneGridPerSlot, IsEmpty, Empty
<1>2. ASSUME TypeOK, HandsInv, OneGridPerSlot, [Next]_vars PROVE OneGridPerSlot'
  <2> USE <1>2
  <2>1. ASSUME NEW task \in Tasks, entries' = Register(entries, task) PROVE OneGridPerSlot'
    <3> DEFINE known == OfSlot(entries, task.slot)
               grid == IF known = {} THEN task.grid ELSE FindGrid(entries, task.slot)
               j == RepositoryIndex(task.slot)
    <3>1. \A i \in Indices, s \in Symbols :
            entries'[i][s] =
              IF i = j /\ s \in task.first .. (task.stop - 1) /\ s \notin known
              THEN [slot |-> task.slot, grid |-> grid, air |-> task.air] ELSE entries[i][s]
      BY <2>1, RegisteredContext
    <3>2. task.slot \in WireSlots
      BY DEF Tasks
    <3>3. j \in Indices
      BY <3>2, SlotTypes
    <3>4. \A s \in Symbols : ~IsEmpty(entries[j][s]) /\ entries[j][s].slot = task.slot => s \in known
      BY DEF OfSlot
    \* Every context the slot had refers to the grid that FindGrid returns.
    <3>5. \A s \in known : entries[j][s].grid = grid
      <4>1. SUFFICES ASSUME known # {}, NEW s \in known PROVE entries[j][s].grid = grid
        OBVIOUS
      <4>2. PICK t \in known : grid = entries[j][t].grid
        BY <3>2, <4>1, FoundGrid
      <4>3. s \in Symbols /\ t \in Symbols
        BY DEF OfSlot
      <4>4. /\ ~IsEmpty(entries[j][s]) /\ ~IsEmpty(entries[j][t])
            /\ entries[j][s].slot = entries[j][t].slot
        BY DEF OfSlot
      <4>. QED  BY <3>3, <4>2, <4>3, <4>4 DEF OneGridPerSlot
    <3> HIDE DEF known, grid, j
    <3>6. ASSUME NEW s \in Symbols, ~IsEmpty(entries'[j][s]), entries'[j][s].slot = task.slot
          PROVE  entries'[j][s].grid = grid
      BY <3>1, <3>3, <3>4, <3>5, <3>6
    <3> SUFFICES ASSUME NEW i \in Indices, NEW s \in Symbols, NEW t \in Symbols,
                        ~IsEmpty(entries'[i][s]), ~IsEmpty(entries'[i][t]),
                        entries'[i][s].slot = entries'[i][t].slot
                 PROVE  entries'[i][s].grid = entries'[i][t].grid
      BY DEF OneGridPerSlot, IsEmpty
    <3>7. CASE i = j /\ entries'[i][s].slot = task.slot
      BY <3>6, <3>7
    <3>8. CASE ~(i = j /\ entries'[i][s].slot = task.slot)
      <4>1. entries'[i][s] = entries[i][s] /\ entries'[i][t] = entries[i][t]
        BY <3>1, <3>8
      <4>. QED  BY <4>1 DEF OneGridPerSlot
    <3>. QED  BY <3>7, <3>8
  <2>2. CASE RxRun
    BY <2>1, <2>2 DEF RxRun, HandsInv
  <2>3. CASE TimingRun
    BY <2>1, <2>3 DEF TimingRun, HandsInv
  <2>4. CASE CloseSymbol
    <3>1. \A i \in Indices, s \in Symbols : entries'[i][s] = entries[i][s] \/ entries'[i][s] = Empty
      BY <2>4, ClosedContext
    <3>. QED  BY <3>1 DEF OneGridPerSlot, IsEmpty, Empty
  <2>5. CASE entries' = entries
    BY <2>5 DEF OneGridPerSlot, IsEmpty
  <2>. QED
    BY <2>2, <2>3, <2>4, <2>5, ZenonT(30)
    DEF Next, RxStep, TimingStep, vars, CplaneArrives, UplaneArrives, RxDrain, RxFindGrid, RxAdd,
        UplaneWrite, OnNewSymbol, TimingDrain, OffsetMeasured, RadioDone
<1>. QED  BY <1>1, <1>2, TypeInductive, PTL DEF Spec
-----------------------------------------------------------------------------
\* A grid is held for a slot: by a context, by a registration in the queue or in
\* a thread's hands, by the radio, or by a receive thread about to register it.
InEntries(g, slot) ==
  \E i \in Indices, s \in Symbols : entries[i][s].grid = g /\ entries[i][s].slot = slot

InQueue(g, slot) ==
  \E k \in 1 .. Len(queue) : queue[k].grid = g /\ queue[k].slot = slot

InTasks(g, slot) ==
  \/ rx.task.grid = g /\ rx.task.slot = slot
  \/ timing.task.grid = g /\ timing.task.slot = slot

OnRadio(g, slot) ==
  \E r \in radio : r.grid = g /\ r.air % Period = slot

InRx(g, slot) ==
  rx.pc = "add" /\ rx.grid = g /\ rx.message.air % Period = slot

HeldFor(g, slot) ==
  InEntries(g, slot) \/ InQueue(g, slot) \/ InTasks(g, slot) \/ OnRadio(g, slot) \/ InRx(g, slot)

OneSlotInv ==
  \A g \in Grids, s, t \in WireSlots : HeldFor(g, s) /\ HeldFor(g, t) => s = t

LEMMA HeldIsInUse ==
  ASSUME NEW g, NEW slot, HeldFor(g, slot)
  PROVE  InUse(g)
BY DEF HeldFor, InEntries, InQueue, InTasks, OnRadio, InRx, InUse

\* Running a registration only passes a grid on within its slot.
LEMMA RegisterHolds ==
  ASSUME TypeOK, NEW task \in Tasks, entries' = Register(entries, task),
         NEW g \in Grids, NEW slot \in WireSlots, InEntries(g, slot)'
  PROVE  InEntries(g, slot) \/ (task.grid = g /\ task.slot = slot)
<1> DEFINE known == OfSlot(entries, task.slot)
           grid == IF known = {} THEN task.grid ELSE FindGrid(entries, task.slot)
           j == RepositoryIndex(task.slot)
<1>1. PICK i \in Indices, s \in Symbols : entries'[i][s].grid = g /\ entries'[i][s].slot = slot
  BY DEF InEntries
<1>2. \/ entries'[i][s] = entries[i][s]
      \/ entries'[i][s] = [slot |-> task.slot, grid |-> grid, air |-> task.air]
  BY RegisteredContext
<1>3. CASE entries'[i][s] = entries[i][s]
  BY <1>1, <1>3 DEF InEntries
<1>4. CASE entries'[i][s] = [slot |-> task.slot, grid |-> grid, air |-> task.air]
  <2>1. task.slot = slot /\ grid = g
    BY <1>1, <1>4
  <2>2. CASE known = {}
    BY <2>1, <2>2
  <2>3. CASE known # {}
    <3>1. task.slot \in WireSlots
      BY DEF Tasks
    <3>2. PICK t \in known : grid = entries[j][t].grid
      BY <2>3, <3>1, FoundGrid
    <3>3. t \in Symbols /\ entries[j][t].slot = task.slot
      BY DEF OfSlot
    <3>4. j \in Indices
      BY <3>1, SlotTypes
    <3>. QED  BY <2>1, <3>2, <3>3, <3>4 DEF InEntries
  <2>. QED  BY <2>2, <2>3
<1>. QED  BY <1>2, <1>3, <1>4

\* A step makes a grid held for a slot only if it already was, or if the pool
\* has just handed out a grid that nobody refers to.
LEMMA HeldStep ==
  ASSUME TypeOK, HandsInv, KeyedInv, [Next]_vars,
         NEW g \in Grids, NEW slot \in WireSlots, HeldFor(g, slot)'
  PROVE  HeldFor(g, slot) \/ (~InUse(g) /\ slot = rx.message.air % Period)
<1>0. /\ g # NoGrid
      /\ Idle.pc = "idle" /\ Idle.task.grid # g /\ NoTask.grid # g
  BY EmptyIsNoGrid, NoTaskIsNoTask DEF Idle
<1>1. CASE CplaneArrives
  <2>1. rx'.pc = "drain" /\ rx'.task = NoTask
    BY <1>1 DEF CplaneArrives, Idle
  <2>2. ~InRx(g, slot)' /\ (InTasks(g, slot)' => InTasks(g, slot))
    BY <1>0, <1>1, <2>1 DEF InRx, InTasks, CplaneArrives
  <2>. QED  BY <1>1, <2>2 DEF CplaneArrives, HeldFor, InEntries, InQueue, OnRadio
<1>2. CASE RxDrain
  <2>1. CASE queue = << >>
    <3>1. rx'.pc = "find" /\ rx'.task = rx.task /\ queue' = queue
      BY <1>2, <2>1 DEF RxDrain, TypeOK
    <3>. QED  BY <1>2, <3>1 DEF RxDrain, HeldFor, InEntries, InQueue, InTasks, OnRadio, InRx
  <2>2. CASE queue # << >>
    <3>1. rx'.pc = "run" /\ rx'.task = Head(queue) /\ queue' = Tail(queue)
      BY <1>2, <2>2 DEF RxDrain, TypeOK
    <3>2. InQueue(g, slot)' => InQueue(g, slot)
      BY <2>2, <3>1, PoppedQueue DEF InQueue, TypeOK
    <3>3. InTasks(g, slot)' => InTasks(g, slot) \/ InQueue(g, slot)
      <4>1. timing' = timing
        BY <1>2 DEF RxDrain
      <4>2. Head(queue) = queue[1] /\ 1 \in 1 .. Len(queue)
        BY <2>2, PoppedQueue DEF TypeOK
      <4>. QED  BY <3>1, <4>1, <4>2 DEF InQueue, InTasks
    <3>. QED  BY <1>2, <3>1, <3>2, <3>3 DEF RxDrain, HeldFor, InEntries, OnRadio, InRx
  <2>. QED  BY <2>1, <2>2
<1>3. CASE RxRun
  <2>1. rx.task \in Tasks /\ rx'.pc = "drain" /\ rx'.task = NoTask
    BY <1>3 DEF RxRun, HandsInv, TypeOK
  <2>2. InEntries(g, slot)' => InEntries(g, slot) \/ InTasks(g, slot)
    BY <1>3, <2>1, RegisterHolds DEF RxRun, InTasks
  <2>3. InTasks(g, slot)' => InTasks(g, slot)
    BY <1>0, <1>3, <2>1 DEF RxRun, InTasks
  <2>. QED  BY <1>3, <2>1, <2>2, <2>3 DEF RxRun, HeldFor, InQueue, OnRadio, InRx
<1>4. CASE RxFindGrid
  <2> DEFINE found == FindGrid(entries, rx.message.air % Period)
  <2>1. rx.message.air % Period \in WireSlots
    BY SlotTypes DEF TypeOK, Messages
  <2>2. CASE found # NoGrid
    <3>1. rx' = [rx EXCEPT !.pc = "add", !.grid = found]
      BY <1>4, <2>2 DEF RxFindGrid
    <3>2. rx'.task = rx.task /\ rx'.grid = found /\ rx'.message = rx.message
      BY <3>1 DEF TypeOK
    <3>3. PICK s \in OfSlot(entries, rx.message.air % Period) :
            found = entries[RepositoryIndex(rx.message.air % Period)][s].grid
      BY <2>1, <2>2, FoundGrid
    <3>4. ASSUME InRx(g, slot)' PROVE InEntries(g, slot)
      <4>1. g = found /\ slot = rx.message.air % Period
        BY <3>2, <3>4 DEF InRx
      <4>2. s \in Symbols /\ entries[RepositoryIndex(slot)][s].slot = slot
        BY <4>1 DEF OfSlot
      <4>3. RepositoryIndex(slot) \in Indices
        BY SlotTypes
      <4>. QED  BY <3>3, <4>1, <4>2, <4>3 DEF InEntries
    <3>. QED  BY <1>4, <3>2, <3>4 DEF RxFindGrid, HeldFor, InEntries, InQueue, InTasks, OnRadio
  <2>3. CASE found = NoGrid /\ InUse(counter)
    <3>1. rx' = Idle
      BY <1>4, <2>3 DEF RxFindGrid
    <3>2. ~InRx(g, slot)' /\ (InTasks(g, slot)' => InTasks(g, slot))
      BY <1>0, <1>4, <3>1 DEF InRx, InTasks, RxFindGrid
    <3>. QED  BY <1>4, <3>2 DEF RxFindGrid, HeldFor, InEntries, InQueue, OnRadio
  <2>4. CASE found = NoGrid /\ ~InUse(counter)
    <3>1. rx' = [rx EXCEPT !.pc = "add", !.grid = counter]
      BY <1>4, <2>4 DEF RxFindGrid
    <3>2. rx'.task = rx.task /\ rx'.grid = counter /\ rx'.message = rx.message
      BY <3>1 DEF TypeOK
    <3>3. InRx(g, slot)' => ~InUse(g) /\ slot = rx.message.air % Period
      BY <2>4, <3>2 DEF InRx
    <3>. QED  BY <1>4, <3>2, <3>3 DEF RxFindGrid, HeldFor, InEntries, InQueue, InTasks, OnRadio
  <2>. QED  BY <2>2, <2>3, <2>4
<1>5. CASE RxAdd
  <2> DEFINE task == [slot |-> rx.message.air % Period, grid |-> rx.grid, air |-> rx.message.air,
                      first |-> rx.message.first, stop |-> rx.message.stop]
  <2>1. rx' = Idle /\ rx.pc = "add" /\ (queue' = queue \/ queue' = Append(queue, task))
    BY <1>5 DEF RxAdd
  <2>2. task \in Tasks /\ task.grid = rx.grid /\ task.slot = rx.message.air % Period
    BY <1>5, SlotTypes DEF RxAdd, HandsInv, TypeOK, Tasks, Messages
  <2> HIDE DEF task
  <2>3. ASSUME InQueue(g, slot)' PROVE InQueue(g, slot) \/ InRx(g, slot)
    <3>1. PICK k \in 1 .. Len(queue') : queue'[k].grid = g /\ queue'[k].slot = slot
      BY <2>3 DEF InQueue
    <3>2. queue \in Seq(Tasks)
      BY DEF TypeOK
    <3>3. queue'[k] = task \/ (k \in 1 .. Len(queue) /\ queue'[k] = queue[k])
      BY <2>1, <2>2, <3>2, AppendProperties
    <3>. QED  BY <2>1, <2>2, <3>1, <3>3 DEF InQueue, InRx
  <2>4. ~InRx(g, slot)' /\ (InTasks(g, slot)' => InTasks(g, slot))
    BY <1>0, <1>5, <2>1 DEF InRx, InTasks, RxAdd
  <2>. QED  BY <1>5, <2>3, <2>4 DEF RxAdd, HeldFor, InEntries, OnRadio
<1>6. CASE UplaneArrives
  <2>1. rx' = rx \/ (rx'.pc = "write" /\ rx'.task = NoTask)
    BY <1>6, ZenonT(30) DEF UplaneArrives, Idle
  <2>2. (InRx(g, slot)' => InRx(g, slot)) /\ (InTasks(g, slot)' => InTasks(g, slot))
    BY <1>0, <1>6, <2>1 DEF InRx, InTasks, UplaneArrives
  <2>. QED  BY <1>6, <2>2 DEF UplaneArrives, HeldFor, InEntries, InQueue, OnRadio
<1>7. CASE UplaneWrite
  <2>1. rx' = Idle
    BY <1>7, ZenonT(30) DEF UplaneWrite
  <2>2. ~InRx(g, slot)' /\ (InTasks(g, slot)' => InTasks(g, slot))
    BY <1>0, <1>7, <2>1, ZenonT(30) DEF InRx, InTasks, UplaneWrite
  <2>. QED  BY <1>7, <2>2, ZenonT(30) DEF UplaneWrite, HeldFor, InEntries, InQueue, OnRadio
<1>8. CASE OnNewSymbol
  <2>1. timing'.task = timing.task
    BY <1>8 DEF OnNewSymbol, TypeOK
  <2>. QED  BY <1>8, <2>1 DEF OnNewSymbol, HeldFor, InEntries, InQueue, InTasks, OnRadio, InRx
<1>9. CASE TimingDrain
  <2>1. CASE queue = << >>
    <3>1. timing'.task = timing.task /\ queue' = queue
      BY <1>9, <2>1 DEF TimingDrain, TypeOK
    <3>. QED  BY <1>9, <3>1 DEF TimingDrain, HeldFor, InEntries, InQueue, InTasks, OnRadio, InRx
  <2>2. CASE queue # << >>
    <3>1. timing'.task = Head(queue) /\ queue' = Tail(queue)
      BY <1>9, <2>2 DEF TimingDrain
    <3>2. InQueue(g, slot)' => InQueue(g, slot)
      BY <2>2, <3>1, PoppedQueue DEF InQueue, TypeOK
    <3>3. InTasks(g, slot)' => InTasks(g, slot) \/ InQueue(g, slot)
      BY <1>9, <2>2, <3>1, PoppedQueue DEF InQueue, InTasks, TypeOK, TimingDrain
    <3>. QED  BY <1>9, <3>1, <3>2, <3>3 DEF TimingDrain, HeldFor, InEntries, OnRadio, InRx
  <2>. QED  BY <2>1, <2>2
<1>10. CASE TimingRun
  <2>1. timing.task \in Tasks /\ timing'.task = NoTask
    BY <1>10 DEF TimingRun, HandsInv
  <2>2. InEntries(g, slot)' => InEntries(g, slot) \/ InTasks(g, slot)
    BY <1>10, <2>1, RegisterHolds DEF TimingRun, InTasks
  <2>3. InTasks(g, slot)' => InTasks(g, slot)
    BY <1>0, <1>10, <2>1 DEF TimingRun, InTasks
  <2>. QED  BY <1>10, <2>2, <2>3 DEF TimingRun, HeldFor, InQueue, OnRadio, InRx
<1>11. CASE CloseSymbol
  <2> DEFINE index == RepositoryIndex((Closing(now) \div NofSymbols) % RadioPeriod)
             symbol == Closing(now) % NofSymbols
             context == entries[index][symbol]
  <2>1. index \in Indices /\ symbol \in Symbols
    BY ClosingTypes DEF TypeOK
  <2>2. timing'.task = timing.task
    BY <1>11 DEF CloseSymbol, TypeOK
  <2>3. InEntries(g, slot)' => InEntries(g, slot)
    BY <1>0, <1>11, ClosedContext, EmptyIsNoGrid DEF InEntries
  \* The radio takes over the grid, for the slot of the context it came from.
  <2>4. ASSUME OnRadio(g, slot)' PROVE OnRadio(g, slot) \/ InEntries(g, slot)
    <3>1. \/ radio' = radio
          \/ ~IsEmpty(context) /\ \E x : radio' = radio \cup
                 {[grid |-> context.grid, air |-> context.air, slot |-> x]}
      BY <1>11 DEF CloseSymbol, Completed
    <3>2. ~IsEmpty(context) => context.slot = context.air % Period
      BY <2>1 DEF TypeOK, KeyedInv, IsEmpty, Empty
    <3>. QED  BY <2>1, <2>4, <3>1, <3>2 DEF OnRadio, InEntries
  <2>. QED  BY <1>11, <2>2, <2>3, <2>4 DEF CloseSymbol, HeldFor, InQueue, InTasks, InRx
<1>12. CASE OffsetMeasured
  BY <1>12 DEF OffsetMeasured, HeldFor, InEntries, InQueue, InTasks, OnRadio, InRx
<1>13. CASE RadioDone
  <2>1. OnRadio(g, slot)' => OnRadio(g, slot)
    BY <1>13 DEF RadioDone, OnRadio
  <2>. QED  BY <1>13, <2>1 DEF RadioDone, HeldFor, InEntries, InQueue, InTasks, InRx
<1>14. CASE UNCHANGED vars
  BY <1>14 DEF vars, HeldFor, InEntries, InQueue, InTasks, OnRadio, InRx
<1>. QED
  BY <1>1, <1>2, <1>3, <1>4, <1>5, <1>6, <1>7, <1>8, <1>9, <1>10, <1>11, <1>12, <1>13, <1>14
  DEF Next, RxStep, TimingStep

\* A grid that the repository, a registration on its way or the radio holds for
\* one slot is not handed out for another: the pool never reserves a grid that
\* somebody still refers to, and every hand-over stays within the slot.
THEOREM DownlinkGridServesOneSlot == Spec => []GridServesOneSlot
<1>1. Init => OneSlotInv
  <2> SUFFICES ASSUME Init, NEW g \in Grids, NEW s \in WireSlots PROVE ~HeldFor(g, s)
    BY DEF OneSlotInv
  <2>1. Idle.pc = "idle" /\ Idle.task = NoTask
    BY DEF Idle
  <2>. QED
    BY <2>1, EmptyIsNoGrid, NoTaskIsNoTask
    DEF Init, HeldFor, InEntries, InQueue, InTasks, OnRadio, InRx
<1>2. ASSUME TypeOK, HandsInv, KeyedInv, OneSlotInv, [Next]_vars PROVE OneSlotInv'
  <2> SUFFICES ASSUME NEW g \in Grids, NEW s \in WireSlots, NEW t \in WireSlots,
                      HeldFor(g, s)', HeldFor(g, t)'
               PROVE  s = t
    BY DEF OneSlotInv
  <2>1. HeldFor(g, s) \/ (~InUse(g) /\ s = rx.message.air % Period)
    BY <1>2, HeldStep
  <2>2. HeldFor(g, t) \/ (~InUse(g) /\ t = rx.message.air % Period)
    BY <1>2, HeldStep
  <2>3. (HeldFor(g, s) => InUse(g)) /\ (HeldFor(g, t) => InUse(g))
    BY HeldIsInUse
  <2>. QED  BY <1>2, <2>1, <2>2, <2>3 DEF OneSlotInv
<1>3. ASSUME TypeOK, HandsInv, OneSlotInv PROVE GridServesOneSlot
  <2>1. ASSUME NEW a \in Holders, a.grid # NoGrid
        PROVE  a.grid \in Grids /\ a.slot \in WireSlots /\ HeldFor(a.grid, a.slot)
    <3>1. CASE \E i \in Indices, s \in Symbols :
                 a = [slot |-> entries[i][s].slot, grid |-> entries[i][s].grid]
      <4>1. PICK i \in Indices, s \in Symbols :
              a = [slot |-> entries[i][s].slot, grid |-> entries[i][s].grid]
        BY <3>1
      <4>2. entries[i][s] \in Contexts
        BY <1>3, <2>1, <4>1 DEF TypeOK, Empty
      <4>. QED  BY <4>1, <4>2 DEF Contexts, HeldFor, InEntries
    <3>2. CASE \E k \in 1 .. Len(queue) : a = [slot |-> queue[k].slot, grid |-> queue[k].grid]
      <4>1. PICK k \in 1 .. Len(queue) : a = [slot |-> queue[k].slot, grid |-> queue[k].grid]
        BY <3>2
      <4>2. queue[k] \in Tasks
        BY <1>3, ElementOfSeq DEF TypeOK
      <4>. QED  BY <4>1, <4>2 DEF Tasks, HeldFor, InQueue
    <3>3. CASE \E t \in {rx.task, timing.task} : a = [slot |-> t.slot, grid |-> t.grid]
      <4>1. PICK t \in {rx.task, timing.task} : a = [slot |-> t.slot, grid |-> t.grid]
        BY <3>3
      <4>2. t \in Tasks
        BY <1>3, <2>1, <4>1, NoTaskIsNoTask DEF TypeOK
      <4>. QED  BY <4>1, <4>2 DEF Tasks, HeldFor, InTasks
    <3>4. CASE \E r \in radio : a = [slot |-> r.air % Period, grid |-> r.grid]
      BY <1>3, <3>4, SlotTypes DEF TypeOK, HeldFor, OnRadio
    <3>5. CASE rx.pc = "add" /\ a = [slot |-> rx.message.air % Period, grid |-> rx.grid]
      <4>1. rx.message.air \in Nat /\ rx.grid \in Grids
        BY <1>3, <3>5 DEF TypeOK, Messages, HandsInv
      <4>. QED  BY <3>5, <4>1, SlotTypes DEF HeldFor, InRx
    <3>. QED  BY <2>1, <3>1, <3>2, <3>3, <3>4, <3>5 DEF Holders
  <2>. QED  BY <1>3, <2>1 DEF GridServesOneSlot, OneSlotInv
<1>. QED  BY <1>1, <1>2, <1>3, TypeInductive, KeyedInductive, PTL DEF Spec
-----------------------------------------------------------------------------
(* The timely environment.  Distances are in symbols, from the symbol that the
   timing thread is closing or has closed last. *)

FirstSymbol(slot) == slot * NofSymbols

\* The slots the repository keeps apart, short of one.
Span == (RepoSize - 1) * NofSymbols

\* A message is handled before the second symbol after it.  Its registration is
\* queued four symbols ahead of its slot at the earliest reading of the clock, a
\* registration that the receive thread took from the queue is two ahead.
RxTimely ==
  /\ rx.pc # "idle" => now \in {rx.since, rx.since + 1}
  /\ rx.pc \in {"drain", "run", "find", "add"} =>
       FirstSymbol(rx.message.air) \in (Closing(rx.since) + 4) .. (Closing(rx.since) + Span)
  /\ rx.pc = "write" =>
       FirstSymbol(rx.message.air) + rx.message.first
         \in (Closing(rx.since) + 2) .. (Closing(rx.since) + Span + NofSymbols - 1)
  /\ rx.pc = "run" =>
       FirstSymbol(rx.task.air) \in (Closing(rx.since) + 2) .. (Closing(now) + Span)
  /\ rx.pc # "run" => rx.task = NoTask

\* What is queued is three symbols ahead, or two while the timing thread has not
\* drained the queue yet in this symbol.
QueueLead == IF timing.pc \in {"drain", "run"} THEN 2 ELSE 3

QueueTimely ==
  /\ \A k \in 1 .. Len(queue) :
       FirstSymbol(queue[k].air) \in (Closing(now) + QueueLead) .. (Closing(now) + Span)
  /\ timing.pc = "run" =>
       FirstSymbol(timing.task.air) \in (Closing(now) + 2) .. (Closing(now) + Span)
  /\ timing.pc # "run" => timing.task = NoTask

\* A context is at the index of its slot and waits for a symbol that is not
\* closed yet, at most a turn of the repository ahead.
EntriesTimely ==
  \A i \in Indices, s \in Symbols : entries[i][s] \in Contexts =>
    /\ i = RepositoryIndex(entries[i][s].slot)
    /\ FirstSymbol(entries[i][s].air) + s >= Closing(now) + (IF timing.pc = "idle" THEN 1 ELSE 0)
    /\ FirstSymbol(entries[i][s].air) =< Closing(now) + Span

\* A grid is held for an absolute slot.
AirInEntries(g, a) ==
  \E i \in Indices, s \in Symbols : entries[i][s].grid = g /\ entries[i][s].air = a

AirInQueue(g, a) ==
  \E k \in 1 .. Len(queue) : queue[k].grid = g /\ queue[k].air = a

AirInTasks(g, a) ==
  \/ rx.task.grid = g /\ rx.task.air = a
  \/ timing.task.grid = g /\ timing.task.air = a

AirOnRadio(g, a) ==
  \E r \in radio : r.grid = g /\ r.air = a

AirInRx(g, a) ==
  rx.pc = "add" /\ rx.grid = g /\ rx.message.air = a

HeldForAir(g, a) ==
  AirInEntries(g, a) \/ AirInQueue(g, a) \/ AirInTasks(g, a) \/ AirOnRadio(g, a) \/ AirInRx(g, a)

\* A grid is held for one absolute slot, and holds data of that slot only.
DataInv ==
  \A g \in Grids, a \in Nat : HeldForAir(g, a) =>
    /\ \A b \in Nat : HeldForAir(g, b) => a = b
    /\ \A m \in content[g] : m.air = a

\* The slot completed last is over or on its way, and none later was pushed.
PushedInv ==
  /\ PushedOnceInOrder
  /\ lastPushed = NoSlot => pushed = << >>
  /\ lastPushed # NoSlot =>
       \E a \in Nat : /\ lastPushed = a % Period
                      /\ FirstSymbol(a) =< Closing(now)
                      /\ \A k \in 1 .. Len(pushed) : pushed[k] =< a

LEMMA ClosingStep ==
  /\ \A n \in Nat : Closing(n) \in Int /\ Closing(n + 1) = Closing(n) + 1
  /\ \A a \in Nat : FirstSymbol(a) \in Int
  /\ Span \in Int
  /\ NofSymbols \in Nat \ {0}
<1>1. FinalizeOffset \in Int /\ NofSymbols \in Nat \ {0} /\ RepoSize - 1 \in Int
  BY DownlinkAssumption, SlotAssumption
<1>2. \A n \in Nat : Closing(n) \in Int /\ Closing(n + 1) = Closing(n) + 1
  BY <1>1 DEF Closing
<1>3. \A a \in Nat : FirstSymbol(a) \in Int
  BY <1>1 DEF FirstSymbol
<1>4. Span \in Int
  BY <1>1 DEF Span
<1>. QED  BY <1>1, <1>2, <1>3, <1>4

\* The numbers of a state.
LEMMA TimelyNumbers ==
  ASSUME TypeOK
  PROVE  /\ now \in Nat /\ rx.since \in Nat
         /\ rx.message.air \in Nat /\ rx.message.first \in Symbols
         /\ Closing(now) \in Int /\ Closing(rx.since) \in Int
         /\ FirstSymbol(rx.message.air) \in Int
         /\ \A k \in 1 .. Len(queue) : queue[k] \in Tasks
         /\ \A t \in Tasks : t.air \in Nat /\ FirstSymbol(t.air) \in Int
<1>1. now \in Nat /\ rx.since \in Nat /\ rx.message \in Messages /\ queue \in Seq(Tasks)
  BY DEF TypeOK
<1>2. rx.message.air \in Nat /\ rx.message.first \in Symbols
  BY <1>1 DEF Messages
<1>3. \A k \in 1 .. Len(queue) : queue[k] \in Tasks
  BY <1>1, ElementOfSeq
<1>4. \A t \in Tasks : t.air \in Nat
  BY DEF Tasks
<1>. QED  BY <1>1, <1>2, <1>3, <1>4, ClosingStep

LEMMA TimelyLeads ==
  ASSUME Timely
  PROVE  /\ ~SkipsTicks /\ ~StallsRx
         /\ CplaneLeads \subseteq 4 .. Span
         /\ UplaneLeads \subseteq 2 .. (Span + NofSymbols - 1)
<1>1. NofSymbols \in Nat \ {0} /\ RepoSize \in Nat \ {0}
  BY DownlinkAssumption, SlotAssumption
<1>2. RepoSize * NofSymbols - 1 = Span + NofSymbols - 1
  BY <1>1 DEF Span
<1>. QED  BY <1>2 DEF Timely, Span

\* The next symbol is notified once the receive thread has taken up nothing
\* older than this one.
LEMMA NextSymbol ==
  ASSUME Timely, TypeOK, OnNewSymbol
  PROVE  /\ now' = now + 1 /\ Closing(now') = Closing(now) + 1
         /\ timing.pc = "idle" /\ timing'.pc = "drain" /\ timing'.task = timing.task
         /\ rx.pc = "idle" \/ rx.since = now
         /\ UNCHANGED <<entries, queue, counter, content, rx, offset, lastPushed, radio, pushed,
                        due, commands>>
<1>1. ~SkipsTicks /\ ~StallsRx
  BY TimelyLeads
<1>2. now' = now + 1 /\ timing' = [timing EXCEPT !.pc = "drain"]
  BY <1>1 DEF OnNewSymbol
<1>3. Closing(now + 1) = Closing(now) + 1
  BY ClosingStep DEF TypeOK
<1>4. timing'.pc = "drain" /\ timing'.task = timing.task
  BY <1>2 DEF TypeOK
<1>. QED  BY <1>1, <1>2, <1>3, <1>4 DEF OnNewSymbol

\* The receive thread is done with a message.
LEMMA RxIdle ==
  ASSUME rx' = Idle
  PROVE  RxTimely'
<1>1. rx'.pc = "idle" /\ rx'.task = NoTask
  BY DEF Idle
<1>. QED  BY <1>1 DEF RxTimely

LEMMA RxTimelyInductive ==
  ASSUME Timely, TypeOK, HandsInv, RxTimely, QueueTimely, [Next]_vars
  PROVE  RxTimely'
<1>0. /\ now \in Nat /\ rx.since \in Nat
      /\ Closing(now) \in Int /\ Closing(rx.since) \in Int /\ Span \in Int
      /\ FirstSymbol(rx.message.air) \in Int
  BY TimelyNumbers, ClosingStep
<1>1. CASE CplaneArrives
  <2>1. PICK slot \in 0 .. MaxSlot, range \in Ranges :
          /\ slot * NofSymbols - Closing(now) \in CplaneLeads
          /\ rx' = [Idle EXCEPT !.since = now, !.pc = "drain",
                      !.message = [air |-> slot, first |-> range[1], stop |-> range[2]]]
          /\ now' = now
    BY <1>1 DEF CplaneArrives
  <2>2. rx'.pc = "drain" /\ rx'.since = now /\ rx'.task = NoTask /\ rx'.message.air = slot
    BY <2>1 DEF Idle
  <2>3. slot \in Nat /\ FirstSymbol(slot) \in Int
    BY ClosingStep, DownlinkAssumption
  <2>4. FirstSymbol(slot) - Closing(now) \in 4 .. Span
    BY <2>1, TimelyLeads DEF FirstSymbol
  <2>5. FirstSymbol(slot) \in (Closing(now) + 4) .. (Closing(now) + Span)
    BY <1>0, <2>3, <2>4
  <2>. QED  BY <2>1, <2>2, <2>5 DEF RxTimely
<1>2. CASE RxDrain
  <2>0. rx.pc = "drain" /\ now' = now
    BY <1>2 DEF RxDrain
  <2>1. CASE queue = << >>
    <3>1. rx'.pc = "find" /\ rx'.task = rx.task /\ rx'.message = rx.message /\ rx'.since = rx.since
      BY <1>2, <2>1 DEF RxDrain, TypeOK
    <3>. QED  BY <2>0, <3>1 DEF RxTimely
  <2>2. CASE queue # << >>
    <3>1. rx'.pc = "run" /\ rx'.task = Head(queue) /\ rx'.message = rx.message /\ rx'.since = rx.since
      BY <1>2, <2>2 DEF RxDrain, TypeOK
    <3>2. Head(queue) = queue[1] /\ 1 \in 1 .. Len(queue) /\ Head(queue) \in Tasks
      BY <2>2, PoppedQueue DEF TypeOK
    <3>3. FirstSymbol(Head(queue).air) \in (Closing(now) + 2) .. (Closing(now) + Span)
      <4>1. FirstSymbol(Head(queue).air) \in (Closing(now) + QueueLead) .. (Closing(now) + Span)
        BY <3>2 DEF QueueTimely
      <4>2. FirstSymbol(Head(queue).air) \in Int
        BY <3>2, TimelyNumbers
      <4>. QED  BY <1>0, <4>1, <4>2 DEF QueueLead
    <3>4. Closing(now) >= Closing(rx.since)
      BY <1>0, <2>0, ClosingStep DEF RxTimely
    <3>5. FirstSymbol(Head(queue).air) \in (Closing(rx.since) + 2) .. (Closing(now) + Span)
      BY <1>0, <3>3, <3>4
    <3>. QED  BY <2>0, <3>1, <3>5 DEF RxTimely
  <2>. QED  BY <2>1, <2>2
<1>3. CASE RxRun
  <2>1. /\ rx.pc = "run" /\ rx'.pc = "drain" /\ rx'.task = NoTask
        /\ rx'.message = rx.message /\ rx'.since = rx.since /\ now' = now
    BY <1>3 DEF RxRun, TypeOK
  <2>. QED  BY <2>1 DEF RxTimely
<1>4. CASE RxFindGrid
  <2>1. CASE rx' = Idle
    BY <2>1, RxIdle
  <2>2. CASE rx' # Idle
    <3>1. /\ rx.pc = "find" /\ rx'.pc = "add" /\ rx'.task = rx.task
          /\ rx'.message = rx.message /\ rx'.since = rx.since /\ now' = now
      BY <1>4, <2>2 DEF RxFindGrid, TypeOK
    <3>. QED  BY <3>1 DEF RxTimely
  <2>. QED  BY <2>1, <2>2
<1>5. CASE RxAdd
  BY <1>5, RxIdle DEF RxAdd
<1>6. CASE UplaneArrives
  <2>1. PICK slot \in 0 .. (MaxSlot + RepoSize), symbol \in Symbols :
          /\ slot * NofSymbols + symbol - Closing(now) \in UplaneLeads
          /\ \/ rx' = rx
             \/ \E g : rx' = [Idle EXCEPT !.since = now, !.pc = "write", !.grid = g,
                          !.message = [air |-> slot, first |-> symbol, stop |-> symbol + 1]]
          /\ now' = now
    BY <1>6 DEF UplaneArrives
  <2>2. CASE rx' = rx
    BY <2>1, <2>2 DEF RxTimely
  <2>3. CASE rx' # rx
    <3>1. PICK g : rx' = [Idle EXCEPT !.since = now, !.pc = "write", !.grid = g,
                          !.message = [air |-> slot, first |-> symbol, stop |-> symbol + 1]]
      BY <2>1, <2>3
    <3>2. /\ rx'.pc = "write" /\ rx'.since = now /\ rx'.task = NoTask
          /\ rx'.message.air = slot /\ rx'.message.first = symbol
      BY <3>1 DEF Idle
    <3>3. slot \in Nat /\ FirstSymbol(slot) \in Int /\ symbol \in Int /\ NofSymbols \in Int
      BY ClosingStep, DownlinkAssumption, SlotAssumption DEF Symbols
    <3>4. FirstSymbol(slot) + symbol - Closing(now) \in 2 .. (Span + NofSymbols - 1)
      BY <2>1, TimelyLeads DEF FirstSymbol
    <3>5. FirstSymbol(slot) + symbol \in (Closing(now) + 2) .. (Closing(now) + Span + NofSymbols - 1)
      BY <1>0, <3>3, <3>4
    <3>. QED  BY <2>1, <3>2, <3>5 DEF RxTimely
  <2>. QED  BY <2>2, <2>3
<1>7. CASE UplaneWrite
  <2>1. rx' = Idle
    BY <1>7, ZenonT(30) DEF UplaneWrite
  <2>. QED  BY <2>1, RxIdle
<1>8. CASE OnNewSymbol
  <2>1. rx' = rx /\ now' = now + 1 /\ (rx.pc = "idle" \/ rx.since = now) /\ Closing(now') = Closing(now) + 1
    BY <1>8, NextSymbol
  <2>2. rx.pc = "run" => rx.task \in Tasks /\ FirstSymbol(rx.task.air) \in Int
    BY TimelyNumbers DEF HandsInv
  <2>3. rx.pc = "run" => FirstSymbol(rx.task.air) \in (Closing(rx.since) + 2) .. (Closing(now') + Span)
    BY <1>0, <2>1, <2>2 DEF RxTimely
  <2>. QED  BY <2>1, <2>3 DEF RxTimely
<1>9. CASE UNCHANGED <<rx, now>>
  BY <1>9 DEF RxTimely
<1>. QED
  BY <1>1, <1>2, <1>3, <1>4, <1>5, <1>6, <1>7, <1>8, <1>9
  DEF Next, RxStep, TimingStep, vars, TimingDrain, TimingRun, CloseSymbol, OffsetMeasured, RadioDone

\* What the receive thread is about to register is three symbols ahead, or more.
LEMMA MessageAhead ==
  ASSUME TypeOK, RxTimely, rx.pc \in {"drain", "run", "find", "add"}
  PROVE  FirstSymbol(rx.message.air) \in (Closing(now) + 3) .. (Closing(now) + Span)
<1>1. /\ now \in Nat /\ rx.since \in Nat
      /\ Closing(now) \in Int /\ Closing(rx.since) \in Int /\ Span \in Int
      /\ FirstSymbol(rx.message.air) \in Int
  BY TimelyNumbers, ClosingStep
<1>2. FirstSymbol(rx.message.air) \in (Closing(rx.since) + 4) .. (Closing(rx.since) + Span)
  BY DEF RxTimely
<1>3. Closing(now) = Closing(rx.since) \/ Closing(now) = Closing(rx.since) + 1
  BY <1>1, ClosingStep DEF RxTimely
<1>. QED  BY <1>1, <1>2, <1>3

\* The queue after a registration was taken from it.
LEMMA PoppedTimely ==
  ASSUME TypeOK, QueueTimely, queue # << >>, queue' = Tail(queue), now' = now,
         QueueLead' = QueueLead
  PROVE  /\ \A k \in 1 .. Len(queue') :
              FirstSymbol(queue'[k].air) \in (Closing(now) + QueueLead) .. (Closing(now) + Span)
         /\ FirstSymbol(Head(queue).air) \in (Closing(now) + 2) .. (Closing(now) + Span)
<1>1. /\ Closing(now) \in Int /\ Span \in Int
      /\ \A k \in 1 .. Len(queue) : queue[k] \in Tasks /\ FirstSymbol(queue[k].air) \in Int
  BY TimelyNumbers, ClosingStep
<1>2. /\ Head(queue) = queue[1] /\ 1 \in 1 .. Len(queue)
      /\ \A k \in 1 .. Len(queue') : queue'[k] = queue[k + 1] /\ k + 1 \in 1 .. Len(queue)
  BY PoppedQueue DEF TypeOK
<1>3. \A k \in 1 .. Len(queue') :
        FirstSymbol(queue'[k].air) \in (Closing(now) + QueueLead) .. (Closing(now) + Span)
  BY <1>2 DEF QueueTimely
<1>4. FirstSymbol(queue[1].air) \in (Closing(now) + QueueLead) .. (Closing(now) + Span)
  BY <1>2 DEF QueueTimely
<1>5. FirstSymbol(queue[1].air) \in (Closing(now) + 2) .. (Closing(now) + Span)
  BY <1>1, <1>2, <1>4 DEF QueueLead
<1>. QED  BY <1>2, <1>3, <1>5

LEMMA QueueTimelyInductive ==
  ASSUME Timely, TypeOK, HandsInv, RxTimely, QueueTimely, [Next]_vars
  PROVE  QueueTimely'
<1>0. /\ Closing(now) \in Int /\ Span \in Int
      /\ \A k \in 1 .. Len(queue) : queue[k] \in Tasks /\ FirstSymbol(queue[k].air) \in Int
  BY TimelyNumbers, ClosingStep
<1>1. CASE RxDrain
  <2>1. timing' = timing /\ now' = now /\ QueueLead' = QueueLead
    BY <1>1 DEF RxDrain, QueueLead
  <2>2. CASE queue' = queue
    BY <2>1, <2>2 DEF QueueTimely
  <2>3. CASE queue' # queue
    <3>1. queue # << >> /\ queue' = Tail(queue)
      BY <1>1, <2>3 DEF RxDrain
    <3>2. \A k \in 1 .. Len(queue') :
            FirstSymbol(queue'[k].air) \in (Closing(now) + QueueLead) .. (Closing(now) + Span)
      BY <2>1, <3>1, PoppedTimely
    <3>. QED  BY <2>1, <3>2 DEF QueueTimely
  <2>. QED  BY <2>2, <2>3
<1>2. CASE RxAdd
  <2> DEFINE task == [slot |-> rx.message.air % Period, grid |-> rx.grid, air |-> rx.message.air,
                      first |-> rx.message.first, stop |-> rx.message.stop]
  <2>1. /\ rx.pc = "add" /\ timing' = timing /\ now' = now /\ QueueLead' = QueueLead
        /\ queue' = queue \/ queue' = Append(queue, task)
    BY <1>2 DEF RxAdd, QueueLead
  <2>2. task \in Tasks /\ task.air = rx.message.air
    BY <1>2, SlotTypes DEF RxAdd, HandsInv, TypeOK, Tasks, Messages
  <2> HIDE DEF task
  <2>3. FirstSymbol(task.air) \in (Closing(now) + QueueLead) .. (Closing(now) + Span)
    <3>1. FirstSymbol(task.air) \in (Closing(now) + 3) .. (Closing(now) + Span)
      BY <2>1, <2>2, MessageAhead
    <3>2. FirstSymbol(task.air) \in Int
      BY <2>2, TimelyNumbers
    <3>. QED  BY <1>0, <3>1, <3>2 DEF QueueLead
  <2>4. ASSUME NEW k \in 1 .. Len(queue')
        PROVE  FirstSymbol(queue'[k].air) \in (Closing(now) + QueueLead) .. (Closing(now) + Span)
    <3>1. queue \in Seq(Tasks)
      BY DEF TypeOK
    <3>2. queue'[k] = task \/ (k \in 1 .. Len(queue) /\ queue'[k] = queue[k])
      BY <2>1, <2>2, <3>1, AppendProperties
    <3>. QED  BY <2>3, <3>2 DEF QueueTimely
  <2>. QED  BY <2>1, <2>4 DEF QueueTimely
<1>3. CASE OnNewSymbol
  <2>1. /\ timing.pc = "idle" /\ timing'.pc = "drain" /\ timing'.task = timing.task
        /\ queue' = queue /\ Closing(now') = Closing(now) + 1
    BY <1>3, NextSymbol
  <2>2. QueueLead = 3 /\ QueueLead' = 2
    BY <2>1 DEF QueueLead
  <2>3. ASSUME NEW k \in 1 .. Len(queue)
        PROVE  FirstSymbol(queue[k].air) \in (Closing(now') + 2) .. (Closing(now') + Span)
    <3>1. FirstSymbol(queue[k].air) \in (Closing(now) + 3) .. (Closing(now) + Span)
      BY <2>2 DEF QueueTimely
    <3>. QED  BY <1>0, <2>1, <3>1
  <2>. QED  BY <2>1, <2>2, <2>3 DEF QueueTimely
<1>4. CASE TimingDrain
  <2>1. timing.pc = "drain" /\ now' = now
    BY <1>4 DEF TimingDrain
  <2>2. CASE queue = << >>
    <3>1. timing'.pc = "close" /\ timing'.task = timing.task /\ Len(queue') = 0
      BY <1>4, <2>2 DEF TimingDrain, TypeOK
    <3>. QED  BY <2>1, <3>1 DEF QueueTimely
  <2>3. CASE queue # << >>
    <3>1. timing'.pc = "run" /\ timing'.task = Head(queue) /\ queue' = Tail(queue)
      BY <1>4, <2>3 DEF TimingDrain
    <3>2. QueueLead' = QueueLead
      BY <2>1, <3>1 DEF QueueLead
    <3>3. /\ \A k \in 1 .. Len(queue') :
               FirstSymbol(queue'[k].air) \in (Closing(now) + QueueLead) .. (Closing(now) + Span)
          /\ FirstSymbol(Head(queue).air) \in (Closing(now) + 2) .. (Closing(now) + Span)
      BY <2>1, <2>3, <3>1, <3>2, PoppedTimely
    <3>. QED  BY <2>1, <3>1, <3>2, <3>3 DEF QueueTimely
  <2>. QED  BY <2>2, <2>3
<1>5. CASE TimingRun
  <2>1. /\ timing.pc = "run" /\ timing'.pc = "drain" /\ timing'.task = NoTask
        /\ queue' = queue /\ now' = now
    BY <1>5 DEF TimingRun
  <2>2. QueueLead' = QueueLead
    BY <2>1 DEF QueueLead
  <2>. QED  BY <2>1, <2>2 DEF QueueTimely
<1>6. CASE CloseSymbol
  <2>1. /\ timing.pc = "close" /\ timing'.pc = "idle" /\ timing'.task = timing.task
        /\ queue' = queue /\ now' = now
    BY <1>6 DEF CloseSymbol, TypeOK
  <2>2. QueueLead' = QueueLead
    BY <2>1 DEF QueueLead
  <2>. QED  BY <2>1, <2>2 DEF QueueTimely
<1>7. CASE UNCHANGED <<queue, timing, now>>
  <2>1. QueueLead' = QueueLead
    BY <1>7 DEF QueueLead
  <2>. QED  BY <1>7, <2>1 DEF QueueTimely
<1>8. Next => \/ RxDrain \/ RxAdd \/ OnNewSymbol \/ TimingDrain \/ TimingRun \/ CloseSymbol
              \/ UNCHANGED <<queue, timing, now>>
  BY ZenonT(30)
  DEF Next, RxStep, TimingStep, CplaneArrives, UplaneArrives, RxRun, RxFindGrid,
      UplaneWrite, OffsetMeasured, RadioDone
<1>. QED
  BY <1>1, <1>2, <1>3, <1>4, <1>5, <1>6, <1>7, <1>8 DEF vars
-----------------------------------------------------------------------------
\* Wire and radio numbers of a slot lead to the same index.
LEMMA IndexOfSlot ==
  /\ \A a \in Int : RepositoryIndex(a % Period) = a % RepoSize
  /\ \A a \in Int : RepositoryIndex(a % RadioPeriod) = a % RepoSize
<1>1. /\ Period \in Nat \ {0} /\ RepoSize \in Nat \ {0} /\ RadioPeriod \in Nat \ {0}
      /\ RadioPeriod % Period = 0 /\ Period % RepoSize = 0
  BY SlotAssumption
<1>2. ASSUME NEW a \in Int PROVE (a % Period) % RepoSize = a % RepoSize
  BY <1>1, ModMod
<1>3. ASSUME NEW a \in Int PROVE (a % RadioPeriod) % Period = a % Period
  BY <1>1, ModMod
<1>4. ASSUME NEW a \in Int PROVE (a % Period) % Period = a % Period
  BY <1>1
<1>. QED  BY <1>2, <1>3, <1>4 DEF RepositoryIndex

\* Slots less than a turn of the repository apart are told apart by their index.
LEMMA SameSlot ==
  ASSUME NEW a \in Nat, NEW b \in Nat, a % RepoSize = b % RepoSize,
         FirstSymbol(a) < FirstSymbol(b) + Span + NofSymbols,
         FirstSymbol(b) < FirstSymbol(a) + Span + NofSymbols
  PROVE  a = b
<1> DEFINE N == NofSymbols
           R == RepoSize
<1>1. N \in Nat \ {0} /\ R \in Nat \ {0}
  BY DownlinkAssumption, SlotAssumption
<1>2. Span + N = R * N
  BY <1>1 DEF Span
<1>3. (a - b) * N < R * N /\ (b - a) * N < R * N
  <2>1. a * N \in Int /\ b * N \in Int /\ R * N \in Int /\ Span \in Int
    BY <1>1, ClosingStep
  <2>2. a * N < b * N + R * N /\ b * N < a * N + R * N
    BY <1>1, <1>2, <2>1 DEF FirstSymbol
  <2>3. (a - b) * N = a * N - b * N /\ (b - a) * N = b * N - a * N
    BY <1>1
  <2>. QED  BY <2>1, <2>2, <2>3
<1> HIDE DEF N, R
<1>4. \A x \in Int : x * N < R * N => x < R
  <2>1. SUFFICES ASSUME NEW x \in Int, x >= R PROVE x * N >= R * N
    BY <1>1
  <2>. QED  BY <1>1, <2>1
<1>5. a - b < R /\ b - a < R
  BY <1>3, <1>4
<1>6. a - b > -R
  BY <1>1, <1>5
<1>7. a % R = b % R /\ a \in Int /\ b \in Int
  BY DEF R
<1>. QED  BY <1>1, <1>5, <1>6, <1>7, ModInjective

\* The place that a symbol closes.
ClosingIndex == RepositoryIndex((Closing(now) \div NofSymbols) % RadioPeriod)

ClosingSymbol == Closing(now) % NofSymbols

LEMMA ClosingPlace ==
  ASSUME now \in Nat, NEW a \in Nat, NEW s \in Symbols
  PROVE  /\ ClosingIndex \in Indices /\ ClosingSymbol \in Symbols
         /\ FirstSymbol(a) + s = Closing(now) =>
              a % RepoSize = ClosingIndex /\ s = ClosingSymbol
         /\ a % RepoSize = ClosingIndex /\ s = ClosingSymbol
              /\ FirstSymbol(a) + s >= Closing(now) /\ FirstSymbol(a) =< Closing(now) + Span
              => FirstSymbol(a) + s = Closing(now)
<1> DEFINE N == NofSymbols
           C == Closing(now)
           q == C \div N
           r == C % N
<1>1. N \in Nat \ {0} /\ C \in Int /\ s \in 0 .. (N - 1) /\ RepoSize \in Nat \ {0}
  BY DownlinkAssumption, SlotAssumption, ClosingStep DEF Symbols
<1>2. C = N * q + r /\ q \in Int /\ r \in 0 .. (N - 1)
  BY <1>1, DivMod
<1>3. ClosingIndex = q % RepoSize /\ ClosingSymbol = r
  BY <1>2, IndexOfSlot DEF ClosingIndex, ClosingSymbol
<1>4. ClosingIndex \in Indices /\ ClosingSymbol \in Symbols
  BY ClosingTypes DEF ClosingIndex, ClosingSymbol
<1>5. FirstSymbol(a) = N * a
  BY <1>1 DEF FirstSymbol
<1>6. ASSUME FirstSymbol(a) + s = C PROVE q = a /\ r = s
  <2>1. C = N * a + s
    BY <1>5, <1>6
  <2> HIDE DEF N, C
  <2>. QED  BY <1>1, <2>1, DivModUnique
<1>7. ASSUME a % RepoSize = q % RepoSize, s = r, FirstSymbol(a) + s >= C,
             FirstSymbol(a) =< C + Span
      PROVE  FirstSymbol(a) + s = C
  <2>1. N * a >= N * q /\ N * a =< N * q + (N - 1) + Span
    <3>1. N * a \in Int /\ N * q \in Int /\ Span \in Int /\ r \in Int /\ N \in Int
      BY <1>1, <1>2, ClosingStep
    <3>2. N * a + r >= N * q + r /\ N * a =< N * q + r + Span /\ r =< N - 1
      BY <1>1, <1>2, <1>5, <1>7
    <3> HIDE DEF N, C, q, r
    <3>. QED  BY <3>1, <3>2
  <2>2. Span + N = N * RepoSize
    BY <1>1 DEF Span
  <2>3. N * a < N * q + N * RepoSize
    BY <1>1, <1>2, <2>1, <2>2, ClosingStep
  <2>4. a - q >= 0 /\ a - q < RepoSize
    <3> HIDE DEF N, C, q, r
    <3>1. a < q => N * a < N * q
      BY <1>1, <1>2
    <3>2. a >= q + RepoSize => N * a >= N * (q + RepoSize)
      BY <1>1, <1>2
    <3>3. N * (q + RepoSize) = N * q + N * RepoSize
      BY <1>1, <1>2
    <3>4. N * a \in Int /\ N * q \in Int /\ N * RepoSize \in Int
      BY <1>1, <1>2
    <3>. QED  BY <1>1, <1>2, <2>1, <2>3, <3>1, <3>2, <3>3, <3>4
  <2>5. a = q
    <3> HIDE DEF N, C, q, r
    <3>1. a - q > -RepoSize
      BY <1>1, <1>2, <2>4
    <3>2. a \in Int /\ q \in Int /\ RepoSize \in Nat \ {0} /\ a % RepoSize = q % RepoSize
      BY <1>1, <1>2, <1>7
    <3>. QED  BY <2>4, <3>1, <3>2, ModInjective
  <2>. QED  BY <1>2, <1>5, <1>7, <2>5
<1>. QED  BY <1>3, <1>4, <1>6, <1>7

LEMMA ContextNumbers ==
  /\ \A c \in Contexts : c.air \in Nat /\ c.slot \in WireSlots /\ c.grid \in Grids /\ FirstSymbol(c.air) \in Int
  /\ \A s \in Symbols : s \in Int /\ s >= 0 /\ s =< NofSymbols - 1
<1>1. \A c \in Contexts : c.air \in Nat /\ c.slot \in WireSlots /\ c.grid \in Grids
  BY DEF Contexts
<1>. QED  BY <1>1, ClosingStep DEF Symbols

\* Symbols that the notified one leaves to be closed.
ClosedUpTo == Closing(now) + (IF timing.pc = "idle" THEN 1 ELSE 0)

\* A registration that is ahead of the symbol being closed leaves the contexts
\* timely.
LEMMA RegisterTimely ==
  ASSUME TypeOK, KeyedInv, EntriesTimely, NEW task \in Tasks, task.slot = task.air % Period,
         FirstSymbol(task.air) \in (Closing(now) + 1) .. (Closing(now) + Span),
         entries' = Register(entries, task), now' = now,
         timing'.pc = "idle" <=> timing.pc = "idle"
  PROVE  EntriesTimely'
<1> SUFFICES ASSUME NEW i \in Indices, NEW s \in Symbols, entries'[i][s] \in Contexts
             PROVE  /\ i = RepositoryIndex(entries'[i][s].slot)
                    /\ FirstSymbol(entries'[i][s].air) + s >= ClosedUpTo
                    /\ FirstSymbol(entries'[i][s].air) =< Closing(now) + Span
  BY DEF EntriesTimely, ClosedUpTo
<1>1. CASE entries'[i][s] = entries[i][s]
  BY <1>1 DEF EntriesTimely, ClosedUpTo
<1>2. CASE entries'[i][s] # entries[i][s]
  <2>1. /\ i = RepositoryIndex(task.slot)
        /\ \E g : entries'[i][s] = [slot |-> task.slot, grid |-> g, air |-> task.air]
    BY <1>2, RegisteredContext
  <2>2. entries'[i][s].slot = task.slot /\ entries'[i][s].air = task.air
    BY <2>1
  <2>3. FirstSymbol(task.air) + s >= ClosedUpTo
    <3>1. FirstSymbol(task.air) \in Int /\ s \in Int /\ s >= 0 /\ Closing(now) \in Int /\ Span \in Int
      BY TimelyNumbers, ContextNumbers, ClosingStep
    <3>. QED  BY <3>1 DEF ClosedUpTo
  <2>4. FirstSymbol(task.air) =< Closing(now) + Span
    BY TimelyNumbers, ClosingStep
  <2>. QED  BY <2>1, <2>2, <2>3, <2>4
<1>. QED  BY <1>1, <1>2

\* A registration in a thread's hands is ahead of the symbol being closed.
LEMMA TasksAhead ==
  ASSUME TypeOK, HandsInv, KeyedInv, RxTimely, QueueTimely
  PROVE  /\ rx.pc = "run" =>
              /\ rx.task \in Tasks /\ rx.task.slot = rx.task.air % Period
              /\ FirstSymbol(rx.task.air) \in (Closing(now) + 1) .. (Closing(now) + Span)
         /\ timing.pc = "run" =>
              /\ timing.task \in Tasks /\ timing.task.slot = timing.task.air % Period
              /\ FirstSymbol(timing.task.air) \in (Closing(now) + 1) .. (Closing(now) + Span)
<1>0. /\ now \in Nat /\ rx.since \in Nat
      /\ Closing(now) \in Int /\ Closing(rx.since) \in Int /\ Span \in Int
      /\ \A t \in Tasks : FirstSymbol(t.air) \in Int
  BY TimelyNumbers, ClosingStep
<1>1. ASSUME rx.pc = "run"
      PROVE  FirstSymbol(rx.task.air) \in (Closing(now) + 1) .. (Closing(now) + Span)
  <2>1. FirstSymbol(rx.task.air) \in (Closing(rx.since) + 2) .. (Closing(now) + Span)
    BY <1>1 DEF RxTimely
  <2>2. Closing(now) = Closing(rx.since) \/ Closing(now) = Closing(rx.since) + 1
    BY <1>0, <1>1, ClosingStep DEF RxTimely
  <2>3. FirstSymbol(rx.task.air) \in Int
    BY <1>0, <1>1 DEF HandsInv
  <2>. QED  BY <1>0, <2>1, <2>2, <2>3
<1>2. ASSUME timing.pc = "run"
      PROVE  FirstSymbol(timing.task.air) \in (Closing(now) + 1) .. (Closing(now) + Span)
  <2>1. FirstSymbol(timing.task.air) \in (Closing(now) + 2) .. (Closing(now) + Span)
    BY <1>2 DEF QueueTimely
  <2>2. FirstSymbol(timing.task.air) \in Int
    BY <1>0, <1>2 DEF HandsInv
  <2>. QED  BY <1>0, <2>1, <2>2
<1>. QED  BY <1>1, <1>2 DEF HandsInv, KeyedInv

LEMMA EntriesTimelyInductive ==
  ASSUME Timely, TypeOK, HandsInv, KeyedInv, RxTimely, QueueTimely, EntriesTimely, [Next]_vars
  PROVE  EntriesTimely'
<1>0. now \in Nat /\ Closing(now) \in Int /\ Span \in Int
  BY TimelyNumbers, ClosingStep
<1>1. CASE RxRun
  BY <1>1, TasksAhead, RegisterTimely DEF RxRun
<1>2. CASE TimingRun
  <2>1. timing.pc = "run" /\ timing'.pc = "drain" /\ now' = now /\ entries' = Register(entries, timing.task)
    BY <1>2 DEF TimingRun
  <2>. QED  BY <2>1, TasksAhead, RegisterTimely
<1>3. CASE OnNewSymbol
  <2>1. entries' = entries /\ Closing(now') = Closing(now) + 1 /\ timing.pc = "idle" /\ timing'.pc = "drain"
    BY <1>3, NextSymbol
  <2> SUFFICES ASSUME NEW i \in Indices, NEW s \in Symbols, entries[i][s] \in Contexts
               PROVE  /\ i = RepositoryIndex(entries[i][s].slot)
                      /\ FirstSymbol(entries[i][s].air) + s >= Closing(now) + 1 + 0
                      /\ FirstSymbol(entries[i][s].air) =< Closing(now) + 1 + Span
    BY <2>1 DEF EntriesTimely
  <2>2. FirstSymbol(entries[i][s].air) \in Int /\ s \in Int
    BY ContextNumbers
  <2>3. /\ i = RepositoryIndex(entries[i][s].slot)
        /\ FirstSymbol(entries[i][s].air) + s >= Closing(now) + 1
        /\ FirstSymbol(entries[i][s].air) =< Closing(now) + Span
    BY <2>1 DEF EntriesTimely
  <2>. QED  BY <1>0, <2>2, <2>3
<1>4. CASE TimingDrain
  <2>1. entries' = entries /\ now' = now /\ timing.pc # "idle" /\ timing'.pc # "idle"
    BY <1>4 DEF TimingDrain, TypeOK
  <2>. QED  BY <2>1 DEF EntriesTimely
<1>5. CASE CloseSymbol
  <2>1. now' = now /\ timing.pc = "close" /\ timing'.pc = "idle"
    BY <1>5 DEF CloseSymbol, TypeOK
  <2> SUFFICES ASSUME NEW i \in Indices, NEW s \in Symbols, entries'[i][s] \in Contexts
               PROVE  /\ i = RepositoryIndex(entries'[i][s].slot)
                      /\ FirstSymbol(entries'[i][s].air) + s >= Closing(now) + 1
                      /\ FirstSymbol(entries'[i][s].air) =< Closing(now) + Span
    BY <2>1 DEF EntriesTimely
  <2>2. entries'[i][s] = entries[i][s]
    BY <1>5, ClosedContext, EmptyIsNoGrid
  <2> DEFINE a == entries[i][s].air
  <2>3. a \in Nat /\ FirstSymbol(a) \in Int /\ s \in Int
    BY <2>2, ContextNumbers
  <2>4. /\ i = RepositoryIndex(entries[i][s].slot)
        /\ FirstSymbol(a) + s >= Closing(now)
        /\ FirstSymbol(a) =< Closing(now) + Span
    <3>1. FirstSymbol(a) + s >= Closing(now) + 0
      BY <2>1, <2>2 DEF EntriesTimely
    <3>. QED  BY <1>0, <2>2, <2>3, <3>1 DEF EntriesTimely
  \* Had it been for the symbol being closed, it would have been popped.
  <2>5. FirstSymbol(a) + s # Closing(now)
    <3>1. SUFFICES ASSUME FirstSymbol(a) + s = Closing(now) PROVE FALSE
      OBVIOUS
    <3>2. a % RepoSize = ClosingIndex /\ s = ClosingSymbol
      <4> HIDE DEF a
      <4>. QED  BY <1>0, <2>3, <3>1, ClosingPlace
    <3>3. i = a % RepoSize
      <4>1. entries[i][s].slot = a % Period
        BY <2>2 DEF KeyedInv
      <4>. QED  BY <2>3, <2>4, <4>1, IndexOfSlot
    <3>4. ~IsEmpty(entries[i][s])
      BY <2>2, EmptyIsNoGrid DEF IsEmpty
    <3>5. entries' = Popped(i, s)
      BY <1>5, <3>2, <3>3, <3>4 DEF CloseSymbol, ClosingIndex, ClosingSymbol
    <3>6. entries'[i][s] = Empty
      BY <3>5 DEF Popped, TypeOK
    <3>. QED  BY <3>6, EmptyIsNoGrid
  <2> HIDE DEF a
  <2>6. FirstSymbol(a) + s >= Closing(now) + 1
    BY <1>0, <2>3, <2>4, <2>5
  <2>. QED  BY <2>2, <2>4, <2>6 DEF a
<1>6. CASE UNCHANGED <<entries, timing, now>>
  BY <1>6 DEF EntriesTimely
<1>7. Next => \/ RxRun \/ TimingRun \/ OnNewSymbol \/ TimingDrain \/ CloseSymbol
              \/ UNCHANGED <<entries, timing, now>>
  BY ZenonT(30)
  DEF Next, RxStep, TimingStep, CplaneArrives, UplaneArrives, RxDrain, RxFindGrid, RxAdd,
      UplaneWrite, OffsetMeasured, RadioDone
<1>. QED
  BY <1>1, <1>2, <1>3, <1>4, <1>5, <1>6, <1>7 DEF vars

TimelyInv ==
  TypeOK /\ HandsInv /\ KeyedInv /\ RxTimely /\ QueueTimely /\ EntriesTimely

LEMMA SpecTimely ==
  ASSUME Timely
  PROVE  Spec => []TimelyInv
<1>1. Init => RxTimely /\ QueueTimely /\ EntriesTimely
  <2> SUFFICES ASSUME Init PROVE RxTimely /\ QueueTimely /\ EntriesTimely
    OBVIOUS
  <2>1. rx.pc = "idle" /\ rx.task = NoTask /\ timing.pc = "idle" /\ timing.task = NoTask /\ Len(queue) = 0
    BY DEF Init, Idle
  <2>2. \A i \in Indices, s \in Symbols : entries[i][s] \notin Contexts
    BY EmptyIsNoGrid DEF Init
  <2>. QED  BY <2>1, <2>2 DEF RxTimely, QueueTimely, EntriesTimely
<1>2. TimelyInv /\ [Next]_vars => TimelyInv'
  BY TypeInductive, KeyedInductive, RxTimelyInductive, QueueTimelyInductive, EntriesTimelyInductive,
     SMTT(30)
  DEF TimelyInv
<1>3. Init => TimelyInv
  BY <1>1, TypeInductive, KeyedInductive DEF TimelyInv
<1>. QED  BY <1>2, <1>3, PTL DEF Spec

\* The contexts at an index are those of one slot: the one that a registration
\* or a command for that index is for.
LEMMA ContextOfTask ==
  ASSUME TypeOK, KeyedInv, EntriesTimely, NEW i \in Indices, NEW s \in Symbols,
         entries[i][s] \in Contexts, NEW a \in Nat, i = RepositoryIndex(a % Period),
         FirstSymbol(a) \in (Closing(now) + 1) .. (Closing(now) + Span)
  PROVE  entries[i][s].air = a
<1> DEFINE b == entries[i][s].air
<1>1. /\ b \in Nat /\ FirstSymbol(b) \in Int /\ s \in Int /\ s >= 0 /\ s =< NofSymbols - 1
      /\ Closing(now) \in Int /\ Span \in Int /\ NofSymbols \in Int /\ FirstSymbol(a) \in Int
  <2>1. b \in Nat /\ FirstSymbol(b) \in Int
    BY ContextNumbers
  <2>2. s \in Int /\ s >= 0 /\ s =< NofSymbols - 1
    BY ContextNumbers
  <2>3. Closing(now) \in Int
    BY TimelyNumbers
  <2>4. Span \in Int /\ NofSymbols \in Int /\ FirstSymbol(a) \in Int
    BY ClosingStep
  <2>. QED  BY <2>1, <2>2, <2>3, <2>4
<1>2. FirstSymbol(b) + s >= Closing(now) /\ FirstSymbol(b) =< Closing(now) + Span
  <2>1. FirstSymbol(b) + s >= ClosedUpTo /\ FirstSymbol(b) =< Closing(now) + Span
    BY DEF EntriesTimely, ClosedUpTo
  <2>. QED  BY <1>1, <2>1 DEF ClosedUpTo
<1>3. i = RepositoryIndex(b % Period)
  BY DEF EntriesTimely, KeyedInv
<1> HIDE DEF b
<1>4. a % RepoSize = b % RepoSize
  <2>1. a \in Int /\ b \in Int
    BY <1>1
  <2>2. RepositoryIndex(a % Period) = a % RepoSize
    BY <2>1, IndexOfSlot, Zenon
  <2>3. RepositoryIndex(b % Period) = b % RepoSize
    BY <2>1, IndexOfSlot, Zenon
  <2>. QED  BY <1>3, <2>2, <2>3, Zenon
<1>5. FirstSymbol(a) < FirstSymbol(b) + Span + NofSymbols
  BY <1>1, <1>2
<1>6. FirstSymbol(b) < FirstSymbol(a) + Span + NofSymbols
  BY <1>1, <1>2
<1>7. a = b
  <2>1. b \in Nat
    BY <1>1, Zenon
  <2>. QED  BY <1>4, <1>5, <1>6, <2>1, SameSlot, ZenonT(30)
<1>. QED  BY <1>7 DEF b

\* The context that a User-Plane message finds is its own slot's.
LEMMA ContextOfMessage ==
  ASSUME TypeOK, KeyedInv, RxTimely, EntriesTimely, rx.pc = "write",
         NEW i \in Indices, i = RepositoryIndex(rx.message.air % Period),
         entries[i][rx.message.first] \in Contexts
  PROVE  entries[i][rx.message.first].air = rx.message.air
<1> DEFINE a == rx.message.air
           s == rx.message.first
           b == entries[i][s].air
<1>1. /\ a \in Nat /\ b \in Nat /\ FirstSymbol(a) \in Int /\ FirstSymbol(b) \in Int /\ s \in Symbols
      /\ Closing(now) \in Int /\ Closing(rx.since) \in Int /\ Span \in Int /\ NofSymbols \in Int
      /\ rx.since \in Nat
  <2>1. b \in Nat /\ FirstSymbol(b) \in Int
    BY ContextNumbers
  <2>2. a \in Nat /\ FirstSymbol(a) \in Int /\ s \in Symbols /\ rx.since \in Nat
    BY TimelyNumbers
  <2>3. Closing(now) \in Int /\ Closing(rx.since) \in Int
    BY TimelyNumbers
  <2>4. Span \in Int /\ NofSymbols \in Int
    BY ClosingStep
  <2>. QED  BY <2>1, <2>2, <2>3, <2>4
<1>2. s \in Int /\ s >= 0 /\ s =< NofSymbols - 1
  BY <1>1, ContextNumbers
<1>3. FirstSymbol(b) + s >= Closing(now) /\ FirstSymbol(b) =< Closing(now) + Span
  <2>1. FirstSymbol(b) + s >= ClosedUpTo /\ FirstSymbol(b) =< Closing(now) + Span
    BY <1>1 DEF EntriesTimely, ClosedUpTo
  <2> HIDE DEF s, b
  <2>. QED  BY <1>1, <1>2, <2>1 DEF ClosedUpTo
<1>4. FirstSymbol(a) + s >= Closing(now) + 1 /\ FirstSymbol(a) + s =< Closing(now) + Span + NofSymbols - 1
  <2>1. FirstSymbol(a) + s \in (Closing(rx.since) + 2) .. (Closing(rx.since) + Span + NofSymbols - 1)
    BY DEF RxTimely
  <2>2. Closing(now) = Closing(rx.since) \/ Closing(now) = Closing(rx.since) + 1
    BY <1>1, ClosingStep DEF RxTimely
  <2> HIDE DEF a, s
  <2>. QED  BY <1>1, <1>2, <2>1, <2>2
<1>5. i = RepositoryIndex(b % Period)
  BY <1>1 DEF EntriesTimely, KeyedInv
<1>6. i = RepositoryIndex(a % Period)
  OBVIOUS
<1> HIDE DEF a, b, s
<1>7. a % RepoSize = b % RepoSize
  <2>1. a \in Int /\ b \in Int
    BY <1>1
  <2>2. RepositoryIndex(a % Period) = a % RepoSize
    BY <2>1, IndexOfSlot, Zenon
  <2>3. RepositoryIndex(b % Period) = b % RepoSize
    BY <2>1, IndexOfSlot, Zenon
  <2>. QED  BY <1>5, <1>6, <2>2, <2>3, Zenon
<1>8. FirstSymbol(a) < FirstSymbol(b) + Span + NofSymbols
  BY <1>1, <1>2, <1>3, <1>4
<1>9. FirstSymbol(b) < FirstSymbol(a) + Span + NofSymbols
  BY <1>1, <1>2, <1>3, <1>4
<1>10. a = b
  <2>1. a \in Nat /\ b \in Nat
    BY <1>1
  <2>. QED  BY <1>7, <1>8, <1>9, <2>1, SameSlot, ZenonT(30)
<1>. QED  BY <1>10, Zenon DEF a, b, s

\* What a step writes: the User-Plane of the message, into the grid of a context
\* of its own slot.  A grid that has just been reserved is cleared.
LEMMA ContentStep ==
  ASSUME TimelyInv, [Next]_vars, NEW g \in Grids, NEW m \in content'[g] \ content[g]
  PROVE  LET i == RepositoryIndex(m.air % Period)
         IN  /\ i \in Indices /\ m.symbol \in Symbols
             /\ entries[i][m.symbol] \in Contexts
             /\ entries[i][m.symbol].air = m.air /\ entries[i][m.symbol].grid = g
             /\ UplaneWrite
<1>0. TypeOK /\ KeyedInv /\ RxTimely /\ EntriesTimely
  BY DEF TimelyInv
<1>1. CASE UplaneWrite
  <2> DEFINE i == RepositoryIndex(rx.message.air % Period)
             s == rx.message.first
             context == entries[i][s]
  <2>1. i \in Indices /\ s \in Symbols /\ rx.message.air \in Nat
    BY <1>0, TimelyNumbers, SlotTypes
  <2>2. context \in Contexts \cup {Empty}
    BY <1>0, <2>1 DEF TypeOK
  <2>3. rx.pc = "write" /\ \E port \in Ports :
           content' = IF IsEmpty(context) THEN content
                      ELSE [content EXCEPT ![context.grid] = @ \cup
                              {[air |-> rx.message.air, symbol |-> s, port |-> port]}]
    BY <1>1, ZenonT(30) DEF UplaneWrite
  <2> HIDE DEF context, i, s
  <2>4. ~IsEmpty(context)
    BY <2>3
  <2>5. context \in Contexts
    BY <2>2, <2>4, EmptyIsNoGrid DEF IsEmpty
  <2>6. PICK port \in Ports : content' = [content EXCEPT ![context.grid] = @ \cup
                              {[air |-> rx.message.air, symbol |-> s, port |-> port]}]
    BY <2>3, <2>4, Zenon
  <2>7. context.grid = g /\ m = [air |-> rx.message.air, symbol |-> s, port |-> port]
    BY <1>0, <2>6 DEF TypeOK
  <2>8. m.air = rx.message.air /\ m.symbol = s
    BY <2>7
  <2>9. context.air = rx.message.air
    BY <1>0, <2>1, <2>3, <2>5, ContextOfMessage, Zenon DEF context, i, s
  <2>. QED  BY <1>1, <2>1, <2>5, <2>7, <2>8, <2>9 DEF context, i
<1>2. CASE RxFindGrid
  <2>1. content' = content \/ content' = [content EXCEPT ![counter] = {}]
    BY <1>2 DEF RxFindGrid, Cleared
  <2>. QED  BY <1>0, <2>1 DEF TypeOK
<1>3. CASE content' = content
  BY <1>3
<1>4. Next => UplaneWrite \/ RxFindGrid \/ content' = content
  BY ZenonT(30)
  DEF Next, RxStep, TimingStep, CplaneArrives, UplaneArrives, RxDrain, RxRun, RxAdd, OnNewSymbol,
      TimingDrain, TimingRun, CloseSymbol, OffsetMeasured, RadioDone
<1>. QED  BY <1>1, <1>2, <1>3, <1>4 DEF vars

\* In a timely environment User-Plane is written only where Control-Plane for its
\* own slot prepared a grid, never where an earlier or a later turn of the
\* repository left or prepared one.
THEOREM DownlinkWrittenWhereScheduled == Timely /\ Spec => WrittenWhereScheduled
<1> SUFFICES ASSUME Timely PROVE Spec => WrittenWhereScheduled
  OBVIOUS
<1>1. ASSUME TimelyInv, [Next]_vars
      PROVE  \A g \in Grids : \A m \in content'[g] \ content[g] :
               entries[RepositoryIndex(m.air % Period)][m.symbol].slot = m.air % Period
  BY <1>1, ContentStep DEF TimelyInv, KeyedInv
<1>. QED  BY <1>1, SpecTimely, PTL DEF Spec, WrittenWhereScheduled
-----------------------------------------------------------------------------
\* The context that a symbol pops is the one it is the symbol of.
LEMMA ClosingContext ==
  ASSUME TimelyInv, entries[ClosingIndex][ClosingSymbol] \in Contexts, timing.pc # "idle"
  PROVE  LET context == entries[ClosingIndex][ClosingSymbol]
         IN  /\ ClosingIndex \in Indices /\ ClosingSymbol \in Symbols
             /\ FirstSymbol(context.air) + ClosingSymbol = Closing(now)
<1> DEFINE a == entries[ClosingIndex][ClosingSymbol].air
<1>0. TypeOK /\ KeyedInv /\ EntriesTimely /\ now \in Nat
  BY DEF TimelyInv, TypeOK
<1>1. ClosingIndex \in Indices /\ ClosingSymbol \in Symbols
  BY <1>0, ClosingTypes DEF ClosingIndex, ClosingSymbol
<1>2. a \in Nat /\ FirstSymbol(a) \in Int /\ ClosingSymbol \in Int
  BY <1>1, ContextNumbers
<1>3. Closing(now) \in Int /\ Span \in Int
  BY <1>0, ClosingStep
<1>4. FirstSymbol(a) + ClosingSymbol >= Closing(now) + 0 /\ FirstSymbol(a) =< Closing(now) + Span
  BY <1>0, <1>1 DEF EntriesTimely
<1>5. ClosingIndex = RepositoryIndex(a % Period)
  BY <1>0, <1>1 DEF EntriesTimely, KeyedInv
<1> HIDE DEF a
<1>6. RepositoryIndex(a % Period) = a % RepoSize
  BY <1>2, IndexOfSlot
<1>7. FirstSymbol(a) + ClosingSymbol >= Closing(now)
  BY <1>2, <1>3, <1>4
<1>8. FirstSymbol(a) + ClosingSymbol = Closing(now)
  BY <1>0, <1>1, <1>2, <1>4, <1>5, <1>6, <1>7, ClosingPlace
<1>. QED  BY <1>1, <1>8 DEF a

\* Closing a symbol in terms of the place it closes.
LEMMA CloseSteps ==
  ASSUME TimelyInv, CloseSymbol
  PROVE  LET context == entries[ClosingIndex][ClosingSymbol]
         IN  \/ UNCHANGED <<entries, lastPushed, radio, pushed>>
             \/ /\ context \in Contexts
                /\ entries' = Popped(ClosingIndex, ClosingSymbol)
                /\ Completed(context)
<1>1. ClosingIndex \in Indices /\ ClosingSymbol \in Symbols
  BY ClosingTypes DEF ClosingIndex, ClosingSymbol, TimelyInv, TypeOK
<1>2. entries[ClosingIndex][ClosingSymbol] \in Contexts \cup {Empty}
  BY <1>1 DEF TimelyInv, TypeOK
<1>. QED  BY <1>2, EmptyIsNoGrid DEF CloseSymbol, IsEmpty, ClosingIndex, ClosingSymbol

\* Slots in the order of their first symbols.
LEMMA SlotOrder ==
  ASSUME NEW a \in Nat, NEW b \in Nat, NEW s \in Symbols, FirstSymbol(a) =< FirstSymbol(b) + s
  PROVE  a =< b
<1>1. NofSymbols \in Nat \ {0} /\ s \in Int /\ s =< NofSymbols - 1
  BY DownlinkAssumption, ContextNumbers
<1>2. SUFFICES ASSUME a >= b + 1 PROVE FALSE
  OBVIOUS
<1>3. a * NofSymbols >= (b + 1) * NofSymbols
  BY <1>1, <1>2
<1>4. (b + 1) * NofSymbols = b * NofSymbols + NofSymbols /\ b * NofSymbols \in Int
  BY <1>1
<1>. QED  BY <1>1, <1>3, <1>4 DEF FirstSymbol

\* Completing a slot: it is not earlier than the one completed last, and it is
\* pushed only if it is another one.
LEMMA PushedClose ==
  ASSUME TimelyInv, PushedInv, CloseSymbol
  PROVE  PushedInv'
<1> DEFINE context == entries[ClosingIndex][ClosingSymbol]
           b == context.air
<1>0. now' = now /\ timing.pc = "close" /\ now \in Nat /\ pushed \in Seq(Nat)
  BY DEF CloseSymbol, TimelyInv, TypeOK
<1>1. CASE UNCHANGED <<lastPushed, pushed>>
  BY <1>0, <1>1 DEF PushedInv, PushedOnceInOrder
<1>2. CASE context \in Contexts /\ Completed(context)
  <2>1. /\ FirstSymbol(b) + ClosingSymbol = Closing(now) /\ ClosingSymbol \in Symbols
        /\ ClosingIndex \in Indices
    BY <1>0, <1>2, ClosingContext
  <2>2. b \in Nat /\ context.slot \in WireSlots /\ FirstSymbol(b) \in Int /\ ClosingSymbol \in Int
        /\ ClosingSymbol >= 0
    BY <1>2, <2>1, ContextNumbers
  <2>3. context.slot = b % Period
    BY <1>2, <2>1 DEF TimelyInv, KeyedInv
  <2> HIDE DEF context, b
  <2>4. FirstSymbol(b) =< Closing(now)
    BY <1>0, <2>1, <2>2, ClosingStep
  <2>5. lastPushed' = b % Period /\ lastPushed' # NoSlot
    BY <1>2, <2>2, <2>3 DEF Completed, NoSlot, WireSlots
  <2>6. \/ UNCHANGED pushed
        \/ lastPushed # b % Period /\ pushed' = Append(pushed, b)
    BY <1>2, <2>3 DEF Completed, b
  \* Everything pushed so far is of slots that are not later.
  <2>7. /\ \A k \in 1 .. Len(pushed) : pushed[k] =< b
        /\ lastPushed # b % Period => \A k \in 1 .. Len(pushed) : pushed[k] < b
    <3>1. CASE lastPushed = NoSlot
      BY <3>1 DEF PushedInv
    <3>2. CASE lastPushed # NoSlot
      <4>1. PICK a \in Nat : /\ lastPushed = a % Period
                             /\ FirstSymbol(a) =< Closing(now)
                             /\ \A k \in 1 .. Len(pushed) : pushed[k] =< a
        BY <3>2 DEF PushedInv
      <4>2. a =< b
        BY <2>1, <2>2, <4>1, SlotOrder
      <4>3. \A k \in 1 .. Len(pushed) : pushed[k] \in Nat
        BY <1>0, ElementOfSeq
      <4>. QED  BY <2>2, <4>1, <4>2, <4>3
    <3>. QED  BY <3>1, <3>2
  <2>8. CASE UNCHANGED pushed
    <3>1. PushedOnceInOrder'
      BY <2>8 DEF PushedInv, PushedOnceInOrder
    <3>. QED  BY <1>0, <2>2, <2>4, <2>5, <2>7, <2>8, <3>1 DEF PushedInv
  <2>9. CASE lastPushed # b % Period /\ pushed' = Append(pushed, b)
    <3>1. /\ Len(pushed') = Len(pushed) + 1 /\ Len(pushed) \in Nat
          /\ pushed'[Len(pushed) + 1] = b
          /\ \A k \in 1 .. Len(pushed) : pushed'[k] = pushed[k]
      BY <1>0, <2>2, <2>9, AppendProperties
    <3>2. PushedOnceInOrder'
      <4> SUFFICES ASSUME NEW k \in 1 .. (Len(pushed') - 1) PROVE pushed'[k] < pushed'[k + 1]
        BY DEF PushedOnceInOrder
      <4>1. CASE k = Len(pushed)
        BY <2>7, <2>9, <3>1, <4>1
      <4>2. CASE k # Len(pushed)
        <5>1. k \in 1 .. (Len(pushed) - 1) /\ k \in 1 .. Len(pushed) /\ k + 1 \in 1 .. Len(pushed)
          BY <3>1, <4>2
        <5>2. pushed[k] < pushed[k + 1]
          BY <5>1 DEF PushedInv, PushedOnceInOrder
        <5>. QED  BY <3>1, <5>1, <5>2
      <4>. QED  BY <4>1, <4>2
    <3>3. \A k \in 1 .. Len(pushed') : pushed'[k] =< b
      <4> SUFFICES ASSUME NEW k \in 1 .. Len(pushed') PROVE pushed'[k] =< b
        OBVIOUS
      <4>1. k = Len(pushed) + 1 \/ k \in 1 .. Len(pushed)
        BY <3>1
      <4>. QED  BY <2>2, <2>7, <3>1, <4>1
    <3>. QED  BY <1>0, <2>2, <2>4, <2>5, <3>2, <3>3 DEF PushedInv
  <2>. QED  BY <2>6, <2>8, <2>9
<1>. QED  BY <1>1, <1>2, CloseSteps

\* In a timely environment slots are pushed to the radio in the order of their
\* air time, none twice: completion is notified once per symbol, and only the
\* first notification of a slot pushes its grid.
THEOREM DownlinkPushedOnceInOrder == Timely /\ Spec => []PushedOnceInOrder
<1> SUFFICES ASSUME Timely PROVE Spec => []PushedOnceInOrder
  OBVIOUS
<1>1. Init => PushedInv
  BY DEF Init, PushedInv, PushedOnceInOrder
<1>2. ASSUME TimelyInv, PushedInv, [Next]_vars PROVE PushedInv'
  <2>1. CASE CloseSymbol
    BY <1>2, <2>1, PushedClose
  <2>2. CASE OnNewSymbol
    <3>1. now \in Nat /\ TypeOK
      BY <1>2 DEF TimelyInv, TypeOK
    <3>2. Closing(now') = Closing(now) + 1 /\ UNCHANGED <<lastPushed, pushed>> /\ Closing(now) \in Int
      BY <2>2, <3>1, NextSymbol, ClosingStep
    <3>3. \A a \in Nat : FirstSymbol(a) =< Closing(now) => FirstSymbol(a) =< Closing(now')
      BY <3>2, ClosingStep
    <3>. QED  BY <1>2, <3>2, <3>3 DEF PushedInv, PushedOnceInOrder
  <2>3. CASE UNCHANGED <<now, lastPushed, pushed>>
    BY <1>2, <2>3 DEF PushedInv, PushedOnceInOrder
  <2>4. Next => CloseSymbol \/ OnNewSymbol \/ UNCHANGED <<now, lastPushed, pushed>>
    BY ZenonT(30)
    DEF Next, RxStep, TimingStep, CplaneArrives, UplaneArrives, RxDrain, RxRun, RxFindGrid, RxAdd,
        UplaneWrite, TimingDrain, TimingRun, OffsetMeasured, RadioDone
  <2>. QED  BY <1>2, <2>1, <2>2, <2>3, <2>4 DEF vars
<1>3. PushedInv => PushedOnceInOrder
  BY DEF PushedInv
<1>. QED  BY <1>1, <1>2, <1>3, SpecTimely, PTL DEF Spec
-----------------------------------------------------------------------------
(* The two ways in which a scheduled symbol x is looked after. *)

Covers(task, x) ==
  task.grid # NoGrid /\ task.air = x[1] /\ x[2] \in task.first .. (task.stop - 1)

OnItsWay(x) ==
  \/ \E k \in 1 .. Len(queue) : Covers(queue[k], x)
  \/ Covers(rx.task, x)
  \/ Covers(timing.task, x)

Registered(x) ==
  LET context == entries[RepositoryIndex(x[1] % Period)][x[2]]
  IN  ~IsEmpty(context) /\ context.air = x[1]

LEMMA ScheduledMeans ==
  ScheduledUntilClosed <=> \A x \in due : OnItsWay(x) \/ Registered(x)
BY DEF ScheduledUntilClosed, OnItsWay, Registered, Covers

LEMMA NoTaskCovers == \A x : ~Covers(NoTask, x)
BY NoTaskIsNoTask DEF Covers

LEMMA RegisteredContexts ==
  ASSUME TypeOK, NEW x \in Nat \X Symbols, Registered(x)
  PROVE  /\ RepositoryIndex(x[1] % Period) \in Indices /\ x[2] \in Symbols /\ x[1] \in Nat
         /\ entries[RepositoryIndex(x[1] % Period)][x[2]] \in Contexts
<1>1. RepositoryIndex(x[1] % Period) \in Indices /\ x[2] \in Symbols /\ x[1] \in Nat
  BY SlotTypes
<1>2. entries[RepositoryIndex(x[1] % Period)][x[2]] \in Contexts \cup {Empty}
  BY <1>1 DEF TypeOK
<1>. QED  BY <1>1, <1>2, EmptyIsNoGrid DEF Registered, IsEmpty

\* Running a registration registers what it covers, and takes no context away.
LEMMA RegisterCovers ==
  ASSUME TypeOK, KeyedInv, EntriesTimely, NEW task \in Tasks, task.slot = task.air % Period,
         FirstSymbol(task.air) \in (Closing(now) + 1) .. (Closing(now) + Span),
         entries' = Register(entries, task), NEW x \in Nat \X Symbols
  PROVE  Covers(task, x) \/ Registered(x) => Registered(x)'
<1> DEFINE i == RepositoryIndex(x[1] % Period)
           s == x[2]
           known == OfSlot(entries, task.slot)
           grid == IF known = {} THEN task.grid ELSE FindGrid(entries, task.slot)
<1>1. i \in Indices /\ s \in Symbols /\ x[1] \in Nat /\ task.air \in Nat
  BY SlotTypes DEF Tasks
<1>2. /\ grid \in Grids
      /\ entries'[i][s] =
           IF i = RepositoryIndex(task.slot) /\ s \in task.first .. (task.stop - 1) /\ s \notin known
           THEN [slot |-> task.slot, grid |-> grid, air |-> task.air]
           ELSE entries[i][s]
  BY <1>1, RegisteredContext
<1>3. s \in known <=> ~IsEmpty(entries[RepositoryIndex(task.slot)][s])
                      /\ entries[RepositoryIndex(task.slot)][s].slot = task.slot
  BY <1>1 DEF OfSlot
<1>4. entries[i][s] \in Contexts \cup {Empty}
  BY <1>1 DEF TypeOK
<1>5. ~IsEmpty(entries[i][s]) => entries[i][s] \in Contexts
  BY <1>4, EmptyIsNoGrid DEF IsEmpty
<1>6. ASSUME i = RepositoryIndex(task.slot), ~IsEmpty(entries[i][s])
      PROVE  entries[i][s].air = task.air /\ s \in known
  <2>1. i = RepositoryIndex(task.air % Period)
    BY <1>6
  <2>2. entries[i][s].air = task.air
    BY <1>1, <1>5, <1>6, <2>1, ContextOfTask
  <2>3. entries[i][s].slot = task.slot
    BY <1>1, <1>5, <1>6, <2>2 DEF KeyedInv
  <2>. QED  BY <1>3, <1>6, <2>2, <2>3
<1> HIDE DEF known, grid
<1>7. ASSUME Registered(x) PROVE entries'[i][s] = entries[i][s]
  BY <1>2, <1>6, <1>7 DEF Registered
<1>8. ASSUME Covers(task, x)
      PROVE  ~IsEmpty(entries'[i][s]) /\ entries'[i][s].air = x[1]
  <2>1. i = RepositoryIndex(task.slot) /\ s \in task.first .. (task.stop - 1) /\ task.air = x[1]
    BY <1>8 DEF Covers
  <2>2. CASE s \in known
    BY <1>2, <1>3, <1>6, <2>1, <2>2
  <2>3. CASE s \notin known
    <3>1. entries'[i][s] = [slot |-> task.slot, grid |-> grid, air |-> task.air]
      BY <1>2, <2>1, <2>3
    <3>2. entries'[i][s].grid \in Grids /\ entries'[i][s].air = task.air
      BY <1>2, <3>1
    <3>. QED  BY <2>1, <3>2, EmptyIsNoGrid DEF IsEmpty
  <2>. QED  BY <2>2, <2>3
<1>9. Registered(x)' <=> ~IsEmpty(entries'[i][s]) /\ entries'[i][s].air = x[1]
  BY DEF Registered, IsEmpty
<1>10. Registered(x) <=> ~IsEmpty(entries[i][s]) /\ entries[i][s].air = x[1]
  BY DEF Registered
<1>. QED  BY <1>7, <1>8, <1>9, <1>10

\* A context survives every symbol but its own.
LEMMA CloseKeepsOthers ==
  ASSUME TimelyInv, CloseSymbol, NEW x \in Nat \X Symbols, Registered(x),
         FirstSymbol(x[1]) + x[2] > Closing(now)
  PROVE  Registered(x)'
<1> DEFINE i == RepositoryIndex(x[1] % Period)
           s == x[2]
<1>0. TypeOK /\ timing.pc = "close"
  BY DEF TimelyInv, CloseSymbol
<1>1. i \in Indices /\ s \in Symbols /\ x[1] \in Nat /\ entries[i][s] \in Contexts
  BY <1>0, RegisteredContexts
<1>2. entries[i][s].air = x[1]
  BY DEF Registered
<1>3. ~(i = ClosingIndex /\ s = ClosingSymbol)
  <2>1. SUFFICES ASSUME i = ClosingIndex, s = ClosingSymbol PROVE FALSE
    OBVIOUS
  <2>2. FirstSymbol(entries[ClosingIndex][ClosingSymbol].air) + ClosingSymbol = Closing(now)
    BY <1>0, <1>1, <2>1, ClosingContext
  <2>3. FirstSymbol(x[1]) + x[2] = Closing(now)
    BY <1>2, <2>1, <2>2
  <2>. QED  BY <1>0, <2>3, TimelyNumbers
<1>4. entries' = entries \/ entries' = Popped(ClosingIndex, ClosingSymbol)
  BY CloseSteps
<1>5. entries'[i][s] = entries[i][s]
  BY <1>0, <1>1, <1>3, <1>4 DEF Popped, TypeOK
<1>. QED  BY <1>5 DEF Registered, IsEmpty

\* The next step of a registration on its way: it stays in the queue, moves into
\* a thread's hands, or registers what it covers.
LEMMA OnItsWayStep ==
  ASSUME TimelyInv, [Next]_vars, NEW x \in Nat \X Symbols, OnItsWay(x)
  PROVE  OnItsWay(x)' \/ Registered(x)'
<1>0. /\ TypeOK /\ HandsInv /\ KeyedInv /\ RxTimely /\ QueueTimely /\ EntriesTimely
      /\ queue \in Seq(Tasks)
  BY DEF TimelyInv, TypeOK
<1>1. rx.pc # "run" => ~Covers(rx.task, x)
  BY <1>0, NoTaskCovers DEF RxTimely
<1>2. timing.pc # "run" => ~Covers(timing.task, x)
  BY <1>0, NoTaskCovers DEF QueueTimely
<1>3. queue # << >> =>
        /\ Head(queue) = queue[1] /\ Len(queue) \in Nat
        /\ \A k \in 1 .. Len(queue) : k # 1 => k - 1 \in 1 .. Len(Tail(queue)) /\ Tail(queue)[k - 1] = queue[k]
  <2>1. SUFFICES ASSUME queue # << >>, NEW k \in 1 .. Len(queue), k # 1
                 PROVE  k - 1 \in 1 .. Len(Tail(queue)) /\ Tail(queue)[k - 1] = queue[k]
    BY <1>0, PoppedQueue, LenProperties
  <2>2. Len(queue) \in Nat /\ Len(Tail(queue)) = Len(queue) - 1
    BY <1>0, <2>1, PoppedQueue, LenProperties
  <2>3. k - 1 \in 1 .. Len(Tail(queue)) /\ (k - 1) + 1 = k
    BY <2>1, <2>2
  <2>. QED  BY <1>0, <2>1, <2>3, PoppedQueue
<1>4. CASE RxDrain
  <2>1. rx.pc = "drain" /\ timing' = timing
    BY <1>4 DEF RxDrain
  <2>2. CASE queue = << >>
    <3>1. queue' = queue /\ rx'.task = rx.task
      BY <1>0, <1>4, <2>2 DEF RxDrain, TypeOK
    <3>. QED  BY <2>1, <3>1 DEF OnItsWay, Covers
  <2>3. CASE queue # << >>
    <3>1. queue' = Tail(queue) /\ rx'.task = Head(queue)
      BY <1>0, <1>4, <2>3 DEF RxDrain, TypeOK
    <3>2. CASE Covers(timing.task, x)
      BY <2>1, <3>2 DEF OnItsWay, Covers
    <3>3. CASE \E k \in 1 .. Len(queue) : Covers(queue[k], x)
      <4>1. PICK k \in 1 .. Len(queue) : Covers(queue[k], x)
        BY <3>3
      <4>2. CASE k = 1
        BY <1>3, <2>3, <3>1, <4>1, <4>2 DEF OnItsWay, Covers
      <4>3. CASE k # 1
        <5>1. k - 1 \in 1 .. Len(queue') /\ queue'[k - 1] = queue[k]
          BY <1>3, <2>3, <3>1, <4>3
        <5>. QED  BY <4>1, <5>1 DEF OnItsWay, Covers
      <4>. QED  BY <4>2, <4>3
    <3>. QED  BY <1>1, <2>1, <3>2, <3>3 DEF OnItsWay
  <2>. QED  BY <2>2, <2>3
<1>5. CASE TimingDrain
  <2>1. timing.pc = "drain" /\ rx' = rx
    BY <1>5 DEF TimingDrain
  <2>2. CASE queue = << >>
    <3>1. queue' = queue /\ timing'.task = timing.task
      BY <1>0, <1>5, <2>2 DEF TimingDrain, TypeOK
    <3>. QED  BY <2>1, <3>1 DEF OnItsWay, Covers
  <2>3. CASE queue # << >>
    <3>1. queue' = Tail(queue) /\ timing'.task = Head(queue)
      BY <1>5, <2>3 DEF TimingDrain
    <3>2. CASE Covers(rx.task, x)
      BY <2>1, <3>2 DEF OnItsWay, Covers
    <3>3. CASE \E k \in 1 .. Len(queue) : Covers(queue[k], x)
      <4>1. PICK k \in 1 .. Len(queue) : Covers(queue[k], x)
        BY <3>3
      <4>2. CASE k = 1
        BY <1>3, <2>3, <3>1, <4>1, <4>2 DEF OnItsWay, Covers
      <4>3. CASE k # 1
        <5>1. k - 1 \in 1 .. Len(queue') /\ queue'[k - 1] = queue[k]
          BY <1>3, <2>3, <3>1, <4>3
        <5>. QED  BY <4>1, <5>1 DEF OnItsWay, Covers
      <4>. QED  BY <4>2, <4>3
    <3>. QED  BY <1>2, <2>1, <3>2, <3>3 DEF OnItsWay
  <2>. QED  BY <2>2, <2>3
<1>6. CASE RxRun
  <2>1. rx.pc = "run" /\ entries' = Register(entries, rx.task) /\ UNCHANGED <<queue, timing>>
    BY <1>6 DEF RxRun
  <2>2. CASE Covers(rx.task, x)
    BY <1>0, <2>1, <2>2, TasksAhead, RegisterCovers
  <2>3. CASE ~Covers(rx.task, x)
    BY <2>1, <2>3 DEF OnItsWay, Covers
  <2>. QED  BY <2>2, <2>3
<1>7. CASE TimingRun
  <2>1. timing.pc = "run" /\ entries' = Register(entries, timing.task) /\ UNCHANGED <<queue, rx>>
    BY <1>7 DEF TimingRun
  <2>2. CASE Covers(timing.task, x)
    BY <1>0, <2>1, <2>2, TasksAhead, RegisterCovers
  <2>3. CASE ~Covers(timing.task, x)
    BY <2>1, <2>3 DEF OnItsWay, Covers
  <2>. QED  BY <2>2, <2>3
<1>8. CASE RxAdd
  <2> DEFINE task == [slot |-> rx.message.air % Period, grid |-> rx.grid, air |-> rx.message.air,
                      first |-> rx.message.first, stop |-> rx.message.stop]
  <2>1. /\ rx.pc = "add" /\ timing' = timing
        /\ queue' = queue \/ queue' = Append(queue, task)
    BY <1>8 DEF RxAdd
  <2>2. task \in Tasks
    BY <1>0, <1>8, SlotTypes DEF RxAdd, HandsInv, TypeOK, Tasks, Messages
  <2> HIDE DEF task
  <2>3. \A k \in 1 .. Len(queue) : k \in 1 .. Len(queue') /\ queue'[k] = queue[k]
    BY <1>0, <2>1, <2>2, AppendProperties, LenProperties
  <2>. QED  BY <1>1, <2>1, <2>3 DEF OnItsWay, Covers
<1>9. CASE timing' = timing /\ queue' = queue /\ rx.pc # "run"
  BY <1>1, <1>9 DEF OnItsWay, Covers
<1>10. CASE rx' = rx /\ queue' = queue /\ timing'.task = timing.task
  BY <1>10 DEF OnItsWay, Covers
<1>11. CASE OnNewSymbol \/ CloseSymbol
  <2>1. rx' = rx /\ queue' = queue /\ timing'.task = timing.task
    BY <1>0, <1>11 DEF OnNewSymbol, CloseSymbol, TypeOK
  <2>. QED  BY <2>1, <1>10
<1>12. CplaneArrives \/ UplaneArrives \/ RxFindGrid \/ UplaneWrite =>
          timing' = timing /\ queue' = queue /\ rx.pc # "run"
  BY ZenonT(30) DEF CplaneArrives, UplaneArrives, RxFindGrid, UplaneWrite
<1>13. OffsetMeasured \/ RadioDone \/ UNCHANGED vars =>
          rx' = rx /\ queue' = queue /\ timing'.task = timing.task
  BY DEF OffsetMeasured, RadioDone, vars
<1>. QED
  BY <1>4, <1>5, <1>6, <1>7, <1>8, <1>9, <1>10, <1>11, <1>12, <1>13
  DEF Next, RxStep, TimingStep

\* In a timely environment a scheduled symbol has a context, or a registration on
\* its way, until it is closed: neither a later registration nor the close of
\* another symbol takes it away, whichever thread holds the registration.
THEOREM DownlinkScheduledUntilClosed == Timely /\ Spec => []ScheduledUntilClosed
<1> SUFFICES ASSUME Timely PROVE Spec => []ScheduledUntilClosed
  OBVIOUS
<1>1. Init => ScheduledUntilClosed
  BY DEF Init, ScheduledUntilClosed
<1>2. ASSUME TimelyInv, ScheduledUntilClosed, [Next]_vars PROVE ScheduledUntilClosed'
  <2>0. /\ TypeOK /\ HandsInv /\ KeyedInv /\ RxTimely /\ QueueTimely /\ EntriesTimely
        /\ queue \in Seq(Tasks) /\ due \subseteq Nat \X Symbols
    BY <1>2 DEF TimelyInv, TypeOK
  <2> SUFFICES ASSUME NEW x \in due' PROVE OnItsWay(x)' \/ Registered(x)'
    BY DEF ScheduledUntilClosed, OnItsWay, Registered, Covers, IsEmpty
  <2>1. CASE x \notin due
    <3> DEFINE task == [slot |-> rx.message.air % Period, grid |-> rx.grid, air |-> rx.message.air,
                        first |-> rx.message.first, stop |-> rx.message.stop]
    <3>1. Next => RxAdd \/ due' \subseteq due
      BY ZenonT(30)
      DEF Next, RxStep, TimingStep, CplaneArrives, UplaneArrives, RxDrain, RxRun, RxFindGrid,
          UplaneWrite, OnNewSymbol, TimingDrain, TimingRun, CloseSymbol, OffsetMeasured, RadioDone
    <3>2. RxAdd
      BY <1>2, <2>1, <3>1 DEF vars
    <3>3. /\ rx.pc = "add" /\ queue' = Append(queue, task)
          /\ x \in {rx.message.air} \X (rx.message.first .. (rx.message.stop - 1))
      BY <2>1, <3>2 DEF RxAdd
    <3>4. task \in Tasks /\ rx.grid \in Grids
      BY <2>0, <3>3, SlotTypes DEF HandsInv, TypeOK, Tasks, Messages
    <3>5. Covers(task, x)
      BY <3>3, <3>4, EmptyIsNoGrid DEF Covers
    <3> HIDE DEF task
    <3>6. Len(queue) + 1 \in 1 .. Len(queue') /\ queue'[Len(queue) + 1] = task
      BY <2>0, <3>3, <3>4, AppendProperties, LenProperties
    <3>. QED  BY <3>5, <3>6 DEF OnItsWay, Covers
  <2>2. CASE x \in due
    <3>1. x \in Nat \X Symbols /\ (OnItsWay(x) \/ Registered(x))
      BY <1>2, <2>0, <2>2, ScheduledMeans
    <3>2. CASE OnItsWay(x)
      BY <1>2, <3>1, <3>2, OnItsWayStep
    <3>3. CASE Registered(x)
      <4>1. CASE RxRun
        BY <2>0, <3>1, <3>3, <4>1, TasksAhead, RegisterCovers DEF RxRun
      <4>2. CASE TimingRun
        BY <2>0, <3>1, <3>3, <4>2, TasksAhead, RegisterCovers DEF TimingRun
      <4>3. CASE CloseSymbol
        <5>1. FirstSymbol(x[1]) + x[2] > Closing(now)
          BY <4>3 DEF CloseSymbol, FirstSymbol
        <5>. QED  BY <1>2, <3>1, <3>3, <4>3, <5>1, CloseKeepsOthers
      <4>4. CASE entries' = entries
        BY <3>3, <4>4 DEF Registered, IsEmpty
      <4>5. Next => RxRun \/ TimingRun \/ CloseSymbol \/ entries' = entries
        BY ZenonT(30)
        DEF Next, RxStep, TimingStep, CplaneArrives, UplaneArrives, RxDrain, RxFindGrid, RxAdd,
            UplaneWrite, OnNewSymbol, TimingDrain, OffsetMeasured, RadioDone
      <4>. QED  BY <1>2, <4>1, <4>2, <4>3, <4>4, <4>5 DEF vars
    <3>. QED  BY <3>1, <3>2, <3>3
  <2>. QED  BY <2>1, <2>2
<1>. QED  BY <1>1, <1>2, SpecTimely, PTL DEF Spec
-----------------------------------------------------------------------------
LEMMA AirHeldIsInUse ==
  ASSUME NEW g, NEW a, HeldForAir(g, a)
  PROVE  InUse(g)
BY DEF HeldForAir, AirInEntries, AirInQueue, AirInTasks, AirOnRadio, AirInRx, InUse

\* Running a registration passes a grid on within its absolute slot: the grid it
\* finds under its number is not one of an earlier or a later turn.
LEMMA RegisterHoldsAir ==
  ASSUME TypeOK, KeyedInv, EntriesTimely, NEW task \in Tasks, task.slot = task.air % Period,
         FirstSymbol(task.air) \in (Closing(now) + 1) .. (Closing(now) + Span),
         entries' = Register(entries, task),
         NEW g \in Grids, NEW a \in Nat, AirInEntries(g, a)'
  PROVE  AirInEntries(g, a) \/ (task.grid = g /\ task.air = a)
<1> DEFINE known == OfSlot(entries, task.slot)
           grid == IF known = {} THEN task.grid ELSE FindGrid(entries, task.slot)
           j == RepositoryIndex(task.slot)
<1>1. PICK i \in Indices, s \in Symbols : entries'[i][s].grid = g /\ entries'[i][s].air = a
  BY DEF AirInEntries
<1>2. \/ entries'[i][s] = entries[i][s]
      \/ entries'[i][s] = [slot |-> task.slot, grid |-> grid, air |-> task.air]
  BY RegisteredContext
<1>3. CASE entries'[i][s] = entries[i][s]
  BY <1>1, <1>3 DEF AirInEntries
<1>4. CASE entries'[i][s] = [slot |-> task.slot, grid |-> grid, air |-> task.air]
  <2>1. task.air = a /\ grid = g
    BY <1>1, <1>4
  <2>2. CASE known = {}
    BY <2>1, <2>2
  <2>3. CASE known # {}
    <3>1. task.slot \in WireSlots
      BY DEF Tasks
    <3>2. PICK t \in known : grid = entries[j][t].grid
      BY <2>3, <3>1, FoundGrid
    <3>3. t \in Symbols /\ ~IsEmpty(entries[j][t])
      BY DEF OfSlot
    <3>4. j \in Indices
      BY <3>1, SlotTypes
    <3>5. entries[j][t] \in Contexts
      <4>1. entries[j][t] \in Contexts \cup {Empty}
        BY <3>3, <3>4 DEF TypeOK
      <4>. QED  BY <3>3, <4>1, EmptyIsNoGrid DEF IsEmpty
    <3>6. entries[j][t].air = task.air
      <4>1. task.air \in Nat /\ j = RepositoryIndex(task.air % Period)
        BY DEF Tasks
      <4> HIDE DEF j
      <4>. QED  BY <3>3, <3>4, <3>5, <4>1, ContextOfTask
    <3>. QED  BY <2>1, <3>2, <3>3, <3>4, <3>6 DEF AirInEntries
  <2>. QED  BY <2>2, <2>3
<1>. QED  BY <1>2, <1>3, <1>4

\* A step makes a grid held for an absolute slot only if it already was, or if the
\* pool has just handed out, cleared, a grid that nobody refers to.
LEMMA AirHeldStep ==
  ASSUME TimelyInv, [Next]_vars,
         NEW g \in Grids, NEW a \in Nat, HeldForAir(g, a)'
  PROVE  HeldForAir(g, a) \/ (~InUse(g) /\ a = rx.message.air /\ content'[g] = {})
<1> USE DEF TimelyInv
<1>0. /\ g # NoGrid
      /\ Idle.pc = "idle" /\ Idle.task.grid # g /\ NoTask.grid # g
  BY EmptyIsNoGrid, NoTaskIsNoTask DEF Idle
<1>1. CASE CplaneArrives
  <2>1. rx'.pc = "drain" /\ rx'.task = NoTask
    BY <1>1 DEF CplaneArrives, Idle
  <2>2. ~AirInRx(g, a)' /\ (AirInTasks(g, a)' => AirInTasks(g, a))
    BY <1>0, <1>1, <2>1 DEF AirInRx, AirInTasks, CplaneArrives
  <2>. QED  BY <1>1, <2>2 DEF CplaneArrives, HeldForAir, AirInEntries, AirInQueue, AirOnRadio
<1>2. CASE RxDrain
  <2>1. CASE queue = << >>
    <3>1. rx'.pc = "find" /\ rx'.task = rx.task /\ queue' = queue
      BY <1>2, <2>1 DEF RxDrain, TypeOK
    <3>. QED  BY <1>2, <3>1 DEF RxDrain, HeldForAir, AirInEntries, AirInQueue, AirInTasks, AirOnRadio, AirInRx
  <2>2. CASE queue # << >>
    <3>1. rx'.pc = "run" /\ rx'.task = Head(queue) /\ queue' = Tail(queue)
      BY <1>2, <2>2 DEF RxDrain, TypeOK
    <3>2. AirInQueue(g, a)' => AirInQueue(g, a)
      BY <2>2, <3>1, PoppedQueue DEF AirInQueue, TypeOK
    <3>3. AirInTasks(g, a)' => AirInTasks(g, a) \/ AirInQueue(g, a)
      <4>1. timing' = timing
        BY <1>2 DEF RxDrain
      <4>2. Head(queue) = queue[1] /\ 1 \in 1 .. Len(queue)
        BY <2>2, PoppedQueue DEF TypeOK
      <4>. QED  BY <3>1, <4>1, <4>2 DEF AirInQueue, AirInTasks
    <3>. QED  BY <1>2, <3>1, <3>2, <3>3 DEF RxDrain, HeldForAir, AirInEntries, AirOnRadio, AirInRx
  <2>. QED  BY <2>1, <2>2
<1>3. CASE RxRun
  <2>1. rx.task \in Tasks /\ rx'.pc = "drain" /\ rx'.task = NoTask
    BY <1>3 DEF RxRun, HandsInv, TypeOK
  <2>2. AirInEntries(g, a)' => AirInEntries(g, a) \/ AirInTasks(g, a)
    BY <1>3, <2>1, TasksAhead, RegisterHoldsAir DEF RxRun, AirInTasks
  <2>3. AirInTasks(g, a)' => AirInTasks(g, a)
    BY <1>0, <1>3, <2>1 DEF RxRun, AirInTasks
  <2>. QED  BY <1>3, <2>1, <2>2, <2>3 DEF RxRun, HeldForAir, AirInQueue, AirOnRadio, AirInRx
<1>4. CASE RxFindGrid
  <2> DEFINE found == FindGrid(entries, rx.message.air % Period)
  <2>1. rx.message.air % Period \in WireSlots
    BY SlotTypes DEF TypeOK, Messages
  <2>2. CASE found # NoGrid
    <3>1. rx' = [rx EXCEPT !.pc = "add", !.grid = found]
      BY <1>4, <2>2 DEF RxFindGrid
    <3>2. rx'.task = rx.task /\ rx'.grid = found /\ rx'.message = rx.message
      BY <3>1 DEF TypeOK
    <3>3. PICK s \in OfSlot(entries, rx.message.air % Period) :
            found = entries[RepositoryIndex(rx.message.air % Period)][s].grid
      BY <2>1, <2>2, FoundGrid
    <3>4. ASSUME AirInRx(g, a)' PROVE AirInEntries(g, a)
      <4> DEFINE i == RepositoryIndex(rx.message.air % Period)
      <4>1. g = found /\ a = rx.message.air
        BY <3>2, <3>4 DEF AirInRx
      <4>2. s \in Symbols /\ ~IsEmpty(entries[i][s])
        BY DEF OfSlot
      <4>3. i \in Indices
        BY <2>1, SlotTypes
      <4>4. entries[i][s] \in Contexts
        <5>1. entries[i][s] \in Contexts \cup {Empty}
          BY <4>2, <4>3 DEF TypeOK
        <5>. QED  BY <4>2, <5>1, EmptyIsNoGrid DEF IsEmpty
      <4>5. FirstSymbol(a) \in (Closing(now) + 1) .. (Closing(now) + Span)
        <5>1. FirstSymbol(a) \in (Closing(now) + 3) .. (Closing(now) + Span)
          BY <1>4, <4>1, MessageAhead DEF RxFindGrid
        <5>. QED  BY <5>1, TimelyNumbers, ClosingStep
      <4>6. entries[i][s].air = a
        BY <4>1, <4>2, <4>3, <4>4, <4>5, ContextOfTask
      <4>. QED  BY <3>3, <4>1, <4>2, <4>3, <4>6 DEF AirInEntries
    <3>. QED  BY <1>4, <3>2, <3>4 DEF RxFindGrid, HeldForAir, AirInEntries, AirInQueue, AirInTasks, AirOnRadio
  <2>3. CASE found = NoGrid /\ InUse(counter)
    <3>1. rx' = Idle
      BY <1>4, <2>3 DEF RxFindGrid
    <3>2. ~AirInRx(g, a)' /\ (AirInTasks(g, a)' => AirInTasks(g, a))
      BY <1>0, <1>4, <3>1 DEF AirInRx, AirInTasks, RxFindGrid
    <3>. QED  BY <1>4, <3>2 DEF RxFindGrid, HeldForAir, AirInEntries, AirInQueue, AirOnRadio
  <2>4. CASE found = NoGrid /\ ~InUse(counter)
    <3>1. rx' = [rx EXCEPT !.pc = "add", !.grid = counter]
      BY <1>4, <2>4 DEF RxFindGrid
    <3>2. rx'.task = rx.task /\ rx'.grid = counter /\ rx'.message = rx.message
      BY <3>1 DEF TypeOK
    <3>3. content' = [content EXCEPT ![counter] = {}]
      BY <1>4, <2>4 DEF RxFindGrid, Cleared
    <3>4. AirInRx(g, a)' => ~InUse(g) /\ a = rx.message.air /\ content'[g] = {}
      BY <2>4, <3>2, <3>3 DEF AirInRx, TypeOK
    <3>. QED  BY <1>4, <3>2, <3>4 DEF RxFindGrid, HeldForAir, AirInEntries, AirInQueue, AirInTasks, AirOnRadio
  <2>. QED  BY <2>2, <2>3, <2>4
<1>5. CASE RxAdd
  <2> DEFINE task == [slot |-> rx.message.air % Period, grid |-> rx.grid, air |-> rx.message.air,
                      first |-> rx.message.first, stop |-> rx.message.stop]
  <2>1. rx' = Idle /\ rx.pc = "add" /\ (queue' = queue \/ queue' = Append(queue, task))
    BY <1>5 DEF RxAdd
  <2>2. task \in Tasks /\ task.grid = rx.grid /\ task.air = rx.message.air
    BY <1>5, SlotTypes DEF RxAdd, HandsInv, TypeOK, Tasks, Messages
  <2> HIDE DEF task
  <2>3. ASSUME AirInQueue(g, a)' PROVE AirInQueue(g, a) \/ AirInRx(g, a)
    <3>1. PICK k \in 1 .. Len(queue') : queue'[k].grid = g /\ queue'[k].air = a
      BY <2>3 DEF AirInQueue
    <3>2. queue \in Seq(Tasks)
      BY DEF TypeOK
    <3>3. queue'[k] = task \/ (k \in 1 .. Len(queue) /\ queue'[k] = queue[k])
      BY <2>1, <2>2, <3>2, AppendProperties
    <3>. QED  BY <2>1, <2>2, <3>1, <3>3 DEF AirInQueue, AirInRx
  <2>4. ~AirInRx(g, a)' /\ (AirInTasks(g, a)' => AirInTasks(g, a))
    BY <1>0, <1>5, <2>1 DEF AirInRx, AirInTasks, RxAdd
  <2>. QED  BY <1>5, <2>3, <2>4 DEF RxAdd, HeldForAir, AirInEntries, AirOnRadio
<1>6. CASE UplaneArrives
  <2>1. rx' = rx \/ (rx'.pc = "write" /\ rx'.task = NoTask)
    BY <1>6, ZenonT(30) DEF UplaneArrives, Idle
  <2>2. (AirInRx(g, a)' => AirInRx(g, a)) /\ (AirInTasks(g, a)' => AirInTasks(g, a))
    BY <1>0, <1>6, <2>1 DEF AirInRx, AirInTasks, UplaneArrives
  <2>. QED  BY <1>6, <2>2 DEF UplaneArrives, HeldForAir, AirInEntries, AirInQueue, AirOnRadio
<1>7. CASE UplaneWrite
  <2>1. rx' = Idle
    BY <1>7, ZenonT(30) DEF UplaneWrite
  <2>2. ~AirInRx(g, a)' /\ (AirInTasks(g, a)' => AirInTasks(g, a))
    BY <1>0, <1>7, <2>1, ZenonT(30) DEF AirInRx, AirInTasks, UplaneWrite
  <2>. QED  BY <1>7, <2>2, ZenonT(30) DEF UplaneWrite, HeldForAir, AirInEntries, AirInQueue, AirOnRadio
<1>8. CASE OnNewSymbol
  <2>1. timing'.task = timing.task
    BY <1>8 DEF OnNewSymbol, TypeOK
  <2>. QED  BY <1>8, <2>1 DEF OnNewSymbol, HeldForAir, AirInEntries, AirInQueue, AirInTasks, AirOnRadio, AirInRx
<1>9. CASE TimingDrain
  <2>1. CASE queue = << >>
    <3>1. timing'.task = timing.task /\ queue' = queue
      BY <1>9, <2>1 DEF TimingDrain, TypeOK
    <3>. QED  BY <1>9, <3>1 DEF TimingDrain, HeldForAir, AirInEntries, AirInQueue, AirInTasks, AirOnRadio, AirInRx
  <2>2. CASE queue # << >>
    <3>1. timing'.task = Head(queue) /\ queue' = Tail(queue)
      BY <1>9, <2>2 DEF TimingDrain
    <3>2. AirInQueue(g, a)' => AirInQueue(g, a)
      BY <2>2, <3>1, PoppedQueue DEF AirInQueue, TypeOK
    <3>3. AirInTasks(g, a)' => AirInTasks(g, a) \/ AirInQueue(g, a)
      BY <1>9, <2>2, <3>1, PoppedQueue DEF AirInQueue, AirInTasks, TypeOK, TimingDrain
    <3>. QED  BY <1>9, <3>1, <3>2, <3>3 DEF TimingDrain, HeldForAir, AirInEntries, AirOnRadio, AirInRx
  <2>. QED  BY <2>1, <2>2
<1>10. CASE TimingRun
  <2>1. timing.task \in Tasks /\ timing'.task = NoTask
    BY <1>10 DEF TimingRun, HandsInv
  <2>2. AirInEntries(g, a)' => AirInEntries(g, a) \/ AirInTasks(g, a)
    BY <1>10, <2>1, TasksAhead, RegisterHoldsAir DEF TimingRun, AirInTasks
  <2>3. AirInTasks(g, a)' => AirInTasks(g, a)
    BY <1>0, <1>10, <2>1 DEF TimingRun, AirInTasks
  <2>. QED  BY <1>10, <2>2, <2>3 DEF TimingRun, HeldForAir, AirInQueue, AirOnRadio, AirInRx
<1>11. CASE CloseSymbol
  <2> DEFINE index == RepositoryIndex((Closing(now) \div NofSymbols) % RadioPeriod)
             symbol == Closing(now) % NofSymbols
             context == entries[index][symbol]
  <2>1. index \in Indices /\ symbol \in Symbols
    BY ClosingTypes DEF TypeOK
  <2>2. timing'.task = timing.task
    BY <1>11 DEF CloseSymbol, TypeOK
  <2>3. AirInEntries(g, a)' => AirInEntries(g, a)
    BY <1>0, <1>11, ClosedContext, EmptyIsNoGrid DEF AirInEntries
  \* The radio takes over the grid, for the slot of the context it came from.
  <2>4. ASSUME AirOnRadio(g, a)' PROVE AirOnRadio(g, a) \/ AirInEntries(g, a)
    <3>1. \/ radio' = radio
          \/ ~IsEmpty(context) /\ \E x : radio' = radio \cup
                 {[grid |-> context.grid, air |-> context.air, slot |-> x]}
      BY <1>11 DEF CloseSymbol, Completed
    <3>. QED  BY <2>1, <2>4, <3>1 DEF AirOnRadio, AirInEntries
  <2>. QED  BY <1>11, <2>2, <2>3, <2>4 DEF CloseSymbol, HeldForAir, AirInQueue, AirInTasks, AirInRx
<1>12. CASE OffsetMeasured
  BY <1>12 DEF OffsetMeasured, HeldForAir, AirInEntries, AirInQueue, AirInTasks, AirOnRadio, AirInRx
<1>13. CASE RadioDone
  <2>1. AirOnRadio(g, a)' => AirOnRadio(g, a)
    BY <1>13 DEF RadioDone, AirOnRadio
  <2>. QED  BY <1>13, <2>1 DEF RadioDone, HeldForAir, AirInEntries, AirInQueue, AirInTasks, AirInRx
<1>14. CASE UNCHANGED vars
  BY <1>14 DEF vars, HeldForAir, AirInEntries, AirInQueue, AirInTasks, AirOnRadio, AirInRx
<1>. QED
  BY <1>1, <1>2, <1>3, <1>4, <1>5, <1>6, <1>7, <1>8, <1>9, <1>10, <1>11, <1>12, <1>13, <1>14
  DEF Next, RxStep, TimingStep

\* In a timely environment a grid that the radio transmits holds the User-Plane of
\* its own slot only: it was cleared when it was reserved for the slot, it is not
\* handed out again while anyone holds it, and every write into it is by a message
\* of that slot.
THEOREM DownlinkOnlyOwnData == Timely /\ Spec => []OnlyOwnData
<1> SUFFICES ASSUME Timely PROVE Spec => []OnlyOwnData
  OBVIOUS
<1>1. Init => DataInv
  <2> SUFFICES ASSUME Init, NEW g \in Grids, NEW a \in Nat PROVE ~HeldForAir(g, a)
    BY DEF DataInv
  <2>1. Idle.pc = "idle" /\ Idle.task = NoTask
    BY DEF Idle
  <2>. QED
    BY <2>1, EmptyIsNoGrid, NoTaskIsNoTask
    DEF Init, HeldForAir, AirInEntries, AirInQueue, AirInTasks, AirOnRadio, AirInRx
<1>2. ASSUME TimelyInv, DataInv, [Next]_vars PROVE DataInv'
  <2> SUFFICES ASSUME NEW g \in Grids, NEW a \in Nat, HeldForAir(g, a)'
               PROVE  /\ \A b \in Nat : HeldForAir(g, b)' => a = b
                      /\ \A m \in content'[g] : m.air = a
    BY DEF DataInv
  <2>1. \A b \in Nat : HeldForAir(g, b)' =>
          HeldForAir(g, b) \/ (~InUse(g) /\ b = rx.message.air /\ content'[g] = {})
    BY <1>2, AirHeldStep
  <2>2. \A b \in Nat : HeldForAir(g, b) => InUse(g)
    BY AirHeldIsInUse
  <2>3. \A b \in Nat : HeldForAir(g, b)' => a = b
    BY <1>2, <2>1, <2>2 DEF DataInv
  <2>4. ASSUME NEW m \in content'[g] PROVE m.air = a
    <3>1. HeldForAir(g, a)
      BY <2>1, <2>4
    <3>2. CASE m \in content[g]
      BY <1>2, <3>1, <3>2 DEF DataInv
    <3>3. CASE m \notin content[g]
      <4> DEFINE i == RepositoryIndex(m.air % Period)
      <4>1. /\ i \in Indices /\ m.symbol \in Symbols
            /\ entries[i][m.symbol] \in Contexts
            /\ entries[i][m.symbol].air = m.air /\ entries[i][m.symbol].grid = g
        BY <1>2, <2>4, <3>3, ContentStep
      <4>2. m.air \in Nat
        BY <4>1, ContextNumbers
      <4>3. HeldForAir(g, m.air)
        BY <4>1 DEF HeldForAir, AirInEntries
      <4>. QED  BY <1>2, <3>1, <4>2, <4>3 DEF DataInv
    <3>. QED  BY <3>2, <3>3
  <2>. QED  BY <2>3, <2>4
<1>3. ASSUME TimelyInv, DataInv PROVE OnlyOwnData
  <2> SUFFICES ASSUME NEW r \in radio, NEW m \in content[r.grid] PROVE m.air = r.air
    BY DEF OnlyOwnData
  <2>1. r.grid \in Grids /\ r.air \in Nat
    BY <1>3 DEF TimelyInv, TypeOK
  <2>2. HeldForAir(r.grid, r.air)
    BY DEF HeldForAir, AirOnRadio
  <2>. QED  BY <1>3, <2>1, <2>2 DEF DataInv
<1>. QED  BY <1>1, <1>2, <1>3, SpecTimely, PTL DEF Spec
-----------------------------------------------------------------------------
(* The number under which the radio is given a slot. *)

\* The first radio slot with the wire number of a slot.
LEMMA BaseOfSlot ==
  ASSUME NEW a \in Nat
  PROVE  ((a % Period) + Period - (AlignedOffset % Period)) % Period = (a + RadioShift) % Period
<1> DEFINE P == Period
           R == RadioPeriod
           t == RadioShift
           o == AlignedOffset
<1>1. P \in Nat \ {0} /\ R \in Nat \ {0} /\ R % P = 0
  BY SlotAssumption
<1>2. t \in Int /\ a \in Int
  BY RadioShiftAssumption
<1>3. o = (0 + (P - ((t % R) % P))) % P
  <2>1. 0 + t = t
    BY <1>2
  <2>2. RadioSlot(0) = t % R
    BY <2>1, Zenon DEF RadioSlot
  <2>3. o = (0 + P - (RadioSlot(0) % P)) % P
    BY Zenon DEF AlignedOffset, MeasureGpsSlotOffset
  <2>4. (t % R) % P \in Int
    BY <1>1, <1>2
  <2>5. 0 + P - ((t % R) % P) = 0 + (P - ((t % R) % P))
    BY <1>1, <2>4
  <2>. QED  BY <2>2, <2>3, <2>5, Zenon
<1> HIDE DEF P, R, t, o
<1>4. o = (0 - t) % P
  <2>1. 0 \in Int
    OBVIOUS
  <2>2. (0 + (P - ((t % R) % P))) % P = (0 - t) % P
    BY <1>1, <1>2, <2>1, Measured, ZenonT(30)
  <2>. QED  BY <1>3, <2>2, Zenon
<1>5. o \in Int
  BY <1>1, <1>2, <1>4
<1>6. a % P \in Int
  BY <1>1, <1>2
<1>7. ((a % P) + P - (o % P)) % P = (((a % P) + P) - o) % P
  <2>1. (a % P) + P \in Int /\ o % P \in Int
    BY <1>1, <1>5, <1>6
  <2>2. (a % P) + P - (o % P) = ((a % P) + P) - (o % P)
    BY <1>1, <1>6, <2>1
  <2>3. (((a % P) + P) - (o % P)) % P = (((a % P) + P) - o) % P
    BY <1>1, <1>5, <2>1, ModAdd
  <2>. QED  BY <2>2, <2>3, Zenon
<1>8. (((a % P) + P) - o) % P = (((a % P) + P) - (0 - t)) % P
  <2>1. (a % P) + P \in Int
    BY <1>1, <1>6
  <2>2. 0 - t \in Int
    BY <1>2
  <2>3. (((a % P) + P) - ((0 - t) % P)) % P = (((a % P) + P) - (0 - t)) % P
    BY <1>1, <2>1, <2>2, ModAdd
  <2>. QED  BY <1>4, <2>3, Zenon
<1>9. ((a % P) + P) - (0 - t) = (a % P) + (P + t)
  BY <1>1, <1>2, <1>6
<1>10. ((a % P) + (P + t)) % P = (a + (P + t)) % P
  <2>1. P + t \in Int
    BY <1>1, <1>2
  <2>. QED  BY <1>1, <1>2, <2>1, ModAdd
<1>11. (a + (P + t)) % P = (a + t) % P
  <2>1. a + (P + t) = (a + t) + P * 1 /\ a + t \in Int /\ 1 \in Int
    BY <1>1, <1>2
  <2>. QED  BY <1>1, <2>1, ModShift
<1>12. ((a % P) + P - (o % P)) % P = (a + t) % P
  BY <1>7, <1>8, <1>9, <1>10, <1>11, Zenon
<1>. QED  BY <1>12 DEF P, t, o

\* Of the radio slots with a wire number, the one nearest a current slot that is
\* less than half a wire period away.
LEMMA NearestTurn ==
  ASSUME NEW P \in Nat \ {0}, NEW R \in Nat \ {0}, R % P = 0,
         NEW x \in Int, NEW y \in Int, y - x \in (-(P \div 2)) .. (P - (P \div 2) - 1)
  PROVE  LET base == x % P
             ahead == ((y % R) + R - base) % R
             past == (ahead + (P \div 2)) \div P
         IN  (base + past * P) % R = x % R
<1> DEFINE base == x % P
           k == x \div P
           ahead == ((y % R) + R - base) % R
           half == P \div 2
           past == (ahead + half) \div P
           z == y - base
           j == z \div R
           m == R \div P
           d == (y - x) + half
<1>1. x = P * k + base /\ k \in Int /\ base \in Int
  BY DivMod
<1>2. half \in Int /\ d \in 0 .. (P - 1)
  <2>1. half \in Int
    BY DivMod
  <2>. HIDE DEF half
  <2>2. y - x >= -half /\ y - x =< P - half - 1
    BY <2>1 DEF half
  <2>. QED  BY <2>1, <2>2
<1>3. R = P * m /\ m \in Int
  BY DivMod
<1>4. z \in Int /\ z = R * j + (z % R) /\ j \in Int /\ z % R \in Int
  <2>1. z \in Int
    BY <1>1
  <2>. HIDE DEF z
  <2>. QED  BY <2>1, DivMod
<1>5. ahead = z % R
  <2> HIDE DEF base
  <2>1. R - base \in Int /\ y - base \in Int /\ y % R \in Int
    BY <1>1, DivMod
  <2>2. ((y % R) + (R - base)) % R = (y + (R - base)) % R
    BY <2>1, ModAdd
  <2>3. y + (R - base) = (y - base) + R * 1 /\ (y % R) + (R - base) = (y % R) + R - base
    BY <1>1, <2>1
  <2>4. ((y - base) + R * 1) % R = (y - base) % R
    <3>1. 1 \in Int
      OBVIOUS
    <3>. QED  BY <2>1, <3>1, ModShift, ZenonT(30)
  <2>. QED  BY <2>2, <2>3, <2>4
<1> HIDE DEF base, k, ahead, half, z, j, m
<1>6. ahead = z - R * j /\ ahead \in Int
  <2>1. z = R * j + ahead /\ ahead \in Int
    BY <1>4, <1>5, Zenon
  <2>2. R * j \in Int
    BY <1>4
  <2>. QED  BY <1>4, <2>1, <2>2
<1>7. ahead + half = P * (k - m * j) + d
  <2>1. z = y - base
    BY DEF z
  <2>2. ahead + half = (y - base) - R * j + half
    BY <1>6, <2>1
  <2>3. base = x - P * k /\ P * k \in Int
    BY <1>1
  <2>4. R * j = P * (m * j) /\ R * j \in Int
    BY <1>3, <1>4
  <2>5. P * (k - m * j) = P * k - P * (m * j)
    BY <1>1, <1>3, <1>4
  <2>. QED  BY <1>1, <1>2, <2>2, <2>3, <2>4, <2>5
<1>8. k - m * j \in Int /\ m * j \in Int
  BY <1>1, <1>3, <1>4
<1>9. past = k - m * j
  <2>1. ahead + half \in Int
    BY <1>2, <1>6
  <2> HIDE DEF d
  <2>. QED  BY <1>2, <1>7, <1>8, <2>1, DivModUnique
<1>10. base + past * P = x + R * (-j)
  <2>1. past * P = P * k - P * (m * j)
    <3>1. \A u, v \in Int : (u - v) * P = P * u - P * v
      OBVIOUS
    <3>2. (k - m * j) * P = P * k - P * (m * j)
      BY <1>1, <1>8, <3>1
    <3>. QED  BY <1>9, <3>2, Zenon
  <2>2. P * (m * j) = R * j /\ R * (-j) = -(R * j) /\ R * j \in Int
    BY <1>3, <1>4
  <2>3. P * k \in Int
    BY <1>1
  <2>. QED  BY <1>1, <2>1, <2>2, <2>3
<1>11. (x + R * (-j)) % R = x % R
  <2>1. -j \in Int
    BY <1>4
  <2>. QED  BY <2>1, ModShift
<1>. QED  BY <1>10, <1>11 DEF base, past, ahead, half

LEMMA NearestRadioSlot ==
  ASSUME NEW a \in Nat, NEW q \in Nat, q - a \in (-(Period \div 2)) .. (Period - (Period \div 2) - 1)
  PROVE  WireToRadio(a % Period, AlignedOffset, RadioSlot(q)) = RadioSlot(a)
<1> DEFINE x == a + RadioShift
           y == q + RadioShift
           base == x % Period
           ahead == ((y % RadioPeriod) + RadioPeriod - base) % RadioPeriod
           past == (ahead + (Period \div 2)) \div Period
<1>1. x \in Int /\ y \in Int /\ y - x = q - a
  BY RadioShiftAssumption
<1>2. Period \in Nat \ {0} /\ RadioPeriod \in Nat \ {0} /\ RadioPeriod % Period = 0
  BY SlotAssumption
<1>3. (base + past * Period) % RadioPeriod = x % RadioPeriod
  <2> HIDE DEF x, y
  <2>1. y - x \in (-(Period \div 2)) .. (Period - (Period \div 2) - 1)
    BY <1>1
  <2>2. x \in Int /\ y \in Int
    BY <1>1
  <2>. QED  BY <1>2, <2>1, <2>2, NearestTurn, ZenonT(30)
<1>4. WireToRadio(a % Period, AlignedOffset, RadioSlot(q)) = (base + past * Period) % RadioPeriod
  BY BaseOfSlot, Zenon DEF WireToRadio, RadioSlot
<1>. QED  BY <1>3, <1>4, Zenon DEF RadioSlot

\* The slot being closed is ahead of its air time, and near the radio's slot.
LEMMA ClosingNear ==
  ASSUME SdrLeads, now \in Nat, NEW a \in Nat, NEW s \in Symbols,
         FirstSymbol(a) + s = Closing(now), NEW lead \in TtiLeads
  PROVE  /\ ((now \div NofSymbols) + lead) - a
              \in (-(Period \div 2)) .. (Period - (Period \div 2) - 1)
         /\ FirstSymbol(a) > now
         /\ (now \div NofSymbols) + lead \in Nat
<1> DEFINE N == NofSymbols
           F == FinalizeOffset
           h == Period \div 2
           n == now \div N
           r == now % N
           f == F \div N
           u == F % N
           G == -F
           g == G \div N
           v == G % N
<1>1. N \in Nat \ {0} /\ F \in Int /\ lead \in Nat /\ s \in Int /\ s >= 0 /\ s =< N - 1
  BY DownlinkAssumption, ContextNumbers
<1>2. h \in Int /\ Period \in Int
  BY SlotAssumption
<1>3. now = N * n + r /\ n \in Int /\ r \in 0 .. (N - 1)
  BY <1>1, DivMod
<1>4. F = N * f + u /\ f \in Int /\ u \in 0 .. (N - 1)
  BY <1>1, DivMod
<1>5. G \in Int /\ G = N * g + v /\ g \in Int /\ v \in 0 .. (N - 1)
  <2>1. G \in Int
    BY <1>1
  <2> HIDE DEF G
  <2>. QED  BY <1>1, <2>1, DivMod
<1>6. F =< -N /\ lead + f >= -h /\ lead - g < Period - h
  BY DEF SdrLeads
<1>7. N * a + s = now - F /\ FirstSymbol(a) = N * a
  BY <1>1 DEF Closing, FirstSymbol
<1>8. G = -F
  OBVIOUS
<1>9. n >= 0
  BY <1>1
<1> HIDE DEF N, F, h, n, r, f, u, G, g, v
<1>10. N * a \in Int /\ N * n \in Int /\ N * f \in Int /\ N * g \in Int
  BY <1>1, <1>3, <1>4, <1>5
<1>11. a =< n - f
  <2>1. N * a =< N * n - N * f + (N - 1)
    BY <1>1, <1>3, <1>4, <1>7, <1>10
  <2>2. SUFFICES ASSUME a >= n - f + 1 PROVE FALSE
    BY <1>3, <1>4
  <2>3. N * a >= N * (n - f + 1)
    BY <1>1, <1>3, <1>4, <2>2
  <2>4. N * (n - f + 1) = N * n - N * f + N
    BY <1>1, <1>3, <1>4
  <2>. QED  BY <1>1, <1>10, <2>1, <2>3, <2>4
<1>12. a >= n + g
  <2>1. N * a >= N * n + N * g - (N - 1)
    BY <1>1, <1>3, <1>5, <1>7, <1>8, <1>10
  <2>2. SUFFICES ASSUME a =< n + g - 1 PROVE FALSE
    BY <1>3, <1>5
  <2>3. N * a =< N * (n + g - 1)
    BY <1>1, <1>3, <1>5, <2>2
  <2>4. N * (n + g - 1) = N * n + N * g - N
    BY <1>1, <1>3, <1>5
  <2>. QED  BY <1>1, <1>10, <2>1, <2>3, <2>4
<1>13. (n + lead) - a \in (-h) .. (Period - h - 1)
  BY <1>1, <1>2, <1>3, <1>4, <1>5, <1>6, <1>11, <1>12
<1>14. FirstSymbol(a) > now
  BY <1>1, <1>6, <1>7, <1>10
<1>15. n + lead \in Nat
  BY <1>1, <1>3, <1>9
<1>. QED  BY <1>13, <1>14, <1>15 DEF n, N, h

\* In SDR mode and a timely environment a grid is pushed ahead of its air time and,
\* while the applied offset is the true one, under the number that the radio gives to its slot, across the wraps of the wire
\* numbering and of the radio's.
THEOREM DownlinkPushedToItsSlot == Timely /\ SdrLeads /\ Spec => PushedToItsSlot
<1> SUFFICES ASSUME Timely, SdrLeads PROVE Spec => PushedToItsSlot
  OBVIOUS
<1>1. ASSUME TimelyInv, [Next]_vars, NEW p \in radio' \ radio
      PROVE  p.air * NofSymbols > now' /\ (offset = AlignedOffset => p.slot = RadioSlot(p.air))
  <2> DEFINE context == entries[ClosingIndex][ClosingSymbol]
             a == context.air
  <2>1. Next => CloseSymbol \/ radio' \subseteq radio
    BY ZenonT(30)
    DEF Next, RxStep, TimingStep, CplaneArrives, UplaneArrives, RxDrain, RxRun, RxFindGrid, RxAdd,
        UplaneWrite, OnNewSymbol, TimingDrain, TimingRun, OffsetMeasured, RadioDone
  <2>2. CloseSymbol
    BY <1>1, <2>1 DEF vars
  <2>3. context \in Contexts /\ Completed(context)
    BY <1>1, <2>2, CloseSteps
  <2>4. timing.pc # "idle" /\ now' = now
    BY <2>2 DEF CloseSymbol
  <2>5. /\ ClosingIndex \in Indices /\ ClosingSymbol \in Symbols
        /\ FirstSymbol(a) + ClosingSymbol = Closing(now)
    BY <1>1, <2>3, <2>4, ClosingContext
  <2>6. a \in Nat /\ context.slot = a % Period /\ now \in Nat
    BY <1>1, <2>3, <2>5, ContextNumbers DEF TimelyInv, KeyedInv, TypeOK
  <2> HIDE DEF context
  <2>7. offset # NoOffset /\ \E lead \in TtiLeads :
          p = [grid |-> context.grid, air |-> a,
               slot |-> WireToRadio(context.slot, offset, RadioSlot((now \div NofSymbols) + lead))]
    BY <1>1, <2>3 DEF Completed
  <2>8. PICK lead \in TtiLeads :
          p = [grid |-> context.grid, air |-> a,
               slot |-> WireToRadio(context.slot, offset, RadioSlot((now \div NofSymbols) + lead))]
    BY <2>7
  <2>9. p.air = a /\ p.slot = WireToRadio(a % Period, offset, RadioSlot((now \div NofSymbols) + lead))
    BY <2>6, <2>8
  <2> DEFINE q == (now \div NofSymbols) + lead
  <2> HIDE DEF a
  <2>10. /\ q - a \in (-(Period \div 2)) .. (Period - (Period \div 2) - 1)
         /\ FirstSymbol(a) > now /\ q \in Nat
    BY <2>5, <2>6, ClosingNear
  <2>11. offset = AlignedOffset => p.slot = WireToRadio(a % Period, AlignedOffset, RadioSlot(q))
    BY <2>9
  <2> HIDE DEF q
  <2>12. offset = AlignedOffset => p.slot = RadioSlot(a)
    BY <2>6, <2>10, <2>11, NearestRadioSlot
  <2>. QED  BY <2>4, <2>9, <2>10, <2>12 DEF FirstSymbol
<1>2. ASSUME TimelyInv, [Next]_vars
      PROVE  \A r \in radio' \ radio :
               /\ r.air * NofSymbols > now'
               /\ offset = AlignedOffset => r.slot = RadioSlot(r.air)
  BY <1>1, <1>2
<1>. QED  BY <1>2, SpecTimely, PTL DEF Spec, PushedToItsSlot
=============================================================================
