---------------------------- MODULE FrameTransmit ----------------------------
(***************************************************************************)
(* The uplink transmit path: replies are encoded into Ethernet frames that *)
(* wait in a frame pool until the transmit window (Ta3) of their symbol is *)
(* open.                                                                   *)
(*                                                                         *)
(* Three threads meet here.  The timing thread hands a drain task to the   *)
(* transmit executor for every OTA symbol; the radio thread hands it the   *)
(* encoding of a captured uplink symbol, and encodes PRACH itself; the     *)
(* single worker of the executor runs the tasks in their order.  Without a *)
(* radio (the loopback mode) the receive thread takes the place of the     *)
(* radio thread: it replies to a whole Control-Plane message at once, as a *)
(* rule before the message's symbols are on air.                           *)
(*                                                                         *)
(* There is one pool for uplink and one for PRACH, each with an entry per  *)
(* symbol of a frame.  The state of a buffer and the lists of its entry    *)
(* change in separate steps.  The lists are sets: nothing depends on their *)
(* order.  A frame always holds a section: the frame size is fixed in the  *)
(* code.  One uplink eAxC is modelled: in the code each one queues an      *)
(* encoding of its own and fills the same entries of the pool.             *)
(*                                                                         *)
(* Time is `now', the absolute OTA symbol last notified.                   *)
(***************************************************************************)
EXTENDS Integers, Sequences, FiniteSets

CONSTANTS NofSymbols,   \* OFDM symbols per slot
          FrameSlots,   \* slots of a radio frame: an entry comes round again
          Ids,          \* buffers of an entry
          Fragments,    \* frames one uplink symbol is split into
          UlSymbols,    \* symbols of an uplink Control-Plane message
          PrachSymbols, \* symbols of a PRACH occasion
          TxStart,      \* tx_window_start_symbols
          TxEnd,        \* tx_window_end_symbols
          QueueSize,    \* tasks the transmit executor holds
          UlDelays,     \* symbols from the air time of an uplink symbol to its capture
          PrachDelays,  \* symbols from the first symbol of an occasion to its capture
          UlLeads,      \* loopback: symbols from an uplink message to its first symbol
          PrachLeads,   \* loopback: symbols from a PRACH message to its first symbol
          SkipsTicks,   \* TRUE: the timing thread may miss a symbol
          MaxLag,       \* symbols the worker may be behind the timing thread
          StallsRadio,  \* TRUE: the encoding of PRACH may take any number of symbols
          MaxNow        \* bound: last absolute symbol notified

ASSUME FrameAssumption ==
  /\ NofSymbols \in Nat \ {0}
  /\ FrameSlots \in Nat \ {0}
  /\ Fragments \in Nat \ {0}
  /\ UlSymbols \in Nat \ {0}
  /\ PrachSymbols \in Nat \ {0}
  /\ TxStart \in Nat
  /\ TxEnd \in Nat
  /\ QueueSize \in Nat
  /\ UlDelays \subseteq Nat
  /\ PrachDelays \subseteq Nat
  /\ UlLeads \subseteq Int
  /\ PrachLeads \subseteq Int
  /\ SkipsTicks \in BOOLEAN
  /\ MaxLag \in Nat
  /\ StallsRadio \in BOOLEAN
  /\ MaxNow \in Nat

VARIABLES state,     \* frame_buffer::state of every buffer
          stamp,     \* history: absolute symbol of the frame a buffer holds;
                     \* the O-RU never reads reservation_symbol_point
          free,      \* the free_lists
          pending,   \* the pending_lists
          tasks,     \* task queue of the transmit executor
          pc,        \* what the encoders and the drain of the worker do
          hand,      \* the buffer each of them holds
          burst,     \* read_frames: the frames collected by the drain
          job,       \* per encoder, its symbol and the frames left
          drain,     \* OTA symbol of the drain and the entry it has come to
          now,       \* absolute symbol last notified
          captured,  \* per kind, the last symbol replied to
          sent       \* history: the frames sent by the last step

pool == <<state, stamp, free, pending>>
steps == <<pc, hand, burst, job, drain>>
vars == <<pool, tasks, steps, now, captured, sent>>

Kinds == {"uplink", "prach"}

\* The uplink encoder and the drain run on the worker of the executor, the
\* PRACH encoder on the radio thread.
Actors == Kinds \cup {"drain"}

Entries == 0 .. (FrameSlots * NofSymbols - 1)

\* A buffer: its pool, its entry and its number in the entry.
Buffers == [kind : Kinds, entry : Entries, id : Ids]

NoBuffer == [kind |-> "none"]

States == {"free", "reserved", "pending", "queued"}

Jobs == [symbol : Int, left : Nat, since : Nat]

NoJob == [symbol |-> 0, left |-> 0, since |-> 0]

\* A task, the symbol it is for and the frames it is to build.
Tasks == [op : {"encode", "drain"}, at : Nat, frames : Nat]

DrainTask(t) == [op |-> "drain", at |-> t, frames |-> 0]

TypeOK ==
  /\ state \in [Buffers -> States]
  /\ stamp \in [Buffers -> Int]
  /\ free \subseteq Buffers
  /\ pending \subseteq Buffers
  /\ tasks \in Seq(Tasks)
  /\ Len(tasks) =< QueueSize
  /\ pc \in [Actors -> {"idle", "reserve", "fill", "collect", "queue", "send", "release", "push"}]
  /\ hand \in [Actors -> Buffers \cup {NoBuffer}]
  /\ burst \subseteq Buffers
  /\ job \in [Kinds -> Jobs]
  /\ drain \in [at : Nat, next : Int, kind : Kinds]
  /\ now \in Nat
  /\ captured \in [Kinds -> Nat \cup {-1}]
  /\ sent \subseteq [at : Nat, kind : Kinds, symbol : Int]

Init ==
  /\ state = [b \in Buffers |-> "free"]
  /\ stamp = [b \in Buffers |-> 0]
  /\ free = Buffers
  /\ pending = {}
  /\ tasks = << >>
  /\ pc = [a \in Actors |-> "idle"]
  /\ hand = [a \in Actors |-> NoBuffer]
  /\ burst = {}
  /\ job = [k \in Kinds |-> NoJob]
  /\ drain = [at |-> 0, next |-> 0, kind |-> "uplink"]
  /\ now = 0
  /\ captured = [k \in Kinds |-> -1]
  /\ sent = {}
-----------------------------------------------------------------------------
\* Mutant: the slot is left out of the index.
EntryOfSymbol(symbol) == symbol % NofSymbols

\* get_pool_entry(): slot within the frame, and symbol.
EntryOf(symbol) ==
  (((symbol \div NofSymbols) % FrameSlots) * NofSymbols) + (symbol % NofSymbols)

\* The buffers of a list in the entry of a symbol.
InEntry(list, kind, symbol) == {b \in list : b.kind = kind /\ b.entry = EntryOf(symbol)}

\* Mutant: the queue has no limit.
DeferredAlways(task) == Append(tasks, task)

\* task_executor::defer(): when the queue is full the task is dropped.
Deferred(task) == IF Len(tasks) < QueueSize THEN Append(tasks, task) ELSE tasks

\* Mutant: a buffer that goes out of scope is freed, whatever it holds.
AlwaysFreed(b) == "free"

\* The state of a buffer that goes out of scope: update_state().
Released(b) == IF state[b] = "reserved" THEN "pending" ELSE "free"

\* An encoder begins a message of so many frames.
Begin(kind, symbol, frames) ==
  /\ pc' = [pc EXCEPT ![kind] = "reserve"]
  /\ job' = [job EXCEPT ![kind] = [symbol |-> symbol, left |-> frames, since |-> now]]
  /\ UNCHANGED <<hand, burst, drain>>

\* PRACH goes on to the next symbol; uplink to the next fragment, and after the
\* last fragment of a symbol to the next symbol.
NextFrame(kind) ==
  [symbol |-> job[kind].symbol
                + (IF kind = "prach" \/ (job[kind].left - 1) % Fragments = 0 THEN 1 ELSE 0),
   left |-> job[kind].left - 1, since |-> job[kind].since]

\* The steps of an encoder.  reserve() pops a free buffer; without one the rest
\* of the message is given up.
Reserve(kind) ==
  LET available == InEntry(free, kind, job[kind].symbol)
  IN  /\ pc[kind] = "reserve"
      /\ \/ /\ available = {}
            /\ pc' = [pc EXCEPT ![kind] = "idle"]
            /\ UNCHANGED <<free, hand>>
         \/ \E b \in available :
              /\ pc' = [pc EXCEPT ![kind] = "fill"]
              /\ hand' = [hand EXCEPT ![kind] = b]
              /\ free' = free \ {b}
      /\ sent' = {}
      /\ UNCHANGED <<state, stamp, pending, tasks, burst, job, drain, now, captured>>

\* The buffer becomes reserved and is stamped; then the frame is written.
Fill(kind) ==
  /\ pc[kind] = "fill"
  /\ pc' = [pc EXCEPT ![kind] = "release"]
  /\ state' = [state EXCEPT ![hand[kind]] = "reserved"]
  /\ stamp' = [stamp EXCEPT ![hand[kind]] = job[kind].symbol]
  /\ sent' = {}
  /\ UNCHANGED <<free, pending, tasks, hand, burst, job, drain, now, captured>>

\* The scope of the buffer ends: first its state changes ...
Release(kind) ==
  /\ pc[kind] = "release"
  /\ pc' = [pc EXCEPT ![kind] = "push"]
  /\ state' = [state EXCEPT ![hand[kind]] = Released(hand[kind])]
  /\ sent' = {}
  /\ UNCHANGED <<stamp, free, pending, tasks, hand, burst, job, drain, now, captured>>

\* ... then it is pushed to the pending list, and the next frame begins.
Push(kind) ==
  /\ pc[kind] = "push"
  /\ pc' = [pc EXCEPT ![kind] = IF job[kind].left > 1 THEN "reserve" ELSE "idle"]
  /\ pending' = pending \cup {hand[kind]}
  /\ hand' = [hand EXCEPT ![kind] = NoBuffer]
  /\ job' = [job EXCEPT ![kind] = IF job[kind].left > 1 THEN NextFrame(kind) ELSE NoJob]
  /\ sent' = {}
  /\ UNCHANGED <<state, stamp, free, tasks, burst, drain, now, captured>>

Encode(kind) == Reserve(kind) \/ Fill(kind) \/ Release(kind) \/ Push(kind)
-----------------------------------------------------------------------------
\* Timing thread: ru_ota_symbol_task_dispatcher::on_new_symbol.
OnNewSymbol ==
  \E elapsed \in (IF SkipsTicks THEN {1, 2} ELSE {1}) :
    LET t == now + elapsed
    IN  /\ t =< MaxNow
        /\ \A k \in 1 .. Len(tasks) : tasks[k].op = "drain" => t - tasks[k].at =< MaxLag
        /\ pc["drain"] = "idle" \/ t - drain.at =< MaxLag
        /\ StallsRadio \/ pc["prach"] = "idle" \/ job["prach"].since = now
        /\ now' = t
        /\ tasks' = Deferred(DrainTask(t))
        /\ sent' = {}
        /\ UNCHANGED <<pool, steps, captured>>

\* Timing thread: a poll within the symbol already notified.
PollAgain == sent' = {} /\ UNCHANGED <<pool, tasks, steps, now, captured>>

\* ru_uplink_task_dispatcher: the encoding of `symbols' symbols is deferred.
EnqueueUplink(symbol, symbols) ==
  /\ symbol > captured["uplink"]
  /\ captured' = [captured EXCEPT !["uplink"] = symbol + symbols - 1]
  /\ tasks' = Deferred([op |-> "encode", at |-> symbol, frames |-> symbols * Fragments])
  /\ sent' = {}
  /\ UNCHANGED <<pool, steps, now>>

\* PRACH is encoded in place.  A reply that is refused for its SCS or its section
\* size takes no buffer: it is not a step.
EnqueuePrach(symbol) ==
  /\ pc["prach"] = "idle"
  /\ symbol > captured["prach"]
  /\ captured' = [captured EXCEPT !["prach"] = symbol + PrachSymbols - 1]
  /\ Begin("prach", symbol, PrachSymbols)
  /\ sent' = {}
  /\ UNCHANGED <<pool, tasks, now>>

\* Radio thread: the replies to a captured uplink symbol and PRACH window.
UplinkCaptured == \E delay \in UlDelays : EnqueueUplink(now - delay, 1)

PrachCaptured == \E delay \in PrachDelays : EnqueuePrach(now - delay)

\* Receive thread in loopback mode: the reply to an uplink Control-Plane message
\* (dropped, and not a step, when the pool has no grid for it) ...
UplinkScheduled == \E lead \in UlLeads : EnqueueUplink(now + lead, UlSymbols)

\* ... and to a PRACH message (dropped when filter and SCS do not fit).
PrachScheduled == \E lead \in PrachLeads : EnqueuePrach(now + lead)

\* Mutant: the first symbol of the interval is left out.
WindowStartClosed(at) == at - TxStart + 1

\* The first symbol of the interval a drain covers.
WindowStart(at) == at - TxStart

\* The worker takes the next task.
TakeTask ==
  LET task == Head(tasks)
  IN  /\ pc["drain"] = "idle"
      /\ pc["uplink"] = "idle"
      /\ tasks # << >>
      /\ tasks' = Tail(tasks)
      /\ \/ task.op = "encode" /\ Begin("uplink", task.at, task.frames)
         \/ /\ task.op = "drain"
            /\ pc' = [pc EXCEPT !["drain"] = "collect"]
            /\ drain' = [at |-> task.at, next |-> WindowStart(task.at), kind |-> "uplink"]
            /\ UNCHANGED <<hand, burst, job>>
      /\ sent' = {}
      /\ UNCHANGED <<pool, now, captured>>

\* Mutant: one symbol too many at the end of the interval.
WindowEndOpen(at) == at - TxEnd + 1

\* The last symbol of the interval a drain covers.
WindowEnd(at) == at - TxEnd

\* The pending frames of the entry the drain has come to; none beyond the end.
Waiting ==
  {b \in InEntry(pending, drain.kind, drain.next) : drain.next =< WindowEnd(drain.at)}

\* Mutant: the buffer stays in the pending list.
DrainPeek ==
  /\ pc["drain"] = "collect"
  /\ \E b \in Waiting : hand' = [hand EXCEPT !["drain"] = b]
  /\ pc' = [pc EXCEPT !["drain"] = "queue"]
  /\ sent' = {}
  /\ UNCHANGED <<pool, tasks, burst, job, drain, now, captured>>

\* enqueue_pending_into_burst(): the entries of the interval, uplink then PRACH.
\* A pending buffer is popped ...
DrainPop ==
  /\ pc["drain"] = "collect"
  /\ \E b \in Waiting :
       /\ pending' = pending \ {b}
       /\ hand' = [hand EXCEPT !["drain"] = b]
  /\ pc' = [pc EXCEPT !["drain"] = "queue"]
  /\ sent' = {}
  /\ UNCHANGED <<state, stamp, free, tasks, burst, job, drain, now, captured>>

\* ... and becomes queued.
DrainQueue ==
  /\ pc["drain"] = "queue"
  /\ pc' = [pc EXCEPT !["drain"] = "collect"]
  /\ state' = [state EXCEPT ![hand["drain"]] = "queued"]
  /\ burst' = burst \cup {hand["drain"]}
  /\ hand' = [hand EXCEPT !["drain"] = NoBuffer]
  /\ sent' = {}
  /\ UNCHANGED <<stamp, free, pending, tasks, job, drain, now, captured>>

\* Nothing is left in the entry: the next one, the PRACH pool, or the end.
DrainNext ==
  /\ pc["drain"] = "collect"
  /\ Waiting = {}
  /\ \/ /\ drain.next < WindowEnd(drain.at)
        /\ drain' = [at |-> drain.at, next |-> drain.next + 1, kind |-> drain.kind]
        /\ UNCHANGED pc
     \/ /\ drain.next >= WindowEnd(drain.at)
        /\ drain.kind = "uplink"
        /\ drain' = [at |-> drain.at, next |-> WindowStart(drain.at), kind |-> "prach"]
        /\ UNCHANGED pc
     \/ /\ drain.next >= WindowEnd(drain.at)
        /\ drain.kind = "prach"
        /\ pc' = [pc EXCEPT !["drain"] = "send"]
        /\ UNCHANGED drain
  /\ sent' = {}
  /\ UNCHANGED <<pool, tasks, hand, burst, job, now, captured>>

\* The burst goes out in one send; an empty one does not.
Send ==
  /\ pc["drain"] = "send"
  /\ pc' = [pc EXCEPT !["drain"] = IF burst = {} THEN "idle" ELSE "release"]
  /\ sent' = {[at |-> drain.at, kind |-> b.kind, symbol |-> stamp[b]] : b \in burst}
  /\ UNCHANGED <<pool, tasks, hand, burst, job, drain, now, captured>>

\* The buffers of the burst go out of scope, one after the other.
ReleaseSent ==
  /\ pc["drain"] = "release"
  /\ \E b \in burst :
       /\ state' = [state EXCEPT ![b] = Released(b)]
       /\ stamp' = [stamp EXCEPT ![b] = 0]
       /\ burst' = burst \ {b}
       /\ hand' = [hand EXCEPT !["drain"] = b]
  /\ pc' = [pc EXCEPT !["drain"] = "push"]
  /\ sent' = {}
  /\ UNCHANGED <<free, pending, tasks, job, drain, now, captured>>

PushSent ==
  /\ pc["drain"] = "push"
  /\ pc' = [pc EXCEPT !["drain"] = IF burst = {} THEN "idle" ELSE "release"]
  /\ free' = free \cup {hand["drain"]}
  /\ hand' = [hand EXCEPT !["drain"] = NoBuffer]
  /\ sent' = {}
  /\ UNCHANGED <<state, stamp, pending, tasks, burst, job, drain, now, captured>>

WorkerStep ==
  TakeTask \/ DrainPop \/ DrainQueue \/ DrainNext \/ Send \/ ReleaseSent \/ PushSent

Next ==
  \/ OnNewSymbol
  \/ PollAgain
  \/ UplinkCaptured
  \/ PrachCaptured
  \/ UplinkScheduled
  \/ PrachScheduled
  \/ \E kind \in Kinds : Encode(kind)
  \/ WorkerStep

Spec == Init /\ [][Next]_vars
-----------------------------------------------------------------------------
(* The environment the O-RU is specified for: no symbol is missed, every reply
   comes, and PRACH is encoded, before the last drain of its window is handed
   over, and neither does a reply come so early, nor is the worker so far behind,
   that the window meets the entries of the next frame.  The executor holds the
   encodings of a frame and the drains that lag, for the one uplink eAxC that is
   modelled: the code queues an encoding per eAxC. *)
Timely ==
  /\ ~SkipsTicks
  /\ ~StallsRadio
  /\ TxEnd =< TxStart
  /\ UlDelays \subseteq 0 .. (TxStart - 1)
  /\ PrachDelays \subseteq (PrachSymbols - 1) .. (TxStart - 2)
  /\ \A lead \in UlLeads :
       lead > -TxStart /\ TxStart + MaxLag + lead + UlSymbols =< FrameSlots * NofSymbols
  /\ \A lead \in PrachLeads :
       lead > 1 - TxStart /\ TxStart + MaxLag + lead + PrachSymbols =< FrameSlots * NofSymbols
  /\ TxStart + MaxLag < FrameSlots * NofSymbols
  /\ FrameSlots * NofSymbols + MaxLag + 1 < QueueSize

\* An entry of the pool holds the frames of a symbol.
EnoughBuffers == IsFiniteSet(Ids) /\ Fragments =< Cardinality(Ids)

Lists == {"free", "pending", "burst"}

Owns(owner, b) ==
  \/ owner = "free" /\ b \in free
  \/ owner = "pending" /\ b \in pending
  \/ owner = "burst" /\ b \in burst
  \/ owner \in Actors /\ b = hand[owner]

\* Every buffer has exactly one owner: it is in one list, in the burst being
\* sent or in the hands of one thread.  None is lost, and none is written by an
\* encoder while the worker sends it.
OneOwner ==
  \A b \in Buffers : \E o \in Lists \cup Actors : \A p \in Lists \cup Actors : Owns(p, b) <=> p = o

\* The state of a buffer is the one the pool's checks expect when a list or the
\* burst gives it up, although state and lists change in separate steps.
ListedInItsState ==
  /\ \A b \in free : state[b] = "free"
  /\ \A b \in pending : state[b] = "pending"
  /\ \A b \in burst : state[b] = "queued"

\* A frame goes out with a drain of its own transmit window, the drain of an OTA
\* symbol between TxEnd and TxStart symbols after its own.  The worker runs the
\* drain up to MaxLag symbols later: this is not the time of sending.  The code, its
\* header and its tests have the window after the symbol; ARCHITECTURE.md:259 writes
\* it with the opposite sign, from s - tx_window_start to s - tx_window_end.
SentInWindow == \A f \in sent : f.at - f.symbol \in TxEnd .. TxStart

\* An encoder always finds a free buffer: the frames an entry held for the
\* previous frame have gone out and come back.
ReservationSucceeds ==
  \A k \in Kinds :
    pc[k] = "reserve" => InEntry(free, k, job[k].symbol) # {}

\* A drain of symbol t is still to come after the first n tasks of the queue.
DrainAhead(t, n) ==
  now < t \/ \E k \in (n + 1) .. Len(tasks) : tasks[k] = DrainTask(t)

\* No reply misses its window: the last drain that can send it is still to come
\* for every encoding in the task queue, and for every frame that waits in a pool
\* unless that drain is at work.
NothingOverdue ==
  /\ \A k \in 1 .. Len(tasks) :
       tasks[k].op = "encode" => DrainAhead(tasks[k].at + TxStart, k)
  /\ \A b \in pending :
       \/ DrainAhead(stamp[b] + TxStart, 0)
       \/ pc["drain"] \in {"collect", "queue"} /\ drain.at = stamp[b] + TxStart
=============================================================================
