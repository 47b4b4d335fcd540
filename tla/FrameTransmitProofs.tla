------------------------- MODULE FrameTransmitProofs -------------------------
(***************************************************************************)
(* Proofs about FrameTransmit, for any number of buffers, entries and      *)
(* tasks and without any assumption on delays, stalls or missed symbols.   *)
(***************************************************************************)
EXTENDS FrameTransmit, TLAPS

\* The steps at which an actor holds a buffer, and its state there.
Hands ==
  /\ \A k \in Kinds :
       /\ pc[k] \in {"idle", "reserve", "fill", "release", "push"}
       /\ pc[k] \in {"fill", "release", "push"} <=> hand[k] # NoBuffer
       /\ pc[k] = "release" => state[hand[k]] = "reserved"
       /\ pc[k] = "push" => state[hand[k]] = "pending"
  /\ pc["drain"] \in {"idle", "collect", "queue", "send", "release", "push"}
  /\ pc["drain"] \in {"queue", "push"} <=> hand["drain"] # NoBuffer
  /\ pc["drain"] = "push" => state[hand["drain"]] = "free"

\* OneOwner, spelled out: the lists are disjoint and hold no buffer an actor
\* holds, no two actors hold the same one, and every buffer is somewhere.
Apart ==
  /\ free \cap pending = {} /\ free \cap burst = {} /\ pending \cap burst = {}
  /\ \A a \in Actors : hand[a] \notin free \cup pending \cup burst
  /\ \A a, c \in Actors : hand[a] = hand[c] /\ hand[a] # NoBuffer => a = c
  /\ \A b \in Buffers : b \in free \cup pending \cup burst \/ \E a \in Actors : hand[a] = b

IInv == TypeOK /\ Hands /\ ListedInItsState /\ Apart

\* NoBuffer is none of the buffers.
LEMMA NoBufferApart == NoBuffer \notin Buffers
  BY DEF NoBuffer, Buffers, Kinds

\* The spelled-out form implies the property the runs check.
LEMMA ApartIsOneOwner == Apart => OneOwner
<1> SUFFICES ASSUME Apart, NEW b \in Buffers
             PROVE  \E o \in Lists \cup Actors :
                      \A p \in Lists \cup Actors : Owns(p, b) <=> p = o
  BY DEF OneOwner
<1>0. /\ Lists = {"free", "pending", "burst"}
      /\ Actors = {"uplink", "prach", "drain"}
  BY DEF Lists, Actors, Kinds
<1>1. /\ Owns("free", b) <=> b \in free
      /\ Owns("pending", b) <=> b \in pending
      /\ Owns("burst", b) <=> b \in burst
      /\ \A a \in Actors : Owns(a, b) <=> b = hand[a]
  BY <1>0 DEF Owns
<1>2. CASE b \in free
  BY <1>0, <1>1, <1>2 DEF Apart
<1>3. CASE b \in pending
  BY <1>0, <1>1, <1>3 DEF Apart
<1>4. CASE b \in burst
  BY <1>0, <1>1, <1>4 DEF Apart
<1>5. ASSUME NEW a \in Actors, hand[a] = b
      PROVE  \A p \in Lists \cup Actors : Owns(p, b) <=> p = a
  BY <1>0, <1>1, <1>5, NoBufferApart DEF Apart
<1> QED
  BY <1>2, <1>3, <1>4, <1>5 DEF Apart

LEMMA InitIInv == Init => IInv
<1> SUFFICES ASSUME Init PROVE IInv
  OBVIOUS
<1>1. TypeOK
  BY FrameAssumption DEF Init, TypeOK, States, Jobs, NoJob, Tasks, Kinds, Actors
<1>2. Hands /\ ListedInItsState
  BY DEF Init, Hands, ListedInItsState, Actors, Kinds
<1>3. Apart
  BY NoBufferApart DEF Init, Apart
<1> QED
  BY <1>1, <1>2, <1>3 DEF IInv

LEMMA ActorNames ==
  /\ Kinds \subseteq Actors
  /\ "drain" \in Actors /\ "uplink" \in Kinds /\ "prach" \in Kinds
  /\ "drain" \notin Kinds
  /\ Actors = {"uplink", "prach", "drain"}
  BY DEF Actors, Kinds

LEMMA DeferredType ==
  ASSUME TypeOK, NEW task \in Tasks
  PROVE  Deferred(task) \in Seq(Tasks) /\ Len(Deferred(task)) =< QueueSize
  BY FrameAssumption DEF TypeOK, Deferred

LEMMA BeginType ==
  ASSUME TypeOK, NEW kind \in Kinds, NEW symbol \in Int, NEW frames \in Nat,
         Begin(kind, symbol, frames)
  PROVE  /\ pc' \in [Actors -> {"idle", "reserve", "fill", "collect", "queue", "send",
                                "release", "push"}]
         /\ job' \in [Kinds -> Jobs]
         /\ UNCHANGED <<hand, burst, drain>>
  BY ActorNames DEF TypeOK, Begin, Jobs

LEMMA EncodeType ==
  ASSUME TypeOK, Hands, NEW kind \in Kinds, Encode(kind)
  PROVE  TypeOK'
<1> USE ActorNames
<1>1. CASE Reserve(kind)
  BY <1>1 DEF TypeOK, Reserve, InEntry
<1>2. CASE Fill(kind)
  BY <1>2 DEF TypeOK, Fill, States, Jobs
<1>3. CASE Release(kind)
  BY <1>3 DEF TypeOK, Release, Released, States
<1>4. CASE Push(kind)
  <2>1. job' \in [Kinds -> Jobs]
    BY <1>4 DEF TypeOK, Push, NextFrame, NoJob, Jobs
  <2>2. hand[kind] \in Buffers
    BY <1>4 DEF TypeOK, Push, Hands
  <2> QED
    BY <1>4, <2>1, <2>2 DEF TypeOK, Push
<1> QED
  BY <1>1, <1>2, <1>3, <1>4 DEF Encode

\* A reply is handed over, on the radio or on the receive thread.
Replies == UplinkCaptured \/ PrachCaptured \/ UplinkScheduled \/ PrachScheduled

LEMMA EnqueueUplinkType ==
  ASSUME TypeOK, NEW symbol \in Int, NEW symbols \in Nat \ {0}, EnqueueUplink(symbol, symbols)
  PROVE  TypeOK'
<1> USE FrameAssumption, ActorNames DEF pool, steps
<1>1. captured["uplink"] \in Int /\ captured["uplink"] >= -1
  BY DEF TypeOK
<1>2. symbol \in Nat /\ symbol + symbols - 1 \in Nat
  BY <1>1 DEF EnqueueUplink
<1>3. symbols * Fragments \in Nat
  OBVIOUS
<1>4. [op |-> "encode", at |-> symbol, frames |-> symbols * Fragments] \in Tasks
  BY <1>2, <1>3 DEF Tasks
<1> QED
  BY <1>2, <1>4, DeferredType DEF TypeOK, EnqueueUplink

LEMMA EnqueuePrachType ==
  ASSUME TypeOK, NEW symbol \in Int, EnqueuePrach(symbol)
  PROVE  TypeOK'
<1> USE FrameAssumption, ActorNames DEF pool
<1>1. captured["prach"] \in Int /\ captured["prach"] >= -1
  BY DEF TypeOK
<1>2. symbol + PrachSymbols - 1 \in Nat /\ PrachSymbols \in Nat
  BY <1>1 DEF EnqueuePrach
<1>3. /\ pc' \in [Actors -> {"idle", "reserve", "fill", "collect", "queue", "send",
                             "release", "push"}]
      /\ job' \in [Kinds -> Jobs]
      /\ UNCHANGED <<hand, burst, drain>>
  BY <1>2, BeginType DEF EnqueuePrach
<1> QED
  BY <1>2, <1>3 DEF TypeOK, EnqueuePrach

LEMMA EnvironmentType ==
  ASSUME TypeOK, OnNewSymbol \/ PollAgain \/ Replies
  PROVE  TypeOK'
<1> USE FrameAssumption, ActorNames DEF pool, steps
<1>1. CASE OnNewSymbol
  <2>1. PICK elapsed \in {1, 2} :
          /\ now' = now + elapsed
          /\ tasks' = Deferred(DrainTask(now + elapsed))
          /\ sent' = {}
          /\ UNCHANGED <<pool, steps, captured>>
    BY <1>1 DEF OnNewSymbol
  <2>2. DrainTask(now + elapsed) \in Tasks
    BY DEF TypeOK, Tasks, DrainTask
  <2> QED
    BY <2>1, <2>2, DeferredType DEF TypeOK
<1>2. CASE PollAgain
  BY <1>2 DEF PollAgain, TypeOK
<1>3. CASE UplinkCaptured
  <2>1. PICK delay \in UlDelays : EnqueueUplink(now - delay, 1)
    BY <1>3 DEF UplinkCaptured
  <2>2. now - delay \in Int
    BY DEF TypeOK
  <2> QED
    BY <2>1, <2>2, EnqueueUplinkType
<1>4. CASE PrachCaptured
  <2>1. PICK delay \in PrachDelays : EnqueuePrach(now - delay)
    BY <1>4 DEF PrachCaptured
  <2>2. now - delay \in Int
    BY DEF TypeOK
  <2> QED
    BY <2>1, <2>2, EnqueuePrachType
<1>5. CASE UplinkScheduled
  <2>1. PICK lead \in UlLeads : EnqueueUplink(now + lead, UlSymbols)
    BY <1>5 DEF UplinkScheduled
  <2>2. now + lead \in Int
    BY DEF TypeOK
  <2> QED
    BY <2>1, <2>2, EnqueueUplinkType
<1>6. CASE PrachScheduled
  <2>1. PICK lead \in PrachLeads : EnqueuePrach(now + lead)
    BY <1>6 DEF PrachScheduled
  <2>2. now + lead \in Int
    BY DEF TypeOK
  <2> QED
    BY <2>1, <2>2, EnqueuePrachType
<1> QED
  BY <1>1, <1>2, <1>3, <1>4, <1>5, <1>6 DEF Replies

LEMMA WorkerType ==
  ASSUME TypeOK, Hands, WorkerStep
  PROVE  TypeOK'
<1> USE ActorNames, FrameAssumption DEF pool
<1>1. CASE TakeTask
  <2>1. Head(tasks) \in Tasks /\ Tail(tasks) \in Seq(Tasks) /\ Len(Tail(tasks)) =< QueueSize
    BY <1>1 DEF TakeTask, TypeOK
  <2>2. Head(tasks).at \in Nat /\ Head(tasks).frames \in Nat
    BY <2>1 DEF Tasks
  <2>3. CASE Begin("uplink", Head(tasks).at, Head(tasks).frames)
    <3>1. Head(tasks).at \in Int /\ Head(tasks).frames \in Nat
      BY <2>2
    <3>2. /\ pc' \in [Actors -> {"idle", "reserve", "fill", "collect", "queue", "send",
                                 "release", "push"}]
          /\ job' \in [Kinds -> Jobs]
          /\ UNCHANGED <<hand, burst, drain>>
      BY <2>3, <3>1, BeginType
    <3> QED
      BY <1>1, <2>1, <3>2 DEF TakeTask, TypeOK
  <2>4. CASE /\ pc' = [pc EXCEPT !["drain"] = "collect"]
             /\ drain' = [at |-> Head(tasks).at, next |-> Head(tasks).at - TxStart,
                          kind |-> "uplink"]
             /\ UNCHANGED <<hand, burst, job>>
    <3>1. pc' \in [Actors -> {"idle", "reserve", "fill", "collect", "queue", "send",
                              "release", "push"}]
      BY <2>4 DEF TypeOK
    <3>2. drain' \in [at : Nat, next : Int, kind : Kinds]
      BY <2>2, <2>4
    <3> QED
      BY <1>1, <2>1, <2>4, <3>1, <3>2 DEF TakeTask, TypeOK
  <2> QED
    BY <1>1, <2>3, <2>4 DEF TakeTask, WindowStart
<1>2. CASE DrainPop
  BY <1>2 DEF DrainPop, Waiting, InEntry, TypeOK
<1>3. CASE DrainQueue
  <2>1. hand["drain"] \in Buffers
    BY <1>3 DEF DrainQueue, Hands, TypeOK
  <2> QED
    BY <1>3, <2>1 DEF DrainQueue, TypeOK, States
<1>4. CASE DrainNext
  <2>1. drain' \in [at : Nat, next : Int, kind : Kinds]
    BY <1>4 DEF DrainNext, WindowStart, TypeOK
  <2>2. pc' \in [Actors -> {"idle", "reserve", "fill", "collect", "queue", "send",
                            "release", "push"}]
    BY <1>4 DEF DrainNext, WindowStart, TypeOK
  <2> QED
    BY <1>4, <2>1, <2>2 DEF DrainNext, WindowStart, TypeOK
<1>5. CASE Send
  <2>1. sent' \subseteq [at : Nat, kind : Kinds, symbol : Int]
    <3>1. \A b \in burst : b.kind \in Kinds /\ stamp[b] \in Int
      BY DEF TypeOK, Buffers
    <3>2. drain.at \in Nat
      BY DEF TypeOK
    <3> QED
      BY <1>5, <3>1, <3>2 DEF Send
  <2> QED
    BY <1>5, <2>1 DEF Send, TypeOK
<1>6. CASE ReleaseSent
  BY <1>6 DEF ReleaseSent, Released, TypeOK, States
<1>7. CASE PushSent
  <2>1. hand["drain"] \in Buffers
    BY <1>7 DEF PushSent, Hands, TypeOK
  <2> QED
    BY <1>7, <2>1 DEF PushSent, TypeOK
<1> QED
  BY <1>1, <1>2, <1>3, <1>4, <1>5, <1>6, <1>7 DEF WorkerStep

\* The part of the invariant about buffers, without types.
Safe == Hands /\ ListedInItsState /\ Apart

\* Beginning a message touches no buffer: an idle encoder holds none.
LEMMA BeginSafe ==
  ASSUME TypeOK, Safe, NEW kind \in Kinds, NEW symbol, NEW frames, pc[kind] = "idle",
         Begin(kind, symbol, frames), UNCHANGED pool
  PROVE  Safe'
<1> USE ActorNames DEF Safe, pool
<1>1. Hands'
  BY DEF TypeOK, Hands, Begin
<1>2. ListedInItsState' /\ Apart'
  BY DEF ListedInItsState, Apart, Begin
<1> QED
  BY <1>1, <1>2

LEMMA EncodeSafe ==
  ASSUME TypeOK, Safe, NEW kind \in Kinds, Encode(kind)
  PROVE  Safe'
<1> USE ActorNames DEF Safe
<1>1. CASE Reserve(kind)
  <2>0. pc[kind] = "reserve" /\ hand[kind] = NoBuffer
    BY <1>1 DEF Reserve, Hands
  <2>1. CASE pc' = [pc EXCEPT ![kind] = "idle"] /\ UNCHANGED <<free, hand>>
    <3>1. Hands'
      BY <1>1, <2>0, <2>1 DEF Reserve, TypeOK, Hands
    <3>2. ListedInItsState' /\ Apart'
      BY <1>1, <2>1 DEF Reserve, ListedInItsState, Apart
    <3> QED
      BY <3>1, <3>2
  <2>2. ASSUME NEW b \in free,
               pc' = [pc EXCEPT ![kind] = "fill"],
               hand' = [hand EXCEPT ![kind] = b],
               free' = free \ {b}
        PROVE  Safe'
    <3>0. b \in Buffers /\ b # NoBuffer
      BY NoBufferApart DEF TypeOK
    <3>1. Hands'
      BY <1>1, <2>0, <2>2, <3>0 DEF Reserve, TypeOK, Hands
    <3>2. ListedInItsState'
      BY <1>1, <2>2 DEF Reserve, ListedInItsState
    <3>3. Apart'
      BY <1>1, <2>0, <2>2, <3>0, NoBufferApart DEF Reserve, TypeOK, Apart
    <3> QED
      BY <3>1, <3>2, <3>3
  <2> QED
    BY <1>1, <2>1, <2>2 DEF Reserve, InEntry
<1>2. CASE Fill(kind)
  <2>0. hand[kind] \in Buffers /\ hand[kind] \notin free \cup pending \cup burst
    BY <1>2 DEF Fill, Hands, TypeOK, Apart
  <2>1. \A a \in Actors \ {kind} : hand[a] # hand[kind]
    BY <2>0, NoBufferApart DEF Apart
  <2>2. Hands'
    BY <1>2, <2>0, <2>1 DEF Fill, TypeOK, Hands
  <2>3. ListedInItsState'
    BY <1>2, <2>0 DEF Fill, TypeOK, ListedInItsState
  <2>4. Apart'
    BY <1>2 DEF Fill, Apart
  <2> QED
    BY <2>2, <2>3, <2>4
<1>3. CASE Release(kind)
  <2>0. /\ hand[kind] \in Buffers /\ hand[kind] \notin free \cup pending \cup burst
        /\ state[hand[kind]] = "reserved"
    BY <1>3 DEF Release, Hands, TypeOK, Apart
  <2>1. \A a \in Actors \ {kind} : hand[a] # hand[kind]
    BY <2>0, NoBufferApart DEF Apart
  <2>2. state' = [state EXCEPT ![hand[kind]] = "pending"]
    BY <1>3, <2>0 DEF Release, Released
  <2>3. Hands'
    BY <1>3, <2>0, <2>1, <2>2 DEF Release, TypeOK, Hands
  <2>4. ListedInItsState'
    BY <1>3, <2>0, <2>2 DEF Release, TypeOK, ListedInItsState
  <2>5. Apart'
    BY <1>3 DEF Release, Apart
  <2> QED
    BY <2>3, <2>4, <2>5
<1>4. CASE Push(kind)
  <2>0. /\ hand[kind] \in Buffers /\ hand[kind] \notin free \cup pending \cup burst
        /\ state[hand[kind]] = "pending"
    BY <1>4 DEF Push, Hands, TypeOK, Apart
  <2>1. \A a \in Actors \ {kind} : hand[a] # hand[kind]
    BY <2>0, NoBufferApart DEF Apart
  <2>2. Hands'
    BY <1>4 DEF Push, TypeOK, Hands
  <2>3. ListedInItsState'
    BY <1>4, <2>0 DEF Push, ListedInItsState
  <2>4. Apart'
    BY <1>4, <2>0, <2>1, NoBufferApart DEF Push, TypeOK, Apart
  <2> QED
    BY <2>2, <2>3, <2>4
<1> QED
  BY <1>1, <1>2, <1>3, <1>4 DEF Encode

LEMMA WorkerSafe ==
  ASSUME TypeOK, Safe, WorkerStep
  PROVE  Safe'
<1> USE ActorNames DEF Safe, pool
<1>1. CASE TakeTask
  <2>1. CASE Begin("uplink", Head(tasks).at, Head(tasks).frames)
    BY <1>1, <2>1, BeginSafe DEF TakeTask
  <2>2. CASE pc' = [pc EXCEPT !["drain"] = "collect"] /\ UNCHANGED <<hand, burst, job>>
    <3>1. Hands'
      BY <1>1, <2>2 DEF TakeTask, TypeOK, Hands
    <3>2. ListedInItsState' /\ Apart'
      BY <1>1, <2>2 DEF TakeTask, ListedInItsState, Apart
    <3> QED
      BY <3>1, <3>2
  <2> QED
    BY <1>1, <2>1, <2>2 DEF TakeTask
<1>2. CASE DrainPop
  <2>1. PICK b \in pending : pending' = pending \ {b} /\ hand' = [hand EXCEPT !["drain"] = b]
    BY <1>2 DEF DrainPop, Waiting, InEntry
  <2>2. b \in Buffers /\ b # NoBuffer /\ hand["drain"] = NoBuffer
    BY <1>2, NoBufferApart DEF DrainPop, TypeOK, Hands
  <2>3. Hands'
    BY <1>2, <2>1, <2>2 DEF DrainPop, TypeOK, Hands
  <2>4. ListedInItsState'
    BY <1>2, <2>1 DEF DrainPop, ListedInItsState
  <2>5. Apart'
    BY <1>2, <2>1, <2>2, NoBufferApart DEF DrainPop, TypeOK, Apart
  <2> QED
    BY <2>3, <2>4, <2>5
<1>3. CASE DrainQueue
  <2>0. hand["drain"] \in Buffers /\ hand["drain"] \notin free \cup pending \cup burst
    BY <1>3 DEF DrainQueue, Hands, TypeOK, Apart
  <2>1. \A a \in Actors \ {"drain"} : hand[a] # hand["drain"]
    BY <2>0, NoBufferApart DEF Apart
  <2>2. Hands'
    BY <1>3, <2>0, <2>1 DEF DrainQueue, TypeOK, Hands
  <2>3. ListedInItsState'
    BY <1>3, <2>0 DEF DrainQueue, TypeOK, ListedInItsState
  <2>4. Apart'
    BY <1>3, <2>0, <2>1, NoBufferApart DEF DrainQueue, TypeOK, Apart
  <2> QED
    BY <2>2, <2>3, <2>4
<1>4. CASE DrainNext
  <2>1. Hands'
    BY <1>4 DEF DrainNext, TypeOK, Hands
  <2>2. ListedInItsState' /\ Apart'
    BY <1>4 DEF DrainNext, ListedInItsState, Apart
  <2> QED
    BY <2>1, <2>2
<1>5. CASE Send
  <2>1. Hands'
    BY <1>5 DEF Send, TypeOK, Hands
  <2>2. ListedInItsState' /\ Apart'
    BY <1>5 DEF Send, ListedInItsState, Apart
  <2> QED
    BY <2>1, <2>2
<1>6. CASE ReleaseSent
  <2>1. PICK b \in burst : /\ state' = [state EXCEPT ![b] = Released(b)]
                           /\ burst' = burst \ {b}
                           /\ hand' = [hand EXCEPT !["drain"] = b]
    BY <1>6 DEF ReleaseSent
  <2>2. b \in Buffers /\ b # NoBuffer /\ hand["drain"] = NoBuffer
    BY <1>6, NoBufferApart DEF ReleaseSent, TypeOK, Hands
  <2>3. state' = [state EXCEPT ![b] = "free"]
    BY <2>1 DEF Released, ListedInItsState
  <2>4. b \notin free \cup pending /\ \A a \in Actors : hand[a] # b
    BY DEF Apart
  <2>5. Hands'
    BY <1>6, <2>1, <2>2, <2>3, <2>4 DEF ReleaseSent, TypeOK, Hands
  <2>6. ListedInItsState'
    BY <1>6, <2>1, <2>2, <2>3, <2>4 DEF ReleaseSent, TypeOK, ListedInItsState
  <2>7. Apart'
    BY <1>6, <2>1, <2>2, <2>4, NoBufferApart DEF ReleaseSent, TypeOK, Apart
  <2> QED
    BY <2>5, <2>6, <2>7
<1>7. CASE PushSent
  <2>0. /\ hand["drain"] \in Buffers /\ hand["drain"] \notin free \cup pending \cup burst
        /\ state[hand["drain"]] = "free"
    BY <1>7 DEF PushSent, Hands, TypeOK, Apart
  <2>1. \A a \in Actors \ {"drain"} : hand[a] # hand["drain"]
    BY <2>0, NoBufferApart DEF Apart
  <2>2. Hands'
    BY <1>7 DEF PushSent, TypeOK, Hands
  <2>3. ListedInItsState'
    BY <1>7, <2>0 DEF PushSent, ListedInItsState
  <2>4. Apart'
    BY <1>7, <2>0, <2>1, NoBufferApart DEF PushSent, TypeOK, Apart
  <2> QED
    BY <2>2, <2>3, <2>4
<1> QED
  BY <1>1, <1>2, <1>3, <1>4, <1>5, <1>6, <1>7 DEF WorkerStep

LEMMA EnvironmentSafe ==
  ASSUME TypeOK, Safe, OnNewSymbol \/ PollAgain \/ Replies
  PROVE  Safe'
<1>1. CASE OnNewSymbol \/ PollAgain \/ UplinkCaptured \/ UplinkScheduled
  <2>1. UNCHANGED <<pool, steps>>
    BY <1>1 DEF OnNewSymbol, PollAgain, UplinkCaptured, UplinkScheduled, EnqueueUplink
  <2> QED
    BY <2>1 DEF Safe, pool, steps, Hands, ListedInItsState, Apart
<1>2. CASE PrachCaptured \/ PrachScheduled
  <2>1. PICK symbol : EnqueuePrach(symbol)
    BY <1>2 DEF PrachCaptured, PrachScheduled
  <2> QED
    BY <2>1, BeginSafe, ActorNames DEF EnqueuePrach
<1> QED
  BY <1>1, <1>2 DEF Replies

LEMMA IInvInductive == IInv /\ [Next]_vars => IInv'
<1> SUFFICES ASSUME IInv, [Next]_vars PROVE IInv'
  OBVIOUS
<1>0. TypeOK /\ Hands /\ Safe
  BY DEF IInv, Safe
<1>1. CASE OnNewSymbol \/ PollAgain \/ Replies
  BY <1>0, <1>1, EnvironmentType, EnvironmentSafe DEF IInv, Safe
<1>2. ASSUME NEW kind \in Kinds, Encode(kind)
      PROVE  IInv'
  BY <1>0, <1>2, EncodeType, EncodeSafe DEF IInv, Safe
<1>3. CASE WorkerStep
  BY <1>0, <1>3, WorkerType, WorkerSafe DEF IInv, Safe
<1>4. CASE UNCHANGED vars
  BY <1>4 DEF IInv, vars, pool, steps, TypeOK, Hands, ListedInItsState, Apart
<1> QED
  BY <1>1, <1>2, <1>3, <1>4 DEF Next, Replies

\* The state of the transmit path always has its type: in particular the task
\* queue never holds more than the executor was created for.
THEOREM FrameTypeOK == Spec => []TypeOK
<1>1. IInv => TypeOK
  BY DEF IInv
<1> QED
  BY <1>1, InitIInv, IInvInductive, PTL DEF Spec

\* For any pool and any delays, a frame buffer of ethernet_frame_pool has one
\* owner: an encoder never writes into a buffer that is pending or being sent,
\* and no buffer is lost.
THEOREM FrameOneOwner == Spec => []OneOwner
<1>1. IInv => OneOwner
  BY ApartIsOneOwner DEF IInv
<1> QED
  BY <1>1, InitIInv, IInvInductive, PTL DEF Spec

\* The consistency checks of reserve() and enqueue_pending() never fail.
THEOREM FrameListedInItsState == Spec => []ListedInItsState
<1>1. IInv => ListedInItsState
  BY DEF IInv
<1> QED
  BY <1>1, InitIInv, IInvInductive, PTL DEF Spec
=============================================================================
