-------------------------- MODULE FrameTimelyProofs --------------------------
(***************************************************************************)
(* Proofs about FrameTransmit in the environment the O-RU is specified     *)
(* for: no reply misses its transmit window and no frame leaves outside    *)
(* it, for any numerology, window, pool and queue.                         *)
(*                                                                         *)
(* The argument: drain tasks reach the worker in order and none is missing *)
(* (QueueInv), so the drains still to come are those after drain.at.       *)
(* Every encoding in the queue, every message being encoded and every      *)
(* frame in a pool is ahead of its last drain (EncodesInv, UplinkJob,      *)
(* PrachJob, PendingInv), and less than a frame of symbols apart from the  *)
(* running one, so that an entry never mixes two frames.                   *)
(***************************************************************************)
EXTENDS FrameTransmitProofs, NumberTheorems, FiniteSetTheorems

\* Symbols after which an entry of the pools comes round again.
Round == FrameSlots * NofSymbols

LEMMA RoundType == Round \in Nat \ {0}
<1>1. \A a, b \in Nat \ {0} : a * b \in Nat /\ a * b >= 1
  OBVIOUS
<1>. QED  BY <1>1, FrameAssumption DEF Round

\* get_pool_entry() is the number of the symbol modulo the frame.
LEMMA EntryIsRemainder ==
  ASSUME NEW s \in Int
  PROVE  EntryOf(s) = s % Round /\ EntryOf(s) \in Entries
<1> DEFINE d == s \div NofSymbols
           m == s % NofSymbols
           q == d \div FrameSlots
           r == d % FrameSlots
           e == r * NofSymbols + m
<1>1. s = NofSymbols * d + m /\ d \in Int /\ m \in 0 .. (NofSymbols - 1)
  BY DivMod, FrameAssumption
<1>. HIDE DEF d
<1>2. d = FrameSlots * q + r /\ q \in Int /\ r \in 0 .. (FrameSlots - 1)
  BY <1>1, DivMod, FrameAssumption
<1>. HIDE DEF m, q, r
<1>3. NofSymbols \in Nat /\ FrameSlots \in Nat /\ r \in Nat /\ m \in Nat
  BY <1>1, <1>2, FrameAssumption
<1>4. e \in 0 .. (Round - 1)
  <2>1. r * NofSymbols =< (FrameSlots - 1) * NofSymbols /\ r * NofSymbols >= 0
    <3>1. \A a, b, c \in Nat : a =< b => a * c =< b * c /\ a * c >= 0
      OBVIOUS
    <3>2. FrameSlots - 1 \in Nat /\ r =< FrameSlots - 1
      BY <1>2, FrameAssumption
    <3>. QED  BY <3>1, <3>2, <1>3
  <2>2. (FrameSlots - 1) * NofSymbols = Round - NofSymbols
    BY <1>3 DEF Round
  <2>3. r * NofSymbols \in Int /\ Round \in Int
    BY <1>3, RoundType
  <2>. QED  BY <1>1, <1>3, <2>1, <2>2, <2>3
<1>5. s = Round * q + e
  <2>1. \A a, b, c, x \in Int : a * (b * c + x) = (b * a) * c + x * a
    OBVIOUS
  <2>2. NofSymbols * d = Round * q + r * NofSymbols
    BY <1>2, <1>3, <2>1 DEF Round
  <2>3. Round * q \in Int /\ r * NofSymbols \in Int
    BY <1>2, <1>3, RoundType
  <2>. QED  BY <1>1, <2>2, <2>3
<1>6. EntryOf(s) = e
  BY DEF EntryOf, d, m, r
<1>. HIDE DEF e
<1>7. s % Round = e
  BY <1>2, <1>4, <1>5, RoundType, DivModUnique
<1>. QED  BY <1>4, <1>6, <1>7 DEF Entries, Round

\* Symbols less than a frame apart share an entry only if they are equal.
LEMMA SameEntry ==
  ASSUME NEW s \in Int, NEW t \in Int, EntryOf(s) = EntryOf(t), s - t < Round, s - t > -Round
  PROVE  s = t
<1>1. s % Round = t % Round
  BY EntryIsRemainder
<1>. QED  BY <1>1, RoundType, ModInjective

\* The last symbol of an uplink message with so many frames left.
LastUplink(symbol, frames) == symbol + ((frames - 1) \div Fragments)

LEMMA LastType ==
  ASSUME NEW s \in Int, NEW n \in Nat \ {0}
  PROVE  LastUplink(s, n) \in Int /\ LastUplink(s, n) >= s
<1> DEFINE q == (n - 1) \div Fragments
<1>1. q \in Nat
  BY FrameAssumption
<1>. QED  BY <1>1 DEF LastUplink

\* A new message of whole symbols ...
LEMMA LastOfNew ==
  ASSUME NEW s \in Int, NEW symbols \in Nat \ {0}
  PROVE  /\ symbols * Fragments \in Nat \ {0}
         /\ LastUplink(s, symbols * Fragments) = s + symbols - 1
         /\ (symbols * Fragments - 1) % Fragments = Fragments - 1
<1> DEFINE f == symbols * Fragments
<1>1. f \in Nat /\ f >= 1
  <2>1. \A a, b \in Nat \ {0} : a * b \in Nat /\ a * b >= 1
    OBVIOUS
  <2>. QED  BY <2>1, FrameAssumption
<1>2. f = Fragments * (symbols - 1) + Fragments
  BY FrameAssumption
<1>. HIDE DEF f
<1>3. /\ f - 1 \in Int /\ symbols - 1 \in Int
      /\ Fragments - 1 \in 0 .. (Fragments - 1)
      /\ f - 1 = Fragments * (symbols - 1) + (Fragments - 1)
  <2>1. Fragments * (symbols - 1) \in Int
    BY FrameAssumption
  <2>. QED  BY <1>1, <1>2, <2>1, FrameAssumption
<1>4. (f - 1) \div Fragments = symbols - 1 /\ (f - 1) % Fragments = Fragments - 1
  BY <1>3, FrameAssumption, DivModUnique
<1>. QED  BY <1>1, <1>4 DEF LastUplink, f

\* ... keeps its last symbol from frame to frame.
LEMMA LastOfRest ==
  ASSUME NEW s \in Int, NEW n \in Nat, n > 1
  PROVE  LET t == s + (IF (n - 1) % Fragments = 0 THEN 1 ELSE 0)
         IN  /\ LastUplink(t, n - 1) = LastUplink(s, n)
             /\ (n - 2) % Fragments = IF (n - 1) % Fragments = 0 THEN Fragments - 1
                                      ELSE ((n - 1) % Fragments) - 1
<1> DEFINE q == (n - 1) \div Fragments
           r == (n - 1) % Fragments
<1>1. n - 1 = Fragments * q + r /\ q \in Int /\ r \in 0 .. (Fragments - 1)
  BY DivMod, FrameAssumption
<1>. HIDE DEF q, r
<1>2. CASE r = 0
  <2>1. /\ n - 2 \in Int /\ q - 1 \in Int /\ Fragments - 1 \in 0 .. (Fragments - 1)
        /\ n - 2 = Fragments * (q - 1) + (Fragments - 1)
    <3>1. Fragments * (q - 1) = Fragments * q - Fragments
      BY <1>1, FrameAssumption
    <3>2. Fragments * q \in Int
      BY <1>1, FrameAssumption
    <3>. QED  BY <1>1, <1>2, <3>1, <3>2, FrameAssumption
  <2>2. (n - 2) \div Fragments = q - 1 /\ (n - 2) % Fragments = Fragments - 1
    BY <2>1, FrameAssumption, DivModUnique
  <2>3. (n - 1) - 1 = n - 2
    OBVIOUS
  <2>. QED  BY <1>1, <1>2, <2>2, <2>3 DEF LastUplink, q, r
<1>3. CASE r # 0
  <2>1. /\ n - 2 \in Int /\ r - 1 \in 0 .. (Fragments - 1)
        /\ n - 2 = Fragments * q + (r - 1)
    <3>1. Fragments * q \in Int
      BY <1>1, FrameAssumption
    <3>. QED  BY <1>1, <1>3, <3>1, FrameAssumption
  <2>2. (n - 2) \div Fragments = q /\ (n - 2) % Fragments = r - 1
    BY <1>1, <2>1, FrameAssumption, DivModUnique
  <2>3. (n - 1) - 1 = n - 2
    OBVIOUS
  <2>. QED  BY <1>1, <1>3, <2>2, <2>3 DEF LastUplink, q, r
<1>. QED  BY <1>2, <1>3
-----------------------------------------------------------------------------
IsDrain(k) == tasks[k].op = "drain"

IsEncode(k) == tasks[k].op = "encode"

\* A symbol is early enough for its entry to be its own until it is drained.
Reaches(s) == s + TxStart + MaxLag < Round + now

\* The drains still to come are queued in order, none missing, and the worker is
\* at most MaxLag symbols behind.
QueueInv ==
  /\ drain.at =< now /\ now =< drain.at + MaxLag + 1
  /\ pc["drain"] # "idle" => now =< drain.at + MaxLag /\ pc["uplink"] = "idle"
  /\ \A t \in (drain.at + 1) .. now : \E k \in 1 .. Len(tasks) : tasks[k] = DrainTask(t)
  /\ \A k \in 1 .. Len(tasks) : IsDrain(k) => drain.at < tasks[k].at /\ tasks[k].at =< now
  /\ \A k, l \in 1 .. Len(tasks) : k < l /\ IsDrain(k) /\ IsDrain(l) => tasks[k].at < tasks[l].at

\* An encoding is queued before the last drain that can send its frames, and the
\* encodings are queued in the order of their symbols.
EncodesInv ==
  /\ \A k \in 1 .. Len(tasks) : IsEncode(k) =>
       /\ tasks[k].frames > 0
       /\ drain.at < tasks[k].at + TxStart
       /\ LastUplink(tasks[k].at, tasks[k].frames) =< captured["uplink"]
       /\ Reaches(LastUplink(tasks[k].at, tasks[k].frames))
  /\ \A k, l \in 1 .. Len(tasks) : k < l /\ IsEncode(l) =>
       /\ IsDrain(k) => tasks[k].at < tasks[l].at + TxStart
       /\ IsEncode(k) => LastUplink(tasks[k].at, tasks[k].frames) < tasks[l].at

LEMMA TimelyTypes ==
  ASSUME TypeOK
  PROVE  /\ now \in Nat /\ drain.at \in Nat /\ drain.next \in Int
         /\ drain.kind \in Kinds
         /\ Len(tasks) \in Nat
         /\ \A k \in 1 .. Len(tasks) : /\ tasks[k] \in Tasks
                                       /\ tasks[k].at \in Nat /\ tasks[k].frames \in Nat
                                       /\ IsDrain(k) \/ IsEncode(k)
                                       /\ ~(IsDrain(k) /\ IsEncode(k))
         /\ \A b \in Buffers : stamp[b] \in Int
         /\ \A k \in Kinds : /\ captured[k] \in Int
                             /\ job[k].symbol \in Int /\ job[k].left \in Nat /\ job[k].since \in Nat
<1>1. \A k \in 1 .. Len(tasks) : tasks[k] \in Tasks
  BY DEF TypeOK
<1>2. \A k \in 1 .. Len(tasks) : /\ tasks[k].at \in Nat /\ tasks[k].frames \in Nat
                                 /\ IsDrain(k) \/ IsEncode(k)
                                 /\ ~(IsDrain(k) /\ IsEncode(k))
  BY <1>1 DEF Tasks, IsDrain, IsEncode
<1>. QED  BY <1>1, <1>2 DEF TypeOK, Jobs

\* The executor refuses no task: the tasks it holds are told apart by their kind
\* and symbol, and the symbols of each kind span a lag or a frame.
LEMMA QueueHasRoom ==
  ASSUME Timely, TypeOK, QueueInv, EncodesInv
  PROVE  Len(tasks) < QueueSize
<1> DEFINE N == Len(tasks)
           DrainKey(k) == tasks[k].at - (now - MaxLag)
           EncodeKey(k) == MaxLag + 1 + (tasks[k].at - (now - MaxLag - TxStart))
           Key(k) == IF IsDrain(k) THEN DrainKey(k) ELSE EncodeKey(k)
           f == [k \in 1 .. N |-> Key(k)]
           top == Round + MaxLag
<1>1. /\ MaxLag \in Nat /\ TxStart \in Nat /\ Round \in Nat /\ N \in Nat /\ QueueSize \in Nat
      /\ now \in Nat /\ drain.at \in Nat /\ now =< drain.at + MaxLag + 1
      /\ Round + MaxLag + 1 < QueueSize
  BY FrameAssumption, RoundType, TimelyTypes DEF Timely, Round, QueueInv
<1>2. ASSUME NEW k \in 1 .. N, IsDrain(k)
      PROVE  tasks[k].at \in Nat /\ DrainKey(k) \in 0 .. MaxLag /\ Key(k) = DrainKey(k)
  <2>1. tasks[k].at \in Nat /\ drain.at < tasks[k].at /\ tasks[k].at =< now
    BY <1>2, TimelyTypes DEF QueueInv
  <2>. QED  BY <1>1, <1>2, <2>1
<1>3. ASSUME NEW k \in 1 .. N, ~IsDrain(k)
      PROVE  /\ tasks[k].at \in Nat /\ EncodeKey(k) \in (MaxLag + 1) .. top /\ Key(k) = EncodeKey(k)
             /\ IsEncode(k)
             /\ LastUplink(tasks[k].at, tasks[k].frames) \in Int
             /\ LastUplink(tasks[k].at, tasks[k].frames) >= tasks[k].at
  <2> DEFINE last == LastUplink(tasks[k].at, tasks[k].frames)
  <2>1. IsEncode(k) /\ tasks[k].at \in Nat /\ tasks[k].at \in Int /\ tasks[k].frames \in Nat
    BY <1>3, TimelyTypes
  <2>2. tasks[k].frames > 0 /\ drain.at < tasks[k].at + TxStart /\ last + TxStart + MaxLag < Round + now
    BY <1>3, <2>1 DEF EncodesInv, Reaches
  <2>3. tasks[k].frames \in Nat \ {0}
    BY <2>1, <2>2
  <2>4. last >= tasks[k].at /\ last \in Int
    BY <2>1, <2>3, LastType
  <2>. HIDE DEF last
  <2>5. EncodeKey(k) \in (MaxLag + 1) .. top
    <3> DEFINE a == tasks[k].at
               d == drain.at
    <3>1. /\ a \in Nat /\ d \in Nat /\ d < a + TxStart /\ last + TxStart + MaxLag < Round + now
          /\ last >= a /\ last \in Int /\ now =< d + MaxLag + 1
      BY <1>1, <2>1, <2>2, <2>4
    <3>. HIDE DEF a, d
    <3>2. MaxLag + 1 + (a - (now - MaxLag - TxStart)) \in (MaxLag + 1) .. top
      BY <1>1, <3>1
    <3>. QED  BY <3>2 DEF a
  <2>. QED  BY <1>3, <2>1, <2>4, <2>5 DEF last
<1>4. ASSUME NEW k \in 1 .. N, NEW l \in 1 .. N, k < l PROVE Key(k) # Key(l)
  <2>2. CASE IsDrain(k) /\ IsDrain(l)
    <3>1. tasks[k].at < tasks[l].at /\ tasks[k].at \in Nat /\ tasks[l].at \in Nat
      BY <1>2, <1>4, <2>2 DEF QueueInv
    <3>2. DrainKey(k) # DrainKey(l)
      <4>1. \A a, b, c \in Int : a < b => a - c # b - c
        OBVIOUS
      <4>2. now - MaxLag \in Int
        BY <1>1
      <4>. QED  BY <3>1, <4>1, <4>2
    <3>. QED  BY <1>2, <2>2, <3>2
  <2>3. CASE ~IsDrain(k) /\ ~IsDrain(l)
    <3>1. /\ IsEncode(k) /\ IsEncode(l) /\ tasks[k].at \in Nat /\ tasks[l].at \in Nat
          /\ LastUplink(tasks[k].at, tasks[k].frames) >= tasks[k].at
          /\ LastUplink(tasks[k].at, tasks[k].frames) \in Int
      BY <1>3, <2>3
    <3>2. LastUplink(tasks[k].at, tasks[k].frames) < tasks[l].at
      BY <1>4, <3>1 DEF EncodesInv
    <3>3. EncodeKey(k) # EncodeKey(l)
      BY <1>1, <3>1, <3>2, SMTT(30)
    <3>. QED  BY <1>3, <2>3, <3>3
  <2>4. ASSUME NEW d \in 1 .. N, NEW e \in 1 .. N, IsDrain(d), ~IsDrain(e)
        PROVE  Key(d) # Key(e)
    <3>1. Key(d) = DrainKey(d) /\ DrainKey(d) \in 0 .. MaxLag
      BY <1>2, <2>4
    <3>2. Key(e) = EncodeKey(e) /\ EncodeKey(e) \in (MaxLag + 1) .. top
      BY <1>3, <2>4
    <3>. HIDE DEF DrainKey, EncodeKey, Key, top
    <3>. QED  BY <1>1, <3>1, <3>2
  <2>. HIDE DEF Key
  <2>. QED  BY <2>2, <2>3, <2>4
<1>5. ASSUME NEW k \in 1 .. N PROVE Key(k) \in 0 .. top
  <2>1. CASE IsDrain(k)
    <3>1. Key(k) = DrainKey(k) /\ DrainKey(k) \in 0 .. MaxLag
      BY <1>2, <2>1
    <3>. HIDE DEF DrainKey, Key
    <3>. QED  BY <1>1, <3>1
  <2>2. CASE ~IsDrain(k)
    <3>1. Key(k) = EncodeKey(k) /\ EncodeKey(k) \in (MaxLag + 1) .. top
      BY <1>3, <2>2
    <3>. HIDE DEF EncodeKey, Key
    <3>. QED  BY <1>1, <3>1
  <2>. QED  BY <2>1, <2>2
<1>. HIDE DEF Key
<1>6. f \in Injection(1 .. N, 0 .. top)
  <2>1. f \in [1 .. N -> 0 .. top]
    BY <1>5
  <2>2. ASSUME NEW k \in 1 .. N, NEW l \in 1 .. N, f[k] = f[l] PROVE k = l
    <3>1. Key(k) = Key(l)
      BY <2>2
    <3>2. ~(k < l) /\ ~(l < k)
      BY <1>4, <3>1
    <3>. QED  BY <1>1, <3>2
  <2>. QED  BY <2>1, <2>2 DEF Injection, IsInjective
<1>. HIDE DEF f
<1>7. top \in Int /\ N \in Int /\ top >= 0 /\ N >= 0
  BY <1>1
<1>. HIDE DEF top, N
<1>8. IsFiniteSet(0 .. top) /\ Cardinality(0 .. top) = top + 1
  BY <1>7, FS_Interval
<1>9. Cardinality(1 .. N) = N
  BY <1>7, FS_Interval
<1>10. Cardinality(1 .. N) =< Cardinality(0 .. top)
  BY <1>6, <1>8, FS_Injection
<1>. QED  BY <1>1, <1>7, <1>8, <1>9, <1>10 DEF top, N
-----------------------------------------------------------------------------
\* The task queue after a task has been added, or taken.
LEMMA AddedTask ==
  ASSUME TypeOK, NEW task \in Tasks, tasks' = Append(tasks, task)
  PROVE  /\ Len(tasks') = Len(tasks) + 1
         /\ \A k \in 1 .. Len(tasks) : k \in 1 .. Len(tasks') /\ tasks'[k] = tasks[k]
         /\ Len(tasks') \in 1 .. Len(tasks') /\ tasks'[Len(tasks')] = task
         /\ \A k \in 1 .. Len(tasks') : k \in 1 .. Len(tasks) \/ k = Len(tasks')
BY DEF TypeOK

LEMMA TakenTask ==
  ASSUME TypeOK, tasks # << >>, tasks' = Tail(tasks)
  PROVE  /\ 1 \in 1 .. Len(tasks) /\ Head(tasks) = tasks[1]
         /\ \A k \in 1 .. Len(tasks') : k + 1 \in 1 .. Len(tasks) /\ tasks'[k] = tasks[k + 1]
         /\ \A k \in 1 .. Len(tasks) : k # 1 => k - 1 \in 1 .. Len(tasks') /\ tasks'[k - 1] = tasks[k]
BY DEF TypeOK

\* When a reply is handed over in time, and how far ahead.
LEMMA UplinkReply ==
  ASSUME Timely, TypeOK, UplinkCaptured \/ UplinkScheduled
  PROVE  \E s \in Int, n \in Nat \ {0} :
           /\ EnqueueUplink(s, n)
           /\ now < s + TxStart
           /\ Reaches(s + n - 1)
<1>1. /\ now \in Nat /\ TxStart \in Nat /\ MaxLag \in Nat /\ Round \in Nat /\ UlSymbols \in Nat \ {0}
      /\ TxStart + MaxLag < Round
  BY TimelyTypes, FrameAssumption, RoundType DEF Timely, Round
<1>2. CASE UplinkCaptured
  <2>1. PICK delay \in UlDelays : EnqueueUplink(now - delay, 1)
    BY <1>2 DEF UplinkCaptured
  <2>2. delay \in 0 .. (TxStart - 1)
    BY DEF Timely
  <2> DEFINE s == now - delay
  <2>3. s \in Int /\ now < s + TxStart /\ s + 1 - 1 + TxStart + MaxLag < Round + now
    BY <1>1, <2>2
  <2>. QED  BY <2>1, <2>3 DEF Reaches
<1>3. CASE UplinkScheduled
  <2>1. PICK lead \in UlLeads : EnqueueUplink(now + lead, UlSymbols)
    BY <1>3 DEF UplinkScheduled
  <2>2. lead \in Int /\ lead > -TxStart /\ TxStart + MaxLag + lead + UlSymbols =< Round
    BY FrameAssumption DEF Timely, Round
  <2> DEFINE s == now + lead
  <2>3. s \in Int /\ now < s + TxStart /\ s + UlSymbols - 1 + TxStart + MaxLag < Round + now
    BY <1>1, <2>2
  <2>. QED  BY <1>1, <2>1, <2>3 DEF Reaches
<1>. QED  BY <1>2, <1>3

LEMMA PrachReply ==
  ASSUME Timely, TypeOK, PrachCaptured \/ PrachScheduled
  PROVE  \E s \in Int :
           /\ EnqueuePrach(s)
           /\ now + 2 =< s + TxStart
           /\ Reaches(s + PrachSymbols - 1)
<1>1. /\ now \in Nat /\ TxStart \in Nat /\ MaxLag \in Nat /\ Round \in Nat
      /\ PrachSymbols \in Nat \ {0} /\ TxStart + MaxLag < Round
  BY TimelyTypes, FrameAssumption, RoundType DEF Timely, Round
<1>2. CASE PrachCaptured
  <2>1. PICK delay \in PrachDelays : EnqueuePrach(now - delay)
    BY <1>2 DEF PrachCaptured
  <2>2. delay \in (PrachSymbols - 1) .. (TxStart - 2)
    BY DEF Timely
  <2> DEFINE s == now - delay
  <2>3. s \in Int /\ now + 2 =< s + TxStart /\ s + PrachSymbols - 1 + TxStart + MaxLag < Round + now
    BY <1>1, <2>2
  <2>. QED  BY <2>1, <2>3 DEF Reaches
<1>3. CASE PrachScheduled
  <2>1. PICK lead \in PrachLeads : EnqueuePrach(now + lead)
    BY <1>3 DEF PrachScheduled
  <2>2. lead \in Int /\ lead > 1 - TxStart /\ TxStart + MaxLag + lead + PrachSymbols =< Round
    BY FrameAssumption DEF Timely, Round
  <2> DEFINE s == now + lead
  <2>3. s \in Int /\ now + 2 =< s + TxStart /\ s + PrachSymbols - 1 + TxStart + MaxLag < Round + now
    BY <1>1, <2>2
  <2>. QED  BY <2>1, <2>3 DEF Reaches
<1>. QED  BY <1>2, <1>3

\* The next symbol and the next uplink reply each add a task.
LEMMA SymbolStep ==
  ASSUME Timely, TypeOK, QueueInv, EncodesInv, OnNewSymbol
  PROVE  /\ now' = now + 1
         /\ DrainTask(now + 1) \in Tasks /\ tasks' = Append(tasks, DrainTask(now + 1))
         /\ \A k \in 1 .. Len(tasks) : IsDrain(k) => (now + 1) - tasks[k].at =< MaxLag
         /\ pc["drain"] = "idle" \/ (now + 1) - drain.at =< MaxLag
         /\ pc["prach"] = "idle" \/ job["prach"].since = now
         /\ UNCHANGED <<state, stamp, free, pending, pc, hand, burst, job, drain, captured>>
         /\ sent' = {}
<1>1. Len(tasks) < QueueSize
  BY QueueHasRoom
<1>2. /\ now' = now + 1 /\ tasks' = Deferred(DrainTask(now + 1)) /\ sent' = {}
      /\ \A k \in 1 .. Len(tasks) : tasks[k].op = "drain" => (now + 1) - tasks[k].at =< MaxLag
      /\ pc["drain"] = "idle" \/ (now + 1) - drain.at =< MaxLag
      /\ pc["prach"] = "idle" \/ job["prach"].since = now
      /\ UNCHANGED <<pool, steps, captured>>
  <2>1. SkipsTicks = FALSE /\ StallsRadio = FALSE
    BY FrameAssumption DEF Timely
  <2>2. \E elapsed \in {1} :
          /\ \A k \in 1 .. Len(tasks) : tasks[k].op = "drain" => (now + elapsed) - tasks[k].at =< MaxLag
          /\ pc["drain"] = "idle" \/ (now + elapsed) - drain.at =< MaxLag
          /\ pc["prach"] = "idle" \/ job["prach"].since = now
          /\ now' = now + elapsed
          /\ tasks' = Deferred(DrainTask(now + elapsed))
          /\ sent' = {}
          /\ UNCHANGED <<pool, steps, captured>>
    BY <2>1, Zenon DEF OnNewSymbol
  <2>. QED  BY <2>2, Zenon
<1>3. DrainTask(now + 1) \in Tasks
  BY TimelyTypes DEF DrainTask, Tasks
<1>. QED  BY <1>1, <1>2, <1>3 DEF Deferred, IsDrain, pool, steps

LEMMA UplinkStep ==
  ASSUME Timely, TypeOK, QueueInv, EncodesInv, UplinkCaptured \/ UplinkScheduled
  PROVE  \E task \in Tasks :
           /\ tasks' = Append(tasks, task)
           /\ task.op = "encode" /\ task.frames > 0
           /\ now < task.at + TxStart
           /\ captured["uplink"] < task.at
           /\ LastUplink(task.at, task.frames) = captured'["uplink"]
           /\ captured' = [captured EXCEPT !["uplink"] = LastUplink(task.at, task.frames)]
           /\ Reaches(LastUplink(task.at, task.frames))
           /\ sent' = {}
           /\ UNCHANGED <<state, stamp, free, pending, pc, hand, burst, job, drain, now>>
<1>1. Len(tasks) < QueueSize
  BY QueueHasRoom
<1>2. PICK s \in Int, n \in Nat \ {0} :
        EnqueueUplink(s, n) /\ now < s + TxStart /\ Reaches(s + n - 1)
  BY UplinkReply
<1> DEFINE task == [op |-> "encode", at |-> s, frames |-> n * Fragments]
<1>3. captured["uplink"] \in Int /\ captured["uplink"] >= -1 /\ s > captured["uplink"]
  BY <1>2, ActorNames DEF TypeOK, EnqueueUplink
<1>4. n * Fragments \in Nat \ {0} /\ LastUplink(s, n * Fragments) = s + n - 1
  BY LastOfNew
<1>5. s \in Nat
  BY <1>3
<1>6. task \in Tasks
  BY <1>4, <1>5 DEF Tasks
<1>7. /\ tasks' = Append(tasks, task)
      /\ captured' = [captured EXCEPT !["uplink"] = s + n - 1]
      /\ sent' = {}
      /\ UNCHANGED <<state, stamp, free, pending, pc, hand, burst, job, drain, now>>
  BY <1>1, <1>2 DEF EnqueueUplink, Deferred, pool, steps
<1>8. captured'["uplink"] = s + n - 1
  BY <1>7, ActorNames DEF TypeOK
<1>9. task.op = "encode" /\ task.frames = n * Fragments /\ task.at = s /\ n * Fragments > 0
  BY <1>4
<1>. HIDE DEF task
<1>. QED  BY <1>2, <1>3, <1>4, <1>6, <1>7, <1>8, <1>9

\* The worker takes the drain after the last one, or the next encoding.
LEMMA TakeStep ==
  ASSUME TypeOK, QueueInv, TakeTask
  PROVE  /\ pc["drain"] = "idle" /\ pc["uplink"] = "idle"
         /\ tasks # << >> /\ tasks' = Tail(tasks)
         /\ sent' = {}
         /\ UNCHANGED <<state, stamp, free, pending, now, captured, hand, burst>>
         /\ \/ /\ IsEncode(1)
               /\ pc' = [pc EXCEPT !["uplink"] = "reserve"]
               /\ job' = [job EXCEPT !["uplink"] =
                            [symbol |-> tasks[1].at, left |-> tasks[1].frames, since |-> now]]
               /\ drain' = drain
            \/ /\ IsDrain(1)
               /\ drain.at + 1 =< now
               /\ pc' = [pc EXCEPT !["drain"] = "collect"]
               /\ drain' = [at |-> drain.at + 1, next |-> WindowStart(drain.at + 1), kind |-> "uplink"]
               /\ job' = job
<1>1. /\ pc["drain"] = "idle" /\ pc["uplink"] = "idle"
      /\ tasks # << >> /\ tasks' = Tail(tasks)
      /\ sent' = {}
      /\ UNCHANGED <<state, stamp, free, pending, now, captured>>
  BY DEF TakeTask, pool
<1>2. 1 \in 1 .. Len(tasks) /\ Head(tasks) = tasks[1]
  BY <1>1, TakenTask
<1>3. CASE tasks[1].op = "encode" /\ Begin("uplink", tasks[1].at, tasks[1].frames)
  BY <1>1, <1>3 DEF Begin, IsEncode
<1>4. CASE /\ tasks[1].op = "drain"
           /\ pc' = [pc EXCEPT !["drain"] = "collect"]
           /\ drain' = [at |-> tasks[1].at, next |-> WindowStart(tasks[1].at), kind |-> "uplink"]
           /\ UNCHANGED <<hand, burst, job>>
  <2>1. IsDrain(1) /\ tasks[1].at \in Nat /\ drain.at \in Nat /\ now \in Nat
    BY <1>2, <1>4, TimelyTypes DEF IsDrain
  <2>2. drain.at < tasks[1].at /\ tasks[1].at =< now
    BY <1>2, <2>1 DEF QueueInv
  <2>3. drain.at + 1 \in (drain.at + 1) .. now
    BY <2>1, <2>2
  <2>4. PICK k \in 1 .. Len(tasks) : tasks[k] = DrainTask(drain.at + 1)
    BY <2>3 DEF QueueInv
  <2>5. IsDrain(k) /\ tasks[k].at = drain.at + 1
    BY <2>4 DEF IsDrain, DrainTask
  <2>6. tasks[1].at = drain.at + 1
    <3>1. CASE k = 1
      BY <2>5, <3>1
    <3>2. CASE 1 < k
      <4>1. tasks[1].at < tasks[k].at
        BY <1>2, <2>1, <2>5, <3>2 DEF QueueInv
      <4>. QED  BY <2>1, <2>2, <2>5, <4>1
    <3>. QED  BY <3>1, <3>2
  <2>. QED  BY <1>1, <1>4, <2>1, <2>2, <2>6
<1>. QED  BY <1>2, <1>1, <1>3, <1>4 DEF TakeTask

\* The steps that touch neither the task queue nor the worker's choice of task.
QuietStep ==
  \/ PollAgain \/ PrachCaptured \/ PrachScheduled
  \/ \E kind \in Kinds : Encode(kind)
  \/ DrainPop \/ DrainQueue \/ DrainNext \/ Send \/ ReleaseSent \/ PushSent
  \/ UNCHANGED vars

Quiet ==
  /\ UNCHANGED <<tasks, now>>
  /\ drain'.at = drain.at
  /\ captured'["uplink"] = captured["uplink"]
  /\ pc'["drain"] # "idle" => pc["drain"] # "idle"
  /\ pc'["uplink"] # "idle" => pc["uplink"] # "idle"

LEMMA QuietSteps ==
  ASSUME TypeOK, QuietStep
  PROVE  Quiet
<1> USE ActorNames
<1>1. CASE PollAgain \/ UNCHANGED vars
  BY <1>1 DEF PollAgain, vars, pool, steps, Quiet
<1>2. CASE PrachCaptured \/ PrachScheduled
  <2>1. PICK s : EnqueuePrach(s)
    BY <1>2 DEF PrachCaptured, PrachScheduled
  <2>. QED  BY <2>1 DEF EnqueuePrach, Begin, Quiet, TypeOK
<1>3. ASSUME NEW kind \in Kinds, Encode(kind) PROVE Quiet
  BY <1>3 DEF Encode, Reserve, Fill, Release, Push, Quiet, TypeOK
<1>4. CASE DrainPop \/ DrainQueue \/ Send \/ ReleaseSent \/ PushSent
  BY <1>4 DEF DrainPop, DrainQueue, Send, ReleaseSent, PushSent, Quiet, TypeOK
<1>5. CASE DrainNext
  BY <1>5 DEF DrainNext, Quiet, TypeOK
<1>. QED  BY <1>1, <1>2, <1>3, <1>4, <1>5 DEF QuietStep

LEMMA QueueInductive ==
  ASSUME Timely, TypeOK, TypeOK', QueueInv, EncodesInv,
         \/ OnNewSymbol
         \/ UplinkCaptured \/ UplinkScheduled
         \/ TakeTask
         \/ Quiet
  PROVE  QueueInv'
<1>1. /\ now \in Nat /\ drain.at \in Nat /\ MaxLag \in Nat /\ Len(tasks) \in Nat
      /\ now' \in Nat /\ drain'.at \in Nat /\ Len(tasks') \in Nat
  BY TimelyTypes, FrameAssumption DEF TypeOK
<1>2. CASE OnNewSymbol
  <2> DEFINE task == DrainTask(now + 1)
  <2>1. /\ now' = now + 1 /\ task \in Tasks /\ tasks' = Append(tasks, task)
        /\ \A k \in 1 .. Len(tasks) : IsDrain(k) => (now + 1) - tasks[k].at =< MaxLag
        /\ pc["drain"] = "idle" \/ (now + 1) - drain.at =< MaxLag
        /\ UNCHANGED <<pc, drain>>
    BY <1>2, SymbolStep
  <2>2. task.op = "drain" /\ task.at = now + 1
    BY DEF DrainTask
  <2>3. /\ \A k \in 1 .. Len(tasks) : k \in 1 .. Len(tasks') /\ tasks'[k] = tasks[k]
        /\ Len(tasks') \in 1 .. Len(tasks') /\ tasks'[Len(tasks')] = task
        /\ \A k \in 1 .. Len(tasks') : k \in 1 .. Len(tasks) \/ k = Len(tasks')
        /\ Len(tasks') = Len(tasks) + 1
    BY <2>1, AddedTask
  <2>4. drain'.at =< now' /\ now' =< drain'.at + MaxLag + 1
    <3>1. CASE drain.at = now
      BY <1>1, <2>1, <3>1
    <3>2. CASE drain.at # now
      <4>1. drain.at + 1 \in (drain.at + 1) .. now
        BY <1>1, <3>2 DEF QueueInv
      <4>2. PICK k \in 1 .. Len(tasks) : tasks[k] = DrainTask(drain.at + 1)
        BY <4>1 DEF QueueInv
      <4>3. IsDrain(k) /\ tasks[k].at = drain.at + 1
        BY <4>2 DEF IsDrain, DrainTask
      <4>4. (now + 1) - (drain.at + 1) =< MaxLag
        BY <2>1, <4>3
      <4>. QED  BY <1>1, <2>1, <4>4 DEF QueueInv
    <3>. QED  BY <3>1, <3>2
  <2>5. pc'["drain"] # "idle" => now' =< drain'.at + MaxLag /\ pc'["uplink"] = "idle"
    BY <1>1, <2>1 DEF QueueInv
  <2>6. ASSUME NEW t \in (drain'.at + 1) .. now' PROVE \E k \in 1 .. Len(tasks') : tasks'[k] = DrainTask(t)
    <3>1. CASE t = now + 1
      BY <2>3, <3>1
    <3>2. CASE t # now + 1
      <4>1. t \in (drain.at + 1) .. now
        BY <1>1, <2>1, <2>6, <3>2
      <4>. QED  BY <2>3, <4>1 DEF QueueInv
    <3>. QED  BY <3>1, <3>2
  <2>. HIDE DEF task
  <2>7. ASSUME NEW k \in 1 .. Len(tasks'), IsDrain(k)'
        PROVE  drain'.at < tasks'[k].at /\ tasks'[k].at =< now'
    <3>1. CASE k \in 1 .. Len(tasks)
      <4>1. IsDrain(k) /\ tasks'[k] = tasks[k]
        BY <2>3, <2>7, <3>1 DEF IsDrain
      <4>2. drain.at < tasks[k].at /\ tasks[k].at =< now /\ tasks[k].at \in Nat
        BY <3>1, <4>1, TimelyTypes DEF QueueInv
      <4>. QED  BY <1>1, <2>1, <4>1, <4>2
    <3>2. CASE k = Len(tasks')
      BY <1>1, <2>1, <2>2, <2>3, <3>2 DEF QueueInv
    <3>. QED  BY <2>3, <3>1, <3>2
  <2>8. ASSUME NEW k \in 1 .. Len(tasks'), NEW l \in 1 .. Len(tasks'), k < l, IsDrain(k)', IsDrain(l)'
        PROVE  tasks'[k].at < tasks'[l].at
    <3>1. k \in 1 .. Len(tasks)
      BY <1>1, <2>3, <2>8
    <3>2. IsDrain(k) /\ tasks'[k] = tasks[k] /\ tasks[k].at \in Nat
      BY <2>3, <2>8, <3>1, TimelyTypes DEF IsDrain
    <3>3. CASE l \in 1 .. Len(tasks)
      <4>1. IsDrain(l) /\ tasks'[l] = tasks[l]
        BY <2>3, <2>8, <3>3 DEF IsDrain
      <4>. QED  BY <2>8, <3>1, <3>2, <3>3, <4>1 DEF QueueInv
    <3>4. CASE l = Len(tasks')
      <4>1. tasks[k].at =< now
        BY <3>1, <3>2 DEF QueueInv
      <4>. QED  BY <1>1, <2>2, <2>3, <3>2, <3>4, <4>1
    <3>. QED  BY <2>3, <3>3, <3>4
  <2>. QED  BY <2>4, <2>5, <2>6, <2>7, <2>8 DEF QueueInv
<1>3. CASE UplinkCaptured \/ UplinkScheduled
  <2>1. PICK task \in Tasks :
          /\ tasks' = Append(tasks, task) /\ task.op = "encode"
          /\ UNCHANGED <<pc, drain, now>>
    BY <1>3, UplinkStep
  <2>2. /\ \A k \in 1 .. Len(tasks) : k \in 1 .. Len(tasks') /\ tasks'[k] = tasks[k]
        /\ tasks'[Len(tasks')] = task
        /\ \A k \in 1 .. Len(tasks') : k \in 1 .. Len(tasks) \/ k = Len(tasks')
    BY <2>1, AddedTask
  <2>3. ASSUME NEW k \in 1 .. Len(tasks'), IsDrain(k)'
        PROVE  k \in 1 .. Len(tasks) /\ IsDrain(k) /\ tasks'[k] = tasks[k]
    BY <2>1, <2>2, <2>3 DEF IsDrain
  <2>. QED  BY <2>1, <2>2, <2>3 DEF QueueInv
<1>4. CASE TakeTask
  <2>1. /\ pc["drain"] = "idle" /\ pc["uplink"] = "idle"
        /\ tasks # << >> /\ tasks' = Tail(tasks) /\ UNCHANGED now
        /\ \/ /\ IsEncode(1) /\ drain' = drain
              /\ pc' = [pc EXCEPT !["uplink"] = "reserve"]
           \/ /\ IsDrain(1) /\ drain.at + 1 =< now
              /\ pc' = [pc EXCEPT !["drain"] = "collect"]
              /\ drain' = [at |-> drain.at + 1, next |-> WindowStart(drain.at + 1), kind |-> "uplink"]
    BY <1>4, TakeStep
  <2>2. /\ 1 \in 1 .. Len(tasks)
        /\ \A k \in 1 .. Len(tasks') : k + 1 \in 1 .. Len(tasks) /\ tasks'[k] = tasks[k + 1]
        /\ \A k \in 1 .. Len(tasks) : k # 1 => k - 1 \in 1 .. Len(tasks') /\ tasks'[k - 1] = tasks[k]
    BY <2>1, TakenTask
  <2>3. ASSUME NEW k \in 1 .. Len(tasks'), NEW l \in 1 .. Len(tasks'), k < l, IsDrain(k)', IsDrain(l)'
        PROVE  tasks'[k].at < tasks'[l].at
    <3>1. IsDrain(k + 1) /\ IsDrain(l + 1) /\ k + 1 < l + 1
      BY <2>2, <2>3 DEF IsDrain
    <3>. QED  BY <2>2, <3>1 DEF QueueInv
  <2>4. CASE IsEncode(1) /\ drain' = drain /\ pc' = [pc EXCEPT !["uplink"] = "reserve"]
    <3>1. pc'["drain"] = "idle"
      BY <2>1, <2>4, ActorNames DEF TypeOK
    <3>2. ASSUME NEW t \in (drain.at + 1) .. now PROVE \E k \in 1 .. Len(tasks') : tasks'[k] = DrainTask(t)
      <4>1. PICK k \in 1 .. Len(tasks) : tasks[k] = DrainTask(t)
        BY <3>2 DEF QueueInv
      <4>2. k # 1
        BY <2>2, <2>4, <4>1, TimelyTypes DEF DrainTask, IsEncode, IsDrain
      <4>. QED  BY <2>2, <4>1, <4>2
    <3>3. ASSUME NEW k \in 1 .. Len(tasks'), IsDrain(k)'
          PROVE  drain.at < tasks'[k].at /\ tasks'[k].at =< now
      BY <2>2, <3>3 DEF QueueInv, IsDrain
    <3>. QED  BY <2>1, <2>3, <2>4, <3>1, <3>2, <3>3 DEF QueueInv
  <2>5. CASE /\ IsDrain(1) /\ drain.at + 1 =< now
             /\ pc' = [pc EXCEPT !["drain"] = "collect"]
             /\ drain' = [at |-> drain.at + 1, next |-> WindowStart(drain.at + 1), kind |-> "uplink"]
    <3>1. pc'["uplink"] = "idle" /\ drain'.at = drain.at + 1
      BY <2>1, <2>5, ActorNames DEF TypeOK
    <3>2. tasks[1].at >= drain.at + 1 /\ tasks[1].at \in Nat
      BY <1>1, <2>2, <2>5, TimelyTypes DEF QueueInv
    <3>3. ASSUME NEW k \in 1 .. Len(tasks'), IsDrain(k)'
          PROVE  drain.at + 1 < tasks'[k].at /\ tasks'[k].at =< now
      <4>1. k + 1 \in 1 .. Len(tasks) /\ IsDrain(k + 1) /\ tasks'[k] = tasks[k + 1] /\ 1 < k + 1
        BY <2>2, <3>3 DEF IsDrain
      <4>2. tasks[1].at < tasks[k + 1].at /\ tasks[k + 1].at =< now /\ tasks[k + 1].at \in Nat
        BY <2>2, <2>5, <4>1, TimelyTypes DEF QueueInv
      <4>. QED  BY <1>1, <3>2, <4>1, <4>2
    <3>4. ASSUME NEW t \in (drain'.at + 1) .. now PROVE \E k \in 1 .. Len(tasks') : tasks'[k] = DrainTask(t)
      <4>1. t \in (drain.at + 1) .. now /\ t > drain.at + 1
        BY <1>1, <3>1, <3>4
      <4>2. PICK k \in 1 .. Len(tasks) : tasks[k] = DrainTask(t)
        BY <4>1 DEF QueueInv
      <4>3. CASE k = 1
        \* The first task is the drain that was due next.
        <5>1. drain.at + 1 \in (drain.at + 1) .. now
          BY <1>1, <2>5
        <5>2. PICK l \in 1 .. Len(tasks) : tasks[l] = DrainTask(drain.at + 1)
          BY <5>1 DEF QueueInv
        <5>3. tasks[1].at = t /\ tasks[l].at = drain.at + 1 /\ IsDrain(l)
          BY <4>2, <4>3, <5>2 DEF DrainTask, IsDrain
        <5>4. l # 1 /\ 1 < l
          BY <1>1, <4>1, <5>3
        <5>5. tasks[1].at < tasks[l].at
          BY <2>2, <2>5, <5>3, <5>4 DEF QueueInv
        <5>. QED  BY <1>1, <4>1, <5>3, <5>5
      <4>4. CASE k # 1
        BY <2>2, <4>2, <4>4
      <4>. QED  BY <4>3, <4>4
    <3>5. drain'.at =< now' /\ now' =< drain'.at + MaxLag + 1 /\ now' =< drain'.at + MaxLag
      BY <1>1, <2>1, <2>5, <3>1 DEF QueueInv
    <3>. QED  BY <2>1, <2>3, <3>1, <3>3, <3>4, <3>5 DEF QueueInv
  <2>. QED  BY <2>1, <2>4, <2>5
<1>5. CASE Quiet
  <2>1. /\ tasks' = tasks /\ now' = now /\ drain'.at = drain.at
        /\ pc'["drain"] # "idle" => pc["drain"] # "idle"
        /\ pc'["uplink"] # "idle" => pc["uplink"] # "idle"
    BY <1>5 DEF Quiet
  <2>. QED  BY <2>1 DEF QueueInv, IsDrain
<1>. QED  BY <1>2, <1>3, <1>4, <1>5

LEMMA EncodesInductive ==
  ASSUME Timely, TypeOK, TypeOK', QueueInv, EncodesInv,
         \/ OnNewSymbol
         \/ UplinkCaptured \/ UplinkScheduled
         \/ TakeTask
         \/ Quiet
  PROVE  EncodesInv'
<1>1. /\ now \in Nat /\ drain.at \in Nat /\ TxStart \in Nat /\ MaxLag \in Nat /\ Round \in Nat
      /\ Len(tasks) \in Nat /\ captured["uplink"] \in Int
  BY TimelyTypes, FrameAssumption, RoundType, ActorNames
\* What is said of a task that stays, as long as time has not gone back.
<1>2. ASSUME NEW k \in 1 .. Len(tasks), IsEncode(k), now' >= now, now' \in Nat,
             captured'["uplink"] \in Int, captured'["uplink"] >= captured["uplink"]
      PROVE  /\ tasks[k].frames > 0
             /\ drain.at < tasks[k].at + TxStart
             /\ LastUplink(tasks[k].at, tasks[k].frames) =< captured'["uplink"]
             /\ LastUplink(tasks[k].at, tasks[k].frames) + TxStart + MaxLag < Round + now'
  <2> DEFINE last == LastUplink(tasks[k].at, tasks[k].frames)
  <2>1. tasks[k].at \in Int /\ tasks[k].frames \in Nat \ {0}
    BY <1>2, TimelyTypes DEF EncodesInv
  <2>2. last \in Int
    BY <2>1, LastType
  <2>3. /\ tasks[k].frames > 0 /\ drain.at < tasks[k].at + TxStart
        /\ last =< captured["uplink"] /\ last + TxStart + MaxLag < Round + now
    BY <1>2 DEF EncodesInv, Reaches
  <2>. HIDE DEF last
  <2>4. \A a, b, c \in Int : a =< b /\ b =< c => a =< c
    OBVIOUS
  <2>5. last =< captured'["uplink"]
    BY <1>1, <1>2, <2>2, <2>3, <2>4
  <2>6. \A a, b, c, d \in Int : a < b + c /\ c =< d => a < b + d
    OBVIOUS
  <2>7. last + TxStart + MaxLag \in Int /\ Round \in Int /\ now \in Int /\ now' \in Int /\ now =< now'
    BY <1>1, <1>2, <2>2
  <2>8. last + TxStart + MaxLag < Round + now'
    BY <2>3, <2>6, <2>7
  <2>. QED  BY <2>3, <2>5, <2>8 DEF last
<1>3. CASE OnNewSymbol
  <2> DEFINE task == DrainTask(now + 1)
  <2>1. /\ now' = now + 1 /\ task \in Tasks /\ tasks' = Append(tasks, task)
        /\ UNCHANGED <<drain, captured>>
    BY <1>3, SymbolStep
  <2>2. task.op = "drain"
    BY DEF DrainTask
  <2>3. /\ \A k \in 1 .. Len(tasks) : k \in 1 .. Len(tasks') /\ tasks'[k] = tasks[k]
        /\ tasks'[Len(tasks')] = task /\ Len(tasks') = Len(tasks) + 1
        /\ \A k \in 1 .. Len(tasks') : k \in 1 .. Len(tasks) \/ k = Len(tasks')
    BY <2>1, AddedTask
  <2>4. ASSUME NEW k \in 1 .. Len(tasks'), IsEncode(k)'
        PROVE  k \in 1 .. Len(tasks) /\ IsEncode(k) /\ tasks'[k] = tasks[k]
    BY <2>2, <2>3, <2>4 DEF IsEncode
  <2>5. now' >= now /\ now' \in Nat /\ captured'["uplink"] \in Int /\ captured'["uplink"] >= captured["uplink"]
    BY <1>1, <2>1
  <2>6. ASSUME NEW k \in 1 .. Len(tasks'), IsEncode(k)'
        PROVE  /\ tasks'[k].frames > 0
               /\ drain'.at < tasks'[k].at + TxStart
               /\ LastUplink(tasks'[k].at, tasks'[k].frames) =< captured'["uplink"]
               /\ LastUplink(tasks'[k].at, tasks'[k].frames) + TxStart + MaxLag < Round + now'
    BY <1>2, <2>1, <2>4, <2>5, <2>6
  <2>7. ASSUME NEW k \in 1 .. Len(tasks'), NEW l \in 1 .. Len(tasks'), k < l, IsEncode(l)'
        PROVE  /\ IsDrain(k)' => tasks'[k].at < tasks'[l].at + TxStart
               /\ IsEncode(k)' => LastUplink(tasks'[k].at, tasks'[k].frames) < tasks'[l].at
    <3>1. l \in 1 .. Len(tasks) /\ IsEncode(l) /\ tasks'[l] = tasks[l]
      BY <2>4, <2>7
    <3>2. k \in 1 .. Len(tasks) /\ tasks'[k] = tasks[k]
      BY <1>1, <2>3, <2>7, <3>1
    <3>. QED  BY <2>7, <3>1, <3>2 DEF EncodesInv, IsDrain, IsEncode
  <2>. QED  BY <2>6, <2>7 DEF EncodesInv, Reaches, LastUplink
<1>4. CASE UplinkCaptured \/ UplinkScheduled
  <2>1. PICK task \in Tasks :
          /\ tasks' = Append(tasks, task)
          /\ task.op = "encode" /\ task.frames > 0
          /\ now < task.at + TxStart
          /\ captured["uplink"] < task.at
          /\ LastUplink(task.at, task.frames) = captured'["uplink"]
          /\ Reaches(LastUplink(task.at, task.frames))
          /\ UNCHANGED <<drain, now>>
    BY <1>4, UplinkStep
  <2>2. /\ \A k \in 1 .. Len(tasks) : k \in 1 .. Len(tasks') /\ tasks'[k] = tasks[k]
        /\ tasks'[Len(tasks')] = task /\ Len(tasks') = Len(tasks) + 1
        /\ \A k \in 1 .. Len(tasks') : k \in 1 .. Len(tasks) \/ k = Len(tasks')
    BY <2>1, AddedTask
  <2>3. task.at \in Nat /\ task.frames \in Nat \ {0}
    BY <2>1 DEF Tasks
  <2>4. captured'["uplink"] \in Int /\ captured'["uplink"] >= task.at
    <3>1. task.at \in Int
      BY <2>3
    <3>2. LastUplink(task.at, task.frames) \in Int /\ LastUplink(task.at, task.frames) >= task.at
      BY <2>3, <3>1, LastType
    <3>. QED  BY <2>1, <3>2
  <2>5. now' >= now /\ now' \in Nat /\ captured'["uplink"] \in Int /\ captured'["uplink"] >= captured["uplink"]
    BY <1>1, <2>1, <2>3, <2>4
  <2>6. ASSUME NEW k \in 1 .. Len(tasks'), IsEncode(k)'
        PROVE  /\ tasks'[k].frames > 0
               /\ drain'.at < tasks'[k].at + TxStart
               /\ LastUplink(tasks'[k].at, tasks'[k].frames) =< captured'["uplink"]
               /\ LastUplink(tasks'[k].at, tasks'[k].frames) + TxStart + MaxLag < Round + now'
    <3>1. CASE k \in 1 .. Len(tasks)
      <4>1. IsEncode(k) /\ tasks'[k] = tasks[k]
        BY <2>2, <2>6, <3>1 DEF IsEncode
      <4>. QED  BY <1>2, <2>1, <2>5, <3>1, <4>1
    <3>2. CASE k = Len(tasks')
      <4>1. tasks'[k] = task /\ drain.at =< now
        BY <2>2, <3>2 DEF QueueInv
      <4>2. drain.at < task.at + TxStart
        BY <1>1, <2>1, <2>3, <4>1
      <4>. QED  BY <2>1, <2>4, <4>1, <4>2 DEF Reaches
    <3>. QED  BY <2>2, <3>1, <3>2
  <2>7. ASSUME NEW k \in 1 .. Len(tasks'), NEW l \in 1 .. Len(tasks'), k < l, IsEncode(l)'
        PROVE  /\ IsDrain(k)' => tasks'[k].at < tasks'[l].at + TxStart
               /\ IsEncode(k)' => LastUplink(tasks'[k].at, tasks'[k].frames) < tasks'[l].at
    <3>1. k \in 1 .. Len(tasks) /\ tasks'[k] = tasks[k]
      BY <1>1, <2>2, <2>7
    <3>2. CASE l \in 1 .. Len(tasks)
      <4>1. IsEncode(l) /\ tasks'[l] = tasks[l]
        BY <2>2, <2>7, <3>2 DEF IsEncode
      <4>. QED  BY <2>7, <3>1, <3>2, <4>1 DEF EncodesInv, IsDrain, IsEncode
    <3>3. CASE l = Len(tasks')
      <4>1. tasks'[l] = task
        BY <2>2, <3>3
      <4>2. ASSUME IsDrain(k)' PROVE tasks'[k].at < task.at + TxStart
        <5>1. IsDrain(k)
          BY <3>1, <4>2 DEF IsDrain
        <5>2. tasks[k].at =< now /\ tasks[k].at \in Nat
          BY <3>1, <5>1, TimelyTypes DEF QueueInv
        <5>. QED  BY <1>1, <2>1, <2>3, <3>1, <5>2
      <4>3. ASSUME IsEncode(k)' PROVE LastUplink(tasks'[k].at, tasks'[k].frames) < task.at
        <5>1. IsEncode(k) /\ tasks[k].at \in Int /\ tasks[k].frames \in Nat
          BY <3>1, <4>3, TimelyTypes DEF IsEncode
        <5>2. LastUplink(tasks[k].at, tasks[k].frames) =< captured["uplink"] /\ tasks[k].frames > 0
          BY <3>1, <5>1 DEF EncodesInv
        <5>3. LastUplink(tasks[k].at, tasks[k].frames) \in Int
          BY <5>1, <5>2, LastType
        <5>. QED  BY <1>1, <2>1, <2>3, <3>1, <5>2, <5>3
      <4>. QED  BY <4>1, <4>2, <4>3
    <3>. QED  BY <2>2, <3>2, <3>3
  <2>. QED  BY <2>6, <2>7 DEF EncodesInv, Reaches, LastUplink
<1>5. CASE TakeTask
  <2>1. /\ tasks # << >> /\ tasks' = Tail(tasks) /\ UNCHANGED <<now, captured>>
        /\ drain' = drain \/ (IsDrain(1) /\ drain'.at = drain.at + 1)
    BY <1>5, TakeStep
  <2>2. /\ 1 \in 1 .. Len(tasks)
        /\ \A k \in 1 .. Len(tasks') : k + 1 \in 1 .. Len(tasks) /\ tasks'[k] = tasks[k + 1]
    BY <2>1, TakenTask
  <2>3. now' >= now /\ now' \in Nat /\ captured'["uplink"] \in Int /\ captured'["uplink"] >= captured["uplink"]
    BY <1>1, <2>1
  <2>4. ASSUME NEW k \in 1 .. Len(tasks'), IsEncode(k)'
        PROVE  /\ tasks'[k].frames > 0
               /\ drain'.at < tasks'[k].at + TxStart
               /\ LastUplink(tasks'[k].at, tasks'[k].frames) =< captured'["uplink"]
               /\ LastUplink(tasks'[k].at, tasks'[k].frames) + TxStart + MaxLag < Round + now'
    <3>1. k + 1 \in 1 .. Len(tasks) /\ IsEncode(k + 1) /\ tasks'[k] = tasks[k + 1] /\ 1 < k + 1
      BY <2>2, <2>4 DEF IsEncode
    <3>2. /\ tasks'[k].frames > 0
          /\ drain.at < tasks'[k].at + TxStart
          /\ LastUplink(tasks'[k].at, tasks'[k].frames) =< captured'["uplink"]
          /\ LastUplink(tasks'[k].at, tasks'[k].frames) + TxStart + MaxLag < Round + now'
      BY <1>2, <2>3, <3>1
    <3>3. CASE IsDrain(1) /\ drain'.at = drain.at + 1
      <4>1. tasks[1].at < tasks[k + 1].at + TxStart
        BY <2>2, <3>1, <3>3 DEF EncodesInv
      <4>2. drain.at < tasks[1].at /\ tasks[1].at \in Nat /\ tasks[k + 1].at \in Nat
        BY <2>2, <3>1, <3>3, TimelyTypes DEF QueueInv
      <4>3. drain.at + 1 < tasks[k + 1].at + TxStart
        BY <1>1, <4>1, <4>2, SMTT(30)
      <4>. QED  BY <3>1, <3>2, <3>3, <4>3
    <3>. QED  BY <2>1, <3>2, <3>3
  <2>5. ASSUME NEW k \in 1 .. Len(tasks'), NEW l \in 1 .. Len(tasks'), k < l, IsEncode(l)'
        PROVE  /\ IsDrain(k)' => tasks'[k].at < tasks'[l].at + TxStart
               /\ IsEncode(k)' => LastUplink(tasks'[k].at, tasks'[k].frames) < tasks'[l].at
    <3>1. /\ k + 1 \in 1 .. Len(tasks) /\ tasks'[k] = tasks[k + 1]
          /\ l + 1 \in 1 .. Len(tasks) /\ tasks'[l] = tasks[l + 1] /\ IsEncode(l + 1) /\ k + 1 < l + 1
      BY <2>2, <2>5 DEF IsEncode
    <3>. QED  BY <3>1 DEF EncodesInv, IsDrain, IsEncode
  <2>. QED  BY <2>4, <2>5 DEF EncodesInv, Reaches, LastUplink
<1>6. CASE Quiet
  BY <1>6 DEF Quiet, EncodesInv, IsDrain, IsEncode, Reaches, LastUplink
<1>. QED  BY <1>3, <1>4, <1>5, <1>6

\* The uplink message being encoded is ahead of its last drain too, and of the
\* encodings in the queue.
UplinkJob ==
  pc["uplink"] # "idle" =>
    /\ job["uplink"].left > 0
    /\ drain.at < job["uplink"].symbol + TxStart
    /\ LastUplink(job["uplink"].symbol, job["uplink"].left) =< captured["uplink"]
    /\ Reaches(LastUplink(job["uplink"].symbol, job["uplink"].left))
    /\ \A k \in 1 .. Len(tasks) : IsEncode(k) =>
         LastUplink(job["uplink"].symbol, job["uplink"].left) < tasks[k].at

\* PRACH is encoded within a symbol of its hand-over, two before its last drain.
PrachJob ==
  pc["prach"] # "idle" =>
    /\ job["prach"].left > 0
    /\ job["prach"].since =< now /\ now =< job["prach"].since + 1
    /\ job["prach"].since + 2 =< job["prach"].symbol + TxStart
    /\ job["prach"].symbol + job["prach"].left - 1 =< captured["prach"]
    /\ Reaches(job["prach"].symbol + job["prach"].left - 1)

\* The steps of an encoder that leave its job as it is.
KeepsJob(kind) ==
  /\ job'[kind] = job[kind] /\ captured'[kind] = captured[kind]
  /\ pc'[kind] # "idle" => pc[kind] # "idle"

\* A job begins with a message and goes on with the next frame.
LEMMA JobSteps ==
  ASSUME TypeOK, QuietStep, NEW kind \in Kinds
  PROVE  \/ KeepsJob(kind)
         \/ kind = "prach" /\ (PrachCaptured \/ PrachScheduled)
         \/ Push(kind)
<1> USE ActorNames
<1>1. CASE PollAgain \/ UNCHANGED vars
  BY <1>1 DEF PollAgain, vars, pool, steps, KeepsJob
<1>2. CASE (PrachCaptured \/ PrachScheduled) /\ kind = "uplink"
  <2>1. PICK s : EnqueuePrach(s)
    BY <1>2 DEF PrachCaptured, PrachScheduled
  <2>. QED  BY <1>2, <2>1 DEF EnqueuePrach, Begin, KeepsJob, TypeOK
<1>3. ASSUME NEW k \in Kinds, Encode(k) PROVE KeepsJob(kind) \/ Push(kind)
  <2>1. CASE Push(k) /\ k # kind
    BY <2>1 DEF Push, KeepsJob, TypeOK
  <2>2. CASE Reserve(k) \/ Fill(k) \/ Release(k)
    BY <2>2 DEF Reserve, Fill, Release, KeepsJob, TypeOK
  <2>. QED  BY <1>3, <2>1, <2>2 DEF Encode
<1>4. CASE DrainPop \/ DrainQueue \/ DrainNext \/ Send \/ ReleaseSent \/ PushSent
  BY <1>4 DEF DrainPop, DrainQueue, DrainNext, Send, ReleaseSent, PushSent, KeepsJob, TypeOK
<1>5. kind = "uplink" \/ kind = "prach"
  BY DEF Kinds
<1>. QED  BY <1>1, <1>2, <1>3, <1>4, <1>5 DEF QuietStep

LEMMA UplinkJobInductive ==
  ASSUME Timely, TypeOK, TypeOK', QueueInv, EncodesInv, UplinkJob,
         OnNewSymbol \/ UplinkCaptured \/ UplinkScheduled \/ TakeTask \/ QuietStep
  PROVE  UplinkJob'
<1> DEFINE s == job["uplink"].symbol
           n == job["uplink"].left
           last == LastUplink(s, n)
<1>1. /\ now \in Nat /\ drain.at \in Nat /\ TxStart \in Nat /\ MaxLag \in Nat /\ Round \in Nat
      /\ Len(tasks) \in Nat /\ captured["uplink"] \in Int /\ s \in Int /\ n \in Nat
  BY TimelyTypes, FrameAssumption, RoundType, ActorNames
<1>2. ASSUME pc["uplink"] # "idle"
      PROVE  /\ n > 0 /\ n \in Nat \ {0} /\ drain.at < s + TxStart
             /\ last \in Int /\ last =< captured["uplink"] /\ last + TxStart + MaxLag < Round + now
             /\ \A k \in 1 .. Len(tasks) : IsEncode(k) => last < tasks[k].at
  <2>1. /\ n > 0 /\ drain.at < s + TxStart
        /\ last =< captured["uplink"] /\ last + TxStart + MaxLag < Round + now
        /\ \A k \in 1 .. Len(tasks) : IsEncode(k) => last < tasks[k].at
    BY <1>2 DEF UplinkJob, Reaches
  <2>2. n \in Nat \ {0}
    BY <1>1, <2>1
  <2>3. last \in Int
    BY <1>1, <2>2, LastType
  <2>. QED  BY <2>1, <2>2, <2>3
<1>. HIDE DEF s, n, last
<1>3. CASE OnNewSymbol
  <2>1. /\ now' = now + 1 /\ DrainTask(now + 1) \in Tasks /\ tasks' = Append(tasks, DrainTask(now + 1))
        /\ UNCHANGED <<drain, captured, pc, job>>
    BY <1>3, SymbolStep
  <2>2. SUFFICES ASSUME pc["uplink"] # "idle" PROVE UplinkJob'
    BY <2>1 DEF UplinkJob
  <2>3. last + TxStart + MaxLag < Round + now'
    BY <1>1, <1>2, <2>1, <2>2
  <2>4. ASSUME NEW k \in 1 .. Len(tasks'), IsEncode(k)' PROVE last < tasks'[k].at
    <3>1. k \in 1 .. Len(tasks) /\ tasks'[k] = tasks[k]
      BY <2>1, <2>4, AddedTask DEF IsEncode, DrainTask
    <3>. QED  BY <1>2, <2>2, <2>4, <3>1 DEF IsEncode
  <2>. QED  BY <1>2, <2>1, <2>2, <2>3, <2>4 DEF UplinkJob, Reaches, last, s, n, LastUplink
<1>4. CASE UplinkCaptured \/ UplinkScheduled
  <2>1. PICK task \in Tasks :
          /\ tasks' = Append(tasks, task)
          /\ task.frames > 0
          /\ captured["uplink"] < task.at
          /\ LastUplink(task.at, task.frames) = captured'["uplink"]
          /\ UNCHANGED <<drain, now, pc, job>>
    BY <1>4, UplinkStep
  <2>2. SUFFICES ASSUME pc["uplink"] # "idle" PROVE UplinkJob'
    BY <2>1 DEF UplinkJob
  <2>3. task.at \in Int /\ task.frames \in Nat \ {0}
    BY <2>1 DEF Tasks
  <2>4. LastUplink(task.at, task.frames) \in Int /\ LastUplink(task.at, task.frames) >= task.at
    BY <2>3, LastType
  <2>5. last < task.at /\ last =< captured'["uplink"]
    BY <1>1, <1>2, <2>1, <2>2, <2>3, <2>4
  <2>6. ASSUME NEW k \in 1 .. Len(tasks'), IsEncode(k)' PROVE last < tasks'[k].at
    <3>1. (k \in 1 .. Len(tasks) /\ tasks'[k] = tasks[k]) \/ tasks'[k] = task
      BY <2>1, AddedTask
    <3>. QED  BY <1>2, <2>2, <2>5, <2>6, <3>1 DEF IsEncode
  <2>. QED  BY <1>2, <2>1, <2>2, <2>5, <2>6 DEF UplinkJob, Reaches, last, s, n, LastUplink
<1>5. CASE TakeTask
  <2>1. /\ tasks # << >> /\ tasks' = Tail(tasks) /\ pc["uplink"] = "idle"
        /\ UNCHANGED <<now, captured>>
    BY <1>5, TakeStep
  <2>2. /\ 1 \in 1 .. Len(tasks)
        /\ \A k \in 1 .. Len(tasks') : k + 1 \in 1 .. Len(tasks) /\ tasks'[k] = tasks[k + 1]
    BY <2>1, TakenTask
  <2>3. CASE /\ IsEncode(1)
             /\ job' = [job EXCEPT !["uplink"] =
                          [symbol |-> tasks[1].at, left |-> tasks[1].frames, since |-> now]]
             /\ drain' = drain
    <3>1. job'["uplink"].symbol = tasks[1].at /\ job'["uplink"].left = tasks[1].frames
      BY <2>3, ActorNames DEF TypeOK
    <3>2. /\ tasks[1].frames > 0
          /\ drain.at < tasks[1].at + TxStart
          /\ LastUplink(tasks[1].at, tasks[1].frames) =< captured["uplink"]
          /\ LastUplink(tasks[1].at, tasks[1].frames) + TxStart + MaxLag < Round + now
      BY <2>2, <2>3 DEF EncodesInv, Reaches
    <3>3. ASSUME NEW k \in 1 .. Len(tasks'), IsEncode(k)'
          PROVE  LastUplink(tasks[1].at, tasks[1].frames) < tasks'[k].at
      <4>1. k + 1 \in 1 .. Len(tasks) /\ tasks'[k] = tasks[k + 1] /\ IsEncode(k + 1) /\ 1 < k + 1
        BY <2>2, <3>3 DEF IsEncode
      <4>. QED  BY <2>2, <2>3, <4>1 DEF EncodesInv
    <3>. QED  BY <2>1, <2>3, <3>1, <3>2, <3>3 DEF UplinkJob, Reaches, LastUplink
  <2>4. CASE pc' = [pc EXCEPT !["drain"] = "collect"]
    <3>1. pc'["uplink"] = "idle"
      BY <2>1, <2>4, ActorNames DEF TypeOK
    <3>. QED  BY <3>1 DEF UplinkJob
  <2>. QED  BY <1>5, <2>3, <2>4, TakeStep
<1>6. CASE QuietStep
  <2>1. /\ UNCHANGED <<tasks, now>> /\ drain'.at = drain.at
        /\ captured'["uplink"] = captured["uplink"]
    BY <1>6, QuietSteps DEF Quiet
  <2>2. CASE KeepsJob("uplink")
    BY <2>1, <2>2 DEF KeepsJob, UplinkJob, Reaches, LastUplink, IsEncode
  <2>3. CASE Push("uplink")
    <3>1. pc["uplink"] # "idle"
      BY <2>3 DEF Push
    <3>2. CASE n > 1
      <4>1. job'["uplink"] = NextFrame("uplink")
        BY <2>3, <3>2, ActorNames DEF Push, TypeOK, n
      <4> DEFINE t == s + (IF (n - 1) % Fragments = 0 THEN 1 ELSE 0)
      <4>2. job'["uplink"].symbol = t /\ job'["uplink"].left = n - 1
        BY <4>1 DEF NextFrame, s, n
      <4>3. LastUplink(t, n - 1) = last
        BY <1>1, <3>2, LastOfRest DEF last
      <4>4. t \in Int /\ t >= s /\ n - 1 > 0
        BY <1>1, <3>2
      <4>. HIDE DEF t
      <4>5. drain.at < t + TxStart
        BY <1>1, <1>2, <3>1, <4>4
      <4>6. /\ last =< captured["uplink"] /\ last + TxStart + MaxLag < Round + now
            /\ \A k \in 1 .. Len(tasks) : IsEncode(k) => last < tasks[k].at
        BY <1>2, <3>1
      <4>7. job'["uplink"].left > 0 /\ LastUplink(job'["uplink"].symbol, job'["uplink"].left) = last
        BY <4>2, <4>3, <4>4
      <4>. QED  BY <2>1, <4>2, <4>5, <4>6, <4>7 DEF UplinkJob, Reaches, LastUplink, IsEncode
    <3>3. CASE ~(n > 1)
      <4>1. pc'["uplink"] = "idle"
        BY <2>3, <3>3, ActorNames DEF Push, TypeOK, n
      <4>. QED  BY <4>1 DEF UplinkJob
    <3>. QED  BY <3>2, <3>3
  <2>. QED  BY <1>6, <2>2, <2>3, JobSteps DEF Kinds
<1>. QED  BY <1>3, <1>4, <1>5, <1>6

LEMMA PrachJobInductive ==
  ASSUME Timely, TypeOK, TypeOK', QueueInv, EncodesInv, PrachJob,
         OnNewSymbol \/ UplinkCaptured \/ UplinkScheduled \/ TakeTask \/ QuietStep
  PROVE  PrachJob'
<1> USE ActorNames
<1>1. /\ now \in Nat /\ TxStart \in Nat /\ MaxLag \in Nat /\ Round \in Nat
      /\ job["prach"].symbol \in Int /\ job["prach"].left \in Nat /\ job["prach"].since \in Nat
  BY TimelyTypes, FrameAssumption, RoundType
<1>2. CASE OnNewSymbol
  <2>1. /\ now' = now + 1 /\ UNCHANGED <<captured, pc, job>>
        /\ pc["prach"] = "idle" \/ job["prach"].since = now
    BY <1>2, SymbolStep
  <2>. QED  BY <1>1, <2>1 DEF PrachJob, Reaches
<1>3. CASE UplinkCaptured \/ UplinkScheduled
  <2>1. /\ UNCHANGED <<now, pc, job>> /\ captured'["prach"] = captured["prach"]
    <3>1. PICK s \in Int, n \in Nat \ {0} : EnqueueUplink(s, n)
      BY <1>3, UplinkReply
    <3>. QED  BY <3>1 DEF EnqueueUplink, steps, TypeOK
  <2>. QED  BY <2>1 DEF PrachJob, Reaches
<1>4. CASE TakeTask
  <2>1. /\ UNCHANGED <<now, captured>>
        /\ job'["prach"] = job["prach"] /\ pc'["prach"] = pc["prach"]
    BY <1>4, TakeStep DEF TypeOK
  <2>. QED  BY <2>1 DEF PrachJob, Reaches
<1>5. CASE QuietStep
  <2>1. UNCHANGED now
    BY <1>5, QuietSteps DEF Quiet
  <2>2. CASE KeepsJob("prach")
    BY <2>1, <2>2 DEF KeepsJob, PrachJob, Reaches
  <2>3. CASE PrachCaptured \/ PrachScheduled
    <3>1. PICK s \in Int : EnqueuePrach(s) /\ now + 2 =< s + TxStart /\ Reaches(s + PrachSymbols - 1)
      BY <2>3, PrachReply
    <3>2. /\ job'["prach"].symbol = s /\ job'["prach"].left = PrachSymbols /\ job'["prach"].since = now
          /\ captured'["prach"] = s + PrachSymbols - 1
      BY <3>1 DEF EnqueuePrach, Begin, TypeOK
    <3>3. PrachSymbols > 0 /\ PrachSymbols \in Nat
      BY FrameAssumption
    <3>4. job'["prach"].since =< now' /\ now' =< job'["prach"].since + 1
      BY <1>1, <2>1, <3>2
    <3>5. s + PrachSymbols - 1 =< captured'["prach"]
      BY <3>2, <3>3
    <3>6. job'["prach"].since + 2 =< job'["prach"].symbol + TxStart
      BY <3>1, <3>2
    <3>. QED  BY <2>1, <3>1, <3>2, <3>3, <3>4, <3>5, <3>6 DEF PrachJob, Reaches
  <2>4. CASE Push("prach")
    <3>1. pc["prach"] # "idle" /\ UNCHANGED captured
      BY <2>4 DEF Push
    <3>2. CASE job["prach"].left > 1
      <4>1. job'["prach"] = NextFrame("prach")
        BY <2>4, <3>2 DEF Push, TypeOK
      <4>2. /\ job'["prach"].symbol = job["prach"].symbol + 1
            /\ job'["prach"].left = job["prach"].left - 1
            /\ job'["prach"].since = job["prach"].since
        BY <4>1 DEF NextFrame
      <4>. QED  BY <1>1, <2>1, <3>1, <3>2, <4>2 DEF PrachJob, Reaches
    <3>3. CASE ~(job["prach"].left > 1)
      <4>1. pc'["prach"] = "idle"
        BY <2>4, <3>3 DEF Push, TypeOK
      <4>. QED  BY <4>1 DEF PrachJob
    <3>. QED  BY <3>2, <3>3
  <2>. QED  BY <1>5, <2>2, <2>3, <2>4, JobSteps DEF Kinds
<1>. QED  BY <1>2, <1>3, <1>4, <1>5
-----------------------------------------------------------------------------
\* An encoder holds a buffer of the entry of its symbol and stamps it with it.
HandsInv ==
  \A k \in Kinds :
    /\ pc[k] \in {"fill", "release", "push"} =>
         hand[k].kind = k /\ hand[k].entry = EntryOf(job[k].symbol)
    /\ pc[k] \in {"release", "push"} => stamp[hand[k]] = job[k].symbol

LEMMA HandsInductive ==
  ASSUME Timely, IInv, QueueInv, EncodesInv, HandsInv,
         OnNewSymbol \/ UplinkCaptured \/ UplinkScheduled \/ TakeTask \/ QuietStep
  PROVE  HandsInv'
<1> USE ActorNames
<1>1. TypeOK /\ Hands /\ Apart
  BY DEF IInv
\* What leaves an encoder where it is keeps what is said of it.
<1>2. ASSUME NEW k \in Kinds, pc'[k] = pc[k], hand'[k] = hand[k], job'[k] = job[k],
             hand[k] # NoBuffer => stamp'[hand[k]] = stamp[hand[k]]
      PROVE  /\ pc'[k] \in {"fill", "release", "push"} =>
                  hand'[k].kind = k /\ hand'[k].entry = EntryOf(job'[k].symbol)
             /\ pc'[k] \in {"release", "push"} => stamp'[hand'[k]] = job'[k].symbol
  BY <1>1, <1>2 DEF HandsInv, Hands
<1>3. CASE OnNewSymbol
  BY <1>1, <1>3, SymbolStep DEF HandsInv, EntryOf
<1>4. CASE UplinkCaptured \/ UplinkScheduled
  BY <1>1, <1>4, UplinkStep DEF HandsInv, EntryOf
<1>5. CASE TakeTask
  <2>1. UNCHANGED <<stamp, hand>> /\ \A k \in Kinds : pc'[k] = "reserve" \/ (pc'[k] = pc[k] /\ job'[k] = job[k])
    BY <1>1, <1>5, TakeStep DEF TypeOK
  <2>. QED  BY <1>2, <2>1 DEF HandsInv, EntryOf
<1>6. CASE PollAgain \/ UNCHANGED vars
  BY <1>6 DEF PollAgain, vars, pool, steps, HandsInv, EntryOf
<1>7. CASE PrachCaptured \/ PrachScheduled
  <2>1. PICK s : EnqueuePrach(s)
    BY <1>7 DEF PrachCaptured, PrachScheduled
  <2>2. UNCHANGED <<stamp, hand>> /\ \A k \in Kinds : pc'[k] = "reserve" \/ (pc'[k] = pc[k] /\ job'[k] = job[k])
    BY <1>1, <2>1 DEF EnqueuePrach, Begin, pool, TypeOK
  <2>. QED  BY <1>2, <2>2 DEF HandsInv, EntryOf
<1>8. ASSUME NEW e \in Kinds, Encode(e) PROVE HandsInv'
  <2>1. ASSUME NEW k \in Kinds, k # e
        PROVE  /\ pc'[k] = pc[k] /\ hand'[k] = hand[k] /\ job'[k] = job[k]
               /\ hand[k] # NoBuffer => stamp'[hand[k]] = stamp[hand[k]]
    <3>1. hand[k] # NoBuffer => hand[k] # hand[e] /\ hand[k] \in Buffers
      BY <1>1, <2>1 DEF Apart, TypeOK
    <3>2. CASE Reserve(e) \/ Release(e) \/ Push(e)
      BY <1>1, <2>1, <3>2 DEF Reserve, Release, Push, TypeOK
    <3>3. CASE Fill(e)
      BY <1>1, <2>1, <3>1, <3>3 DEF Fill, TypeOK
    <3>. QED  BY <1>8, <3>2, <3>3 DEF Encode
  <2>2. /\ pc'[e] \in {"fill", "release", "push"} =>
             hand'[e].kind = e /\ hand'[e].entry = EntryOf(job'[e].symbol)
        /\ pc'[e] \in {"release", "push"} => stamp'[hand'[e]] = job'[e].symbol
    <3>1. CASE Reserve(e)
      BY <1>1, <3>1 DEF Reserve, InEntry, TypeOK
    <3>2. CASE Fill(e)
      <4>1. pc[e] = "fill" /\ hand[e] \in Buffers
        BY <1>1, <3>2 DEF Fill, Hands, TypeOK
      <4>2. hand[e].kind = e /\ hand[e].entry = EntryOf(job[e].symbol)
        BY <4>1 DEF HandsInv
      <4>3. hand' = hand /\ job' = job /\ stamp'[hand[e]] = job[e].symbol
        BY <1>1, <3>2, <4>1 DEF Fill, TypeOK
      <4>. QED  BY <4>2, <4>3
    <3>3. CASE Release(e)
      <4>1. pc[e] = "release" /\ UNCHANGED <<hand, job, stamp>>
        BY <3>3 DEF Release
      <4>. QED  BY <4>1 DEF HandsInv
    <3>4. CASE Push(e)
      <4>1. pc'[e] \in {"reserve", "idle"}
        BY <1>1, <3>4 DEF Push, TypeOK
      <4>. QED  BY <4>1
    <3>. QED  BY <1>8, <3>1, <3>2, <3>3, <3>4 DEF Encode
  <2>3. ASSUME NEW k \in Kinds
        PROVE  /\ pc'[k] \in {"fill", "release", "push"} =>
                    hand'[k].kind = k /\ hand'[k].entry = EntryOf(job'[k].symbol)
               /\ pc'[k] \in {"release", "push"} => stamp'[hand'[k]] = job'[k].symbol
    BY <1>2, <2>1, <2>2
  <2>. QED  BY <2>3 DEF HandsInv, EntryOf
<1>9. CASE DrainPop \/ DrainQueue \/ DrainNext \/ Send \/ ReleaseSent \/ PushSent
  <2>1. ASSUME NEW k \in Kinds
        PROVE  /\ pc'[k] = pc[k] /\ hand'[k] = hand[k] /\ job'[k] = job[k]
               /\ hand[k] # NoBuffer => stamp'[hand[k]] = stamp[hand[k]]
    <3>1. CASE DrainPop \/ DrainQueue \/ DrainNext \/ Send \/ PushSent
      BY <1>1, <3>1 DEF DrainPop, DrainQueue, DrainNext, Send, PushSent, pool, TypeOK
    <3>2. CASE ReleaseSent
      <4>1. hand[k] \notin burst /\ (hand[k] # NoBuffer => hand[k] \in Buffers)
        BY <1>1 DEF Apart, TypeOK
      <4>. QED  BY <1>1, <3>2, <4>1 DEF ReleaseSent, TypeOK
    <3>. QED  BY <1>9, <3>1, <3>2
  <2>2. ASSUME NEW k \in Kinds
        PROVE  /\ pc'[k] \in {"fill", "release", "push"} =>
                    hand'[k].kind = k /\ hand'[k].entry = EntryOf(job'[k].symbol)
               /\ pc'[k] \in {"release", "push"} => stamp'[hand'[k]] = job'[k].symbol
    BY <1>2, <2>1
  <2>. QED  BY <2>2 DEF HandsInv, EntryOf
<1>. QED  BY <1>3, <1>4, <1>5, <1>6, <1>7, <1>8, <1>9 DEF QuietStep

\* The last drain of a frame is at work and has not yet come to its entry.
NotPassed(b) ==
  /\ pc["drain"] \in {"collect", "queue"} /\ drain.at = stamp[b] + TxStart
  /\ \/ drain.kind = b.kind /\ drain.next = WindowStart(drain.at)
     \/ drain.kind = "uplink" /\ b.kind = "prach"

\* A frame waits in the entry of its symbol, ahead of its last drain.
Waits(b) ==
  /\ b.entry = EntryOf(stamp[b])
  /\ Reaches(stamp[b])
  /\ drain.at < stamp[b] + TxStart \/ NotPassed(b)

PendingInv == \A b \in pending : Waits(b)

\* The frames the drain has taken from the pools.
Leaving == burst \cup (IF pc["drain"] = "queue" THEN {hand["drain"]} ELSE {})

\* The drain takes the frames of its own interval only.
LeavingInv ==
  /\ \A b \in Leaving : b.entry = EntryOf(stamp[b]) /\ drain.at - stamp[b] \in TxEnd .. TxStart
  /\ pc["drain"] \in {"collect", "queue"} => drain.next >= WindowStart(drain.at)
  /\ pc["drain"] = "idle" => burst = {}

\* The frame an encoder pushes is in time.
LEMMA PushedInTime ==
  ASSUME TypeOK, QueueInv, UplinkJob, PrachJob, NEW k \in Kinds, pc[k] # "idle"
  PROVE  Reaches(job[k].symbol) /\ drain.at < job[k].symbol + TxStart
<1> DEFINE s == job[k].symbol
           n == job[k].left
<1>1. /\ now \in Nat /\ drain.at \in Nat /\ TxStart \in Nat /\ MaxLag \in Nat /\ Round \in Nat
      /\ s \in Int /\ n \in Nat /\ job[k].since \in Nat /\ drain.at =< now
  BY TimelyTypes, FrameAssumption, RoundType DEF QueueInv
<1>2. CASE k = "uplink"
  <2>1. n > 0 /\ drain.at < s + TxStart /\ LastUplink(s, n) + TxStart + MaxLag < Round + now
    BY <1>2 DEF UplinkJob, Reaches
  <2>2. n \in Nat \ {0}
    BY <1>1, <2>1
  <2>3. LastUplink(s, n) \in Int /\ LastUplink(s, n) >= s
    BY <1>1, <2>2, LastType
  <2>. HIDE DEF s, n
  <2>4. s + TxStart + MaxLag < Round + now
    BY <1>1, <2>1, <2>3
  <2>. QED  BY <2>1, <2>4 DEF Reaches, s
<1>3. CASE k = "prach"
  <2>1. /\ n > 0 /\ now =< job[k].since + 1 /\ job[k].since + 2 =< s + TxStart
        /\ s + n - 1 + TxStart + MaxLag < Round + now
    BY <1>3 DEF PrachJob, Reaches
  <2>. HIDE DEF s, n
  <2>2. s + TxStart + MaxLag < Round + now /\ drain.at < s + TxStart
    BY <1>1, <2>1
  <2>. QED  BY <2>2 DEF Reaches, s
<1>. QED  BY <1>2, <1>3 DEF Kinds

\* A drain passes no frame whose last chance it is.
LEMMA NothingPassed ==
  ASSUME Timely, TypeOK, PendingInv, DrainNext, NEW b \in pending, NotPassed(b)
  PROVE  NotPassed(b)'
<1> USE ActorNames
<1>1. b.entry = EntryOf(stamp[b]) /\ stamp[b] \in Int /\ b \in Buffers
  BY TimelyTypes DEF PendingInv, Waits, TypeOK
<1>2. TxStart \in Nat /\ TxEnd \in Nat /\ TxEnd =< TxStart /\ drain.at \in Nat
  BY FrameAssumption, TimelyTypes DEF Timely
<1>3. Waiting = {} /\ pc["drain"] = "collect" /\ UNCHANGED stamp
  BY DEF DrainNext, pool
<1>4. ~(drain.kind = b.kind /\ drain.next = WindowStart(drain.at))
  <2>1. SUFFICES ASSUME drain.kind = b.kind, drain.next = WindowStart(drain.at) PROVE FALSE
    OBVIOUS
  <2>2. drain.next = stamp[b] /\ drain.next =< WindowEnd(drain.at)
    BY <1>1, <1>2, <2>1 DEF NotPassed, WindowStart, WindowEnd
  <2>3. b \in Waiting
    BY <1>1, <2>1, <2>2 DEF Waiting, InEntry
  <2>. QED  BY <1>3, <2>3
<1>5. drain.kind = "uplink" /\ b.kind = "prach" /\ drain.at = stamp[b] + TxStart
  BY <1>4 DEF NotPassed
<1>6. CASE /\ drain' = [at |-> drain.at, next |-> drain.next + 1, kind |-> drain.kind]
           /\ UNCHANGED pc
  BY <1>3, <1>5, <1>6 DEF NotPassed
<1>7. CASE /\ drain' = [at |-> drain.at, next |-> WindowStart(drain.at), kind |-> "prach"]
           /\ UNCHANGED pc
  BY <1>3, <1>5, <1>7 DEF NotPassed, WindowStart
<1>. QED  BY <1>5, <1>6, <1>7 DEF DrainNext

LEMMA PendingInductive ==
  ASSUME Timely, IInv, QueueInv, EncodesInv, UplinkJob, PrachJob, HandsInv, PendingInv,
         OnNewSymbol \/ UplinkCaptured \/ UplinkScheduled \/ TakeTask \/ QuietStep
  PROVE  PendingInv'
<1> USE ActorNames
<1>1. TypeOK /\ Hands /\ Apart
  BY DEF IInv
<1>2. /\ now \in Nat /\ drain.at \in Nat /\ TxStart \in Nat /\ MaxLag \in Nat /\ Round \in Nat
      /\ pending \subseteq Buffers /\ \A b \in Buffers : stamp[b] \in Int
  BY <1>1, TimelyTypes, FrameAssumption, RoundType DEF TypeOK
<1>3. CASE OnNewSymbol
  <2>1. now' = now + 1 /\ UNCHANGED <<stamp, pending, pc, drain>>
    BY <1>1, <1>3, SymbolStep
  <2>2. \A b \in pending : Reaches(stamp[b]) => Reaches(stamp[b])'
    BY <1>2, <2>1 DEF Reaches
  <2>. QED  BY <2>1, <2>2 DEF PendingInv, Waits, EntryOf, NotPassed, WindowStart
<1>4. CASE UplinkCaptured \/ UplinkScheduled
  BY <1>1, <1>4, UplinkStep DEF PendingInv, Waits, EntryOf, Reaches, NotPassed, WindowStart
<1>5. CASE TakeTask
  <2>1. UNCHANGED <<stamp, pending, now>> /\ pc["drain"] = "idle"
    BY <1>1, <1>5, TakeStep
  <2>2. SUFFICES ASSUME NEW b \in pending PROVE drain'.at < stamp[b] + TxStart \/ NotPassed(b)'
    BY <2>1 DEF PendingInv, Waits, EntryOf, Reaches
  <2>3. drain.at < stamp[b] + TxStart /\ stamp[b] \in Int /\ b \in Buffers
    BY <1>2, <2>1 DEF PendingInv, Waits, NotPassed
  <2>4. CASE drain' = drain
    BY <2>3, <2>4
  <2>5. CASE /\ pc' = [pc EXCEPT !["drain"] = "collect"]
             /\ drain' = [at |-> drain.at + 1, next |-> WindowStart(drain.at + 1), kind |-> "uplink"]
    <3>1. pc'["drain"] = "collect" /\ drain'.at = drain.at + 1 /\ drain'.kind = "uplink"
          /\ drain'.next = WindowStart(drain'.at)
      BY <1>1, <2>5 DEF TypeOK
    <3>2. drain.at + 1 < stamp[b] + TxStart \/ drain.at + 1 = stamp[b] + TxStart
      BY <1>2, <2>3
    <3>3. b.kind = "uplink" \/ b.kind = "prach"
      BY <2>3 DEF Buffers, Kinds
    <3>4. WindowStart(drain.at)' = WindowStart(drain'.at)
      BY DEF WindowStart
    <3>. QED  BY <2>1, <3>1, <3>2, <3>3, <3>4 DEF NotPassed
  <2>. QED  BY <1>1, <1>5, <2>4, <2>5, TakeStep
\* A frame that stays, while the drain does not move.
<1>6. ASSUME NEW b \in pending, stamp'[b] = stamp[b], now' = now, drain' = drain,
             pc["drain"] \in {"collect", "queue"} => pc'["drain"] \in {"collect", "queue"}
      PROVE  Waits(b)'
  BY <1>6 DEF PendingInv, Waits, EntryOf, Reaches, NotPassed, WindowStart
<1>7. CASE PollAgain \/ UNCHANGED vars
  BY <1>7 DEF PollAgain, vars, pool, steps, PendingInv, Waits, EntryOf, Reaches, NotPassed, WindowStart
<1>8. CASE PrachCaptured \/ PrachScheduled
  <2>1. PICK s : EnqueuePrach(s)
    BY <1>8 DEF PrachCaptured, PrachScheduled
  <2>2. UNCHANGED <<stamp, pending, drain, now>> /\ pc'["drain"] = pc["drain"]
    BY <1>1, <2>1 DEF EnqueuePrach, Begin, pool, TypeOK
  <2>. QED  BY <1>6, <2>2 DEF PendingInv
<1>9. ASSUME NEW k \in Kinds, Encode(k) PROVE PendingInv'
  <2>1. UNCHANGED <<drain, now>> /\ pc'["drain"] = pc["drain"]
    BY <1>1, <1>9 DEF Encode, Reserve, Fill, Release, Push, TypeOK
  <2>2. CASE Reserve(k) \/ Release(k)
    BY <1>6, <2>1, <2>2 DEF Reserve, Release, PendingInv
  <2>3. CASE Fill(k)
    <3>1. \A b \in pending : stamp'[b] = stamp[b]
      BY <1>1, <2>3 DEF Fill, Apart, TypeOK
    <3>. QED  BY <1>6, <2>1, <2>3, <3>1 DEF Fill, PendingInv
  <2>4. CASE Push(k)
    <3>1. pc[k] = "push" /\ hand[k] \in Buffers /\ UNCHANGED stamp /\ pending' = pending \cup {hand[k]}
      BY <1>1, <2>4 DEF Push, Hands, TypeOK
    <3>2. hand[k].entry = EntryOf(job[k].symbol) /\ stamp[hand[k]] = job[k].symbol
      BY <3>1 DEF HandsInv
    <3>3. Reaches(job[k].symbol) /\ drain.at < job[k].symbol + TxStart
      BY <1>1, <3>1, PushedInTime
    <3> DEFINE h == hand[k]
    <3>4. h.entry = EntryOf(stamp[h]) /\ Reaches(stamp[h]) /\ drain.at < stamp[h] + TxStart
      BY <3>2, <3>3
    <3>. HIDE DEF h
    <3>5. h.entry = EntryOf(stamp'[h]) /\ stamp'[h] + TxStart + MaxLag < Round + now' /\ drain'.at < stamp'[h] + TxStart
      BY <2>1, <3>1, <3>4 DEF Reaches
    <3>6. ASSUME NEW b \in pending' PROVE Waits(b)'
      <4>1. CASE b \in pending
        BY <1>6, <2>1, <3>1, <4>1
      <4>2. CASE b = h
        BY <3>5, <4>2 DEF Waits, Reaches, EntryOf
      <4>. QED  BY <3>1, <4>1, <4>2 DEF h
    <3>. QED  BY <3>6 DEF PendingInv
  <2>. QED  BY <1>9, <2>2, <2>3, <2>4 DEF Encode
<1>10. CASE DrainPop \/ DrainQueue
  <2>1. UNCHANGED <<drain, now, stamp>> /\ pc'["drain"] \in {"collect", "queue"} /\ pending' \subseteq pending
    BY <1>1, <1>10 DEF DrainPop, DrainQueue, TypeOK
  <2>. QED  BY <1>6, <2>1 DEF PendingInv
<1>11. CASE DrainNext
  <2>1. UNCHANGED <<now, stamp, pending>> /\ drain'.at = drain.at
    BY <1>11 DEF DrainNext, pool
  <2>2. ASSUME NEW b \in pending PROVE drain'.at < stamp[b] + TxStart \/ NotPassed(b)'
    BY <1>1, <1>11, <2>1, NothingPassed DEF PendingInv, Waits
  <2>. QED  BY <2>1, <2>2 DEF PendingInv, Waits, EntryOf, Reaches
<1>12. CASE Send \/ ReleaseSent \/ PushSent
  <2>1. UNCHANGED <<drain, now, pending>> /\ pc["drain"] \notin {"collect", "queue"}
    BY <1>12 DEF Send, ReleaseSent, PushSent, pool
  <2>2. \A b \in pending : stamp'[b] = stamp[b]
    BY <1>1, <1>12 DEF Send, ReleaseSent, PushSent, pool, Apart, TypeOK
  <2>. QED  BY <1>6, <2>1, <2>2 DEF PendingInv
<1>. QED  BY <1>3, <1>4, <1>5, <1>7, <1>8, <1>9, <1>10, <1>11, <1>12 DEF QuietStep

\* The frame a drain pops is of the very symbol it has come to: none of another
\* radio frame is in the entry.
LEMMA PoppedIsOwn ==
  ASSUME Timely, TypeOK, QueueInv, PendingInv, LeavingInv, pc["drain"] = "collect", NEW b \in Waiting
  PROVE  /\ b.entry = EntryOf(stamp[b]) /\ stamp[b] = drain.next
         /\ drain.at - stamp[b] \in TxEnd .. TxStart
<1> DEFINE s == stamp[b]
           n == drain.next
           a == drain.at
<1>1. b \in pending /\ b \in Buffers /\ b.entry = EntryOf(n) /\ n =< a - TxEnd
  BY DEF Waiting, InEntry, WindowEnd, TypeOK
<1>2. /\ b.entry = EntryOf(s) /\ s + TxStart + MaxLag < Round + now
      /\ a < s + TxStart \/ a = s + TxStart
  BY <1>1 DEF PendingInv, Waits, Reaches, NotPassed
<1>3. n >= a - TxStart /\ now =< a + MaxLag
  BY DEF LeavingInv, WindowStart, QueueInv
<1>4. /\ s \in Int /\ n \in Int /\ a \in Nat /\ now \in Nat /\ TxStart \in Nat /\ TxEnd \in Nat
      /\ MaxLag \in Nat /\ Round \in Nat /\ TxStart + MaxLag < Round
  BY <1>1, TimelyTypes, FrameAssumption, RoundType DEF Timely, Round
<1>. HIDE DEF s, n, a
<1>5. s - n < Round /\ s - n > -Round
  BY <1>1, <1>2, <1>3, <1>4
<1>6. s = n
  BY <1>1, <1>2, <1>4, <1>5, SameEntry
<1>7. a - s \in TxEnd .. TxStart
  BY <1>1, <1>3, <1>4, <1>6
<1>. QED  BY <1>2, <1>6, <1>7 DEF s, n, a

LEMMA LeavingInductive ==
  ASSUME Timely, IInv, QueueInv, EncodesInv, PendingInv, LeavingInv,
         OnNewSymbol \/ UplinkCaptured \/ UplinkScheduled \/ TakeTask \/ QuietStep
  PROVE  LeavingInv'
<1> USE ActorNames
<1>1. TypeOK /\ Hands /\ Apart
  BY DEF IInv
<1>2. /\ drain.at \in Nat /\ drain.next \in Int /\ TxStart \in Nat
      /\ Leaving \subseteq Buffers
  <2>1. pc["drain"] = "queue" => hand["drain"] \in Buffers
    BY <1>1 DEF Hands, TypeOK
  <2>. QED  BY <1>1, <2>1, TimelyTypes, FrameAssumption DEF Leaving, TypeOK
\* The steps the drain does not notice.
<1>3. ASSUME pc'["drain"] = pc["drain"], hand'["drain"] = hand["drain"],
             drain' = drain, burst' = burst, \A b \in Leaving : stamp'[b] = stamp[b]
      PROVE  LeavingInv'
  <2>1. Leaving' = Leaving
    BY <1>3 DEF Leaving
  <2>. QED  BY <1>3, <2>1 DEF LeavingInv, EntryOf, WindowStart
<1>4. CASE OnNewSymbol
  BY <1>1, <1>3, <1>4, SymbolStep
<1>5. CASE UplinkCaptured \/ UplinkScheduled
  BY <1>1, <1>3, <1>5, UplinkStep
<1>6. CASE TakeTask
  <2>1. pc["drain"] = "idle" /\ UNCHANGED <<stamp, burst, hand>> /\ burst = {}
    BY <1>1, <1>6, TakeStep DEF LeavingInv
  <2>2. CASE drain' = drain /\ pc' = [pc EXCEPT !["uplink"] = "reserve"]
    BY <1>1, <1>3, <2>1, <2>2 DEF TypeOK
  <2>3. CASE /\ pc' = [pc EXCEPT !["drain"] = "collect"]
             /\ drain' = [at |-> drain.at + 1, next |-> WindowStart(drain.at + 1), kind |-> "uplink"]
    <3>1. pc'["drain"] = "collect" /\ drain'.next = WindowStart(drain'.at) /\ drain'.at = drain.at + 1
      BY <1>1, <2>3 DEF TypeOK
    <3>2. Leaving' = {}
      BY <2>1, <3>1 DEF Leaving
    <3>3. drain'.next >= drain'.at - TxStart
      BY <1>2, <3>1 DEF WindowStart
    <3>. QED  BY <3>1, <3>2, <3>3 DEF LeavingInv, WindowStart
  <2>. QED  BY <1>1, <1>6, <2>2, <2>3, TakeStep
<1>7. CASE PollAgain \/ UNCHANGED vars
  BY <1>3, <1>7 DEF PollAgain, vars, pool, steps
<1>8. CASE PrachCaptured \/ PrachScheduled
  <2>1. PICK s : EnqueuePrach(s)
    BY <1>8 DEF PrachCaptured, PrachScheduled
  <2>. QED  BY <1>1, <1>3, <2>1 DEF EnqueuePrach, Begin, pool, TypeOK
<1>9. ASSUME NEW k \in Kinds, Encode(k) PROVE LeavingInv'
  <2>1. UNCHANGED <<drain, burst>> /\ pc'["drain"] = pc["drain"] /\ hand'["drain"] = hand["drain"]
    BY <1>1, <1>9 DEF Encode, Reserve, Fill, Release, Push, TypeOK
  <2>2. CASE Reserve(k) \/ Release(k) \/ Push(k)
    BY <1>3, <2>1, <2>2 DEF Reserve, Release, Push
  <2>3. CASE Fill(k)
    <3>1. pc[k] = "fill" /\ hand[k] \in Buffers /\ hand[k] # NoBuffer
      BY <1>1, <2>3, NoBufferApart DEF Fill, Hands, TypeOK
    <3>2. hand[k] \notin burst /\ hand[k] # hand["drain"]
      BY <1>1, <3>1 DEF Apart
    <3>3. hand[k] \notin Leaving
      BY <3>2 DEF Leaving
    <3>4. \A b \in Leaving : stamp'[b] = stamp[b]
      BY <1>1, <1>2, <2>3, <3>1, <3>3 DEF Fill, TypeOK
    <3>. QED  BY <1>3, <2>1, <3>4
  <2>. QED  BY <1>9, <2>2, <2>3 DEF Encode
<1>10. CASE DrainPop
  <2>1. PICK b \in Waiting : hand' = [hand EXCEPT !["drain"] = b]
    BY <1>10 DEF DrainPop
  <2>2. /\ pc["drain"] = "collect" /\ pc'["drain"] = "queue" /\ hand'["drain"] = b
        /\ UNCHANGED <<stamp, burst, drain>>
    BY <1>1, <1>10, <2>1 DEF DrainPop, TypeOK
  <2>3. b.entry = EntryOf(stamp[b]) /\ drain.at - stamp[b] \in TxEnd .. TxStart
    BY <1>1, <2>2, PoppedIsOwn
  <2>4. Leaving = burst /\ Leaving' = burst \cup {b}
    BY <2>2 DEF Leaving
  <2>. QED  BY <2>2, <2>3, <2>4 DEF LeavingInv, EntryOf, WindowStart
<1>11. CASE DrainQueue
  <2>1. /\ pc["drain"] = "queue" /\ pc'["drain"] = "collect" /\ UNCHANGED <<stamp, drain>>
        /\ burst' = burst \cup {hand["drain"]}
    BY <1>1, <1>11 DEF DrainQueue, TypeOK
  <2>2. Leaving' = Leaving
    BY <2>1 DEF Leaving
  <2>. QED  BY <2>1, <2>2 DEF LeavingInv, EntryOf, WindowStart
<1>12. CASE DrainNext
  <2>1. /\ pc["drain"] = "collect" /\ pc'["drain"] # "queue" /\ pc'["drain"] # "idle"
        /\ UNCHANGED <<stamp, burst>> /\ drain'.at = drain.at
        /\ drain'.next = drain.next \/ drain'.next = drain.next + 1 \/ drain'.next = WindowStart(drain.at)
    BY <1>1, <1>12 DEF DrainNext, pool, TypeOK
  <2>2. Leaving' = Leaving
    BY <2>1 DEF Leaving
  <2>3. drain'.next >= WindowStart(drain.at)
    BY <1>2, <2>1 DEF LeavingInv, WindowStart
  <2>. QED  BY <2>1, <2>2, <2>3 DEF LeavingInv, EntryOf, WindowStart
<1>13. CASE Send
  <2>1. /\ pc["drain"] = "send" /\ UNCHANGED <<stamp, burst, drain>>
        /\ pc'["drain"] = IF burst = {} THEN "idle" ELSE "release"
    BY <1>1, <1>13 DEF Send, pool, TypeOK
  <2>2. Leaving' = Leaving
    BY <2>1 DEF Leaving
  <2>. QED  BY <2>1, <2>2 DEF LeavingInv, EntryOf
<1>14. CASE ReleaseSent
  <2>1. PICK b \in burst : stamp' = [stamp EXCEPT ![b] = 0] /\ burst' = burst \ {b}
    BY <1>14 DEF ReleaseSent
  <2>2. pc["drain"] = "release" /\ pc'["drain"] = "push" /\ UNCHANGED drain
    BY <1>1, <1>14 DEF ReleaseSent, TypeOK
  <2>3. Leaving = burst /\ Leaving' = burst \ {b}
    BY <2>1, <2>2 DEF Leaving
  <2>4. \A c \in Leaving' : c \in Leaving /\ stamp'[c] = stamp[c]
    BY <1>1, <1>2, <2>1, <2>3 DEF TypeOK
  <2>. QED  BY <2>2, <2>4 DEF LeavingInv, EntryOf
<1>15. CASE PushSent
  <2>1. /\ pc["drain"] = "push" /\ UNCHANGED <<stamp, burst, drain>>
        /\ pc'["drain"] = IF burst = {} THEN "idle" ELSE "release"
    BY <1>1, <1>15 DEF PushSent, TypeOK
  <2>2. Leaving' = Leaving
    BY <2>1 DEF Leaving
  <2>. QED  BY <2>1, <2>2 DEF LeavingInv, EntryOf
<1>. QED  BY <1>4, <1>5, <1>6, <1>7, <1>8, <1>9, <1>10, <1>11, <1>12, <1>13, <1>14, <1>15 DEF QuietStep

\* The inductive invariant of the timely O-RU.
TimelyInv ==
  /\ IInv
  /\ QueueInv /\ EncodesInv
  /\ UplinkJob /\ PrachJob
  /\ HandsInv
  /\ PendingInv /\ LeavingInv

LEMMA NextIsStep ==
  ASSUME [Next]_vars
  PROVE  OnNewSymbol \/ UplinkCaptured \/ UplinkScheduled \/ TakeTask \/ QuietStep
BY DEF Next, WorkerStep, QuietStep

LEMMA InitTimely ==
  ASSUME Init
  PROVE  TimelyInv
<1>1. IInv
  BY InitIInv
<1>2. drain.at = 0 /\ now = 0 /\ tasks = << >> /\ Len(tasks) = 0 /\ \A a \in Actors : pc[a] = "idle"
  BY DEF Init
<1>3. QueueInv
  BY <1>2, FrameAssumption, ActorNames DEF QueueInv
<1>4. EncodesInv
  BY <1>2 DEF EncodesInv
<1>5. UplinkJob /\ PrachJob /\ HandsInv
  BY <1>2, ActorNames DEF UplinkJob, PrachJob, HandsInv
<1>6. PendingInv
  BY DEF Init, PendingInv
<1>7. LeavingInv
  BY <1>2, ActorNames DEF Init, LeavingInv, Leaving
<1>. QED  BY <1>1, <1>3, <1>4, <1>5, <1>6, <1>7 DEF TimelyInv

LEMMA TimelyInductive ==
  ASSUME Timely, TimelyInv, [Next]_vars
  PROVE  TimelyInv'
<1>1. IInv' /\ TypeOK' /\ TypeOK
  BY IInvInductive DEF TimelyInv, IInv
<1>2. OnNewSymbol \/ UplinkCaptured \/ UplinkScheduled \/ TakeTask \/ QuietStep
  BY NextIsStep
<1>3. OnNewSymbol \/ UplinkCaptured \/ UplinkScheduled \/ TakeTask \/ Quiet
  BY <1>1, <1>2, QuietSteps
<1>4. QueueInv' /\ EncodesInv'
  BY <1>1, <1>3, QueueInductive, EncodesInductive DEF TimelyInv
<1>5. UplinkJob'
  BY <1>1, <1>2, UplinkJobInductive DEF TimelyInv
<1>6. PrachJob'
  BY <1>1, <1>2, PrachJobInductive DEF TimelyInv
<1>7. HandsInv'
  BY <1>2, HandsInductive DEF TimelyInv
<1>8. PendingInv'
  BY <1>2, PendingInductive DEF TimelyInv
<1>9. LeavingInv'
  BY <1>2, LeavingInductive DEF TimelyInv
<1>. QED  BY <1>1, <1>4, <1>5, <1>6, <1>7, <1>8, <1>9 DEF TimelyInv

\* What the drain sends in a step is in the burst, and no other step sends.
LEMMA SendsInWindow ==
  ASSUME SentInWindow, TimelyInv, [Next]_vars
  PROVE  SentInWindow'
<1>1. CASE Send
  <2>1. \A b \in burst : drain.at - stamp[b] \in TxEnd .. TxStart
    BY DEF TimelyInv, LeavingInv, Leaving
  <2>. QED  BY <1>1, <2>1 DEF Send, SentInWindow
<1>2. CASE ~Send
  <2>1. sent' = {} \/ sent' = sent
    BY <1>2 DEF Next, OnNewSymbol, PollAgain, UplinkCaptured, PrachCaptured, UplinkScheduled,
      PrachScheduled, EnqueueUplink, EnqueuePrach, Encode, Reserve, Fill, Release, Push, WorkerStep,
      TakeTask, DrainPop, DrainQueue, DrainNext, ReleaseSent, PushSent, vars
  <2>. QED  BY <2>1 DEF SentInWindow
<1>. QED  BY <1>1, <1>2

\* Every frame goes out between TxEnd and TxStart symbols after its symbol was on
\* air, although the entries of the pools do not tell one radio frame from another.
THEOREM FrameSentInWindow == Timely /\ Spec => []SentInWindow
<1> SUFFICES ASSUME Timely PROVE Spec => []SentInWindow
  OBVIOUS
<1>1. Init => TimelyInv /\ SentInWindow
  BY InitTimely DEF Init, SentInWindow
<1>2. TimelyInv /\ SentInWindow /\ [Next]_vars => (TimelyInv /\ SentInWindow)'
  BY TimelyInductive, SendsInWindow
<1>. QED  BY <1>1, <1>2, PTL DEF Spec

\* The drains that have not begun are all to come.
LEMMA DrainToCome ==
  ASSUME TypeOK, QueueInv, NEW t \in Int, drain.at < t
  PROVE  now < t \/ \E k \in 1 .. Len(tasks) : tasks[k] = DrainTask(t)
<1>1. now \in Nat /\ drain.at \in Nat
  BY TimelyTypes
<1>2. CASE ~(now < t)
  <2>1. t \in (drain.at + 1) .. now
    BY <1>1, <1>2
  <2>. QED  BY <2>1 DEF QueueInv
<1>. QED  BY <1>2

\* No reply misses its window: whatever the interleaving of the timing thread, the
\* radio thread and the worker, the last drain that can send a frame comes after
\* the frame is in its pool, and does not pass it over.
THEOREM FrameNothingOverdue == Timely /\ Spec => []NothingOverdue
<1> SUFFICES ASSUME Timely PROVE Spec => []NothingOverdue
  OBVIOUS
<1>1. Init => TimelyInv
  BY InitTimely
<1>2. TimelyInv /\ [Next]_vars => TimelyInv'
  BY TimelyInductive
<1>3. TimelyInv => NothingOverdue
  <2> SUFFICES ASSUME TimelyInv PROVE NothingOverdue
    OBVIOUS
  <2>1. TypeOK /\ QueueInv /\ EncodesInv /\ PendingInv
    BY DEF TimelyInv, IInv
  <2>2. TxStart \in Nat /\ Len(tasks) \in Nat
    BY <2>1, FrameAssumption, TimelyTypes
  <2>3. ASSUME NEW k \in 1 .. Len(tasks), tasks[k].op = "encode"
        PROVE  DrainAhead(tasks[k].at + TxStart, k)
    <3> DEFINE t == tasks[k].at + TxStart
    <3>1. IsEncode(k) /\ tasks[k].at \in Nat
      BY <2>1, <2>3, TimelyTypes DEF IsEncode
    <3>2. drain.at < t /\ t \in Int
      BY <2>1, <2>2, <3>1 DEF EncodesInv
    <3>3. CASE now < t
      BY <3>3 DEF DrainAhead
    <3>4. CASE \E l \in 1 .. Len(tasks) : tasks[l] = DrainTask(t)
      <4>1. PICK l \in 1 .. Len(tasks) : tasks[l] = DrainTask(t)
        BY <3>4
      <4>2. IsDrain(l) /\ tasks[l].at = t
        BY <4>1 DEF IsDrain, DrainTask
      <4>3. l # k
        BY <3>1, <4>2 DEF IsDrain, IsEncode
      <4>4. ~(l < k)
        <5>1. l < k => t < t
          BY <2>1, <3>1, <4>2 DEF EncodesInv
        <5>. HIDE DEF t
        <5>. QED  BY <3>2, <5>1
      <4>5. l \in (k + 1) .. Len(tasks)
        BY <2>2, <4>3, <4>4
      <4>. QED  BY <4>1, <4>5 DEF DrainAhead
    <3>. QED  BY <2>1, <3>2, <3>3, <3>4, DrainToCome
  <2>4. ASSUME NEW b \in pending
        PROVE  \/ DrainAhead(stamp[b] + TxStart, 0)
               \/ pc["drain"] \in {"collect", "queue"} /\ drain.at = stamp[b] + TxStart
    <3>1. stamp[b] + TxStart \in Int
      BY <2>1, <2>2 DEF TypeOK
    <3>2. CASE drain.at < stamp[b] + TxStart
      <4>1. 0 + 1 = 1
        OBVIOUS
      <4>. QED  BY <2>1, <3>1, <3>2, <4>1, DrainToCome DEF DrainAhead
    <3>. QED  BY <2>1, <3>2 DEF PendingInv, Waits, NotPassed
  <2>. QED  BY <2>3, <2>4 DEF NothingOverdue
<1>. QED  BY <1>1, <1>2, <1>3, PTL DEF Spec
-----------------------------------------------------------------------------
(* The reservations.  The replies come in the order of their symbols, so that a
   frame of an earlier round of the entry is the only one that could be in the way
   of an encoder, and no frame stays that long. *)

\* A symbol is not later than any symbol that is still to be encoded.
UplinkPast(s) ==
  /\ s =< captured["uplink"]
  /\ \A k \in 1 .. Len(tasks) : IsEncode(k) => s < tasks[k].at
  /\ pc["uplink"] # "idle" => s =< job["uplink"].symbol

PrachPast(s) ==
  s =< captured["prach"] /\ (pc["prach"] # "idle" => s < job["prach"].symbol)

OrderInv ==
  /\ \A b \in pending : b.kind = "uplink" => UplinkPast(stamp[b])
  /\ \A b \in pending \cup Leaving : b.kind = "prach" => PrachPast(stamp[b])
  /\ pc["drain"] = "push" =>
       \E s \in WindowStart(drain.at) .. WindowEnd(drain.at) :
         hand["drain"].entry = EntryOf(s) /\ (hand["drain"].kind = "prach" => PrachPast(s))

\* The frames of the symbol being encoded that wait already, with those that are
\* still to be built, are the fragments of a symbol.
Siblings == {b \in pending : b.kind = "uplink" /\ stamp[b] = job["uplink"].symbol}

SiblingsInv ==
  pc["uplink"] # "idle" =>
    Cardinality(Siblings) + 1 + ((job["uplink"].left - 1) % Fragments) =< Fragments

Steps == OnNewSymbol \/ UplinkCaptured \/ UplinkScheduled \/ TakeTask \/ QuietStep

LEMMA UplinkPastStays ==
  ASSUME Timely, TimelyInv, TypeOK', Steps, NEW s \in Int, UplinkPast(s)
  PROVE  UplinkPast(s)'
<1> USE ActorNames
<1>1. TypeOK /\ QueueInv /\ EncodesInv
  BY DEF TimelyInv, IInv
<1>2. /\ captured["uplink"] \in Int /\ job["uplink"].symbol \in Int /\ Len(tasks) \in Nat
      /\ captured'["uplink"] \in Int
      /\ s =< captured["uplink"]
      /\ \A k \in 1 .. Len(tasks) : IsEncode(k) => s < tasks[k].at
      /\ pc["uplink"] # "idle" => s =< job["uplink"].symbol
  BY <1>1, TimelyTypes DEF UplinkPast, TypeOK
<1>3. CASE OnNewSymbol
  <2>1. /\ DrainTask(now + 1) \in Tasks /\ tasks' = Append(tasks, DrainTask(now + 1))
        /\ UNCHANGED <<captured, pc, job>>
    BY <1>1, <1>3, SymbolStep
  <2>2. ASSUME NEW k \in 1 .. Len(tasks'), IsEncode(k)' PROVE s < tasks'[k].at
    <3>1. k \in 1 .. Len(tasks) /\ tasks'[k] = tasks[k]
      BY <1>1, <2>1, <2>2, AddedTask DEF IsEncode, DrainTask
    <3>. QED  BY <1>2, <2>2, <3>1 DEF IsEncode
  <2>. QED  BY <1>2, <2>1, <2>2 DEF UplinkPast
<1>4. CASE UplinkCaptured \/ UplinkScheduled
  <2>1. PICK task \in Tasks :
          /\ tasks' = Append(tasks, task)
          /\ task.frames > 0
          /\ captured["uplink"] < task.at
          /\ LastUplink(task.at, task.frames) = captured'["uplink"]
          /\ UNCHANGED <<pc, job>>
    BY <1>1, <1>4, UplinkStep
  <2>2. task.at \in Int /\ task.frames \in Nat \ {0}
    BY <2>1 DEF Tasks
  <2>3. LastUplink(task.at, task.frames) >= task.at
    BY <2>2, LastType
  <2>4. s < task.at /\ s =< captured'["uplink"]
    BY <1>2, <2>1, <2>2, <2>3
  <2>5. ASSUME NEW k \in 1 .. Len(tasks'), IsEncode(k)' PROVE s < tasks'[k].at
    <3>1. (k \in 1 .. Len(tasks) /\ tasks'[k] = tasks[k]) \/ tasks'[k] = task
      BY <1>1, <2>1, AddedTask
    <3>. QED  BY <1>2, <2>4, <2>5, <3>1 DEF IsEncode
  <2>. QED  BY <1>2, <2>1, <2>4, <2>5 DEF UplinkPast
<1>5. CASE TakeTask
  <2>1. /\ tasks # << >> /\ tasks' = Tail(tasks) /\ pc["uplink"] = "idle" /\ UNCHANGED captured
    BY <1>1, <1>5, TakeStep
  <2>2. /\ 1 \in 1 .. Len(tasks)
        /\ \A k \in 1 .. Len(tasks') : k + 1 \in 1 .. Len(tasks) /\ tasks'[k] = tasks[k + 1]
    BY <1>1, <2>1, TakenTask
  <2>3. \A k \in 1 .. Len(tasks') : IsEncode(k)' => s < tasks'[k].at
    BY <1>2, <2>2 DEF IsEncode
  <2>4. pc'["uplink"] # "idle" => s =< job'["uplink"].symbol
    <3>1. CASE /\ IsEncode(1)
               /\ job' = [job EXCEPT !["uplink"] =
                            [symbol |-> tasks[1].at, left |-> tasks[1].frames, since |-> now]]
      <4>1. job'["uplink"].symbol = tasks[1].at /\ s < tasks[1].at /\ tasks[1].at \in Nat
        BY <1>1, <1>2, <2>2, <3>1, TimelyTypes DEF TypeOK
      <4>. QED  BY <4>1
    <3>2. CASE pc' = [pc EXCEPT !["drain"] = "collect"]
      BY <1>1, <2>1, <3>2 DEF TypeOK
    <3>. QED  BY <1>1, <1>5, <3>1, <3>2, TakeStep
  <2>. QED  BY <1>2, <2>1, <2>3, <2>4 DEF UplinkPast
<1>6. CASE QuietStep
  <2>1. UNCHANGED tasks /\ captured'["uplink"] = captured["uplink"]
    BY <1>1, <1>6, QuietSteps DEF Quiet
  <2>2. CASE KeepsJob("uplink")
    BY <1>2, <2>1, <2>2 DEF KeepsJob, UplinkPast, IsEncode
  <2>3. CASE Push("uplink")
    <3>1. pc["uplink"] # "idle"
      BY <2>3 DEF Push
    <3>2. pc'["uplink"] # "idle" => s =< job'["uplink"].symbol
      <4>1. SUFFICES ASSUME pc'["uplink"] # "idle" PROVE s =< job'["uplink"].symbol
        OBVIOUS
      <4>2. job'["uplink"] = NextFrame("uplink")
        BY <1>1, <2>3, <4>1 DEF Push, TypeOK
      <4>3. /\ job'["uplink"].symbol = job["uplink"].symbol \/ job'["uplink"].symbol = job["uplink"].symbol + 1
        BY <1>2, <4>2 DEF NextFrame
      <4>. QED  BY <1>2, <3>1, <4>3
    <3>. QED  BY <1>2, <2>1, <3>2 DEF UplinkPast, IsEncode
  <2>. QED  BY <1>1, <1>6, <2>2, <2>3, JobSteps DEF Kinds
<1>. QED  BY <1>3, <1>4, <1>5, <1>6 DEF Steps

LEMMA PrachPastStays ==
  ASSUME Timely, TimelyInv, Steps, NEW s \in Int, PrachPast(s)
  PROVE  PrachPast(s)'
<1> USE ActorNames
<1>1. TypeOK /\ QueueInv /\ EncodesInv
  BY DEF TimelyInv, IInv
<1>2. captured["prach"] \in Int /\ job["prach"].symbol \in Int /\ PrachSymbols \in Nat \ {0}
  BY <1>1, TimelyTypes, FrameAssumption
<1>3. CASE OnNewSymbol
  <2>1. UNCHANGED <<captured, pc, job>>
    BY <1>1, <1>3, SymbolStep
  <2>. QED  BY <2>1 DEF PrachPast
<1>4. CASE UplinkCaptured \/ UplinkScheduled
  <2>1. PICK x \in Int, n \in Nat \ {0} : EnqueueUplink(x, n)
    BY <1>1, <1>4, UplinkReply
  <2>2. UNCHANGED <<pc, job>> /\ captured'["prach"] = captured["prach"]
    BY <1>1, <2>1 DEF EnqueueUplink, steps, TypeOK
  <2>. QED  BY <2>2 DEF PrachPast
<1>5. CASE TakeTask
  <2>1. UNCHANGED captured /\ job'["prach"] = job["prach"] /\ pc'["prach"] = pc["prach"]
    BY <1>1, <1>5, TakeStep DEF TypeOK
  <2>. QED  BY <2>1 DEF PrachPast
<1>6. CASE QuietStep
  <2>1. CASE KeepsJob("prach")
    BY <2>1 DEF KeepsJob, PrachPast
  <2>2. CASE PrachCaptured \/ PrachScheduled
    <3>1. PICK x \in Int : EnqueuePrach(x)
      BY <1>1, <2>2, PrachReply
    <3>2. /\ job'["prach"].symbol = x /\ captured'["prach"] = x + PrachSymbols - 1
          /\ captured["prach"] < x
      BY <1>1, <1>2, <3>1 DEF EnqueuePrach, Begin, TypeOK
    <3>. QED  BY <1>2, <3>2 DEF PrachPast
  <2>3. CASE Push("prach")
    <3>1. pc["prach"] # "idle" /\ UNCHANGED captured
      BY <2>3 DEF Push
    <3>2. CASE pc'["prach"] # "idle"
      <4>1. job'["prach"] = NextFrame("prach")
        BY <1>1, <2>3, <3>2 DEF Push, TypeOK
      <4>2. job'["prach"].symbol = job["prach"].symbol + 1
        BY <4>1 DEF NextFrame
      <4>. QED  BY <1>2, <3>1, <4>2 DEF PrachPast
    <3>3. CASE pc'["prach"] = "idle"
      BY <3>1, <3>3 DEF PrachPast
    <3>. QED  BY <3>2, <3>3
  <2>. QED  BY <1>1, <1>6, <2>1, <2>2, <2>3, JobSteps DEF Kinds
<1>. QED  BY <1>3, <1>4, <1>5, <1>6 DEF Steps

\* Where the frames of the pools and of the drain come from: a step adds at most
\* the one an encoder pushes, and changes no stamp.
LEMMA FramesStay ==
  ASSUME Timely, TimelyInv, Steps
  PROVE  /\ \A b \in pending' : \/ b \in pending /\ stamp'[b] = stamp[b]
                                \/ \E k \in Kinds : Push(k) /\ b = hand[k] /\ stamp'[b] = stamp[b]
         /\ \A b \in Leaving' : b \in pending \cup Leaving /\ stamp'[b] = stamp[b]
<1> USE ActorNames
<1>1. TypeOK /\ Hands /\ Apart /\ QueueInv /\ EncodesInv
  BY DEF TimelyInv, IInv
<1>2. pending \subseteq Buffers /\ Leaving \subseteq Buffers
  <2>1. pc["drain"] = "queue" => hand["drain"] \in Buffers
    BY <1>1 DEF Hands, TypeOK
  <2>. QED  BY <1>1, <2>1 DEF Leaving, TypeOK
<1>3. ASSUME UNCHANGED <<stamp, pending, burst>>, hand'["drain"] = hand["drain"], pc'["drain"] = pc["drain"]
      PROVE  /\ \A b \in pending' : b \in pending /\ stamp'[b] = stamp[b]
             /\ \A b \in Leaving' : b \in pending \cup Leaving /\ stamp'[b] = stamp[b]
  BY <1>3 DEF Leaving
<1>4. CASE OnNewSymbol
  BY <1>1, <1>3, <1>4, SymbolStep
<1>5. CASE UplinkCaptured \/ UplinkScheduled
  BY <1>1, <1>3, <1>5, UplinkStep
<1>6. CASE TakeTask
  <2>1. UNCHANGED <<stamp, pending, burst, hand>> /\ pc["drain"] = "idle"
    BY <1>1, <1>6, TakeStep
  <2>2. pc'["drain"] # "queue"
    BY <1>1, <1>6, <2>1, TakeStep DEF TypeOK
  <2>. QED  BY <2>1, <2>2 DEF Leaving
<1>7. CASE PollAgain \/ UNCHANGED vars
  BY <1>3, <1>7 DEF PollAgain, vars, pool, steps
<1>8. CASE PrachCaptured \/ PrachScheduled
  <2>1. PICK s : EnqueuePrach(s)
    BY <1>8 DEF PrachCaptured, PrachScheduled
  <2>2. UNCHANGED <<stamp, pending, burst>> /\ hand'["drain"] = hand["drain"] /\ pc'["drain"] = pc["drain"]
    BY <1>1, <2>1 DEF EnqueuePrach, Begin, pool, TypeOK
  <2>. QED  BY <1>3, <2>2
<1>9. CASE \E k \in Kinds : Encode(k)
  <2>1. PICK k \in Kinds : Encode(k)
    BY <1>9
  <2>2. burst' = burst /\ hand'["drain"] = hand["drain"] /\ pc'["drain"] = pc["drain"]
    BY <1>1, <2>1 DEF Encode, Reserve, Fill, Release, Push, TypeOK
  <2>3. Leaving' = Leaving
    BY <2>2 DEF Leaving
  <2>4. CASE Reserve(k) \/ Release(k)
    BY <2>3, <2>4 DEF Reserve, Release
  <2>5. CASE Fill(k)
    <3>1. hand[k] # NoBuffer /\ pending' = pending
      BY <1>1, <2>5 DEF Fill, Hands
    <3>2. hand[k] \notin pending /\ hand[k] \notin Leaving
      BY <1>1, <3>1 DEF Apart, Leaving
    <3>3. \A b \in pending \cup Leaving : stamp'[b] = stamp[b]
      BY <1>1, <1>2, <2>5, <3>2 DEF Fill, TypeOK
    <3>. QED  BY <2>3, <3>1, <3>3
  <2>6. CASE Push(k)
    <3>1. stamp' = stamp /\ pending' = pending \cup {hand[k]}
      BY <2>6 DEF Push
    <3>. QED  BY <2>3, <2>6, <3>1
  <2>. QED  BY <2>1, <2>4, <2>5, <2>6 DEF Encode
<1>10. CASE DrainPop
  <2>1. PICK b \in Waiting : pending' = pending \ {b} /\ hand' = [hand EXCEPT !["drain"] = b]
    BY <1>10 DEF DrainPop
  <2>2. UNCHANGED <<stamp, burst>> /\ pc'["drain"] = "queue" /\ hand'["drain"] = b /\ b \in pending
    BY <1>1, <1>10, <2>1 DEF DrainPop, Waiting, InEntry, TypeOK
  <2>. QED  BY <2>1, <2>2 DEF Leaving
<1>11. CASE DrainQueue
  <2>1. /\ pc["drain"] = "queue" /\ pc'["drain"] = "collect" /\ UNCHANGED <<stamp, pending>>
        /\ burst' = burst \cup {hand["drain"]}
    BY <1>1, <1>11 DEF DrainQueue, TypeOK
  <2>. QED  BY <2>1 DEF Leaving
<1>12. CASE DrainNext \/ Send \/ PushSent
  <2>1. UNCHANGED <<stamp, burst, pending>> /\ pc'["drain"] # "queue"
    BY <1>1, <1>12 DEF DrainNext, Send, PushSent, pool, TypeOK
  <2>. QED  BY <2>1 DEF Leaving
<1>13. CASE ReleaseSent
  <2>1. PICK b \in burst : stamp' = [stamp EXCEPT ![b] = 0] /\ burst' = burst \ {b}
    BY <1>13 DEF ReleaseSent
  <2>2. pc'["drain"] = "push" /\ pending' = pending /\ b \notin pending
    BY <1>1, <1>13, <2>1 DEF ReleaseSent, Apart, TypeOK
  <2>3. Leaving' = burst \ {b} /\ burst \subseteq Leaving
    BY <2>1, <2>2 DEF Leaving
  <2>4. \A c \in Buffers : c # b => stamp'[c] = stamp[c]
    BY <1>1, <2>1 DEF TypeOK
  <2>. QED  BY <1>2, <2>1, <2>2, <2>3, <2>4
<1>. QED  BY <1>4, <1>5, <1>6, <1>7, <1>8, <1>9, <1>10, <1>11, <1>12, <1>13 DEF QuietStep, Steps

LEMMA OrderInductive ==
  ASSUME Timely, TimelyInv, TypeOK', OrderInv, Steps
  PROVE  OrderInv'
<1> USE ActorNames
<1>1. /\ TypeOK /\ Hands /\ Apart /\ QueueInv /\ EncodesInv /\ HandsInv /\ UplinkJob /\ PrachJob
      /\ LeavingInv
  BY DEF TimelyInv, IInv
<1>2. /\ pending \subseteq Buffers /\ Leaving \subseteq Buffers /\ \A b \in Buffers : stamp[b] \in Int
      /\ drain.at \in Nat /\ TxStart \in Nat /\ TxEnd \in Nat
  <2>1. pc["drain"] = "queue" => hand["drain"] \in Buffers
    BY <1>1 DEF Hands, TypeOK
  <2>2. pending \subseteq Buffers /\ Leaving \subseteq Buffers
    BY <1>1, <2>1, SMTT(30) DEF Leaving, TypeOK
  <2>. QED  BY <1>1, <2>2, TimelyTypes, FrameAssumption
\* The frame an encoder pushes.
<1>3. ASSUME NEW k \in Kinds, Push(k)
      PROVE  /\ hand[k].kind = k /\ stamp[hand[k]] = job[k].symbol /\ job[k].symbol \in Int
             /\ k = "uplink" => UplinkPast(job[k].symbol)
             /\ k = "prach" =>
                  /\ job[k].symbol =< captured'["prach"]
                  /\ pc'["prach"] # "idle" => job[k].symbol < job'["prach"].symbol
  <2>1. pc[k] = "push" /\ UNCHANGED captured
    BY <1>3 DEF Push
  <2>2. hand[k].kind = k /\ stamp[hand[k]] = job[k].symbol
    BY <1>1, <2>1 DEF HandsInv
  <2>3. job[k].symbol \in Int /\ job[k].left \in Nat /\ captured[k] \in Int
    BY <1>1, TimelyTypes
  <2>4. ASSUME k = "uplink" PROVE UplinkPast(job[k].symbol)
    <3> DEFINE s == job["uplink"].symbol
               n == job["uplink"].left
    <3>1. /\ n > 0 /\ LastUplink(s, n) =< captured["uplink"]
          /\ \A i \in 1 .. Len(tasks) : IsEncode(i) => LastUplink(s, n) < tasks[i].at
      BY <1>1, <2>1, <2>4 DEF UplinkJob
    <3>2. s \in Int /\ n \in Nat \ {0} /\ captured["uplink"] \in Int
      BY <2>3, <2>4, <3>1
    <3>3. LastUplink(s, n) \in Int /\ LastUplink(s, n) >= s
      BY <3>2, LastType
    <3>4. \A i \in 1 .. Len(tasks) : tasks[i].at \in Int
      BY <1>1, TimelyTypes
    <3>. HIDE DEF s, n
    <3>5. s =< captured["uplink"] /\ \A i \in 1 .. Len(tasks) : IsEncode(i) => s < tasks[i].at
      BY <3>1, <3>2, <3>3, <3>4
    <3>6. s =< s
      BY <3>2
    <3>. QED  BY <2>4, <3>5, <3>6 DEF UplinkPast, s
  <2>5. ASSUME k = "prach"
        PROVE  job[k].symbol =< captured["prach"] /\ (pc'["prach"] # "idle" => job[k].symbol < job'["prach"].symbol)
    <3>1. job["prach"].left > 0 /\ job["prach"].symbol + job["prach"].left - 1 =< captured["prach"]
      BY <1>1, <2>1, <2>5 DEF PrachJob
    <3>2. ASSUME pc'["prach"] # "idle" PROVE job'["prach"].symbol = job["prach"].symbol + 1
      <4>1. job'["prach"] = NextFrame("prach")
        BY <1>1, <1>3, <2>5, <3>2 DEF Push, TypeOK
      <4>. QED  BY <4>1 DEF NextFrame
    <3>. QED  BY <2>3, <2>5, <3>1, <3>2
  <2>. QED  BY <2>1, <2>2, <2>3, <2>4, <2>5
<1>4. ASSUME NEW b \in pending', b.kind = "uplink" PROVE UplinkPast(stamp[b])'
  <2>1. \/ b \in pending /\ stamp'[b] = stamp[b]
        \/ \E k \in Kinds : Push(k) /\ b = hand[k] /\ stamp'[b] = stamp[b]
    BY FramesStay
  <2>2. stamp[b] \in Int /\ stamp'[b] = stamp[b] /\ UplinkPast(stamp[b])
    <3>1. CASE b \in pending /\ stamp'[b] = stamp[b]
      BY <1>2, <1>4, <3>1 DEF OrderInv
    <3>2. CASE \E k \in Kinds : Push(k) /\ b = hand[k] /\ stamp'[b] = stamp[b]
      <4>1. PICK k \in Kinds : Push(k) /\ b = hand[k] /\ stamp'[b] = stamp[b]
        BY <3>2
      <4>2. k = "uplink" /\ stamp[b] = job[k].symbol /\ job[k].symbol \in Int /\ UplinkPast(job[k].symbol)
        BY <1>3, <1>4, <4>1
      <4>. QED  BY <4>1, <4>2
    <3>. QED  BY <2>1, <3>1, <3>2
  <2>3. PICK s \in Int : s = stamp[b]
    BY <2>2
  <2>4. UplinkPast(s)
    BY <2>2, <2>3
  <2>5. UplinkPast(s)'
    BY <2>4, UplinkPastStays
  <2>. QED  BY <2>2, <2>3, <2>5 DEF UplinkPast
<1>5. ASSUME NEW b \in pending' \cup Leaving', b.kind = "prach" PROVE PrachPast(stamp[b])'
  <2>1. CASE b \in pending \cup Leaving /\ stamp'[b] = stamp[b]
    <3>1. PICK s \in Int : s = stamp[b]
      BY <1>2, <2>1
    <3>2. PrachPast(s)
      BY <1>5, <2>1, <3>1 DEF OrderInv
    <3>3. PrachPast(s)'
      BY <3>2, PrachPastStays
    <3>. QED  BY <2>1, <3>1, <3>3 DEF PrachPast
  <2>2. CASE \E k \in Kinds : Push(k) /\ b = hand[k] /\ stamp'[b] = stamp[b]
    <3>1. PICK k \in Kinds : Push(k) /\ b = hand[k] /\ stamp'[b] = stamp[b]
      BY <2>2
    <3>2. /\ stamp'[b] = job[k].symbol /\ job[k].symbol =< captured'["prach"]
          /\ pc'["prach"] # "idle" => job[k].symbol < job'["prach"].symbol
      BY <1>3, <1>5, <3>1
    <3>. QED  BY <3>2 DEF PrachPast
  <2>. QED  BY <2>1, <2>2, FramesStay
<1>6. ASSUME pc'["drain"] = "push"
      PROVE  \E s \in WindowStart(drain'.at) .. WindowEnd(drain'.at) :
               hand'["drain"].entry = EntryOf(s) /\ (hand'["drain"].kind = "prach" => PrachPast(s)')
  <2>1. CASE ReleaseSent
    <3>1. PICK b \in burst : hand' = [hand EXCEPT !["drain"] = b]
      BY <2>1 DEF ReleaseSent
    <3>2. hand'["drain"] = b /\ drain' = drain /\ b \in Leaving
      BY <1>1, <2>1, <3>1 DEF ReleaseSent, TypeOK, Leaving
    <3>3. PICK s \in Int : s = stamp[b]
      BY <1>2, <3>2
    <3>4. b.entry = EntryOf(s) /\ drain.at - s \in TxEnd .. TxStart
      BY <1>1, <3>2, <3>3 DEF LeavingInv
    <3>5. s \in WindowStart(drain.at) .. WindowEnd(drain.at)
      BY <1>2, <3>4 DEF WindowStart, WindowEnd
    <3>6. b.kind = "prach" => PrachPast(s)
      BY <3>2, <3>3 DEF OrderInv
    <3>7. b.kind = "prach" => PrachPast(s)'
      BY <3>6, PrachPastStays
    <3>. QED  BY <3>2, <3>4, <3>5, <3>7
  <2>2. CASE ~ReleaseSent
    <3>1. pc["drain"] = "push" /\ hand'["drain"] = hand["drain"] /\ drain' = drain
      <4>1. CASE OnNewSymbol
        BY <1>1, <1>6, <4>1, SymbolStep
      <4>2. CASE UplinkCaptured \/ UplinkScheduled
        BY <1>1, <1>6, <4>2, UplinkStep
      <4>3. CASE TakeTask
        BY <1>1, <1>6, <4>3, TakeStep DEF TypeOK
      <4>4. CASE PollAgain \/ UNCHANGED vars
        BY <1>6, <4>4 DEF PollAgain, vars, pool, steps
      <4>5. CASE PrachCaptured \/ PrachScheduled
        <5>1. PICK s : EnqueuePrach(s)
          BY <4>5 DEF PrachCaptured, PrachScheduled
        <5>. QED  BY <1>1, <1>6, <5>1 DEF EnqueuePrach, Begin, TypeOK
      <4>6. CASE \E k \in Kinds : Encode(k)
        <5>1. PICK k \in Kinds : Encode(k)
          BY <4>6
        <5>2. pc'["drain"] = pc["drain"] /\ drain' = drain
          BY <1>1, <5>1 DEF Encode, Reserve, Fill, Release, Push, TypeOK
        <5>3. hand'["drain"] = hand["drain"]
          BY <1>1, <5>1 DEF Encode, Reserve, Fill, Release, Push, TypeOK
        <5>. QED  BY <1>6, <5>2, <5>3
      <4>7. CASE DrainPop \/ DrainQueue \/ DrainNext \/ Send \/ PushSent
        <5>1. pc'["drain"] # "push"
          BY <1>1, <4>7 DEF DrainPop, DrainQueue, DrainNext, Send, PushSent, TypeOK
        <5>. QED  BY <1>6, <5>1
      <4>. QED  BY <2>2, <4>1, <4>2, <4>3, <4>4, <4>5, <4>6, <4>7 DEF Steps, QuietStep
    <3>2. PICK s \in WindowStart(drain.at) .. WindowEnd(drain.at) :
            hand["drain"].entry = EntryOf(s) /\ (hand["drain"].kind = "prach" => PrachPast(s))
      BY <3>1 DEF OrderInv
    <3>3. s \in Int
      BY <1>2, <3>2 DEF WindowStart, WindowEnd
    <3>4. hand["drain"].kind = "prach" => PrachPast(s)'
      BY <3>2, <3>3, PrachPastStays
    <3>. QED  BY <3>1, <3>2, <3>4
  <2>. QED  BY <2>1, <2>2
<1>7. WindowStart(drain.at)' = WindowStart(drain'.at) /\ WindowEnd(drain.at)' = WindowEnd(drain'.at)
  BY DEF WindowStart, WindowEnd
<1>. QED  BY <1>4, <1>5, <1>6, <1>7 DEF OrderInv, EntryOf

\* The buffers of an entry are as many as Ids.
LEMMA EntryBuffers ==
  ASSUME EnoughBuffers, NEW k \in Kinds, NEW e \in Entries,
         NEW S \in SUBSET {b \in Buffers : b.kind = k /\ b.entry = e}
  PROVE  /\ IsFiniteSet(S) /\ Cardinality(S) \in Nat
         /\ Cardinality(S) < Cardinality(Ids) =>
              \E b \in Buffers : b.kind = k /\ b.entry = e /\ b \notin S
<1>1. IsFiniteSet(Ids) /\ Cardinality(Ids) \in Nat
  BY FS_CardinalityType DEF EnoughBuffers
<1> DEFINE f == [b \in S |-> b.id]
<1>2. f \in Injection(S, Ids)
  <2>1. \A b \in S : b \in Buffers /\ b.kind = k /\ b.entry = e /\ b.id \in Ids
    BY DEF Buffers
  <2>2. \A b, c \in Buffers : b.kind = c.kind /\ b.entry = c.entry /\ b.id = c.id => b = c
    BY DEF Buffers
  <2>. QED  BY <2>1, <2>2 DEF Injection, IsInjective
<1>3. IsFiniteSet(S)
  BY <1>1, <1>2, FS_Injection
<1>4. Cardinality(S) \in Nat
  BY <1>3, FS_CardinalityType
<1>5. ASSUME Cardinality(S) < Cardinality(Ids),
             \A b \in Buffers : b.kind = k /\ b.entry = e => b \in S
      PROVE  FALSE
  <2> DEFINE g == [i \in Ids |-> [kind |-> k, entry |-> e, id |-> i]]
  <2>1. g \in Injection(Ids, S)
    <3>1. \A i \in Ids : [kind |-> k, entry |-> e, id |-> i] \in S
      BY <1>5 DEF Buffers
    <3>. QED  BY <3>1 DEF Injection, IsInjective
  <2>2. Cardinality(Ids) =< Cardinality(S)
    BY <1>3, <2>1, FS_Injection
  <2>. QED  BY <1>1, <1>4, <1>5, <2>2
<1>. QED  BY <1>3, <1>4, <1>5

LEMMA SiblingsInductive ==
  ASSUME Timely, EnoughBuffers, TimelyInv, OrderInv, SiblingsInv, TypeOK', Steps
  PROVE  SiblingsInv'
<1> USE ActorNames
<1> DEFINE s == job["uplink"].symbol
           n == job["uplink"].left
           r == (n - 1) % Fragments
<1>1. /\ TypeOK /\ Hands /\ Apart /\ QueueInv /\ EncodesInv /\ HandsInv /\ UplinkJob /\ PendingInv
  BY DEF TimelyInv, IInv
<1>2. s \in Int /\ n \in Nat /\ Fragments \in Nat \ {0} /\ r \in 0 .. (Fragments - 1)
  BY <1>1, TimelyTypes, FrameAssumption
<1>3. IsFiniteSet(Siblings) /\ Cardinality(Siblings) \in Nat
  <2>1. EntryOf(s) \in Entries
    BY <1>2, EntryIsRemainder
  <2>2. Siblings \in SUBSET {b \in Buffers : b.kind = "uplink" /\ b.entry = EntryOf(s)}
    BY <1>1 DEF Siblings, PendingInv, Waits, TypeOK
  <2>. HIDE DEF s
  <2>. QED  BY <2>1, <2>2, EntryBuffers
<1>4. ASSUME pc["uplink"] # "idle"
      PROVE  Cardinality(Siblings) + 1 + r =< Fragments
  BY <1>4 DEF SiblingsInv
\* The uplink frames of the pools are those of before, but for the one pushed.
<1>5. ASSUME ~Push("uplink"), NEW b \in pending', b.kind = "uplink"
      PROVE  b \in pending /\ stamp'[b] = stamp[b]
  <2>1. ASSUME NEW k \in Kinds, Push(k), b = hand[k] PROVE FALSE
    <3>1. k # "uplink" /\ pc[k] = "push"
      BY <1>5, <2>1 DEF Push
    <3>2. hand[k].kind = k
      BY <1>1, <3>1 DEF HandsInv
    <3>. QED  BY <1>5, <2>1, <3>1, <3>2
  <2>. QED  BY <2>1, FramesStay
<1>6. CASE /\ ~Push("uplink") /\ job'["uplink"] = job["uplink"]
           /\ pc'["uplink"] # "idle" => pc["uplink"] # "idle"
  <2>1. Siblings' \subseteq Siblings
    BY <1>5, <1>6 DEF Siblings
  <2>2. IsFiniteSet(Siblings') /\ Cardinality(Siblings') =< Cardinality(Siblings)
    BY <1>3, <2>1, FS_Subset
  <2>3. Cardinality(Siblings') \in Nat
    BY <2>2, FS_CardinalityType
  <2>4. ASSUME pc'["uplink"] # "idle" PROVE Cardinality(Siblings') + 1 + r =< Fragments
    <3>. HIDE DEF r
    <3>. QED  BY <1>2, <1>3, <1>4, <1>6, <2>2, <2>3, <2>4
  <2>. QED  BY <1>6, <2>4 DEF SiblingsInv
<1>7. CASE TakeTask
  <2>1. UNCHANGED <<stamp, pending>> /\ pc["uplink"] = "idle"
    BY <1>1, <1>7, TakeStep
  <2>2. CASE /\ IsEncode(1)
             /\ job' = [job EXCEPT !["uplink"] =
                          [symbol |-> tasks[1].at, left |-> tasks[1].frames, since |-> now]]
    <3>1. 1 \in 1 .. Len(tasks)
      BY <1>1, <1>7, TakeStep, TakenTask
    <3>2. /\ job'["uplink"].symbol = tasks[1].at /\ job'["uplink"].left = tasks[1].frames
          /\ tasks[1].at \in Int /\ tasks[1].frames \in Nat
      <4>1. job'["uplink"].symbol = tasks[1].at /\ job'["uplink"].left = tasks[1].frames
        BY <1>1, <2>2 DEF TypeOK
      <4>. QED  BY <1>1, <3>1, <4>1, TimelyTypes
    <3>3. ASSUME NEW b \in Siblings' PROVE FALSE
      <4>1. b \in pending /\ b.kind = "uplink" /\ stamp[b] = tasks[1].at
        BY <2>1, <3>2, <3>3 DEF Siblings
      <4>2. stamp[b] < tasks[1].at
        BY <2>2, <3>1, <4>1 DEF OrderInv, UplinkPast
      <4>. QED  BY <3>2, <4>1, <4>2
    <3>4. Cardinality(Siblings') = 0
      <4>1. Siblings' = {}
        BY <3>3
      <4>. QED  BY <4>1, FS_EmptySet
    <3>5. (tasks[1].frames - 1) % Fragments \in 0 .. (Fragments - 1)
      BY <1>2, <3>2
    <3>6. 0 + 1 + ((tasks[1].frames - 1) % Fragments) =< Fragments
      BY <1>2, <3>5
    <3>. QED  BY <3>2, <3>4, <3>6 DEF SiblingsInv
  <2>3. CASE pc' = [pc EXCEPT !["drain"] = "collect"]
    <3>1. pc'["uplink"] = "idle"
      BY <1>1, <2>1, <2>3 DEF TypeOK
    <3>. QED  BY <3>1 DEF SiblingsInv
  <2>. QED  BY <1>1, <1>7, <2>2, <2>3, TakeStep
<1>8. CASE Push("uplink")
  <2>1. pc["uplink"] = "push" /\ stamp' = stamp /\ pending' = pending \cup {hand["uplink"]}
    BY <1>8 DEF Push
  <2>2. hand["uplink"].kind = "uplink" /\ stamp[hand["uplink"]] = s
    BY <1>1, <2>1 DEF HandsInv
  <2>3. CASE n > 1
    <3>1. job'["uplink"] = NextFrame("uplink")
      BY <1>1, <1>8, <2>3 DEF Push, TypeOK
    <3>2. job'["uplink"].symbol = s + (IF r = 0 THEN 1 ELSE 0) /\ job'["uplink"].left = n - 1
      BY <3>1 DEF NextFrame
    <3>3. (job'["uplink"].left - 1) % Fragments = IF r = 0 THEN Fragments - 1 ELSE r - 1
      <4>1. (n - 2) % Fragments = IF r = 0 THEN Fragments - 1 ELSE r - 1
        BY <1>2, <2>3, LastOfRest
      <4>2. (n - 1) - 1 = n - 2
        BY <1>2
      <4>. QED  BY <3>2, <4>1, <4>2
    <3>. HIDE DEF r
    <3>4. CASE r = 0
      <4>1. ASSUME NEW b \in Siblings' PROVE FALSE
        <5>1. b \in pending \cup {hand["uplink"]} /\ b.kind = "uplink" /\ stamp[b] = s + 1
          BY <2>1, <3>2, <3>4, <4>1 DEF Siblings
        <5>2. stamp[b] =< s
          BY <1>2, <2>1, <2>2, <5>1 DEF OrderInv, UplinkPast
        <5>. HIDE DEF s
        <5>. QED  BY <1>2, <5>1, <5>2
      <4>2. Cardinality(Siblings') = 0
        <5>1. Siblings' = {}
          BY <4>1
        <5>. QED  BY <5>1, FS_EmptySet
      <4>3. 0 + 1 + (Fragments - 1) =< Fragments
        BY <1>2
      <4>. QED  BY <3>3, <3>4, <4>2, <4>3 DEF SiblingsInv
    <3>5. CASE r # 0
      <4>1. job'["uplink"].symbol = s
        BY <1>2, <3>2, <3>5
      <4>2. Siblings' = Siblings \cup {hand["uplink"]}
        BY <2>1, <2>2, <4>1 DEF Siblings
      <4>3. /\ Cardinality(Siblings') =
                 IF hand["uplink"] \in Siblings THEN Cardinality(Siblings) ELSE Cardinality(Siblings) + 1
        BY <1>3, <4>2, FS_AddElement
      <4>4. Cardinality(Siblings) + 1 + r =< Fragments
        BY <1>4, <2>1
      <4>5. Cardinality(Siblings') + 1 + (r - 1) =< Fragments
        BY <1>2, <1>3, <4>3, <4>4
      <4>. QED  BY <3>3, <3>5, <4>5 DEF SiblingsInv
    <3>. QED  BY <3>4, <3>5
  <2>4. CASE ~(n > 1)
    <3>1. pc'["uplink"] = "idle"
      BY <1>1, <1>8, <2>4 DEF Push, TypeOK
    <3>. QED  BY <3>1 DEF SiblingsInv
  <2>. QED  BY <2>3, <2>4
<1>9. CASE ~Push("uplink") /\ ~TakeTask
  <2>1. CASE OnNewSymbol
    BY <1>1, <1>6, <1>9, <2>1, SymbolStep
  <2>2. CASE UplinkCaptured \/ UplinkScheduled
    BY <1>1, <1>6, <1>9, <2>2, UplinkStep
  <2>3. CASE QuietStep
    <3>1. KeepsJob("uplink")
      BY <1>1, <1>9, <2>3, JobSteps DEF Kinds
    <3>. QED  BY <1>6, <1>9, <3>1 DEF KeepsJob
  <2>. QED  BY <1>9, <2>1, <2>2, <2>3 DEF Steps
<1>. QED  BY <1>7, <1>8, <1>9

\* An uplink encoder finds a buffer: only the fragments of its own symbol are in
\* the entry, and they are fewer than its buffers.
LEMMA UplinkFindsBuffer ==
  ASSUME Timely, EnoughBuffers, TimelyInv, OrderInv, SiblingsInv, pc["uplink"] = "reserve"
  PROVE  InEntry(free, "uplink", job["uplink"].symbol) # {}
<1> USE ActorNames
<1> DEFINE s == job["uplink"].symbol
           r == (job["uplink"].left - 1) % Fragments
<1>1. /\ TypeOK /\ Hands /\ Apart /\ QueueInv /\ HandsInv /\ UplinkJob /\ PrachJob /\ PendingInv
      /\ LeavingInv
  BY DEF TimelyInv, IInv
<1>2. s \in Int /\ Fragments \in Nat \ {0} /\ r \in 0 .. (Fragments - 1)
  <2>1. s \in Int /\ job["uplink"].left \in Nat /\ Fragments \in Nat \ {0}
    BY <1>1, TimelyTypes, FrameAssumption
  <2>2. \A n \in Nat : (n - 1) % Fragments \in 0 .. (Fragments - 1)
    BY <2>1
  <2>. QED  BY <2>1, <2>2
<1>3. EntryOf(s) \in Entries
  BY <1>2, EntryIsRemainder
<1>4. Siblings \in SUBSET {b \in Buffers : b.kind = "uplink" /\ b.entry = EntryOf(s)}
  BY <1>1 DEF Siblings, PendingInv, Waits, TypeOK
<1>5. Cardinality(Siblings) \in Nat /\ Cardinality(Ids) \in Nat /\ Fragments =< Cardinality(Ids)
  <2>. HIDE DEF s
  <2>. QED  BY <1>3, <1>4, EntryBuffers, FS_CardinalityType DEF EnoughBuffers
<1>6. Cardinality(Siblings) < Cardinality(Ids)
  <2>1. Cardinality(Siblings) + 1 + r =< Fragments
    BY DEF SiblingsInv
  <2>. HIDE DEF r
  <2>. QED  BY <1>2, <1>5, <2>1
<1>7. PICK b \in Buffers : b.kind = "uplink" /\ b.entry = EntryOf(s) /\ b \notin Siblings
  <2>. HIDE DEF s
  <2>. QED  BY <1>3, <1>4, <1>6, EntryBuffers
<1>8. b \notin pending
  <2>1. SUFFICES ASSUME b \in pending PROVE FALSE
    OBVIOUS
  <2> DEFINE t == stamp[b]
             d == drain.at
  <2>2. t \in Int /\ t =< s /\ EntryOf(t) = EntryOf(s) /\ t # s
    BY <1>1, <1>7, <2>1, TimelyTypes DEF OrderInv, UplinkPast, PendingInv, Waits, Siblings
  <2>3. d =< t + TxStart /\ d \in Nat /\ now \in Nat /\ now =< d + MaxLag + 1
    BY <1>1, <2>1, <2>2, TimelyTypes, FrameAssumption, SMTT(30) DEF PendingInv, Waits, NotPassed, QueueInv
  <2>4. d < t + TxStart
    BY <1>1, <2>1 DEF PendingInv, Waits, NotPassed, QueueInv
  <2>5. s + TxStart + MaxLag < Round + now
    BY <1>1, PushedInTime DEF Reaches
  <2>6. TxStart \in Nat /\ MaxLag \in Nat /\ Round \in Nat \ {0}
    BY FrameAssumption, RoundType
  <2>. HIDE DEF s, t, d
  <2>7. s - t < Round /\ s - t > -Round
    BY <1>2, <2>2, <2>3, <2>4, <2>5, <2>6
  <2>8. s = t
    BY <1>2, <2>2, <2>7, SameEntry
  <2>. QED  BY <2>2, <2>8
<1>9. b \notin burst /\ hand["drain"] = NoBuffer
  <2>1. pc["drain"] = "idle"
    BY <1>1 DEF QueueInv
  <2>. QED  BY <1>1, <2>1 DEF LeavingInv, Hands
<1>10. hand["uplink"] = NoBuffer
  BY <1>1 DEF Hands
<1>11. hand["prach"] # b
  <2>1. hand["prach"] # NoBuffer => hand["prach"].kind = "prach"
    BY <1>1 DEF Hands, HandsInv
  <2>. QED  BY <1>7, <2>1, NoBufferApart
<1>12. b \in free
  BY <1>1, <1>7, <1>8, <1>9, <1>10, <1>11, NoBufferApart DEF Apart
<1>. QED  BY <1>7, <1>12 DEF InEntry

\* The PRACH encoder finds the whole entry free.
LEMMA PrachFindsBuffer ==
  ASSUME Timely, EnoughBuffers, TimelyInv, OrderInv, pc["prach"] = "reserve"
  PROVE  InEntry(free, "prach", job["prach"].symbol) # {}
<1> USE ActorNames
<1> DEFINE s == job["prach"].symbol
           d == drain.at
<1>1. /\ TypeOK /\ Hands /\ Apart /\ QueueInv /\ HandsInv /\ UplinkJob /\ PrachJob /\ PendingInv
      /\ LeavingInv
  BY DEF TimelyInv, IInv
<1>2. /\ s \in Int /\ d \in Nat /\ now \in Nat /\ TxStart \in Nat /\ TxEnd \in Nat /\ MaxLag \in Nat
      /\ Round \in Nat \ {0} /\ Fragments \in Nat \ {0}
  BY <1>1, TimelyTypes, FrameAssumption, RoundType
<1>3. s + TxStart + MaxLag < Round + now /\ now =< d + MaxLag + 1
  BY <1>1, PushedInTime DEF Reaches, QueueInv
\* No frame of an earlier round is left.
<1>4. ASSUME NEW t \in Int, t < s, EntryOf(t) = EntryOf(s),
             d < t + TxStart \/ (d =< t + TxStart /\ now =< d + MaxLag)
      PROVE  FALSE
  <2>. HIDE DEF s, d
  <2>1. s - t < Round /\ s - t > -Round
    BY <1>2, <1>3, <1>4
  <2>2. s = t
    BY <1>2, <1>4, <2>1, SameEntry
  <2>. QED  BY <1>4, <2>2
<1>5. EntryOf(s) \in Entries
  BY <1>2, EntryIsRemainder
<1>6. PICK b \in Buffers : b.kind = "prach" /\ b.entry = EntryOf(s)
  <2>1. {} \in SUBSET {b \in Buffers : b.kind = "prach" /\ b.entry = EntryOf(s)}
    OBVIOUS
  <2>2. Cardinality({}) < Cardinality(Ids)
    <3>1. Cardinality({}) = 0 /\ Cardinality(Ids) \in Nat /\ Fragments =< Cardinality(Ids)
      BY FS_EmptySet, FS_CardinalityType DEF EnoughBuffers
    <3>. QED  BY <1>2, <3>1
  <2>. HIDE DEF s
  <2>. QED  BY <1>5, <2>1, <2>2, EntryBuffers
<1>7. pc["drain"] # "idle" => now =< d + MaxLag
  BY <1>1 DEF QueueInv
<1>8. b \notin pending
  <2>1. SUFFICES ASSUME b \in pending PROVE FALSE
    OBVIOUS
  <2>2. stamp[b] \in Int /\ stamp[b] < s /\ EntryOf(stamp[b]) = EntryOf(s)
    BY <1>1, <1>6, <2>1, TimelyTypes DEF OrderInv, PrachPast, PendingInv, Waits
  <2>3. d < stamp[b] + TxStart \/ (d = stamp[b] + TxStart /\ pc["drain"] # "idle")
    BY <1>1, <2>1 DEF PendingInv, Waits, NotPassed
  <2>. HIDE DEF s, d
  <2>4. d < stamp[b] + TxStart \/ (d =< stamp[b] + TxStart /\ now =< d + MaxLag)
    BY <1>2, <1>7, <2>2, <2>3
  <2>. QED  BY <1>4, <2>2, <2>4
<1>9. b \notin Leaving
  <2>1. SUFFICES ASSUME b \in Leaving PROVE FALSE
    OBVIOUS
  <2>2. stamp[b] \in Int /\ stamp[b] < s /\ EntryOf(stamp[b]) = EntryOf(s)
    BY <1>1, <1>6, <2>1, TimelyTypes DEF OrderInv, PrachPast, LeavingInv
  <2>3. d - stamp[b] =< TxStart /\ pc["drain"] # "idle"
    BY <1>1, <1>2, <2>1 DEF LeavingInv, Leaving
  <2>. HIDE DEF s, d
  <2>4. d =< stamp[b] + TxStart
    BY <1>2, <2>2, <2>3
  <2>. QED  BY <1>4, <1>7, <2>2, <2>3, <2>4
<1>10. hand["drain"] # b
  <2>1. SUFFICES ASSUME hand["drain"] = b PROVE FALSE
    OBVIOUS
  <2>2. pc["drain"] = "queue" \/ pc["drain"] = "push"
    BY <1>1, <2>1, NoBufferApart DEF Hands
  <2>3. pc["drain"] = "push"
    BY <1>9, <2>1, <2>2 DEF Leaving
  <2>4. PICK t \in WindowStart(d) .. WindowEnd(d) : b.entry = EntryOf(t) /\ PrachPast(t)
    BY <1>6, <2>1, <2>3 DEF OrderInv
  <2>5. t \in Int /\ d =< t + TxStart /\ t < s
    BY <1>2, <2>4 DEF WindowStart, WindowEnd, PrachPast
  <2>. QED  BY <1>4, <1>6, <1>7, <2>3, <2>4, <2>5
<1>11. hand["prach"] = NoBuffer
  BY <1>1 DEF Hands
<1>12. hand["uplink"] # b
  <2>1. hand["uplink"] # NoBuffer => hand["uplink"].kind = "uplink"
    BY <1>1 DEF Hands, HandsInv
  <2>. QED  BY <1>6, <2>1, NoBufferApart
<1>13. b \in free
  <2>1. b \notin burst
    BY <1>9 DEF Leaving
  <2>. QED  BY <1>1, <1>6, <1>8, <1>10, <1>11, <1>12, <2>1, NoBufferApart DEF Apart
<1>. QED  BY <1>6, <1>13 DEF InEntry

\* An encoder always finds a free buffer, for any number of fragments a symbol is
\* split into, if an entry has a buffer for each: the frames of the previous round
\* have gone out and come back.
THEOREM FrameReservationSucceeds ==
  Timely /\ EnoughBuffers /\ Spec => []ReservationSucceeds
<1> SUFFICES ASSUME Timely, EnoughBuffers PROVE Spec => []ReservationSucceeds
  OBVIOUS
<1>1. Init => TimelyInv /\ OrderInv /\ SiblingsInv
  <2> SUFFICES ASSUME Init PROVE OrderInv /\ SiblingsInv
    BY InitTimely
  <2>1. pending = {} /\ burst = {} /\ \A a \in Actors : pc[a] = "idle"
    BY DEF Init
  <2>. QED  BY <2>1, ActorNames DEF OrderInv, SiblingsInv, Leaving
<1>2. TimelyInv /\ OrderInv /\ SiblingsInv /\ [Next]_vars => (TimelyInv /\ OrderInv /\ SiblingsInv)'
  <2> SUFFICES ASSUME TimelyInv, OrderInv, SiblingsInv, [Next]_vars
               PROVE  TimelyInv' /\ OrderInv' /\ SiblingsInv'
    OBVIOUS
  <2>1. TimelyInv' /\ TypeOK'
    BY TimelyInductive DEF TimelyInv, IInv
  <2>2. Steps
    BY NextIsStep DEF Steps
  <2>. QED  BY <2>1, <2>2, OrderInductive, SiblingsInductive
<1>3. TimelyInv /\ OrderInv /\ SiblingsInv => ReservationSucceeds
  BY UplinkFindsBuffer, PrachFindsBuffer DEF ReservationSucceeds, Kinds
<1>. QED  BY <1>1, <1>2, <1>3, PTL DEF Spec
=============================================================================
